------------------------------- MODULE UdpStat -------------------------------
(***************************************************************************)
(* struct udpstat (netinet/udp_var.h lines 90-116): the UDP statistics.    *)
(*                                                                         *)
(* Every field is a u_int32_t that the stack increments once per packet   *)
(* of its kind, so it counts modulo 2^32.  The comments relate the fields:  *)
(* udps_ipackets counts every input packet, of which the drops are counted *)
(* by reason; udps_noportbcast counts those "of above" (udps_noport) that  *)
(* arrived as broadcast, udps_noportmcast those that were multicast;       *)
(* udps_fastout counts the output packets (udps_opackets) that took the    *)
(* fast path.  A reader (netstat, through the UDPCTL_STATS sysctl, line    *)
(* 122) derives the packets nobody counts directly by subtraction.         *)
(*                                                                         *)
(* Width is the counters' width: 32 in the code, small here so that the   *)
(* counters wrap.  The ghost counts `sent` are the numbers of packets of  *)
(* each kind, modulo 2^Width like the counters.  The pcb cache,           *)
(* checksum and byte counters count independently of the others and no     *)
(* relation ties them, so they are left out.                               *)
(***************************************************************************)
EXTENDS Naturals

CONSTANTS
  Width         \* bits of every counter (u_int32_t: 32)

Modulus == 2 ^ Width

\* The kinds of input and output packets the comments distinguish.
InputKinds  == {"Delivered", "ShortHeader", "BadSum", "BadLen", "NoPortUnicast",
                "NoPortBroadcast", "NoPortMulticast", "FullSock", "FilteredMcast"}
OutputKinds == {"FastPath", "SlowPath"}

\* The udpstat fields each kind of packet increments (lines 92-106).
\* udps_noportmcast and udps_filtermcast sit under the "output statistics"
\* heading (lines 101-106), but their comments ("of no socket on port",
\* "blocked by multicast filter") describe received packets, so they are
\* counted with the input packet that udps_ipackets also counts.
Counters == {"ipackets", "hdrops", "badsum", "badlen", "noport", "noportbcast",
             "fullsock", "opackets", "fastout", "noportmcast", "filtermcast"}
Increments ==
  [ Delivered       |-> {"ipackets"},
    ShortHeader     |-> {"ipackets", "hdrops"},
    BadSum          |-> {"ipackets", "badsum"},
    BadLen          |-> {"ipackets", "badlen"},
    NoPortUnicast   |-> {"ipackets", "noport"},
    NoPortBroadcast |-> {"ipackets", "noport", "noportbcast"},
    NoPortMulticast |-> {"ipackets", "noport", "noportmcast"},
    FullSock        |-> {"ipackets", "fullsock"},
    FilteredMcast   |-> {"ipackets", "filtermcast"},
    FastPath        |-> {"opackets", "fastout"},
    SlowPath        |-> {"opackets"} ]

VARIABLES
  udpstat,   \* udpstat[c]: the value of field udps_c
  sent       \* sent[k]: packets of kind k so far (ghost)

vars == <<udpstat, sent>>

Init ==
  /\ udpstat = [c \in Counters |-> 0]
  /\ sent    = [k \in InputKinds \cup OutputKinds |-> 0]

(***************************************************************************)
(* Plausible defects, used only to confirm that the properties detect them. *)
(***************************************************************************)

\* A counter sticks at its largest value instead of wrapping.
Bump_saturating(c, k) ==
  IF c \in Increments[k] /\ udpstat[c] + 1 < Modulus THEN udpstat[c] + 1 ELSE udpstat[c]

\* The increment is done in a wider type and stored without truncation.
Bump_unwrapped(c, k) ==
  IF c \in Increments[k] THEN udpstat[c] + 1 ELSE udpstat[c]

(***************************************************************************)
(* Operations.                                                             *)
(***************************************************************************)

\* The new value of field c when a packet of kind k is counted: u_int32_t
\* arithmetic, so the increment wraps.
Bump(c, k) ==
  IF c \in Increments[k] THEN (udpstat[c] + 1) % Modulus ELSE udpstat[c]

\* The stack counts one packet of kind k.
count(k) ==
  /\ udpstat' = [c \in Counters |-> Bump(c, k)]
  /\ sent'    = [sent EXCEPT ![k] = (@ + 1) % Modulus]

Next == \E k \in InputKinds \cup OutputKinds : count(k)

Spec == Init /\ [][Next]_vars

(***************************************************************************)
(* Properties.                                                             *)
(***************************************************************************)

TypeOK ==
  /\ udpstat \in [Counters -> 0..(Modulus - 1)]
  /\ sent    \in [InputKinds \cup OutputKinds -> 0..(Modulus - 1)]

\* Differences taken in the counters' own modular arithmetic.
Minus(a, b) == (a + Modulus - b) % Modulus

\* What a reader derives from one snapshot by u_int32_t subtraction is the
\* exact count modulo 2^Width, however often the counters have wrapped:
\* packets delivered to a socket (udps_ipackets minus every drop), no-port
\* packets that arrived as unicast (udps_noport minus its broadcast and
\* multicast parts), and output packets off the fast path.
DerivedCountsExact ==
  /\ Minus(udpstat["ipackets"],
       (udpstat["hdrops"] + udpstat["badsum"] + udpstat["badlen"] + udpstat["noport"]
          + udpstat["fullsock"] + udpstat["filtermcast"]) % Modulus)
       = sent["Delivered"]
  /\ Minus(udpstat["noport"], (udpstat["noportbcast"] + udpstat["noportmcast"]) % Modulus)
       = sent["NoPortUnicast"]
  /\ Minus(udpstat["opackets"], udpstat["fastout"]) = sent["SlowPath"]
=============================================================================
