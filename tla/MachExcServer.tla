---------------------------- MODULE MachExcServer ----------------------------
(***************************************************************************)
(* The mach_exc exception server (mach/mach_exc_server.h).                 *)
(*                                                                         *)
(* A thread that takes an exception is suspended while the kernel sends a  *)
(* request message to the exception port: mach_exception_raise (id 2405),  *)
(* mach_exception_raise_state (2406) or mach_exception_raise_state_        *)
(* identity (2407) (lines 296-301).  Server threads receive requests and   *)
(* hand each to mach_exc_server (lines 137-139), which finds the routine   *)
(* through the subsystem's routine table (ids start .. end-1, six slots,   *)
(* lines 151-159; mach_exc_server_routine, lines 146-147), checks the      *)
(* request's array counts against the arrays of the request structure      *)
(* (code[2], old_state[1296], lines 169-219), calls the catch_... routine  *)
(* (lines 73-130) and fills in the reply (RetCode, and for the state       *)
(* routines the new state, lines 244-278).  The reply wakes the thread.    *)
(*                                                                         *)
(* Message bodies are reduced to what the server decides on: the id and    *)
(* the two counts.  Port names, exception types and state words are data   *)
(* no property depends on.                                                 *)
(***************************************************************************)
EXTENDS Naturals, Sequences, FiniteSets

CONSTANTS
  Threads,        \* threads that may take exceptions
  Servers,        \* server threads receiving on the exception port
  NoThread

ASSUME NoThread \notin Threads

\* mach_exc_MSG_COUNT and the subsystem's id range (lines 54-56, 151-158).
MSGCount   == 6
SubsystemStart == 2405
SubsystemEnd   == SubsystemStart + MSGCount

\* The ids with a routine: subsystem_to_name_map_mach_exc (lines 296-301).
RoutineIds == {2405, 2406, 2407}
RaiseId    == 2405

\* The state routines, whose replies carry flavor, new_stateCnt and
\* new_state[1296] (__Reply__mach_exception_raise_state[_identity]_t,
\* lines 256-278); __Reply__mach_exception_raise_t has RetCode only.
StateRoutineIds == {2406, 2407}

\* Array capacities of the request structures: int64_t code[2] and
\* natural_t old_state[1296] (lines 179, 196, 218).
CodeMax  == 2
StateMax == 1296

\* MIG return codes a reply can carry.
RetCodes == {"KERN_SUCCESS", "KERN_FAILURE", "MIG_BAD_ID", "MIG_BAD_ARGUMENTS"}

\* The ids and counts requests are drawn from: every id kind (below the
\* range, each routine, a hole in the table, past the end) and each count
\* at its array's capacity and one past it.
RequestIds == {SubsystemStart - 1, 2405, 2406, 2407, 2408, SubsystemEnd}
CodeCnts   == {CodeMax, CodeMax + 1}
StateCnts  == {StateMax, StateMax + 1}
Requests   == [id : RequestIds, codeCnt : CodeCnts, stateCnt : StateCnts]

\* Defect: the routine table is indexed without checking for an empty slot.
HasRoutine_rangeOnly(id) == SubsystemStart <= id /\ id < SubsystemEnd

\* mach_exc_server_routine: a routine exists for the id.
HasRoutine(id) ==
  /\ SubsystemStart <= id /\ id < SubsystemEnd
  /\ id \in RoutineIds

\* The counts fit the arrays of the request structure for this id;
\* mach_exception_raise carries no old_state (lines 169-180).
CountsFit(r) ==
  /\ r.codeCnt <= CodeMax
  /\ r.id # RaiseId => r.stateCnt <= StateMax

VARIABLES
  tstate,     \* tstate[t]: "Running" or "Waiting" for a reply
  request,    \* request[t]: the request t's last exception sent
  port,       \* the exception port's queue of threads whose request waits
  serving,    \* serving[s]: the thread whose request s handles, or NoThread
  replies,    \* replies in flight: [thread, ret, state]
  called,     \* called[t]: catch_... calls made for t's current request
  regs        \* regs[t]: t resumed with a new_state a catch_... routine set

vars == <<tstate, request, port, serving, replies, called, regs>>

Init ==
  /\ tstate  = [t \in Threads |-> "Running"]
  /\ request = [t \in Threads |-> [id |-> RaiseId, codeCnt |-> CodeMax, stateCnt |-> StateMax]]
  /\ port    = <<>>
  /\ serving = [s \in Servers |-> NoThread]
  /\ replies = {}
  /\ called  = [t \in Threads |-> 0]
  /\ regs    = [t \in Threads |-> FALSE]

\* Defect: the state routines' reply carries new_state whatever RetCode
\* the catch_... routine returned.
Outcomes_stateOnFailure(r) ==
  IF ~HasRoutine(r.id)  THEN {[ret |-> "MIG_BAD_ID", call |-> 0, state |-> FALSE]}
  ELSE IF ~CountsFit(r) THEN {[ret |-> "MIG_BAD_ARGUMENTS", call |-> 0, state |-> FALSE]}
  ELSE {[ret |-> c, call |-> 1, state |-> r.id \in StateRoutineIds] :
          c \in {"KERN_SUCCESS", "KERN_FAILURE"}}

\* mach_exc_server's answer to a request: the reply code, whether a
\* catch_... routine was called, and whether the reply carries the
\* new_state it filled in.  Under MIG's server convention a RetCode other
\* than KERN_SUCCESS is sent as the short error reply (Head, NDR, RetCode),
\* so only a state routine's successful reply carries new_state.
Outcomes(r) ==
  IF ~HasRoutine(r.id)  THEN {[ret |-> "MIG_BAD_ID", call |-> 0, state |-> FALSE]}
  ELSE IF ~CountsFit(r) THEN {[ret |-> "MIG_BAD_ARGUMENTS", call |-> 0, state |-> FALSE]}
  ELSE {[ret |-> c, call |-> 1, state |-> c = "KERN_SUCCESS" /\ r.id \in StateRoutineIds] :
          c \in {"KERN_SUCCESS", "KERN_FAILURE"}}

\* The reply message handleRequest sends for t.
Reply(t, o) == [thread |-> t, ret |-> o.ret, state |-> o.state]

(***************************************************************************)
(* Plausible defects, used only to confirm that the properties detect them. *)
(***************************************************************************)

\* A catch_... routine that returned KERN_FAILURE is called once more.
handleRequest_retryOnFailure(s) ==
  LET t == serving[s] IN
  /\ t # NoThread
  /\ \E o \in Outcomes(request[t]) :
       /\ replies' = replies \cup {Reply(t, o)}
       /\ called'  = [called EXCEPT ![t] = @ + (IF o.ret = "KERN_FAILURE" THEN 2 ELSE o.call)]
  /\ serving' = [serving EXCEPT ![s] = NoThread]
  /\ UNCHANGED <<tstate, request, port, regs>>

\* Server threads take the newest request first.
receive_newest(s) ==
  /\ serving[s] = NoThread
  /\ port # <<>>
  /\ serving' = [serving EXCEPT ![s] = port[Len(port)]]
  /\ port'    = SubSeq(port, 1, Len(port) - 1)
  /\ UNCHANGED <<tstate, request, replies, called, regs>>

\* The server thread replies but keeps the request as its current one.
handleRequest_keepsRequest(s) ==
  LET t == serving[s] IN
  /\ t # NoThread
  /\ \E o \in Outcomes(request[t]) :
       /\ replies' = replies \cup {Reply(t, o)}
       /\ called'  = [called EXCEPT ![t] = @ + o.call]
  /\ UNCHANGED <<tstate, request, port, serving, regs>>

(***************************************************************************)
(* Operations.                                                             *)
(***************************************************************************)

\* A running thread takes an exception: it is suspended and its request
\* is queued on the exception port.
raise(t, r) ==
  /\ tstate[t] = "Running"
  /\ tstate'  = [tstate EXCEPT ![t] = "Waiting"]
  /\ request' = [request EXCEPT ![t] = r]
  /\ port'    = Append(port, t)
  /\ called'  = [called EXCEPT ![t] = 0]
  /\ regs'    = [regs EXCEPT ![t] = FALSE]
  /\ UNCHANGED <<serving, replies>>

\* An idle server thread receives the oldest request on the port.
receive(s) ==
  /\ serving[s] = NoThread
  /\ port # <<>>
  /\ serving' = [serving EXCEPT ![s] = Head(port)]
  /\ port'    = Tail(port)
  /\ UNCHANGED <<tstate, request, replies, called, regs>>

\* mach_exc_server: dispatch through the routine table, check the counts,
\* call the catch_... routine, and send the reply; the server thread is
\* then idle again.
handleRequest(s) ==
  LET t == serving[s] IN
  /\ t # NoThread
  /\ \E o \in Outcomes(request[t]) :
       /\ replies' = replies \cup {Reply(t, o)}
       /\ called'  = [called EXCEPT ![t] = @ + o.call]
  /\ serving' = [serving EXCEPT ![s] = NoThread]
  /\ UNCHANGED <<tstate, request, port, regs>>

\* The kernel receives the reply for t and resumes it, with the reply's
\* new_state when it carries one (with KERN_SUCCESS the exception is
\* handled; otherwise the kernel goes on to the next exception port,
\* which this model leaves out).
deliver(t) ==
  \E rep \in replies :
    /\ rep.thread = t
    /\ replies' = replies \ {rep}
    /\ tstate'  = [tstate EXCEPT ![t] = "Running"]
    /\ regs'    = [regs EXCEPT ![t] = rep.state]
    /\ UNCHANGED <<request, port, serving, called>>

Next ==
  \/ \E t \in Threads, r \in Requests : raise(t, r)
  \/ \E s \in Servers : receive(s) \/ handleRequest(s)
  \/ \E t \in Threads : deliver(t)

\* Server threads loop on mach_msg_server forever and the kernel always
\* takes replies: these steps are never withheld.
Fairness ==
  /\ \A s \in Servers : WF_vars(receive(s)) /\ WF_vars(handleRequest(s))
  /\ \A t \in Threads : WF_vars(deliver(t))

Spec     == Init /\ [][Next]_vars
FairSpec == Spec /\ Fairness

(***************************************************************************)
(* Properties.                                                             *)
(***************************************************************************)

TypeOK ==
  /\ tstate  \in [Threads -> {"Running", "Waiting"}]
  /\ request \in [Threads -> Requests]
  /\ port    \in Seq(Threads)
  /\ serving \in [Servers -> Threads \cup {NoThread}]
  /\ replies \subseteq [thread : Threads, ret : RetCodes, state : BOOLEAN]
  /\ called  \in [Threads -> 0..1]
  /\ regs    \in [Threads -> BOOLEAN]

\* Where a suspended thread's request is: every waiting thread is in
\* exactly one of the port queue, one server thread, or one reply, and
\* a running thread in none of them.
Holders(t) ==
  Len(SelectSeq(port, LAMBDA x : x = t))
    + Cardinality({s \in Servers : serving[s] = t})
    + Cardinality({rep \in replies : rep.thread = t})

\* Every exception message is answered exactly once: across server
\* threads, the port queue and replies in flight, each suspended thread's
\* request is held in exactly one place, and a running thread has none.
RequestHeldOnce ==
  \A t \in Threads : Holders(t) = IF tstate[t] = "Waiting" THEN 1 ELSE 0

\* A thread suspended by an exception is eventually resumed.
ExceptionsAnswered ==
  \A t \in Threads : tstate[t] = "Waiting" ~> tstate[t] = "Running"
\* The requests a catch_... routine may be given, read off the declarations
\* rather than the dispatch: an id of one of the three routines (lines
\* 296-301) with no more codes than code[2] holds and, for the state
\* routines, no more state words than old_state[1296] (lines 179-218).
ValidRequests ==
  {r \in Requests : /\ r.id \in RoutineIds
                    /\ r.codeCnt <= CodeMax
                    /\ r.id # RaiseId => r.stateCnt <= StateMax}

\* How the client sees a reply code.
OutcomeOf(ret) ==
  CASE ret = "KERN_SUCCESS" -> "Handled"
    [] ret = "KERN_FAILURE" -> "Failed"
    [] OTHER               -> "Rejected"

\* The exception RPC as its client sees it: a request is answered once a
\* reply for its thread is in flight, and the thread resumes with a new
\* state once a reply carrying one is in flight or was delivered.
RPC == INSTANCE ExceptionRPC
         WITH outcome  <- [t \in Threads |->
                            IF \E rep \in replies : rep.thread = t
                              THEN OutcomeOf((CHOOSE rep \in replies : rep.thread = t).ret)
                              ELSE "None"],
              newState <- [t \in Threads |->
                            regs[t] \/ \E rep \in replies : rep.thread = t /\ rep.state],
              StateRequests <- {r \in Requests : r.id \in StateRoutineIds}

\* The port queue, the server threads and the reply messages implement the
\* exception RPC: every suspended thread is answered once, by a call of the
\* catch_... routine exactly when its request is valid, and resumed only
\* after that, under the fairness of the server loop; it resumes with a
\* routine's new_state exactly when a state routine succeeded.
RefinesExceptionRPC == RPC!Spec
=============================================================================
