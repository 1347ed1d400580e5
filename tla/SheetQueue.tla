----------------------------- MODULE SheetQueue -----------------------------
(***************************************************************************)
(* What NSWindow promises for ordinary (non-critical) sheets, NSWindow.h   *)
(* lines 578-581: a window shows at most one of them at a time, and the    *)
(* others wait and are shown one after another in the order they were     *)
(* begun.  Critical sheets are invisible at this level: they may delay     *)
(* the queue but never reorder it.                                         *)
(***************************************************************************)
EXTENDS Sequences, SequencesExt

CONSTANTS Windows, Sheets, NoWindow

VARIABLES
  shown,     \* shown[w]: the ordinary sheet shown on w, or NoWindow
  waiting    \* waiting[w]: ordinary sheets waiting on w, oldest first

avars == <<shown, waiting>>

InUse(s) == \E w \in Windows : shown[w] = s \/ Contains(waiting[w], s)

AInit ==
  /\ shown   = [w \in Windows |-> NoWindow]
  /\ waiting = [w \in Windows |-> <<>>]

\* A sheet is begun: shown at once if w is idle, or put at the back.
ABegin(w, s) ==
  /\ ~InUse(s)
  /\ \/ /\ shown[w] = NoWindow /\ waiting[w] = <<>>
        /\ shown' = [shown EXCEPT ![w] = s]
        /\ UNCHANGED waiting
     \/ /\ waiting' = [waiting EXCEPT ![w] = Append(@, s)]
        /\ UNCHANGED shown

\* The front of the queue is shown.
APromote(w) ==
  /\ shown[w] = NoWindow
  /\ waiting[w] # <<>>
  /\ shown'   = [shown EXCEPT ![w] = Head(waiting[w])]
  /\ waiting' = [waiting EXCEPT ![w] = Tail(@)]

\* The shown sheet ends; the front of the queue may be shown in the same step.
AFinish(w) ==
  /\ shown[w] # NoWindow
  /\ \/ /\ shown' = [shown EXCEPT ![w] = NoWindow]
        /\ UNCHANGED waiting
     \/ /\ waiting[w] # <<>>
        /\ shown'   = [shown EXCEPT ![w] = Head(waiting[w])]
        /\ waiting' = [waiting EXCEPT ![w] = Tail(@)]

ANext == \E w \in Windows : APromote(w) \/ AFinish(w) \/ \E s \in Sheets : ABegin(w, s)

ASpec == AInit /\ [][ANext]_avars

=============================================================================
