--------------------------- MODULE NSWindowSheets ---------------------------
(***************************************************************************)
(* Sheet presentation on NSWindow (AppKit NSWindow.h, lines 578-602).      *)
(*                                                                         *)
(* A window presents modal sheets.  -beginSheet:completionHandler: shows   *)
(* the sheet at once when the window has no presented sheet and queues it *)
(* otherwise; -beginCriticalSheet:completionHandler: skips the queue and   *)
(* is shown on top of the sheets already presented, which stay presented   *)
(* but disabled; -endSheet:(returnCode:) dismisses a presented sheet, runs *)
(* its completion handler, and when no sheet is left presented shows the   *)
(* next queued one.  The `sheets` property lists the presented sheets      *)
(* top-to-bottom followed by the queued ones, `attachedSheet` is the       *)
(* top-most one, and `sheetParent` links a sheet to its window from the    *)
(* moment it is begun until it is ordered out.                             *)
(*                                                                         *)
(* Parent windows and sheet windows are model values.  The return code     *)
(* given to -endSheet:returnCode: is passed through to the handler and no  *)
(* property depends on it, so it is not represented.                       *)
(***************************************************************************)
EXTENDS Naturals, Sequences, SequencesExt

CONSTANTS
  Windows,     \* windows that present sheets
  Sheets,      \* windows used as sheets; a sheet may present sheets too
  NoWindow     \* nil

ASSUME Windows \cap Sheets = {}
ASSUME NoWindow \notin Windows \cup Sheets

\* A sheet is a window, so it can be sent -beginSheet: itself: its own
\* sheets are the nested sub-sheets that the `sheets` of its parent leaves
\* out (line 590).
Parents == Windows \cup Sheets

VARIABLES
  presented,    \* presented[w]: sheets shown on w, top-to-bottom
  queued,       \* queued[w]: sheets waiting on w, in the order begun
  critical,     \* sheets that were begun with -beginCriticalSheet:
  sheetParent,  \* sheetParent[s]: the window s is attached to, or NoWindow
  owed          \* owed[s]: begins of s whose completion handler has not run

vars == <<presented, queued, critical, sheetParent, owed>>

(***************************************************************************)
(* Derived properties of the NSWindow interface.                          *)
(***************************************************************************)

\* @property sheets: presented sheets top-to-bottom, then the queued ones.
sheets(w) == presented[w] \o queued[w]

\* @property attachedSheet: the top-most sheet, or nil.
attachedSheet(w) == IF presented[w] = <<>> THEN NoWindow ELSE Head(presented[w])

\* @property isSheet
isSheet(s) == sheetParent[s] # NoWindow

(***************************************************************************)
(* Operations.                                                             *)
(***************************************************************************)

Init ==
  /\ presented   = [w \in Parents |-> <<>>]
  /\ queued      = [w \in Parents |-> <<>>]
  /\ critical    = {}
  /\ sheetParent = [s \in Sheets |-> NoWindow]
  /\ owed        = [s \in Sheets |-> 0]

\* Both begin operations take a window that is not currently a sheet; the
\* header gives no meaning to beginning a sheet that is already attached.
CanBegin(s) == ~isSheet(s)

(***************************************************************************)
(* Plausible defects of the operations below, each a variant of one        *)
(* action.  They are used only to confirm that the properties at the end   *)
(* of the module detect such defects; Spec never uses them.                *)
(***************************************************************************)

\* beginSheet treats a stack of critical sheets as "nothing presented" and
\* shows the ordinary sheet on top of them.
beginSheet_overCritical(w, s) ==
  /\ CanBegin(s)
  /\ IF \A i \in 1 .. Len(presented[w]) : presented[w][i] \in critical
       THEN /\ presented' = [presented EXCEPT ![w] = <<s>> \o @]
            /\ UNCHANGED queued
       ELSE /\ queued' = [queued EXCEPT ![w] = Append(@, s)]
            /\ UNCHANGED presented
  /\ critical'    = critical \ {s}
  /\ sheetParent' = [sheetParent EXCEPT ![s] = w]
  /\ owed'        = [owed EXCEPT ![s] = @ + 1]

\* beginCriticalSheet sends the sheets it covers back to the queue.
beginCriticalSheet_requeue(w, s) ==
  /\ CanBegin(s)
  /\ presented'   = [presented EXCEPT ![w] = <<s>>]
  /\ queued'      = [queued EXCEPT ![w] = presented[w] \o @]
  /\ critical'    = critical \cup {s}
  /\ sheetParent' = [sheetParent EXCEPT ![s] = w]
  /\ owed'        = [owed EXCEPT ![s] = @ + 1]

\* endSheet, with the queue advanced by a step chosen by `promote` and the
\* bookkeeping of the ended sheet by `parentOut` and `handled`.
EndSheetWith(w, s, Promote(_), parentOut, handled) ==
  /\ Contains(presented[w], s)
  /\ LET rest == Remove(presented[w], s) IN
       IF rest = <<>> /\ queued[w] # <<>> /\ Promote(s)
         THEN /\ presented' = [presented EXCEPT ![w] = <<Head(queued[w])>>]
              /\ queued'    = [queued EXCEPT ![w] = Tail(@)]
         ELSE /\ presented' = [presented EXCEPT ![w] = rest]
              /\ UNCHANGED queued
  /\ critical'    = critical \ {s}
  /\ sheetParent' = [sheetParent EXCEPT ![s] = parentOut]
  /\ owed'        = [owed EXCEPT ![s] = @ - handled]

\* The completion handler runs twice.
endSheet_handlerTwice(w, s) == EndSheetWith(w, s, LAMBDA x : TRUE, NoWindow, 2)
\* The sheet is dismissed but its sheetParent link is not cleared.
endSheet_keepsParent(w, s) == EndSheetWith(w, s, LAMBDA x : TRUE, w, 1)
\* Only dismissing an ordinary sheet advances the queue.
endSheet_criticalNoPromote(w, s) ==
  EndSheetWith(w, s, LAMBDA x : x \notin critical, NoWindow, 1)

\* The queue is advanced from the back.
endSheet_promoteLast(w, s) ==
  /\ Contains(presented[w], s)
  /\ LET rest == Remove(presented[w], s) IN
       IF rest = <<>> /\ queued[w] # <<>>
         THEN /\ presented' = [presented EXCEPT ![w] = <<Last(queued[w])>>]
              /\ queued'    = [queued EXCEPT ![w] = Front(@)]
         ELSE /\ presented' = [presented EXCEPT ![w] = rest]
              /\ UNCHANGED queued
  /\ critical'    = critical \ {s}
  /\ sheetParent' = [sheetParent EXCEPT ![s] = NoWindow]
  /\ owed'        = [owed EXCEPT ![s] = @ - 1]

\* -beginSheet:completionHandler:  Present at once if nothing is presented
\* on w, otherwise queue behind the sheets already there.
beginSheet(w, s) ==
  /\ CanBegin(s)
  /\ IF presented[w] = <<>>
       THEN /\ presented' = [presented EXCEPT ![w] = <<s>>]
            /\ UNCHANGED queued
       ELSE /\ queued' = [queued EXCEPT ![w] = Append(@, s)]
            /\ UNCHANGED presented
  /\ critical'    = critical \ {s}
  /\ sheetParent' = [sheetParent EXCEPT ![s] = w]
  /\ owed'        = [owed EXCEPT ![s] = @ + 1]

\* -beginCriticalSheet:completionHandler:  Skip the queue and present on
\* top of the existing presented sheets.
beginCriticalSheet(w, s) ==
  /\ CanBegin(s)
  /\ presented'   = [presented EXCEPT ![w] = <<s>> \o @]
  /\ critical'    = critical \cup {s}
  /\ sheetParent' = [sheetParent EXCEPT ![s] = w]
  /\ owed'        = [owed EXCEPT ![s] = @ + 1]
  /\ UNCHANGED queued

\* -endSheet: and -endSheet:returnCode:  Dismiss a presented sheet of w,
\* order it out (ending its sheetParent link), run its completion handler,
\* and once no presented sheet is left show the next queued one.
endSheet(w, s) ==
  /\ Contains(presented[w], s)
  /\ LET rest == Remove(presented[w], s) IN
       IF rest = <<>> /\ queued[w] # <<>>
         THEN /\ presented' = [presented EXCEPT ![w] = <<Head(queued[w])>>]
              /\ queued'    = [queued EXCEPT ![w] = Tail(@)]
         ELSE /\ presented' = [presented EXCEPT ![w] = rest]
              /\ UNCHANGED queued
  /\ critical'    = critical \ {s}
  /\ sheetParent' = [sheetParent EXCEPT ![s] = NoWindow]
  /\ owed'        = [owed EXCEPT ![s] = @ - 1]

\* Any window, sheets included, may begin a sheet other than itself.
Next ==
  \E w \in Parents : \E s \in Sheets \ {w} :
    \/ beginSheet(w, s)
    \/ beginCriticalSheet(w, s)
    \/ endSheet(w, s)

\* The environment assumption for liveness: every sheet that stays presented
\* is eventually dismissed (by the user or the program).  Nothing in AppKit
\* ends a sheet by itself, so this is an assumption about the caller.
Fairness == \A w \in Parents, s \in Sheets : WF_vars(endSheet(w, s))

Spec     == Init /\ [][Next]_vars
FairSpec == Spec /\ Fairness

(***************************************************************************)
(* Properties.                                                             *)
(***************************************************************************)

TypeOK ==
  /\ presented   \in [Parents -> Seq(Sheets)]
  /\ queued      \in [Parents -> Seq(Sheets)]
  /\ critical    \subseteq Sheets
  /\ sheetParent \in [Sheets -> Parents \cup {NoWindow}]
  /\ owed        \in [Sheets -> Nat]

\* `sheets` and `sheetParent` agree: a begun sheet appears exactly once, in
\* the `sheets` list of the window it is attached to, from
\* -beginSheet:/-beginCriticalSheet: until -endSheet: orders it out, and
\* nowhere else.
SheetsMatchParent ==
  \A w \in Parents :
    /\ IsInjective(sheets(w))
    /\ \A s \in Sheets : sheetParent[s] = w <=> Contains(sheets(w), s)

\* A critical sheet's presentation is guaranteed: beginSheet never puts an
\* ordinary sheet over a critical one, and endSheet never promotes a queued
\* sheet over one.  Every presented sheet except the bottom one is critical.
CriticalStaysOnTop ==
  \A w \in Parents :
    \A i \in 1 .. Len(presented[w]) - 1 : presented[w][i] \in critical

\* The queue never stalls: whenever endSheet leaves a window without a
\* presented sheet, the next queued sheet has been shown.
QueueDrains ==
  \A w \in Parents : presented[w] = <<>> => queued[w] = <<>>

\* A presented sheet is never pushed back into the queue: it stays
\* presented until endSheet orders it out (critical sheets only disable it).
PresentedUntilEnded ==
  [][\A w \in Parents, s \in Sheets :
       Contains(presented[w], s) =>
         Contains(presented'[w], s) \/ sheetParent'[s] = NoWindow]_vars

\* The header's promise for the queue: "Once the presented sheet is
\* dismissed, the next queued sheet will be presented, and so forth."  Every
\* queued sheet is eventually presented, provided every presented sheet is
\* eventually ended.
QueuedEventuallyPresented ==
  \A w \in Parents, s \in Sheets :
    Contains(queued[w], s) ~> Contains(presented[w], s)

\* The same promise, for a window on which -beginCriticalSheet: is called
\* only finitely often: critical sheets delay the queue but, once they stop
\* arriving, every queued sheet is presented.
QueuedPresentedOnceCriticalsStop ==
  \A w \in Parents :
    (<>[][\A t \in Sheets : ~beginCriticalSheet(w, t)]_vars) =>
      \A s \in Sheets : Contains(queued[w], s) ~> Contains(presented[w], s)

(***************************************************************************)
(* Refinement: the detailed sheet machinery implements SheetQueue.  The    *)
(* ordinary sheet shown on a window is the bottom of the presented stack   *)
(* when that one is not critical; the waiting queue is `queued`.           *)
(***************************************************************************)
OrdinaryShown(w) ==
  IF presented[w] # <<>> /\ Last(presented[w]) \notin critical
    THEN Last(presented[w])
    ELSE NoWindow

Abstract == INSTANCE SheetQueue
              WITH Windows <- Parents,
                   shown   <- [w \in Parents |-> OrdinaryShown(w)],
                   waiting <- queued

\* Ordinary sheets are shown one at a time per window and in the order they
\* were begun, whatever critical sheets beginCriticalSheet interleaves.
RefinesSheetQueue == Abstract!ASpec

=============================================================================
