--------------------------- MODULE NSWindowKeyMain ---------------------------
(***************************************************************************)
(* The key window and the main window of one application (NSWindow.h lines *)
(* 436-463, 908-911, 937-945).                                             *)
(*                                                                         *)
(* NSApplication holds at most one key window and one main window.         *)
(* -makeKeyWindow makes a window key and main, each if it is eligible       *)
(* (canBecomeKeyWindow, canBecomeMainWindow); -makeMainWindow makes it main *)
(* if eligible.  The window that loses key or main is sent -resignKeyWindow *)
(* or -resignMainWindow, the one that gains it -becomeKeyWindow or          *)
(* -becomeMainWindow, each with its did-resign / did-become notification.  *)
(* Deactivating the application resigns both.                              *)
(*                                                                         *)
(* Each window's view of itself is what its become/resign overrides have   *)
(* been told: keyDepth[w] and mainDepth[w] count the becomes not yet       *)
(* answered by a resign.                                                   *)
(***************************************************************************)
EXTENDS Naturals

CONSTANTS Windows, NoWindow

ASSUME NoWindow \notin Windows

VARIABLES
  keyWindow,    \* NSApplication's keyWindow, or NoWindow
  mainWindow,   \* NSApplication's mainWindow, or NoWindow
  keyDepth,     \* keyDepth[w]: becomeKeyWindow minus resignKeyWindow sent to w
  mainDepth,    \* mainDepth[w]: becomeMainWindow minus resignMainWindow sent to w
  canKey,       \* canKey[w]: w.canBecomeKeyWindow
  canMain       \* canMain[w]: w.canBecomeMainWindow

vars == <<keyWindow, mainWindow, keyDepth, mainDepth, canKey, canMain>>

\* The role held by `holder` moves to `w`: the old holder, if it is another
\* window, is sent its resign message, and w its become message.
Resign(depth, holder, w) ==
  [v \in Windows |-> depth[v] - (IF v = holder /\ v # w THEN 1 ELSE 0)]
Become(depth, holder, w) ==
  [depth EXCEPT ![w] = IF holder = w THEN @ ELSE @ + 1]

Init ==
  /\ keyWindow  = NoWindow
  /\ mainWindow = NoWindow
  /\ keyDepth   = [w \in Windows |-> 0]
  /\ mainDepth  = [w \in Windows |-> 0]
  /\ canKey  \in [Windows -> BOOLEAN]
  /\ canMain \in [Windows -> BOOLEAN]

(***************************************************************************)
(* Plausible defects, used only to confirm that the properties detect them. *)
(***************************************************************************)

\* -becomeKeyWindow is sent again to a window that is already key.
makeKeyWindow_rebecome(w) ==
  /\ canKey[w] \/ canMain[w]
  /\ keyWindow'  = IF canKey[w] THEN w ELSE keyWindow
  /\ keyDepth'   = IF canKey[w]
                     THEN [Resign(keyDepth, keyWindow, w) EXCEPT ![w] = @ + 1]
                     ELSE keyDepth
  /\ mainWindow' = IF canMain[w] THEN w ELSE mainWindow
  /\ mainDepth'  = IF canMain[w]
                     THEN Become(Resign(mainDepth, mainWindow, w), mainWindow, w)
                     ELSE mainDepth
  /\ UNCHANGED <<canKey, canMain>>

\* The previous main window is not sent -resignMainWindow.
makeMainWindow_noResign(w) ==
  /\ canMain[w]
  /\ mainWindow' = w
  /\ mainDepth'  = Become(mainDepth, mainWindow, w)
  /\ UNCHANGED <<keyWindow, keyDepth, canKey, canMain>>

(***************************************************************************)
(* Operations.                                                             *)
(***************************************************************************)

\* -makeKeyWindow: key if eligible, main if eligible (line 441).  With
\* neither, nothing happens: a stutter step.
makeKeyWindow(w) ==
  /\ canKey[w] \/ canMain[w]
  /\ keyWindow'  = IF canKey[w] THEN w ELSE keyWindow
  /\ keyDepth'   = IF canKey[w]
                     THEN Become(Resign(keyDepth, keyWindow, w), keyWindow, w)
                     ELSE keyDepth
  /\ mainWindow' = IF canMain[w] THEN w ELSE mainWindow
  /\ mainDepth'  = IF canMain[w]
                     THEN Become(Resign(mainDepth, mainWindow, w), mainWindow, w)
                     ELSE mainDepth
  /\ UNCHANGED <<canKey, canMain>>

\* -makeMainWindow: main if eligible (line 445).
makeMainWindow(w) ==
  /\ canMain[w]
  /\ mainWindow' = w
  /\ mainDepth'  = Become(Resign(mainDepth, mainWindow, w), mainWindow, w)
  /\ UNCHANGED <<keyWindow, keyDepth, canKey, canMain>>

\* The application deactivates: the key and the main window are sent
\* -resignKeyWindow and -resignMainWindow (lines 453, 461).
deactivate ==
  /\ keyWindow # NoWindow \/ mainWindow # NoWindow
  /\ keyWindow'  = NoWindow
  /\ mainWindow' = NoWindow
  /\ keyDepth'   = Resign(keyDepth, keyWindow, NoWindow)
  /\ mainDepth'  = Resign(mainDepth, mainWindow, NoWindow)
  /\ UNCHANGED <<canKey, canMain>>

\* canBecomeKeyWindow and canBecomeMainWindow are computed by the window
\* (line 438): a subclass may answer differently as its state changes.
\* Nothing in the header resigns a window that stops being eligible.
eligibilityChanges(w) ==
  /\ \E k, m \in BOOLEAN :
       /\ <<k, m>> # <<canKey[w], canMain[w]>>
       /\ canKey'  = [canKey EXCEPT ![w] = k]
       /\ canMain' = [canMain EXCEPT ![w] = m]
  /\ UNCHANGED <<keyWindow, mainWindow, keyDepth, mainDepth>>

Next ==
  \/ \E w \in Windows : makeKeyWindow(w) \/ makeMainWindow(w) \/ eligibilityChanges(w)
  \/ deactivate

Spec == Init /\ [][Next]_vars

(***************************************************************************)
(* Properties.                                                             *)
(***************************************************************************)

TypeOK ==
  /\ keyWindow  \in Windows \cup {NoWindow}
  /\ mainWindow \in Windows \cup {NoWindow}
  /\ keyDepth   \in [Windows -> 0..1]
  /\ mainDepth  \in [Windows -> 0..1]
  /\ canKey     \in [Windows -> BOOLEAN]
  /\ canMain    \in [Windows -> BOOLEAN]

\* The become/resign overrides tell every window the truth: a window has
\* been sent one more become than resign exactly when NSApplication holds
\* it as key (main), through any sequence of make..., re-make and
\* deactivation.  In particular no two windows both believe they are key.
CallbacksMatchApplication ==
  \A w \in Windows :
    /\ keyDepth[w]  = 1 <=> keyWindow = w
    /\ mainDepth[w] = 1 <=> mainWindow = w
=============================================================================
