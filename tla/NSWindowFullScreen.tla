------------------------- MODULE NSWindowFullScreen -------------------------
(***************************************************************************)
(* Full-screen transitions of NSWindow (NSWindow.h lines 47, 62, 115-119,  *)
(* 546-548, 850-880, 924-927).                                             *)
(*                                                                         *)
(* -toggleFullScreen: starts a transition into or out of full screen and   *)
(* toggles NSWindowStyleMaskFullScreen.  A window needs the FullScreen-    *)
(* Primary or FullScreenAuxiliary collection behavior; otherwise the call  *)
(* may do nothing, which is a stutter step and needs no action.  At the    *)
(* start of a transition the delegate is asked for custom windows; only if *)
(* it returned some is it told to start its custom animation.  The         *)
(* transition then either completes (did enter / did exit) or fails        *)
(* (windowDidFailToEnter/ExitFullScreen:), whether or not a custom         *)
(* animation was requested.  The FullScreen style bit means "the window    *)
(* will appear full screen" (line 47), so a failed transition puts it back. *)
(*                                                                         *)
(* Sizes, presentation options and screens given to the delegate are data *)
(* no property depends on and are left out.                                *)
(***************************************************************************)
EXTENDS Naturals, FiniteSets

CONSTANTS Windows

\* The FullScreen flags of NSWindowCollectionBehavior (lines 140-142), and
\* the values the group may take: at most one of them is set (line 115).
FullScreenFlags == {"Primary", "Auxiliary", "None"}
Behaviors == {f \in SUBSET FullScreenFlags : Cardinality(f) <= 1}

Phases == {"Windowed", "Entering", "FullScreen", "Exiting"}

\* Notifications and delegate messages a window's delegate receives.
Events == {"NoEvent", "WillEnter", "StartEnterAnimation", "DidEnter",
           "DidFailToEnter", "WillExit", "StartExitAnimation", "DidExit",
           "DidFailToExit"}

VARIABLES
  behavior,   \* behavior[w]: the FullScreen flags of w's collectionBehavior
  phase,      \* phase[w]: where w is in the full-screen life cycle
  styleFS,    \* styleFS[w]: NSWindowStyleMaskFullScreen is set in styleMask
  custom,     \* custom[w]: the delegate returned custom windows this time
  lastEvent   \* lastEvent[w]: the last message w's delegate received

vars == <<behavior, phase, styleFS, custom, lastEvent>>

\* -toggleFullScreen: acts only for these windows (line 546).
CanToggle(w) == behavior[w] \cap {"Primary", "Auxiliary"} # {}

Init ==
  /\ behavior  \in [Windows -> Behaviors]
  /\ phase     = [w \in Windows |-> "Windowed"]
  /\ styleFS   = [w \in Windows |-> FALSE]
  /\ custom    = [w \in Windows |-> FALSE]
  /\ lastEvent = [w \in Windows |-> "NoEvent"]

(***************************************************************************)
(* Plausible defects, used only to confirm that the properties detect them. *)
(***************************************************************************)

\* Setting a FullScreen flag adds it to the one already set, breaking the
\* at-most-one rule of line 115.
setCollectionBehavior_combined(w, b) ==
  /\ behavior' = [behavior EXCEPT ![w] = @ \cup b]
  /\ UNCHANGED <<phase, styleFS, custom, lastEvent>>

\* A toggle while a transition is still running is not ignored.
toggleFullScreen_duringTransition(w) ==
  /\ CanToggle(w)
  /\ phase'     = [phase EXCEPT ![w] = IF @ \in {"Windowed", "Exiting"}
                                         THEN "Entering" ELSE "Exiting"]
  /\ styleFS'   = [styleFS EXCEPT ![w] = ~@]
  /\ lastEvent' = [lastEvent EXCEPT ![w] = IF phase[w] \in {"Windowed", "Exiting"}
                                             THEN "WillEnter" ELSE "WillExit"]
  /\ \E c \in BOOLEAN : custom' = [custom EXCEPT ![w] = c]
  /\ UNCHANGED behavior

\* A failed entry leaves the FullScreen style bit set.
failToEnterFullScreen_keepsStyle(w) ==
  /\ phase[w] = "Entering"
  /\ phase'     = [phase EXCEPT ![w] = "Windowed"]
  /\ lastEvent' = [lastEvent EXCEPT ![w] = "DidFailToEnter"]
  /\ UNCHANGED <<behavior, styleFS, custom>>

\* The custom animation is started whatever the delegate returned.
startCustomAnimation_always(w) ==
  /\ phase[w] \in {"Entering", "Exiting"}
  /\ lastEvent[w] \in {"WillEnter", "WillExit"}
  /\ lastEvent' = [lastEvent EXCEPT ![w] = IF phase[w] = "Entering"
                                             THEN "StartEnterAnimation"
                                             ELSE "StartExitAnimation"]
  /\ UNCHANGED <<behavior, phase, styleFS, custom>>

(***************************************************************************)
(* Operations.                                                             *)
(***************************************************************************)

\* @property collectionBehavior: the application may change it at any time.
setCollectionBehavior(w, b) ==
  /\ behavior' = [behavior EXCEPT ![w] = b]
  /\ UNCHANGED <<phase, styleFS, custom, lastEvent>>

\* -toggleFullScreen: on a settled window: toggle the style bit, post the
\* will-enter or will-exit notification and ask the delegate for custom
\* windows (customWindowsToEnter/ExitFullScreenForWindow:).
toggleFullScreen(w) ==
  /\ CanToggle(w)
  /\ phase[w] \in {"Windowed", "FullScreen"}
  /\ phase'     = [phase EXCEPT ![w] = IF @ = "Windowed" THEN "Entering" ELSE "Exiting"]
  /\ styleFS'   = [styleFS EXCEPT ![w] = ~@]
  /\ lastEvent' = [lastEvent EXCEPT ![w] = IF phase[w] = "Windowed"
                                             THEN "WillEnter" ELSE "WillExit"]
  /\ \E c \in BOOLEAN : custom' = [custom EXCEPT ![w] = c]
  /\ UNCHANGED behavior

\* The system has started its animation: the delegate that supplied custom
\* windows is told to start its own (startCustomAnimationTo...WithDuration:).
startCustomAnimation(w) ==
  /\ phase[w] \in {"Entering", "Exiting"}
  /\ custom[w]
  /\ lastEvent[w] \in {"WillEnter", "WillExit"}
  /\ lastEvent' = [lastEvent EXCEPT ![w] = IF phase[w] = "Entering"
                                             THEN "StartEnterAnimation"
                                             ELSE "StartExitAnimation"]
  /\ UNCHANGED <<behavior, phase, styleFS, custom>>

\* The transition completes: did-enter or did-exit is posted.  A custom
\* transition completes after the delegate was told to animate.
completeTransition(w) ==
  /\ phase[w] \in {"Entering", "Exiting"}
  /\ custom[w] => lastEvent[w] \in {"StartEnterAnimation", "StartExitAnimation"}
  /\ phase'     = [phase EXCEPT ![w] = IF @ = "Entering" THEN "FullScreen" ELSE "Windowed"]
  /\ lastEvent' = [lastEvent EXCEPT ![w] = IF phase[w] = "Entering"
                                             THEN "DidEnter" ELSE "DidExit"]
  /\ UNCHANGED <<behavior, styleFS, custom>>

\* windowDidFailToEnterFullScreen: / windowDidFailToExitFullScreen:  The
\* transition fails, custom animation or not; the window stays where it was.
failTransition(w) ==
  /\ phase[w] \in {"Entering", "Exiting"}
  /\ phase'     = [phase EXCEPT ![w] = IF @ = "Entering" THEN "Windowed" ELSE "FullScreen"]
  /\ styleFS'   = [styleFS EXCEPT ![w] = ~@]
  /\ lastEvent' = [lastEvent EXCEPT ![w] = IF phase[w] = "Entering"
                                             THEN "DidFailToEnter" ELSE "DidFailToExit"]
  /\ UNCHANGED <<behavior, custom>>

Next ==
  \E w \in Windows :
    \/ toggleFullScreen(w)
    \/ startCustomAnimation(w)
    \/ completeTransition(w)
    \/ failTransition(w)
    \/ \E b \in Behaviors : setCollectionBehavior(w, b)

Spec == Init /\ [][Next]_vars

(***************************************************************************)
(* Properties.                                                             *)
(***************************************************************************)

TypeOK ==
  /\ behavior  \in [Windows -> Behaviors]
  /\ phase     \in [Windows -> Phases]
  /\ styleFS   \in [Windows -> BOOLEAN]
  /\ custom    \in [Windows -> BOOLEAN]
  /\ lastEvent \in [Windows -> Events]

\* NSWindowStyleMaskFullScreen says whether the window appears full screen:
\* whenever no transition is running, the bit toggled by -toggleFullScreen:
\* agrees with the phase, after completions and failures alike.
StyleMatchesSettledPhase ==
  \A w \in Windows :
    phase[w] \in {"Windowed", "FullScreen"} =>
      (styleFS[w] <=> phase[w] = "FullScreen")

\* The messages a delegate receives follow the documented protocol: a
\* will-enter (will-exit) is followed by the custom-animation message only
\* if the delegate returned custom windows, and then by exactly one did or
\* did-fail for the same direction; nothing starts while one is running.
Follows ==
  [ NoEvent             |-> {"WillEnter"},
    WillEnter           |-> {"StartEnterAnimation", "DidEnter", "DidFailToEnter"},
    StartEnterAnimation |-> {"DidEnter", "DidFailToEnter"},
    DidEnter            |-> {"WillExit"},
    DidFailToEnter      |-> {"WillEnter"},
    WillExit            |-> {"StartExitAnimation", "DidExit", "DidFailToExit"},
    StartExitAnimation  |-> {"DidExit", "DidFailToExit"},
    DidExit             |-> {"WillEnter"},
    DidFailToExit       |-> {"WillExit"} ]

DelegateProtocol ==
  [][\A w \in Windows :
       lastEvent'[w] # lastEvent[w] =>
         /\ lastEvent'[w] \in Follows[lastEvent[w]]
         /\ lastEvent'[w] \in {"StartEnterAnimation", "StartExitAnimation"} => custom[w]
         /\ lastEvent'[w] \in {"DidEnter", "DidExit"} /\ custom[w] =>
              lastEvent[w] \in {"StartEnterAnimation", "StartExitAnimation"}]_vars

\* -toggleFullScreen: "enters or exits" full screen (line 546): a window
\* in full screen can always be taken out of it that way.  collectionBehavior
\* may be changed at any time, and the toggle may "do nothing" for a window
\* without a FullScreen flag, so this is expected to fail.
FullScreenExitable ==
  \A w \in Windows : phase[w] = "FullScreen" => ENABLED toggleFullScreen(w)
=============================================================================
