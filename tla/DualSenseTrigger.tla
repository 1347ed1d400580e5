--------------------------- MODULE DualSenseTrigger ---------------------------
(***************************************************************************)
(* GCDualSenseAdaptiveTrigger (GCDualSenseAdaptiveTrigger.h).               *)
(*                                                                         *)
(* The application configures the trigger with the setMode... methods.    *)
(* Each sends a configuration to the controller; `mode` "reflects the      *)
(* physical state of the triggers - and requires a response from the       *)
(* controller.  It does not update immediately after calling setMode..."   *)
(* (lines 77-78).  The controller applies configurations in the order they *)
(* were sent and reports its mode, its status and the arm position back.   *)
(* The user moves the trigger arm at any time.                             *)
(*                                                                         *)
(* Positions: the normalized floats [0-1] become the grid 0..NumPositions, *)
(* as the positional variants already do with                             *)
(* GCDualSenseAdaptiveTriggerDiscretePositionCount positions (line 14).    *)
(* An effect is reduced to the set of arm positions at which it acts;      *)
(* strengths, amplitudes and frequencies change how strongly it acts, and  *)
(* no status depends on them.                                              *)
(***************************************************************************)
EXTENDS Naturals, Sequences

CONSTANTS
  NumPositions,   \* discrete positions of the arm besides rest (line 14)
  MaxInFlight     \* configurations sent but not yet applied by the controller

ASSUME NumPositions \in Nat \ {0} /\ MaxInFlight \in Nat \ {0}

\* GCDualSenseAdaptiveTriggerMode, lines 17-28.
Modes == {"Off", "Feedback", "Weapon", "Vibration", "SlopeFeedback"}

\* GCDualSenseAdaptiveTriggerStatus, lines 30-53, grouped by the mode each
\* value describes; Unknown belongs to none.
StatusesOf ==
  [ Off           |-> {"Unknown"},
    Feedback      |-> {"FeedbackNoLoad", "FeedbackLoadApplied"},
    Weapon        |-> {"WeaponReady", "WeaponFiring", "WeaponFired"},
    Vibration     |-> {"VibrationNotVibrating", "VibrationIsVibrating"},
    SlopeFeedback |-> {"SlopeFeedbackReady", "SlopeFeedbackApplyingLoad",
                       "SlopeFeedbackFinished"} ]
Statuses == UNION {StatusesOf[m] : m \in Modes}

ArmPositions == 0..NumPositions
Positions    == 1..NumPositions

\* A configuration: the mode and the positions at which the effect acts.
\* "depressed further than the start position" acts above start; "from the
\* start position to the end position" acts above start up to end.
\* An off-by-one: "onwards" read as including the start position itself.
From_inclusive(start) == {p \in ArmPositions : p >= start}
From(start)        == {p \in Positions : p > start}
Between(start, end) == {p \in Positions : start < p /\ p <= end}

\* Start and end positions of the weapon and slope modes: "the end
\* position must be larger than the start position" (lines 99, 126).
Ranges == {r \in ArmPositions \X ArmPositions : r[1] < r[2]}

\* The configurations each setMode... method sends, over all arguments.
OffConfigs       == {[mode |-> "Off", zone |-> {}]}
FeedbackConfigs  == {[mode |-> "Feedback", zone |-> From(s)] : s \in ArmPositions}
                    \cup {[mode |-> "Feedback", zone |-> z] : z \in SUBSET Positions}
WeaponConfigs    == {[mode |-> "Weapon", zone |-> Between(r[1], r[2])] : r \in Ranges}
VibrationConfigs == {[mode |-> "Vibration", zone |-> From(s)] : s \in ArmPositions}
                    \cup {[mode |-> "Vibration", zone |-> z] : z \in SUBSET Positions}
SlopeConfigs     == {[mode |-> "SlopeFeedback", zone |-> Between(r[1], r[2])] :
                       r \in Ranges}
Configs == OffConfigs \cup FeedbackConfigs \cup WeaponConfigs
             \cup VibrationConfigs \cup SlopeConfigs

\* The arm has been depressed past the whole zone: "the trigger has fired",
\* "a resistive load has previously been applied, but is no longer".
Past(cfg, arm) == cfg.zone # {} /\ \A p \in cfg.zone : arm > p

\* The status the controller reports for a configuration and arm position.
StatusOf(cfg, arm) ==
  LET in == arm \in cfg.zone IN
  CASE cfg.mode = "Off"       -> "Unknown"
    [] cfg.mode = "Feedback"  -> IF in THEN "FeedbackLoadApplied" ELSE "FeedbackNoLoad"
    [] cfg.mode = "Vibration" -> IF in THEN "VibrationIsVibrating"
                                       ELSE "VibrationNotVibrating"
    [] cfg.mode = "Weapon"    -> IF in THEN "WeaponFiring"
                                 ELSE IF Past(cfg, arm) THEN "WeaponFired"
                                 ELSE "WeaponReady"
    [] cfg.mode = "SlopeFeedback" ->
                                 IF in THEN "SlopeFeedbackApplyingLoad"
                                 ELSE IF Past(cfg, arm) THEN "SlopeFeedbackFinished"
                                 ELSE "SlopeFeedbackReady"

VARIABLES
  requests,     \* configurations sent to the controller, oldest first
  requested,    \* the mode of the application's latest setMode... call
  hw,           \* the configuration the controller is applying
  arm,          \* the physical arm position
  mode,         \* the `mode` property
  status,       \* the `status` property
  armPosition   \* the `armPosition` property

vars == <<requests, requested, hw, arm, mode, status, armPosition>>

Init ==
  /\ requests    = <<>>
  /\ requested   = "Off"
  /\ hw          = [mode |-> "Off", zone |-> {}]
  /\ arm         = 0
  /\ mode        = "Off"
  /\ status      = "Unknown"
  /\ armPosition = 0

(***************************************************************************)
(* Plausible defects, used only to confirm that the properties detect them. *)
(***************************************************************************)

\* The controller applies the newest configuration and then the older one.
applyConfiguration_newestFirst ==
  /\ requests # <<>>
  /\ hw'       = requests[Len(requests)]
  /\ requests' = SubSeq(requests, 1, Len(requests) - 1)
  /\ UNCHANGED <<requested, arm, mode, status, armPosition>>

(***************************************************************************)
(* Operations.                                                             *)
(***************************************************************************)

\* setModeOff, setModeFeedback..., setModeWeapon..., setModeVibration...,
\* setModeSlopeFeedback... (lines 98-157): the configuration is sent to
\* the controller; the properties stay as they are (line 78).
setMode(cfg) ==
  /\ Len(requests) < MaxInFlight
  /\ requests'  = Append(requests, cfg)
  /\ requested' = cfg.mode
  /\ UNCHANGED <<hw, arm, mode, status, armPosition>>

\* The controller takes the oldest configuration it was sent.
applyConfiguration ==
  /\ requests # <<>>
  /\ hw'       = Head(requests)
  /\ requests' = Tail(requests)
  /\ UNCHANGED <<requested, arm, mode, status, armPosition>>

\* The user moves the trigger arm.
moveArm(a) ==
  /\ arm' = a
  /\ UNCHANGED <<requests, requested, hw, mode, status, armPosition>>

\* The controller's response: mode, status and arm position of the
\* physical trigger, read together (lines 77, 85, 92).
report ==
  /\ mode'        = hw.mode
  /\ status'      = StatusOf(hw, arm)
  /\ armPosition' = arm
  /\ UNCHANGED <<requests, requested, hw, arm>>

Next ==
  \/ \E cfg \in Configs : setMode(cfg)
  \/ applyConfiguration
  \/ \E a \in ArmPositions : moveArm(a)
  \/ report

\* The controller applies what it is sent and answers: both are steps of
\* the controller and the framework, not of the application or the user.
Fairness == WF_vars(applyConfiguration) /\ WF_vars(report)

Spec     == Init /\ [][Next]_vars
FairSpec == Spec /\ Fairness

(***************************************************************************)
(* Properties.                                                             *)
(***************************************************************************)

ConfigType == [mode : Modes, zone : SUBSET Positions]

TypeOK ==
  /\ requests    \in Seq(ConfigType) /\ Len(requests) <= MaxInFlight
  /\ requested   \in Modes
  /\ hw          \in ConfigType
  /\ arm         \in ArmPositions
  /\ mode        \in Modes
  /\ status      \in Statuses
  /\ armPosition \in ArmPositions

\* Once the application stops calling setMode..., `mode` eventually
\* settles on the mode it asked for last.
ModeSettlesOnLastRequest ==
  <>[][\A cfg \in Configs : ~setMode(cfg)]_vars => <>[](mode = requested)
=============================================================================
