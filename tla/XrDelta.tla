------------------------------ MODULE XrDelta ------------------------------
(***************************************************************************)
(* XRDeltaPublisher of vr_publisher_sg2_xr.py as an executable of its own,   *)
(* with Cyclo's controller (external).  X+A captures the wrists that Cyclo   *)
(* reports, sends them as goals for a while and then activates Cyclo; from   *)
(* there the goals follow what the hands have moved since.  While inactive   *)
(* Cyclo reports measured wrists, while active the ones it has commanded.    *)
(*                                                                         *)
(* Every handler holds _xr_lock, so it is one action, on the record `xr` of  *)
(* the node's fields.  Places are one-dimensional; goals count from the      *)
(* captured wrist.  Times are ages.                                        *)
(***************************************************************************)
EXTENDS PyNone, Integers

CONSTANTS
  SourceGap, ReceiptGap,  \* .10 and .15 s after a stop, before a wrist counts
  StopWait,    \* .25 s after a stop, before a capture
  Settling,    \* .20 s between the capture and the activation
  PoseLife,    \* FEEDBACK_MAX_AGE
  TrackLife,   \* arm_tracking_timeout_sec, and FEEDBACK_MAX_AGE of the joints
  HandPlaces,  \* where the hands can be
  HandJump,    \* TRACKING_JUMP_POSITION_M
  Reaction,    \* Cyclo follows /reactivate, and ...
  GoalDelay    \* ... knows the goals that were sent, after this time at most

ASSUME XrAssumption ==
  /\ {SourceGap, ReceiptGap, StopWait, Settling, PoseLife, TrackLife, HandJump} \subseteq Nat
  /\ Reaction \in Nat /\ GoalDelay \in Nat /\ HandPlaces \subseteq Int
  /\ Reaction < SourceGap /\ SourceGap <= ReceiptGap /\ ReceiptGap <= StopWait
  /\ GoalDelay < Settling
  /\ None \notin Int

VARIABLES
  xr,        \* the node: see XrInit
  xrTimer,   \* the tracking timer is due
  cyclo,     \* active; the age of the last change of /reactivate (lag); whether
             \* its goals are of the present arming, and for how long they were sent
  wristWire  \* a wrist on its way: measured or commanded, and its age
xrVars == <<xr, xrTimer, cyclo, wristWire>>

Inputs == {"head", "hands", "joints"}
\* no age beyond this makes a difference
StopAges == PoseLife + StopWait

XrInit ==
  /\ xr = [on |-> FALSE,       \* arm_control_enabled
           start |-> FALSE,    \* arm_start_armed
           chord |-> "none",   \* both_a/both_b_buttons_pressed_prev
           seen |-> [i \in Inputs |-> TrackLife + 1],
           stopped |-> 0,      \* _stopped_at and _stopped_ros
           wrist |-> None,     \* _robot_poses
           arming |-> None,    \* age of the capture while _arming_until is set
           origin |-> None,    \* the hand's place in _mapper
           hand |-> None, last |-> None,  \* the controllers; _last_input
           goal |-> 0,         \* _goals
           rated |-> FALSE,    \* _last_pub is less than a frame ago
           told |-> FALSE,     \* /reactivate
           anchor |-> None,    \* history: what the captured wrist was
           still |-> FALSE]    \* history: the hand has not moved since the activation
  /\ xrTimer = FALSE
  /\ \E active \in BOOLEAN : cyclo = [active |-> active, lag |-> 0, goals |-> "old", sent |-> None]
  /\ wristWire = None

-----------------------------------------------------------------------------
(* The methods, from record to record.                                     *)

XrFresh(x) == \A i \in Inputs : x.seen[i] <= TrackLife
Far(a, b, limit) == a - b > limit \/ b - a > limit
OneStep(from, to) == IF to > from THEN from + 1 ELSE IF to < from THEN from - 1 ELSE from

\* _set_arm_control_enabled(False)
Stopped(x) ==
  [x EXCEPT !.on = FALSE, !.arming = None, !.stopped = 0, !.wrist = None, !.origin = None,
            !.hand = None, !.last = None, !.goal = 0, !.told = FALSE,
            !.anchor = None, !.still = FALSE]
StoppedIf(x, stops) == IF stops THEN Stopped(x) ELSE x

MutantWristCounts(x) == x.wrist # None /\ x.stopped - x.wrist.receipt >= ReceiptGap
\* a wrist that was received, and measured, since the stop
WristCounts(x) ==
  /\ x.wrist # None
  /\ x.stopped - x.wrist.receipt >= ReceiptGap
  /\ x.stopped - x.wrist.stamp >= SourceGap
  /\ x.wrist.receipt <= PoseLife /\ x.wrist.stamp <= PoseLife

\* _capture; `fine` is the graph, TF and its agreement with the wrist
CaptureSucceeds(x, fine) == fine /\ XrFresh(x) /\ x.stopped >= StopWait /\ WristCounts(x)

\* _set_arm_control_enabled(True) with the hand at p
Armed(x, p, fine) ==
  CASE x.on -> x
    [] ~x.on /\ ~CaptureSucceeds(x, fine) -> [x EXCEPT !.told = FALSE]
    [] OTHER -> [x EXCEPT !.on = TRUE, !.arming = 0, !.origin = p, !.hand = p, !.last = p,
                          !.goal = 0, !.rated = FALSE, !.told = FALSE,
                          !.anchor = x.wrist.kind, !.still = FALSE]

MutantActivated(x) == [x EXCEPT !.arming = None, !.told = TRUE, !.still = TRUE]
MutantSettled(x) == TRUE
\* what has to pass before Cyclo is activated
Settled(x) == x.arming >= Settling
\* the activation, from where the hand is now
Activated(x) == [x EXCEPT !.arming = None, !.origin = x.hand, !.told = TRUE, !.still = TRUE]

\* _publish_synced_pose_frame_if_ready; `fine` includes that the wrist follows
\* its goal, within the workspace
Published(x, fine) ==
  CASE ~x.on \/ x.rated -> x
    [] x.on /\ ~x.rated /\ ~(fine /\ XrFresh(x)) -> Stopped(x)
    [] x.on /\ ~x.rated /\ fine /\ XrFresh(x) /\ x.arming # None ->
         [(IF Settled(x) THEN Activated(x) ELSE x) EXCEPT !.rated = TRUE]
    [] OTHER -> [x EXCEPT !.goal = OneStep(x.goal, x.hand - x.origin), !.last = x.hand,
                          !.rated = TRUE]

\* _update_arm_activation
Activation(x, chord, p, fine) ==
  LET fresh == XrFresh(x)
      ready == fresh /\ (chord = "none" \/ x.start)
      stops == (x.on /\ ~fresh) \/ (chord = "stop" /\ (x.chord # "stop" \/ x.on))
      starts == chord = "start" /\ ready /\ x.chord # "start"
      switched == IF starts THEN Armed(x, p, fine) ELSE StoppedIf(x, stops)
  IN [switched EXCEPT !.start = ready /\ chord # "stop" /\ ~starts, !.chord = chord]

\* the controllers of an event: `good` when both have a pose that has not jumped
Received(x, good, p) ==
  IF good
  THEN [x EXCEPT !.seen["hands"] = 0, !.hand = IF x.on THEN p ELSE None,
                 !.still = @ /\ p = x.hand]
  ELSE StoppedIf([x EXCEPT !.seen["hands"] = TrackLife + 1], x.on)

-----------------------------------------------------------------------------
(* The handlers.                                                           *)

\* what the topics make of the node's new fields: a change of /reactivate, and
\* the goals of a new arming
NodeBecomes(x) ==
  /\ xr' = x
  /\ cyclo' = LET new == x.on /\ ~xr.on IN
              [cyclo EXCEPT !.lag = IF x.told # xr.told THEN 0 ELSE @,
                            !.goals = IF new THEN "old" ELSE @,
                            !.sent = IF new THEN 0 ELSE @]

ControllersMove(chord, sane, p, fine) ==
  /\ LET good == sane /\ ~(xr.on /\ Far(p, xr.last, HandJump))
         x == Received(xr, good, p)
     IN NodeBecomes(Published(Activation(x, chord, p, fine), fine))
  /\ UNCHANGED <<xrTimer, wristWire>>

HeadMoves(sane) ==
  /\ NodeBecomes(LET x == [xr EXCEPT !.seen["head"] = IF sane THEN 0 ELSE TrackLife + 1]
                 IN StoppedIf(x, ~sane /\ xr.on))
  /\ UNCHANGED <<xrTimer, wristWire>>

JointStates(sane) ==
  /\ NodeBecomes([xr EXCEPT !.seen["joints"] = IF sane THEN 0 ELSE TrackLife + 1])
  /\ UNCHANGED <<xrTimer, wristWire>>

\* _check_arm_tracking_timeout
XrTimeout(fine) ==
  /\ xrTimer /\ xrTimer' = FALSE
  /\ LET fresh == XrFresh(xr)
         x == [StoppedIf(xr, ~fresh /\ xr.on) EXCEPT !.start = @ /\ fresh]
     IN NodeBecomes(Published(x, fine))
  /\ UNCHANGED wristWire

\* _reference_fault
ReferenceFault == xr.on /\ NodeBecomes(Stopped(xr)) /\ UNCHANGED <<xrTimer, wristWire>>

\* _robot_pose
RobotPose(sane) ==
  /\ wristWire # None
  /\ NodeBecomes([xr EXCEPT !.wrist =
       IF sane /\ wristWire.age <= PoseLife
       THEN [kind |-> wristWire.kind, receipt |-> 0, stamp |-> wristWire.age]
       ELSE None])
  /\ wristWire' = None /\ UNCHANGED xrTimer

-----------------------------------------------------------------------------
(* Cyclo and time.                                                         *)

CycloReports ==
  /\ wristWire' = [kind |-> IF cyclo.active THEN "commanded" ELSE "measured", age |-> 0]
  /\ UNCHANGED <<xr, xrTimer, cyclo>>

\* for a while after a change it may still do what it was told before
CycloSwitches ==
  /\ cyclo.lag <= Reaction /\ cyclo' = [cyclo EXCEPT !.active = ~@]
  /\ UNCHANGED <<xr, xrTimer, wristWire>>

GoalsArrive ==
  /\ cyclo.sent # None /\ cyclo' = [cyclo EXCEPT !.goals = "anchor", !.sent = None]
  /\ UNCHANGED <<xr, xrTimer, wristWire>>

Aged(age, cap) == IF age = None \/ age >= cap THEN age ELSE age + 1

OlderWrist(w) ==
  IF w = None THEN None
  ELSE [w EXCEPT !.receipt = Aged(@, PoseLife + 1), !.stamp = Aged(@, PoseLife + 1)]

\* the timer runs in each unit
XrTick ==
  /\ ~xrTimer /\ xrTimer' = TRUE
  /\ cyclo.lag >= Reaction => cyclo.active = xr.told
  /\ cyclo.sent # None => cyclo.sent < GoalDelay
  /\ xr' = [xr EXCEPT
       !.seen = [i \in Inputs |-> Aged(xr.seen[i], TrackLife + 1)],
       !.stopped = Aged(@, StopAges), !.arming = Aged(@, Settling), !.rated = FALSE,
       !.wrist = OlderWrist(@)]
  /\ cyclo' = [cyclo EXCEPT !.lag = Aged(@, Reaction + 1), !.sent = Aged(@, GoalDelay)]
  /\ wristWire' = IF wristWire = None THEN None
                  ELSE [wristWire EXCEPT !.age = Aged(@, PoseLife + 1)]

XrNext ==
  \/ \E chord \in {"none", "start", "stop"}, sane, fine \in BOOLEAN, p \in HandPlaces :
       ControllersMove(chord, sane, p, fine)
  \/ \E sane \in BOOLEAN : HeadMoves(sane) \/ JointStates(sane) \/ RobotPose(sane)
  \/ \E fine \in BOOLEAN : XrTimeout(fine)
  \/ ReferenceFault
  \/ CycloReports \/ CycloSwitches \/ GoalsArrive \/ XrTick

XrSpec == XrInit /\ [][XrNext]_xrVars
-----------------------------------------------------------------------------
XrTypeOK ==
  /\ xr.seen \in [Inputs -> 0 .. TrackLife + 1] /\ xr.stopped \in 0 .. StopAges
  /\ xr.on <=> xr.origin # None
  /\ xr.arming # None => xr.on
  /\ xr.told => xr.on

\* The arms start from where they are: the captured wrist was measured, never one
\* that Cyclo commanded before the stop, however late it came.
AnchorIsMeasured == xr.on => xr.anchor = "measured"

\* Cyclo is active in a session only with goals of that session.
CycloStartsAtAnchor == xr.told /\ cyclo.active => cyclo.goals = "anchor"

\* A hand that rests since the activation moves nothing, wherever it was between
\* the capture and the activation.
StillHandMovesNothing == xr.told /\ xr.still => xr.goal = 0
=============================================================================
