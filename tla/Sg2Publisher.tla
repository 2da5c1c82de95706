---------------------------- MODULE Sg2Publisher ----------------------------
(***************************************************************************)
(* VRTrajectoryPublisher of vr_publisher_sg2.py with two hand controllers.  *)
(* "vuer" handles body and controller events one after the other; "ros"     *)
(* runs the tracking timer.  arm_activation_lock makes the timer atomic     *)
(* against the buttons, but the six poses of a frame are published outside  *)
(* of it: each pose looks at the latch again before it is sent.             *)
(*                                                                         *)
(* A controller is None when its state is missing, else a record            *)
(*   [a, b, click, pose : BOOLEAN, push : -1 .. 1]                          *)
(* of buttons, a usable pose matrix and the stick (0 in the deadzone).      *)
(***************************************************************************)
EXTENDS PyNone, Integers, Sequences

CONSTANTS
  Timeout,      \* arm_tracking_timeout_sec in periods of the timer
  Lost,         \* sets of body joints whose matrix may be degenerate
  LiftHeights,  \* measured lift positions
  LiftGoals     \* bound: the goals the operator jogs through

ASSUME Sg2Assumption ==
  Timeout \in Nat /\ LiftHeights \subseteq Int /\ LiftGoals \subseteq Int

Arms == {"left", "right"}
Sources == Arms \cup {"body"}
PoseKeys == <<<<"wrist", "left">>, <<"wrist", "right">>, <<"elbow", "left">>, <<"elbow", "right">>,
              <<"shoulder", "left">>, <<"shoulder", "right">>>>

VARIABLES
  armsOn,     \* arm_control_enabled
  startArmed, \* arm_start_armed
  chords,     \* both_a_buttons_pressed_prev, both_b_buttons_pressed_prev
  ages,       \* last_body_pose_sec, last_controller_pose_sec
  pending,    \* pending_body_pose_frame, pending_controller_pose_frame
  lost,       \* the elbow and shoulder matrices that are None
  todo,       \* the pose keys a frame under way has still to look at
  sending,    \* the first of them has passed its checks
  timerDue,   \* the timer has not run in this period
  armTold,    \* last_reactivate_state
  letGo,      \* history: X and A were seen up since the last stop or start
  late,       \* history: poses sent since the arms were switched off
  new         \* history: sources heard of since the last frame or start

joyVars == <<armsOn, startArmed, chords, ages, pending, lost, todo, sending, timerDue, armTold,
             letGo, late, new>>

VARIABLES
  joystick,   \* joystick_mode: the left stick moves the head, not the base
  clicks,     \* prev_left_thumbstick_pressed, prev_right_...
  twist,      \* last_cmd_vel_command, the last Twist
  liftGoal,   \* last_lift_command
  liftAt,     \* lift_joint_current_position
  jogged      \* the lift was jogged within the last control_min_period

stickVars == <<joystick, clicks, twist, liftGoal, liftAt, jogged>>
sgVars == <<joyVars, stickVars>>

SgInit ==
  /\ armsOn = FALSE /\ startArmed = FALSE
  /\ chords = [a |-> FALSE, b |-> FALSE]
  /\ ages = [s \in Sources |-> None]
  /\ pending = {} /\ lost = {}
  /\ todo = <<>> /\ sending = FALSE
  /\ timerDue = TRUE
  /\ armTold = None
  /\ letGo = FALSE /\ late = 0 /\ new = {}
  /\ joystick = TRUE /\ clicks = {}
  /\ twist = 0 /\ liftGoal = None /\ liftAt = 0 /\ jogged = FALSE

-----------------------------------------------------------------------------
(* Tracking and the latch.                                                 *)

MutantFresh(at) == at["body"] \in 0 .. Timeout

\* _arm_tracking_is_fresh
Fresh(at) == \A s \in Sources : at[s] \in 0 .. Timeout

\* can_publish_goal_pose (vr_publishing_enabled stays True here)
CanPublish(on, at) == on /\ Fresh(at)

\* _publish_reactivate
MutantToldAfter(starts, stops) == IF starts THEN TRUE ELSE armTold
ToldAfter(starts, stops) == IF starts THEN TRUE ELSE IF stops THEN FALSE ELSE armTold

MutantStartFrame(on, at, waiting) ==
  LET ready == CanPublish(on, at) /\ waiting = {"body", "controllers"}
  IN /\ pending' = waiting
     /\ todo' = IF ready THEN PoseKeys ELSE <<>>

\* _publish_synced_pose_frame_if_ready up to the first pose
StartFrame(on, at, waiting) ==
  LET ready == CanPublish(on, at) /\ waiting = {"body", "controllers"}
  IN /\ pending' = IF CanPublish(on, at) THEN waiting ELSE {}
     /\ todo' = IF ready THEN PoseKeys ELSE <<>>

\* time: the timer runs once in each of its periods, and after a timeout
\* more time changes nothing
SgTick ==
  /\ ~timerDue
  /\ timerDue' = TRUE /\ jogged' = FALSE
  /\ ages' = [s \in Sources |-> IF ages[s] \in 0 .. Timeout + 1 THEN ages[s] + 1 ELSE ages[s]]
  /\ letGo' = (letGo /\ \A s \in Sources : ages'[s] # Timeout + 2)
  /\ UNCHANGED <<armsOn, startArmed, chords, pending, lost, todo, sending, armTold, late, new,
                 joystick, clicks, twist, liftGoal, liftAt>>

\* _check_arm_tracking_timeout
TrackingTimer ==
  /\ timerDue /\ timerDue' = FALSE
  /\ IF Fresh(ages)
     THEN UNCHANGED <<startArmed, armsOn, pending, armTold, late>>
     ELSE /\ startArmed' = FALSE /\ armsOn' = FALSE
          /\ pending' = IF armsOn THEN {} ELSE pending
          /\ armTold' = ToldAfter(FALSE, armsOn)
          /\ late' = IF armsOn THEN 0 ELSE late
  /\ UNCHANGED <<chords, ages, lost, todo, sending, letGo, new, stickVars>>

-----------------------------------------------------------------------------
(* The sticks: process_thumbstick.                                         *)

Push(c) == IF c = None THEN 0 ELSE c.push
Clicked(l, r) == {s \in Arms : LET c == IF s = "left" THEN l ELSE r IN c # None /\ c.click}

\* both pressed, and not both before: the mode changes
ModeAfter(l, r) ==
  IF Clicked(l, r) = Arms /\ clicks # Arms THEN ~joystick ELSE joystick

MutantTwistAfter(l, r) == IF ~ModeAfter(l, r) THEN Push(l) ELSE twist

\* publish_cmd_vel_from_thumbstick; entering joystick mode stops the base
TwistAfter(l, r) ==
  CASE ~ModeAfter(l, r) -> Push(l)
    [] ModeAfter(l, r) /\ ~joystick -> 0
    [] OTHER -> twist

\* publish_right_joystick: on from the last goal, else from the measurement
LiftAfter(r) ==
  IF Push(r) = 0 \/ jogged THEN liftGoal
  ELSE (IF liftGoal = None THEN liftAt ELSE liftGoal) + Push(r)

Thumbsticks(l, r) ==
  /\ LiftAfter(r) \in LiftGoals \cup {None}   \* the code has no bound
  /\ joystick' = ModeAfter(l, r)
  /\ clicks' = Clicked(l, r)
  /\ twist' = TwistAfter(l, r)
  /\ liftGoal' = LiftAfter(r)
  /\ jogged' = (jogged \/ Push(r) # 0)
  /\ UNCHANGED liftAt

\* joint_states_callback
LiftMeasured(h) ==
  /\ liftAt' = h
  /\ UNCHANGED <<joyVars, joystick, clicks, twist, liftGoal, jogged>>

-----------------------------------------------------------------------------
(* The vuer thread.                                                        *)

VuerFree == todo = <<>>

BothA(l, r) == l # None /\ r # None /\ l.a /\ r.a
BothB(l, r) == l # None /\ r # None /\ l.b /\ r.b
Hands(l, r) == l # None /\ r # None /\ ~l.a /\ ~r.a

\* the poses of a controller event
Seen(l, r) == {s \in Arms : LET c == IF s = "left" THEN l ELSE r IN c # None /\ c.pose}
AgesAfter(seen) == [s \in Sources |-> IF s \in seen THEN 0 ELSE ages[s]]

\* _update_arm_activation with the ages `at`: its outcome
MutantMayStart(l, r, at) == Fresh(at)
MayStart(l, r, at) == Fresh(at) /\ (startArmed \/ Hands(l, r))
Starts(l, r, at) == ~BothB(l, r) /\ MayStart(l, r, at) /\ BothA(l, r) /\ ~chords.a
Stops(l, r, at) ==
  \/ ~Fresh(at) /\ armsOn
  \/ BothB(l, r) /\ (~chords.b \/ armsOn)
OnAfter(l, r, at) == Starts(l, r, at) \/ (armsOn /\ ~Stops(l, r, at))

\* on_controller_move: sticks, poses, buttons, publication
ControllerMove(l, r) ==
  /\ VuerFree
  /\ Thumbsticks(l, r)
  /\ LET seen == Seen(l, r)
         at == AgesAfter(seen)
         starts == Starts(l, r, at)
         stops == Stops(l, r, at)
         waiting == IF stops THEN {} ELSE pending
     IN /\ ages' = at
        /\ armsOn' = OnAfter(l, r, at)
        /\ startArmed' = (MayStart(l, r, at) /\ ~BothB(l, r) /\ ~starts)
        /\ armTold' = ToldAfter(starts, stops)
        /\ chords' = [a |-> BothA(l, r), b |-> BothB(l, r)]
        /\ IF seen # {}
           THEN StartFrame(armsOn', at, waiting \cup {"controllers"})
           ELSE pending' = waiting /\ UNCHANGED todo
        /\ letGo' = IF starts \/ BothB(l, r) THEN FALSE ELSE letGo \/ Hands(l, r)
        /\ late' = IF stops THEN 0 ELSE late
        /\ new' = (IF starts /\ ~armsOn THEN {} ELSE new) \cup (IF seen # {} THEN {"controllers"} ELSE {})
  /\ UNCHANGED <<lost, sending, timerDue>>

\* on_body_tracking_move: a missing joint ends it before the frame counts
SgBodyMove(missing) ==
  /\ VuerFree
  /\ lost' = missing
  /\ IF missing # {}
     THEN UNCHANGED <<ages, pending, todo, new>>
     ELSE /\ ages' = AgesAfter({"body"})
          /\ StartFrame(armsOn, ages', pending \cup {"body"})
          /\ new' = new \cup {"body"}
  /\ UNCHANGED <<armsOn, startArmed, chords, sending, timerDue, armTold, letGo, late, stickVars>>

\* the end of the frame
FrameGoesOn(rest) ==
  /\ todo' = rest /\ sending' = FALSE
  /\ pending' = IF rest = <<>> THEN {} ELSE pending
  /\ new' = IF rest = <<>> THEN {} ELSE new

\* _publish_wrist_pose_from_matrix and its siblings: early returns
MutantPoseSkipped(key) == key \in lost
PoseSkipped(key) == key \in lost \/ ~CanPublish(armsOn, ages)

\* whether pose_min_period is over for a pair is left open: its clock is not the
\* timer's, and a frame reads it once.  A single pose is skipped when its joint is
\* lost or the arms are off.
CheckPose ==
  /\ todo # <<>> /\ ~sending
  /\ LET key == Head(todo)
     IN \/ key[2] = "left" /\ FrameGoesOn(SubSeq(todo, 3, Len(todo)))
        \/ PoseSkipped(key) /\ FrameGoesOn(Tail(todo))
        \/ ~PoseSkipped(key) /\ sending' = TRUE /\ UNCHANGED <<todo, pending, new>>
  /\ UNCHANGED <<armsOn, startArmed, chords, ages, lost, timerDue, armTold, letGo, late, stickVars>>

SendPose ==
  /\ sending
  /\ late' = IF armsOn THEN late ELSE late + 1
  /\ FrameGoesOn(Tail(todo))
  /\ UNCHANGED <<armsOn, startArmed, chords, ages, lost, timerDue, armTold, letGo, stickVars>>

SgNext(controllers) ==
  \/ SgTick \/ TrackingTimer
  \/ \E l, r \in controllers : ControllerMove(l, r)
  \/ \E missing \in Lost : SgBodyMove(missing)
  \/ CheckPose \/ SendPose
  \/ \E h \in LiftHeights : LiftMeasured(h)

\* all a controller can say
Controllers ==
  [a : BOOLEAN, b : BOOLEAN, click : BOOLEAN, pose : BOOLEAN, push : -1 .. 1] \cup {None}
SgSpec == SgInit /\ [][SgNext(Controllers)]_sgVars

-----------------------------------------------------------------------------
SgTypeOK ==
  /\ armsOn \in BOOLEAN /\ startArmed \in BOOLEAN /\ chords \in [a : BOOLEAN, b : BOOLEAN]
  /\ ages \in [Sources -> (0 .. Timeout + 2) \cup {None}]
  /\ pending \subseteq {"body", "controllers"}
  /\ sending \in BOOLEAN /\ (sending => todo # <<>>)
  /\ armTold \in BOOLEAN \cup {None} /\ (armTold # None => armTold = armsOn)
  /\ joystick \in BOOLEAN /\ clicks \subseteq Arms
  /\ twist \in -1 .. 1 /\ liftGoal \in Int \cup {None} /\ liftAt \in Int

\* "Tracking loss stops arm teleop": no source is silent for longer than the
\* timeout and one period of the timer while the arms are on.
LossDisarms == armsOn => \A s \in Sources : ages[s] \in 0 .. Timeout + 1

\* "requires releasing X/A before starting again": the arms start only after
\* both controllers were seen with X and A up, since the last stop, start and
\* loss of tracking, whatever drops out in between.
StartAfterRelease == [][(~armsOn /\ armsOn') => letGo]_sgVars

\* The timer may stop the arms in the middle of a frame; then at most the one
\* pose that had passed its checks still goes out.
OneLatePose == late <= 1

\* A frame is made of a body and a controller event that both came after the
\* arms were started and after the frame before.
FramesAreNew == sending => new = {"body", "controllers"}

\* "Ensure base stops when leaving cmd_vel mode": the base is never left
\* driving while the left stick moves the head.
HeadModeStandsBase == joystick => twist = 0
=============================================================================
