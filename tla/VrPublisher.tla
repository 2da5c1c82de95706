---------------------------- MODULE VrPublisher ----------------------------
(***************************************************************************)
(* VRTrajectoryPublisher of vr_publisher_sh5.py: the node every SH5 flavour *)
(* derives from.  Two threads work on it without a lock.  "ros" spins the   *)
(* node: odometry and the override /vr/reactivate.  "vuer" runs the asyncio *)
(* loop of the headset: hand events, which may toggle the session after a   *)
(* held gesture, and body events, which move arms, lift, base and head.     *)
(* Handlers of one thread never interleave with each other; the steps below *)
(* are the points between which the other thread's effects are visible.     *)
(*                                                                         *)
(* Geometry is one-dimensional: a camera place stands for position and yaw, *)
(* and the pose arithmetic of the arms is in ArmPoses.                      *)
(***************************************************************************)
EXTENDS PyNone, Integers

CONSTANTS
  Heights,       \* heights of the headset, in lift units
  Places,        \* horizontal places of the headset and of the robot
  Params,        \* launch parameters: records [lift, base, head]
  HoldTicks,     \* ticks the toggle gesture is held (gesture_hold_duration_sec)
  LiftSteps,     \* lift travel in one frame: max_lift_velocity * clamped dt
  BaseDeadzone,  \* error below which the base stands
  BaseMaxSpeed   \* bound of the commanded base speed

ASSUME VrAssumption ==
  /\ Heights \subseteq Int /\ Places \subseteq Int
  /\ None \notin Heights \cup Places \cup (0 .. HoldTicks) \cup [height : Int, place : Int]
  /\ Params \subseteq [lift : BOOLEAN, base : BOOLEAN, head : BOOLEAN]
  /\ HoldTicks \in Nat \ {0}
  /\ LiftSteps \subseteq Nat \ {0}
  /\ BaseDeadzone \in Nat /\ BaseMaxSpeed \in Nat \ {0}

VARIABLES
  params,      \* what the launch file enabled
  enabled,     \* vr_publishing_enabled
  call,        \* each thread's progress in _set_vr_publishing_enabled
  body,        \* progress of the body event on the vuer thread
  camHeight,   \* initial_camera_height
  camPlace,    \* initial_camera_position and _yaw, previous_camera_*
  odomRef,     \* initial_odom_position and _yaw
  odom,        \* current_odom
  gesture,     \* hold time and latch of the toggle gesture
  fingers,     \* start_poses_left/right: the finger filter has a past
  lift,        \* filtered_lift_position, the last lift goal published
  cmdVel,      \* the last Twist on /cmd_vel
  told,        \* the last Bool on /reactivate
  history      \* what happened; no guard reads it:
               \*   height, place  the frame that captured references last,
               \*   now            and whether it did since the flag last rose
               \*   over           what overlapped with the flag's last rise: a body
               \*                  event, or the other thread's switch
               \*   torn           a capture between the blocks of the last reset
               \*   raced          both threads switched at once, and none alone since
               \*   late           Twists since the flag was last cleared

vrVars == <<params, enabled, call, body, camHeight, camPlace, odomRef, odom,
          gesture, fingers, lift, cmdVel, told, history>>

session == <<enabled, call, told>>
refs == <<camHeight, camPlace, odomRef>>

Threads == {"ros", "vuer"}
Other(t) == IF t = "ros" THEN "vuer" ELSE "ros"
IdleCall == [at |-> "idle", to |-> FALSE, was |-> FALSE]
IdleBody == [at |-> "idle", height |-> None, place |-> None, apart |-> FALSE]

Dist(a, b) == IF a < b THEN b - a ELSE a - b
Clamp(x, bound) == IF x > bound THEN bound ELSE IF x < -bound THEN -bound ELSE x

VuerIdle == call["vuer"].at = "idle" /\ body.at = "idle"
Quiet == VuerIdle /\ call["ros"].at = "idle"

VrInit ==
  /\ params \in Params
  /\ enabled = FALSE
  /\ call = [t \in Threads |-> IdleCall]
  /\ body = IdleBody
  /\ camHeight = None /\ camPlace = None /\ odomRef = None /\ odom = None
  /\ gesture = [hold |-> None, latched |-> FALSE]
  /\ fingers = FALSE
  /\ lift = None
  /\ cmdVel = 0
  /\ told = None
  /\ history = [height |-> None, place |-> None, now |-> FALSE, over |-> "none",
                torn |-> FALSE, raced |-> FALSE, late |-> 0]

-----------------------------------------------------------------------------
(* The rclpy thread.                                                       *)

\* odom_callback
OdomCallback(o) ==
  /\ call["ros"].at = "idle"
  /\ odom' = o
  /\ UNCHANGED <<params, session, body, refs, gesture, fingers, lift, cmdVel, history>>

\* _set_vr_publishing_enabled is called
Begin(t, to) ==
  /\ call' = [call EXCEPT ![t] = [at |-> "read", to |-> to, was |-> FALSE]]
  /\ history' = [history EXCEPT !.raced = call[Other(t)].at # "idle"]

\* reactivate_callback
ReactivateCallback(to) ==
  /\ call["ros"].at = "idle"
  /\ Begin("ros", to)
  /\ UNCHANGED <<params, enabled, body, refs, odom, gesture, fingers, lift, cmdVel, told>>

-----------------------------------------------------------------------------
(* _set_vr_publishing_enabled and _publish_reactivate_state, on either     *)
(* thread: a read or a write of what both threads use is a step.           *)

Goto(t, at) == call' = [call EXCEPT ![t].at = at]

\* previous_state
ReadFlag(t) ==
  /\ call[t].at = "read"
  /\ call' = [call EXCEPT ![t].at = "write", ![t].was = enabled]
  /\ UNCHANGED <<params, enabled, body, refs, odom, gesture, fingers, lift, cmdVel, told, history>>

Rises(t) == call[t].to /\ ~enabled
\* what overlaps with this rise of the flag
Overlap ==
  IF history.raced THEN "switch" ELSE IF body.at # "idle" THEN "event" ELSE "none"

WriteFlag(t) ==
  /\ call[t].at = "write"
  /\ enabled' = call[t].to
  /\ Goto(t, "test")
  /\ body' = [body EXCEPT !.apart = @ /\ ~Rises(t)]
  /\ history' = [history EXCEPT !.now = @ /\ ~Rises(t),
                                !.over = IF Rises(t) THEN Overlap ELSE @,
                                !.late = IF call[t].to = enabled THEN @ ELSE 0]
  /\ UNCHANGED <<params, refs, odom, gesture, fingers, lift, cmdVel, told>>

MutantResets(t) == call[t].to /\ enabled
\* only on a rising edge, as far as this thread has seen it
Resets(t) == call[t].to /\ enabled /\ ~call[t].was

\* the flag is read again
TestFlag(t) ==
  /\ call[t].at = "test"
  /\ Goto(t, IF Resets(t) THEN "reset" ELSE "else")
  /\ UNCHANGED <<params, enabled, body, refs, odom, gesture, fingers, lift, cmdVel, told, history>>

\* and a third time
AfterElse == IF enabled THEN "tell" ELSE "zero"
ElseFlag(t) ==
  /\ call[t].at = "else"
  /\ Goto(t, AfterElse)
  /\ UNCHANGED <<params, enabled, body, refs, odom, gesture, fingers, lift, cmdVel, told, history>>

\* the finger filters and the first camera reference
ResetHeight(t) ==
  /\ call[t].at = "reset"
  /\ fingers' = FALSE
  /\ camHeight' = None
  /\ history' = [history EXCEPT !.height = None, !.place = None, !.torn = FALSE]
  /\ Goto(t, "rest")
  /\ UNCHANGED <<params, enabled, body, camPlace, odomRef, odom, gesture, lift, cmdVel, told>>

\* the other camera references, and the odometry as it is now
ResetRest(t) ==
  /\ call[t].at = "rest"
  /\ camPlace' = None
  /\ odomRef' = odom
  /\ Goto(t, "tell")
  /\ UNCHANGED <<params, enabled, body, camHeight, odom, gesture, fingers, lift, cmdVel, told,
                 history>>

\* _publish_zero_cmd_vel
PublishZero(t) ==
  /\ call[t].at = "zero"
  /\ cmdVel' = 0
  /\ Goto(t, "tell")
  /\ UNCHANGED <<params, enabled, body, refs, odom, gesture, fingers, lift, told, history>>

\* _publish_reactivate_state; a gesture latches behind it
Tell(t) ==
  /\ call[t].at = "tell"
  /\ told' = call[t].to
  /\ call' = [call EXCEPT ![t] = IdleCall]
  /\ gesture' = IF t = "vuer" THEN [gesture EXCEPT !.latched = TRUE] ELSE gesture
  /\ UNCHANGED <<params, enabled, body, refs, odom, fingers, lift, cmdVel, history>>

-----------------------------------------------------------------------------
(* HAND_MOVE: _update_gesture_toggle.                                      *)

\* no pinch-and-squeeze: forget the hold
GestureReleased ==
  /\ VuerIdle
  /\ gesture' = [hold |-> None, latched |-> FALSE]
  /\ UNCHANGED <<params, session, body, refs, odom, fingers, lift, cmdVel, history>>

\* the combination is seen again: start, count or wait behind the latch
GestureHeld ==
  /\ VuerIdle
  /\ gesture.hold # HoldTicks
  /\ gesture' = [gesture EXCEPT !.hold = IF @ = None THEN 0 ELSE @ + 1]
  /\ UNCHANGED <<params, session, body, refs, odom, fingers, lift, cmdVel, history>>

\* held long enough and not latched: the opposite of the flag read here
GestureToggle ==
  /\ VuerIdle
  /\ gesture.hold = HoldTicks
  /\ ~gesture.latched
  /\ Begin("vuer", ~enabled)
  /\ UNCHANGED <<params, enabled, body, refs, odom, gesture, fingers, lift, cmdVel, told>>

-----------------------------------------------------------------------------
(* BODY_MOVE: on_body_tracking_move, in the order of its blocks.           *)

\* the override's rise of the flag is followed by a reset that is not through
Rising ==
  call["ros"].to /\ ~call["ros"].was /\ call["ros"].at \in {"test", "reset", "rest"}

\* is_vr_publishing_active
Moves == enabled

\* inactive: zero finger trajectories only; no usable head: nothing moves
\* (get_body_joint_matrix_from_flat rejects a degenerate matrix)
BodyMove(h, p) ==
  /\ VuerIdle
  /\ Moves
  /\ body' = [at |-> "capture", height |-> h, place |-> p, apart |-> ~Rising]
  /\ history' = [history EXCEPT !.over = IF @ = "none" /\ Rising THEN "event" ELSE @]
  /\ UNCHANGED <<params, session, refs, odom, gesture, fingers, lift, cmdVel>>

\* the odometry is captured alone, when it is missing; the block that captures the
\* camera may be taken to end with it, whatever the other thread does in between
OdometryRef == IF odomRef = None THEN odom ELSE odomRef

\* "Set initial references": all of them when the height is missing
CaptureHeight ==
  /\ body.at = "capture"
  /\ camHeight = None
  /\ camHeight' = body.height
  /\ body' = [body EXCEPT !.at = "place"]
  /\ history' = [history EXCEPT !.height = body.height, !.place = body.place, !.now = TRUE,
                                !.torn = @ \/ call["ros"].at = "rest"]
  /\ UNCHANGED <<params, session, camPlace, odomRef, odom, gesture, fingers, lift, cmdVel>>

CapturePlace ==
  /\ body.at = "place"
  /\ camPlace' = body.place
  /\ odomRef' = OdometryRef
  /\ body' = [body EXCEPT !.at = "relate"]
  /\ UNCHANGED <<params, session, camHeight, odom, gesture, fingers, lift, cmdVel, history>>

CaptureNothing ==
  /\ body.at = "capture"
  /\ camHeight # None
  /\ odomRef' = OdometryRef
  /\ body' = [body EXCEPT !.at = "relate"]
  /\ UNCHANGED <<params, session, camHeight, camPlace, odom, gesture, fingers, lift, cmdVel,
                 history>>

\* relative height and place
Relate ==
  /\ body.at = "relate"
  /\ camHeight # None /\ camPlace # None
  /\ body' = [body EXCEPT !.at = "hands", !.height = @ - camHeight, !.place = @ - camPlace,
                           !.apart = FALSE]
  /\ UNCHANGED <<params, session, refs, odom, gesture, fingers, lift, cmdVel, history>>

\* arithmetic on a missing reference: the handler logs the TypeError and ends
RelateFails ==
  /\ body.at = "relate"
  /\ camHeight = None \/ camPlace = None
  /\ body' = IdleBody
  /\ UNCHANGED <<params, session, refs, odom, gesture, fingers, lift, cmdVel, history>>

\* lift: low pass (alpha .3), then at most one step towards the target
LiftGoal(relative, step) ==
  IF lift = None THEN relative
  ELSE lift + Clamp((3 * relative + 7 * lift) \div 10 - lift, step)

\* process_hand_joints and the lift
ProcessHands(step) ==
  /\ body.at = "hands"
  /\ \E tracked \in BOOLEAN : fingers' = (fingers \/ tracked)
  /\ lift' = IF params.lift THEN LiftGoal(body.height, step) ELSE lift
  /\ body' = [body EXCEPT !.at = "drive", !.height = None]
  /\ UNCHANGED <<params, session, refs, odom, gesture, cmdVel, history>>

\* vel_from_error
VelFromError(err) ==
  IF Dist(err, 0) <= BaseDeadzone THEN 0 ELSE Clamp(2 * err, BaseMaxSpeed)

\* base: P control of the headset's displacement against the robot's; the end of
\* the handler, which has only the head trajectory, elbows and shoulders left
Drive ==
  /\ body.at = "drive"
  /\ IF params.base /\ camPlace # None /\ odomRef # None /\ odom # None
     THEN /\ cmdVel' = VelFromError(body.place - (odom - odomRef))
          /\ history' = [history EXCEPT !.late = IF enabled THEN @ ELSE @ + 1]
     ELSE UNCHANGED <<cmdVel, history>>
  /\ body' = IdleBody
  /\ UNCHANGED <<params, session, refs, odom, gesture, fingers, lift>>

-----------------------------------------------------------------------------
SetSteps(t) ==
  \/ ReadFlag(t) \/ WriteFlag(t) \/ TestFlag(t) \/ ElseFlag(t)
  \/ ResetHeight(t) \/ ResetRest(t) \/ PublishZero(t) \/ Tell(t)

BodySteps ==
  \/ CaptureHeight \/ CapturePlace \/ CaptureNothing
  \/ Relate \/ RelateFails \/ (\E s \in LiftSteps : ProcessHands(s)) \/ Drive

BodyEvent(heights, places) == \E h \in heights, p \in places : BodyMove(h, p)

\* where the headset and the robot go
VrNext(heights, places, odometry) ==
  \/ \E o \in odometry : OdomCallback(o)
  \/ \E to \in BOOLEAN : ReactivateCallback(to)
  \/ \E t \in Threads : SetSteps(t)
  \/ GestureReleased \/ GestureHeld \/ GestureToggle
  \/ BodyEvent(heights, places)
  \/ BodySteps

VrSpec == VrInit /\ [][VrNext(Heights, Places, Places)]_vrVars

-----------------------------------------------------------------------------
LiftRange == {h1 - h2 : h1, h2 \in Heights}

VrTypeOK ==
  /\ params \in Params
  /\ enabled \in BOOLEAN
  /\ call \in [Threads -> [at : {"idle", "read", "write", "test", "else", "reset", "rest", "zero",
                                 "tell"},
                           to : BOOLEAN, was : BOOLEAN]]
  /\ body.at \in {"idle", "capture", "place", "relate", "hands", "drive"}
  /\ camHeight \in Heights \cup {None} /\ camPlace \in Places \cup {None}
  /\ odom \in Places \cup {None} /\ odomRef \in Places \cup {None}
  /\ gesture \in [hold : (0 .. HoldTicks) \cup {None}, latched : BOOLEAN]
  /\ fingers \in BOOLEAN
  /\ lift = None \/ \E a, b \in LiftRange : a <= lift /\ lift <= b
  /\ cmdVel \in -BaseMaxSpeed .. BaseMaxSpeed
  /\ told \in BOOLEAN \cup {None}

RelatesTo == body.at = "relate" /\ camHeight # None /\ camPlace # None

\* Whatever the other thread does meanwhile, a frame is related to references
\* that one frame has brought, never to the height of one and the place of another.
RefsOfOneFrame ==
  RelatesTo => camHeight = history.height /\ camPlace = history.place

\* A height reference without a place reference makes every body event fail until
\* the next reset, for the capture looks at the height alone.  It has one cause:
\* a body event captured references between the two blocks of the last reset.
\* The code permits that; a reset that runs alone ends it.
TornByCapture ==
  (camHeight # None /\ camPlace = None /\ body.at # "place") => history.torn

\* A frame from before a pause is never what a later one is related to, but for
\* body events that begin or are under way between the override's write of the flag
\* and the end of its reset: these may relate to the old references, and move lift
\* and base by what the operator walked in the pause.
\* (A switch by both threads at once may interrupt a session without a reset.)
OldRefsWhileRising ==
  (RelatesTo /\ history.over # "switch" /\ body.apart) => history.now

\* An enabling that overlaps with nothing starts afresh: no frame fails, each is
\* related to the first one that came after it, whose fingers are not blended with
\* those from before the pause.
FreshStart ==
  /\ (body.at = "relate" /\ history.over = "none")
       => history.now /\ camHeight # None /\ camPlace # None
  /\ (body.at = "place" /\ history.over = "none") => ~fingers

\* When the session is off the base has been told to stand, and after that at most
\* one Twist is sent, by the body event that was under way on the other thread.
BaseStands ==
  /\ history.late <= 1
  /\ (Quiet /\ ~enabled /\ history.late = 0) => cmdVel = 0

\* The arm controller was last told what the publisher does now, unless both
\* threads switched at once and neither alone since.
ToldTruth ==
  (call["ros"].at = "idle" /\ call["vuer"].at = "idle" /\ ~history.raced /\ told # None)
    => told = enabled

\* The lift goal never moves by more than the largest step of one frame, not
\* even across a pause and a new height reference.
LiftNeverJumps ==
  [][(lift # None) => \E s \in LiftSteps : Dist(lift, lift') <= s]_vrVars
=============================================================================
