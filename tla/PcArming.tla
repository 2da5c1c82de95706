------------------------------ MODULE PcArming ------------------------------
(***************************************************************************)
(* HardwareXRPublisher, the PC process that turns Quest tracking into the  *)
(* wrist goals of Cyclo: the arming session from X+A to Y+B, the stationary *)
(* startup, the holds over tracking and feedback gaps, the fault latch and *)
(* the reset that the operator requests from the robot's gate.             *)
(*                                                                         *)
(* Two threads share the node.  The Vuer thread runs a controller event    *)
(* from end to end under _xr_lock; the rclpy thread takes the lock for its *)
(* timer and inside _set_arm_control_enabled, but runs the gate callbacks  *)
(* around it without the lock.  vuer and ros are their program counters,   *)
(* and Preempt says whether a Vuer event may run between two statements of *)
(* an rclpy callback, or between the answer to a request and its done      *)
(* callback.  No time passes inside a callback.                            *)
(*                                                                         *)
(* Time is kept as ages that saturate at MaxAge.  WAIT_START is not        *)
(* modelled: with REZERO_ON_READY the startup never enters it.             *)
(***************************************************************************)
EXTENDS Integers, FiniteSets

CONSTANTS
  Sides,         \* SIDES: the arms whose commands the startup waits for
  GateReports,   \* what a gate status may say, a subset of GateStates
  Preempt,       \* the Vuer thread may interrupt an rclpy callback
  Resets,        \* the gate's reset service is ready
  Settle,        \* SETTLING_SECONDS
  Delay,         \* CONTROLLER_ACTIVATION_DELAY
  Hold,          \* WARMUP_HOLD_SECONDS
  Startup,       \* 10 s to see both arm commands of a warmup
  ResetLimit,    \* 3 s for a reset to be answered and confirmed
  Fresh,         \* FEEDBACK_MAX_AGE = ARM_TRACKING_TIMEOUT = 5
  Grace          \* TRACKING_GRACE_SECONDS = 50

\* fault; feedback_waiting with fresh or with stale readings; stale readings
\* of a gate that does not wait; none of these.
GateStates == {"good", "waiting", "late", "unready", "fault"}

ASSUME DurationAssumption ==
  /\ Settle \in Nat /\ Delay \in Nat /\ Hold \in Nat /\ Startup \in Nat
  /\ ResetLimit \in Nat /\ Fresh \in Nat /\ Grace \in Nat
  /\ Settle <= Startup /\ Delay <= Startup
  /\ Fresh <= Grace

ASSUME SettingAssumption ==
  /\ Sides # {}
  /\ GateReports \subseteq GateStates
  /\ Preempt \in BOOLEAN /\ Resets \in BOOLEAN

MaxAge == Grace + 1
Age == 0 .. MaxAge

Phases == {"WAIT_CALIBRATION", "ALIGN_REQUIRED", "CONTROLLER_FAULT",
           "RESUME_SEED", "SETTLING", "WARMUP", "ACTIVE"}

\* Buttons of a controller event: neither A, one A, both (X+A), Y+B, all four.
Buttons == {"released", "one", "XA", "YB", "XAYB"}

VARIABLES
  vuer,             \* Vuer thread: idle, or in an event, before its publication
  ros,              \* rclpy thread: idle, or the next statement of a callback
  arm_control_enabled, phase,
  session,          \* _session: a calibration has been captured
  bridge,           \* _resume_bridge_targets is set
  phase_age,        \* since SETTLING began, then since _enable_at
  latched,          \* _controller_fault_latched
  fault_reason,     \* _gate_fault_reason
  arm_start_armed, both_a_prev, both_b_prev,
  tracking_age,     \* oldest of the head and the two controller samples
  joint_age,        \* _joint_rx
  gate_state, gate_age,
  commanded,        \* _command_rx: the sides heard since the last stop
  command_age,      \* the oldest of their commands
  first_command,    \* _first_command_rx
  first_age,        \* since the last side joined it
  post_stop,        \* the robot was seen standing still after the last stop
  reset_future,     \* _fault_reset_future: none, open, or its answer was taken
  reset_wait, reset_started, reset_age,
  status_only,      \* _fault_status_only
  world_ok,         \* environment: writers, profile, model, TF and poses fit
  cyclo_active,     \* observed: the last Bool sent on the reactivate topic
  moved,            \* observed: the last frame sent followed the hands
  stop_stands       \* observed: Y+B was pressed, and no X+A since

threadVars  == <<vuer, ros>>
buttonVars  == <<arm_start_armed, both_a_prev, both_b_prev>>
startupVars == <<phase_age, first_command, first_age>>
commandVars == <<commanded, command_age>>
robotVars   == <<joint_age, gate_state, gate_age, world_ok>>
faultVars   == <<latched, fault_reason>>
resetVars   == <<reset_future, reset_wait, reset_started>>
resetFrame  == <<reset_age, status_only>>
\* What _set_arm_control_enabled and the publication write under the lock.
armVars     == <<arm_control_enabled, phase, session, arm_start_armed,
                 startupVars, commandVars, post_stop, cyclo_active, moved>>
\* What the hardware class writes after the lock is released.
tailVars    == <<bridge, resetVars>>
vars == <<threadVars, armVars, tailVars, faultVars, both_a_prev, both_b_prev,
          tracking_age, robotVars, resetFrame, stop_stands>>

TypeOK ==
  /\ vuer \in {"idle", "publish"}
  /\ ros \in {"idle", "stop", "tail", "answered", "accepted", "refused",
              "unlatch", "phase", "enable", "seed", "timer", "expiry"}
  /\ reset_future \in {"none", "open", "answered"}
  /\ {arm_control_enabled, session, bridge, latched, arm_start_armed,
      both_a_prev, both_b_prev, post_stop, reset_wait,
      reset_started, status_only, world_ok, cyclo_active, moved,
      stop_stands} \subseteq BOOLEAN
  /\ phase \in Phases
  /\ fault_reason \in {"none", "bool", "status"}
  /\ gate_state \in GateReports \cup {"none"}
  /\ {tracking_age, joint_age, gate_age, command_age} \subseteq Age
  /\ phase_age \in 0 .. Startup + 1 /\ first_age \in 0 .. Hold
  /\ reset_age \in 0 .. ResetLimit + 1
  /\ commanded \subseteq Sides /\ first_command \subseteq Sides

Init ==
  /\ vuer = "idle" /\ ros = "idle"
  /\ arm_control_enabled = FALSE /\ phase = "WAIT_CALIBRATION"
  /\ session = FALSE /\ bridge = FALSE /\ phase_age = 0
  /\ latched = FALSE /\ fault_reason = "none"
  /\ arm_start_armed = FALSE /\ both_a_prev = FALSE /\ both_b_prev = FALSE
  /\ tracking_age = MaxAge /\ joint_age = MaxAge
  /\ gate_state = "none" /\ gate_age = MaxAge
  /\ commanded = {} /\ command_age = 0
  /\ first_command = {} /\ first_age = 0 /\ post_stop = FALSE
  /\ reset_future = "none" /\ reset_wait = FALSE /\ reset_started = FALSE
  /\ reset_age = 0 /\ status_only = FALSE
  /\ world_ok \in BOOLEAN
  /\ cyclo_active = FALSE /\ moved = FALSE /\ stop_stands = FALSE

-----------------------------------------------------------------------------
(* Helpers. *)

\* Wrong variants, each used once to show that a run can see the difference,
\* stand before the definition they replace and are named Mutant...

MutantSaturating(age, limit) == IF age <= limit + 1 THEN age + 1 ELSE age
Saturating(age, limit) == IF age <= limit THEN age + 1 ELSE age

\* One thread holds the lock between the two halves of its locked section.
LockFree == vuer = "idle" /\ ros # "timer"
VuerMayRun == LockFree /\ (Preempt \/ ros = "idle")
RosMayRun == Preempt \/ vuer = "idle"
RosMayLock == LockFree

Active == arm_control_enabled /\ phase = "ACTIVE"

\* The grace period belongs to an ACTIVE session, never to arming.
Limit == IF Active THEN Grace ELSE Fresh

TrackingState(age) ==
  IF age <= Fresh THEN "fresh" ELSE IF age <= Grace THEN "waiting" ELSE "expired"

ArmFresh(age) == age <= Limit /\ joint_age <= Limit

\* _feedback_input_state: the oldest of the joints, both commands and the gate.
FeedbackAges ==
  {joint_age, command_age} \cup (IF gate_state = "none" THEN {} ELSE {gate_age})
FeedbackState ==
  IF commanded # Sides \/ \E age \in FeedbackAges : age > Grace THEN "expired"
  ELSE IF \/ \E age \in FeedbackAges : age > Fresh
          \/ gate_state \in {"waiting", "late"}
       THEN "waiting" ELSE "fresh"

\* _graph_check: stale readings of the gate are excused while an ACTIVE
\* session waits for feedback.
GraphOk ==
  /\ world_ok
  /\ gate_state \notin {"none", "fault"}
  /\ gate_age <= Limit
  /\ gate_state \in {"late", "unready"} => Active /\ FeedbackState = "waiting"

\* _set_arm_control_enabled(False): the locked part, then the part that an
\* rclpy callback runs after releasing the lock.  Cancelling an open request
\* withdraws it; one whose answer was taken still gets its done callback.
MutantReactivateAtStop == cyclo_active
ReactivateAtStop == FALSE

DisableLocked ==
  /\ arm_control_enabled' = FALSE
  /\ phase' = IF latched THEN "CONTROLLER_FAULT"
              ELSE IF session THEN "ALIGN_REQUIRED" ELSE "WAIT_CALIBRATION"
  /\ cyclo_active' = ReactivateAtStop
  /\ commanded' = {} /\ first_command' = {}
  /\ command_age' = 0 /\ phase_age' = 0 /\ first_age' = 0
  /\ post_stop' = FALSE
  /\ arm_start_armed' = FALSE
  /\ moved' = FALSE
  /\ UNCHANGED session

MutantDisableTail == bridge' = FALSE /\ UNCHANGED resetVars
DisableTail ==
  /\ bridge' = FALSE
  /\ reset_future' = "none" /\ reset_wait' = FALSE /\ reset_started' = FALSE

Disable == DisableLocked /\ DisableTail

\* _capture: every precondition of an arming.
MutantCaptureAllowed(age) == GraphOk /\ ~latched /\ ArmFresh(age)
CaptureAllowed(age) == GraphOk /\ ~latched /\ ArmFresh(age) /\ post_stop

\* The goals of an earlier session may be far from the measured wrists.
Enable ==
  /\ arm_control_enabled' = TRUE /\ session' = TRUE
  /\ bridge' \in {FALSE, session}
  /\ phase_age' = 0
  /\ cyclo_active' = FALSE
  /\ UNCHANGED <<commandVars, first_command, first_age, post_stop, moved,
                 resetVars>>

-----------------------------------------------------------------------------
(* The publication step, run under the lock by a controller event and by the *)
(* timer.  Five classes override it; the first layer whose condition holds   *)
(* does the work.                                                            *)

NothingSent == UNCHANGED <<armVars, bridge, resetVars>>

MutantGap ==
  /\ Active
  /\ TrackingState(tracking_age) # "fresh"
Gap ==
  /\ Active
  /\ TrackingState(tracking_age) # "fresh" \/ FeedbackState # "fresh"

\* _hold_for_tracking_gap: keep the goals, or stop when the wait is over.
MutantGapTolerable ==
  /\ ArmFresh(tracking_age) /\ FeedbackState = "fresh" /\ GraphOk
GapTolerable ==
  /\ ArmFresh(tracking_age) /\ FeedbackState # "expired" /\ GraphOk

PublishGap ==
  /\ Gap
  /\ \/ /\ GapTolerable
        /\ moved' = FALSE
        /\ UNCHANGED <<arm_control_enabled, phase, session, arm_start_armed,
                       startupVars, commandVars, post_stop, cyclo_active,
                       bridge, resetVars>>
     \/ ~GapTolerable /\ Disable

\* The bridge is recognised by its targets, not by the phase.
MutantBridging == bridge /\ phase = "RESUME_SEED"
Bridging == bridge

\* The goals approach the measured wrists while Cyclo and the gate are off.
PublishSeed ==
  /\ ~Gap /\ arm_control_enabled /\ Bridging
  /\ \/ /\ ArmFresh(tracking_age) /\ GraphOk
        /\ \/ NothingSent
           \/ /\ bridge' = FALSE
              /\ phase' = "SETTLING" /\ phase_age' = 0
              /\ UNCHANGED <<arm_control_enabled, session, arm_start_armed,
                             commandVars, first_command, first_age, post_stop,
                             cyclo_active, moved, resetVars>>
     \/ ~(ArmFresh(tracking_age) /\ GraphOk) /\ Disable

\* Only sides that have answered the warmup can be late in it, and the oldest
\* command may be of the other side.
LateAnswers ==
  IF phase # "WARMUP" \/ first_command = {} \/ command_age <= Fresh THEN {FALSE}
  ELSE IF first_command = commanded THEN {TRUE} ELSE BOOLEAN

\* What stops a stationary startup.
StartupRefused(late) ==
  \/ latched \/ ~ArmFresh(tracking_age) \/ ~GraphOk \/ late
  \/ phase = "WARMUP" /\ first_command # Sides /\ phase_age > Startup

MutantWarm == first_command # {} /\ first_age >= Hold
Warm == first_command = Sides /\ first_age >= Hold

\* Held goals; SETTLING ends by activating Cyclo, WARMUP by zeroing the hands.
StartupProceeds ==
  /\ moved' = FALSE
  /\ \/ /\ phase = "SETTLING" /\ phase_age >= Settle
        /\ phase' = "WARMUP" /\ phase_age' = 0
        /\ first_command' = {} /\ cyclo_active' = TRUE
        /\ UNCHANGED first_age
     \/ /\ phase = "WARMUP" /\ Warm
        /\ phase' = "ACTIVE"
        /\ UNCHANGED <<startupVars, cyclo_active>>
     \/ /\ ~(phase = "SETTLING" /\ phase_age >= Settle)
        /\ ~(phase = "WARMUP" /\ Warm)
        /\ UNCHANGED <<phase, startupVars, cyclo_active>>
  /\ UNCHANGED <<arm_control_enabled, session, arm_start_armed, commandVars,
                 post_stop, bridge, resetVars>>

PublishStartup ==
  /\ arm_control_enabled /\ ~Bridging /\ phase \in {"SETTLING", "WARMUP"}
  /\ \E late \in LateAnswers :
       \/ ~StartupRefused(late) /\ StartupProceeds
       \/ StartupRefused(late) /\ Disable

\* The frame that follows the hands.  Any other phase of an enabled session
\* falls through to the same frame of the resume publisher.
FollowRefused ==
  \/ phase = "ACTIVE" /\ latched
  \/ ~ArmFresh(tracking_age) \/ ~GraphOk
  \/ commanded # Sides \/ command_age > Fresh

PublishFollow ==
  /\ ~Gap /\ arm_control_enabled /\ ~Bridging
  /\ phase \notin {"SETTLING", "WARMUP"}
  /\ \/ /\ ~FollowRefused
        /\ moved' = TRUE
        /\ UNCHANGED <<arm_control_enabled, phase, session, arm_start_armed,
                       startupVars, commandVars, post_stop, cyclo_active,
                       bridge, resetVars>>
     \/ FollowRefused /\ Disable

\* Less than 1/30 s after the last frame only a gap is looked at.
Publish ==
  \/ PublishGap \/ PublishSeed \/ PublishStartup \/ PublishFollow
  \/ ~Gap /\ NothingSent

-----------------------------------------------------------------------------
(* Vuer thread. *)

\* _request_fault_reset: one request at a time.  A request between an answer
\* and its done callback, which would forget it, is left out.
MayRequest == Resets /\ reset_future = "none" /\ ~reset_wait
RequestReset ==
  \/ /\ MayRequest
     /\ ros # "answered"
     /\ reset_future' = "open" /\ reset_started' = TRUE /\ reset_age' = 0
     /\ UNCHANGED <<reset_wait, status_only>>
  \/ /\ ~MayRequest
     /\ UNCHANGED <<resetVars, resetFrame>>

\* _set_arm_control_enabled(True) of a controller event with this tracking age.
Start(age) ==
  /\ arm_start_armed' = FALSE
  /\ \/ /\ latched /\ RequestReset
        /\ UNCHANGED <<arm_control_enabled, phase, session, startupVars,
                       commandVars, post_stop, cyclo_active, moved,
                       bridge>>
     \/ /\ ~latched /\ arm_control_enabled
        /\ UNCHANGED <<arm_control_enabled, phase, session, startupVars,
                       commandVars, post_stop, cyclo_active, moved, tailVars,
                       resetFrame>>
     \/ /\ ~latched /\ ~arm_control_enabled /\ CaptureAllowed(age)
        /\ Enable
        /\ phase' = IF bridge' THEN "RESUME_SEED" ELSE "SETTLING"
        /\ UNCHANGED resetFrame
     \/ /\ ~latched /\ ~arm_control_enabled /\ ~CaptureAllowed(age)
        /\ Disable /\ UNCHANGED resetFrame

StartChord(b) == b = "XA"

\* Both A buttons have to be seen released before X+A counts again.
Rearm(b) == arm_start_armed \/ b = "released"

\* on_controller_move with _update_arm_activation.  A sample that is invalid
\* or that jumps counts as lost tracking; a valid one cannot make the oldest
\* of the three samples older.
ControllerMove(b, valid, age) ==
  LET both_a == b \in {"XA", "XAYB"}
      both_b == b \in {"YB", "XAYB"}
      lost == ~valid \/ ~ArmFresh(age)
      stops == \/ lost /\ arm_control_enabled
               \/ both_b /\ (~both_b_prev \/ arm_control_enabled)
      starts == /\ ~lost /\ StartChord(b) /\ ~stops
                /\ Rearm(b) /\ ~both_a_prev
  IN
  /\ VuerMayRun /\ vuer' = "publish"
  /\ IF valid THEN age <= tracking_age ELSE age = MaxAge
  /\ tracking_age' = age
  /\ both_a_prev' = both_a /\ both_b_prev' = both_b
  /\ stop_stands' = (both_b \/ (stop_stands /\ ~starts))
  /\ \/ stops /\ Disable /\ UNCHANGED resetFrame
     \/ starts /\ Start(age)
     \/ /\ ~stops /\ ~starts
        /\ arm_start_armed' = (~lost /\ ~both_b /\ Rearm(b))
        /\ UNCHANGED <<arm_control_enabled, phase, session, startupVars,
                       commandVars, post_stop, cyclo_active, moved, tailVars,
                       resetFrame>>
  /\ UNCHANGED <<ros, faultVars, robotVars>>

VuerPublish ==
  /\ vuer = "publish" /\ vuer' = "idle"
  /\ Publish
  /\ UNCHANGED <<ros, faultVars, both_a_prev, both_b_prev, tracking_age,
                 robotVars, resetFrame, stop_stands>>

\* on_body_tracking_move.
BodyMove(valid, age) ==
  /\ VuerMayRun
  /\ IF valid THEN age <= tracking_age ELSE age = MaxAge
  /\ tracking_age' = age
  /\ \/ ~valid /\ arm_control_enabled /\ Disable
     \/ (valid \/ ~arm_control_enabled) /\ UNCHANGED <<armVars, tailVars>>
  /\ UNCHANGED <<threadVars, faultVars, both_a_prev, both_b_prev, robotVars,
                 resetFrame, stop_stands>>

-----------------------------------------------------------------------------
(* rclpy thread: robot feedback. *)

RosCallback == RosMayRun /\ ros = "idle"

JointsMalformed ==
  /\ RosCallback /\ LockFree
  /\ joint_age' = MaxAge
  /\ UNCHANGED <<threadVars, armVars, tailVars, faultVars, both_a_prev,
                 both_b_prev, tracking_age, gate_state, gate_age, world_ok,
                 resetFrame, stop_stands>>

\* Joint samples and Cyclo's wrist poses; at some point after a stop they show
\* that the robot stands still.  An arming uses that up.
JointStates ==
  /\ RosCallback /\ LockFree
  /\ joint_age' = 0
  /\ post_stop' \in IF arm_control_enabled THEN {post_stop} ELSE {post_stop, TRUE}
  /\ UNCHANGED <<threadVars, arm_control_enabled, phase, session,
                 arm_start_armed, startupVars, commandVars, cyclo_active,
                 moved, tailVars, faultVars, both_a_prev, both_b_prev,
                 tracking_age, gate_state, gate_age, world_ok, resetFrame,
                 stop_stands>>

\* A delayed command may predate the activation, so only those that arrive
\* after the activation delay count for the warmup.
CountsFirst == phase = "WARMUP" /\ phase_age >= Delay

Command(side) ==
  /\ RosCallback
  /\ commanded' = commanded \cup {side}
  /\ command_age' \in IF commanded \subseteq {side} THEN {0} ELSE 0 .. command_age
  /\ \/ /\ CountsFirst /\ side \notin first_command
        /\ first_command' = first_command \cup {side} /\ first_age' = 0
     \/ /\ ~CountsFirst \/ side \in first_command
        /\ UNCHANGED <<first_command, first_age>>
  /\ UNCHANGED <<threadVars, arm_control_enabled, phase, session,
                 arm_start_armed, phase_age, post_stop, cyclo_active, moved,
                 tailVars, faultVars, both_a_prev, both_b_prev, tracking_age,
                 robotVars, resetFrame, stop_stands>>

\* A command outside the physical bounds stops the session and is dropped.
InvalidCommand ==
  /\ RosCallback /\ RosMayLock
  /\ arm_control_enabled
  /\ DisableLocked
  /\ ros' = "tail"
  /\ UNCHANGED <<vuer, tailVars, faultVars, both_a_prev, both_b_prev,
                 tracking_age, robotVars, resetFrame, stop_stands>>

\* The locked part of a stop that an rclpy callback has decided on.
StopLocked ==
  /\ RosMayRun /\ ros = "stop" /\ RosMayLock
  /\ DisableLocked
  /\ ros' = "tail"
  /\ UNCHANGED <<vuer, tailVars, faultVars, both_a_prev, both_b_prev,
                 tracking_age, robotVars, resetFrame, stop_stands>>

StopTail ==
  /\ RosMayRun /\ ros = "tail"
  /\ DisableTail
  /\ ros' = "idle"
  /\ UNCHANGED <<vuer, armVars, faultVars, both_a_prev, both_b_prev,
                 tracking_age, robotVars, resetFrame, stop_stands>>

-----------------------------------------------------------------------------
(* rclpy thread: the fault latch and the reset protocol. *)

\* _latch_hardware_gate_fault: the same report twice changes nothing, a new
\* text about a session that has already stopped is only logged.
MutantLatch(reason) ==
  /\ fault_reason' = reason
  /\ latched' = TRUE
  /\ ros' = "idle"
Latch(reason) ==
  \/ reason = fault_reason /\ ros' = "idle" /\ UNCHANGED faultVars
  \/ /\ reason # fault_reason
     /\ fault_reason' = reason
     /\ latched' = TRUE
     /\ ros' = IF fault_reason = "none" \/ arm_control_enabled
               THEN "stop" ELSE "idle"

\* The status that a pending restart waits for: the same gate, a later number.
AfterBarrier(after) == reset_wait /\ after

\* _gate_status of a message that is not older than the last one; after says
\* whether it carries a number past the one that the reset answered with.
GateStatus(report, after) ==
  LET confirms == AfterBarrier(after) IN
  /\ RosCallback
  /\ gate_state' = report /\ gate_age' = 0
  /\ reset_wait' = (reset_wait /\ ~confirms)
  /\ reset_started' = (reset_started /\ ~confirms)
  /\ \/ /\ report # "fault"
        /\ ros' = IF confirms THEN "unlatch" ELSE "idle"
        /\ UNCHANGED faultVars
     \/ report = "fault" /\ reset_future = "none" /\ Latch("status")
     \/ /\ report = "fault" /\ reset_future # "none"
        /\ ros' = "idle" /\ UNCHANGED faultVars
  /\ UNCHANGED <<vuer, armVars, bridge, reset_future,
                 both_a_prev, both_b_prev, tracking_age, joint_age, world_ok,
                 resetFrame, stop_stands>>

\* A status of another model or policy, or one that does not parse.
GateStatusInvalid ==
  /\ RosCallback
  /\ gate_age' = MaxAge
  /\ UNCHANGED <<threadVars, armVars, tailVars, faultVars, both_a_prev,
                 both_b_prev, tracking_age, joint_age, gate_state, world_ok,
                 resetFrame, stop_stands>>

\* The second flag is never withdrawn: after the first accepted reset the Bool
\* is ignored for the life of the process.
BoolHeeded == reset_future = "none" /\ ~status_only

\* _hardware_gate_fault: the Bool may arrive before the status that explains it.
BoolFault ==
  /\ RosCallback
  /\ BoolHeeded
  /\ Latch(IF gate_state = "fault" THEN "status" ELSE "bool")
  /\ UNCHANGED <<vuer, armVars, tailVars, both_a_prev, both_b_prev,
                 tracking_age, robotVars, resetFrame, stop_stands>>

BoolFaultIgnored == RosCallback /\ ~BoolHeeded /\ UNCHANGED vars

ReferenceFault ==
  /\ RosCallback /\ ~latched
  /\ latched' = TRUE
  /\ ros' = "stop"
  /\ UNCHANGED <<vuer, fault_reason, armVars, tailVars, both_a_prev,
                 both_b_prev, tracking_age, robotVars, resetFrame, stop_stands>>

\* The executor takes the answer of an open request and schedules its done
\* callback as the next thing to run; by then nothing can cancel it.
AnswerTaken ==
  /\ RosCallback /\ ros' = "answered"
  /\ reset_future = "open" /\ reset_future' = "answered"
  /\ UNCHANGED <<vuer, armVars, bridge, reset_wait, reset_started, faultVars,
                 both_a_prev, both_b_prev, tracking_age, robotVars, resetFrame,
                 stop_stands>>

\* _fault_reset_result.
FaultResetResult(outcome) ==
  /\ RosMayRun /\ ros = "answered" /\ ros' = outcome
  /\ reset_future' = "none"
  /\ UNCHANGED <<vuer, armVars, bridge, reset_wait, reset_started, faultVars,
                 both_a_prev, both_b_prev, tracking_age, robotVars, resetFrame,
                 stop_stands>>

StoreResult ==
  /\ RosMayRun /\ ros' = "idle"
  /\ \/ /\ ros = "accepted"
        /\ reset_wait' = TRUE /\ status_only' = TRUE
        /\ UNCHANGED reset_started
     \/ /\ ros = "refused"
        /\ reset_started' = FALSE
        /\ UNCHANGED <<reset_wait, status_only>>
  /\ UNCHANGED <<vuer, armVars, bridge, reset_future,
                 faultVars, both_a_prev, both_b_prev, tracking_age, robotVars,
                 reset_age, stop_stands>>

\* The confirmed reset of _gate_status: clear the latch, set the phase, start.
Unlatch ==
  /\ RosMayRun /\ ros = "unlatch" /\ ros' = "phase"
  /\ latched' = FALSE /\ fault_reason' = "none"
  /\ UNCHANGED <<vuer, armVars, tailVars, both_a_prev, both_b_prev,
                 tracking_age, robotVars, resetFrame, stop_stands>>

ResetPhase ==
  /\ RosMayRun /\ ros = "phase" /\ ros' = "enable"
  /\ phase' = IF session THEN "ALIGN_REQUIRED" ELSE "WAIT_CALIBRATION"
  /\ UNCHANGED <<vuer, arm_control_enabled, session, arm_start_armed,
                 startupVars, commandVars, post_stop, cyclo_active, moved,
                 tailVars, faultVars, both_a_prev, both_b_prev, tracking_age,
                 robotVars, resetFrame, stop_stands>>

Restart ==
  /\ RosMayRun /\ ros = "enable" /\ RosMayLock
  /\ \/ /\ ~arm_control_enabled /\ CaptureAllowed(tracking_age)
        /\ Enable
        /\ phase' = "SETTLING" /\ ros' = "seed"
        /\ UNCHANGED arm_start_armed
     \/ /\ ~arm_control_enabled /\ ~CaptureAllowed(tracking_age)
        /\ Disable /\ ros' = "idle"
     \/ /\ arm_control_enabled
        /\ ros' = "seed" /\ UNCHANGED <<armVars, tailVars>>
  /\ UNCHANGED <<vuer, faultVars, both_a_prev, both_b_prev, tracking_age,
                 robotVars, resetFrame, stop_stands>>

RestartSeed ==
  /\ RosMayRun /\ ros = "seed" /\ ros' = "idle"
  /\ phase' = IF arm_control_enabled /\ bridge THEN "RESUME_SEED" ELSE phase
  /\ UNCHANGED <<vuer, arm_control_enabled, session, arm_start_armed,
                 startupVars, commandVars, post_stop, cyclo_active, moved,
                 tailVars, faultVars, both_a_prev, both_b_prev, tracking_age,
                 robotVars, resetFrame, stop_stands>>

-----------------------------------------------------------------------------
(* rclpy thread: _check_arm_tracking_timeout, 20 Hz.  The freshness check and *)
(* the publication hold the lock, the expiry of the reset does not.           *)

TimerCheck ==
  /\ RosCallback /\ RosMayLock /\ ros' = "timer"
  /\ \/ /\ ~ArmFresh(tracking_age) /\ arm_control_enabled
        /\ Disable
     \/ /\ ~ArmFresh(tracking_age) /\ ~arm_control_enabled
        /\ arm_start_armed' = FALSE
        /\ UNCHANGED <<arm_control_enabled, phase, session, startupVars,
                       commandVars, post_stop, cyclo_active, moved, tailVars>>
     \/ ArmFresh(tracking_age) /\ UNCHANGED <<armVars, tailVars>>
  /\ UNCHANGED <<vuer, faultVars, both_a_prev, both_b_prev, tracking_age,
                 robotVars, resetFrame, stop_stands>>

TimerPublish ==
  /\ RosMayRun /\ ros = "timer" /\ ros' = "expiry"
  /\ Publish
  /\ UNCHANGED <<vuer, faultVars, both_a_prev, both_b_prev, tracking_age,
                 robotVars, resetFrame, stop_stands>>

MutantResetExpired ==
  reset_started /\ reset_future # "none" /\ reset_age > ResetLimit
ResetExpired == reset_started /\ reset_age > ResetLimit

TimerExpiry ==
  /\ RosMayRun /\ ros = "expiry" /\ ros' = "idle"
  /\ \/ /\ ResetExpired
        /\ reset_future' = "none" /\ reset_wait' = FALSE
        /\ reset_started' = FALSE
     \/ ~ResetExpired /\ UNCHANGED resetVars
  /\ UNCHANGED <<vuer, armVars, bridge, faultVars,
                 both_a_prev, both_b_prev, tracking_age, robotVars, resetFrame,
                 stop_stands>>

-----------------------------------------------------------------------------
(* The environment and the specification. *)

Idle == vuer = "idle" /\ ros = "idle"

\* Writers, profile, model, TF, poses or the operator's alignment change.
WorldChange ==
  /\ Idle
  /\ world_ok' = ~world_ok
  /\ UNCHANGED <<threadVars, armVars, tailVars, faultVars, both_a_prev,
                 both_b_prev, tracking_age, joint_age, gate_state, gate_age,
                 resetFrame, stop_stands>>

\* An age that nothing reads until it is reset stays where it is.
Elapse ==
  /\ Idle
  /\ tracking_age' = Saturating(tracking_age, Grace)
  /\ joint_age' = Saturating(joint_age, Grace)
  /\ gate_age' = Saturating(gate_age, Grace)
  /\ command_age' = IF commanded = {} THEN command_age
                    ELSE Saturating(command_age, Grace)
  /\ phase_age' = IF phase \in {"SETTLING", "WARMUP"}
                  THEN Saturating(phase_age, Startup) ELSE phase_age
  /\ first_age' = IF first_command = {} THEN first_age
                  ELSE Saturating(first_age, Hold - 1)
  /\ reset_age' = IF reset_started THEN Saturating(reset_age, ResetLimit)
                  ELSE reset_age
  /\ UNCHANGED <<threadVars, arm_control_enabled, phase, session,
                 arm_start_armed, first_command, commanded, post_stop,
                 cyclo_active, moved, tailVars, faultVars, both_a_prev,
                 both_b_prev, gate_state, world_ok, status_only, stop_stands>>

VuerStep ==
  \/ \E b \in Buttons, valid \in BOOLEAN, age \in Age :
       ControllerMove(b, valid, age)
  \/ VuerPublish
  \/ \E valid \in BOOLEAN, age \in Age : BodyMove(valid, age)

RosInput ==
  \/ JointsMalformed \/ JointStates
  \/ \E side \in Sides : Command(side)
  \/ InvalidCommand
  \/ \E report \in GateReports, after \in BOOLEAN : GateStatus(report, after)
  \/ GateStatusInvalid \/ BoolFault \/ BoolFaultIgnored \/ ReferenceFault
  \/ AnswerTaken

\* What the rclpy thread does of its own accord once it has started.
RosStep ==
  \/ StopLocked \/ StopTail
  \/ \E outcome \in {"accepted", "refused"} : FaultResetResult(outcome)
  \/ StoreResult
  \/ Unlatch \/ ResetPhase \/ Restart \/ RestartSeed
  \/ TimerCheck \/ TimerPublish \/ TimerExpiry

Next == VuerStep \/ RosInput \/ RosStep \/ WorldChange \/ Elapse

\* The Vuer thread finishes what it has begun and releases the lock between
\* two events, so the rclpy thread gets it again and again: it finishes its
\* callbacks, its timer fires and the clock runs.  Nothing is assumed of the
\* operator, of the robot or of its answers.
Spec ==
  /\ Init /\ [][Next]_vars
  /\ WF_vars(VuerPublish)
  /\ SF_vars(RosStep) /\ SF_vars(TimerCheck) /\ SF_vars(Elapse)

-----------------------------------------------------------------------------
(* Properties. *)

\* Cyclo is active only inside the session that activated it: after the
\* settling of that session and never across a stop, whoever stopped it.
CycloFollowsSession ==
  cyclo_active => arm_control_enabled /\ phase \in {"WARMUP", "ACTIVE"}

\* "Hand motion during preparation is discarded": a frame follows the hands
\* only in a session whose startup Cyclo has answered on both sides.
HandsMoveAfterStartup ==
  moved => /\ arm_control_enabled /\ phase = "ACTIVE"
           /\ cyclo_active /\ first_command = Sides

\* The seed of a resume is approached "while BOTH /reactivate and the gate
\* lease remain disabled": the bridge, which also keeps the intent disabled,
\* outlasts neither the activation of Cyclo nor the start of hand motion.
SeedWhileInactive ==
  bridge => ~cyclo_active /\ phase # "ACTIVE"

\* A latched fault has stopped the session, or its callback is about to.
FaultStopsSession ==
  latched /\ arm_control_enabled => ros \in {"stop", "unlatch"}

\* Y+B holds until the operator presses X+A: neither a recovered gap nor a
\* reset that was under way restarts the arms.
StopStands == stop_stands => ~arm_control_enabled

\* An arming finds the robot seen at rest since the last stop, whether X+A or
\* a confirmed reset asks for it, and never starts on top of another session.
ArmsAtRest ==
  [][ arm_control_enabled' /\ ~arm_control_enabled
      => post_stop /\ ~cyclo_active /\ ~latched /\ ~moved' ]_vars

\* A step of the publication, by the timer or by a controller event.
Publication ==
  (ros = "timer" /\ ros' # "timer") \/ (vuer = "publish" /\ vuer' # "publish")

\* No frame follows the hands on top of input that is late by more than Fresh.
FollowsFreshInput ==
  [][ Publication /\ moved'
      => /\ tracking_age <= Fresh /\ joint_age <= Fresh
         /\ gate_age <= Fresh /\ command_age <= Fresh ]_vars

\* A gap shorter than Grace costs an ACTIVE session nothing: while the gate
\* reports no fault and the graph is sound, the timer only waits.
GapOnlyWaits ==
  [][ (/\ Publication \/ ros' = "timer"
       /\ Active /\ world_ok /\ ~latched /\ commanded = Sides
       /\ tracking_age <= Grace /\ joint_age <= Grace
       /\ command_age <= Grace /\ gate_age <= Grace
       /\ gate_state \in {"good", "waiting", "late"})
      => Active' ]_vars

\* A reset that the operator requested is confirmed, refused or given up; it
\* never keeps the next X+A from asking again.
ResetSettles ==
  reset_future # "none" \/ reset_wait ~> reset_future = "none" /\ ~reset_wait
=============================================================================
