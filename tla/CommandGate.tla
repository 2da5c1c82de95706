---------------------------- MODULE CommandGate ----------------------------
(***************************************************************************)
(* HardwareCommandGate (hardware/command_gate.py): the robot-side relay,   *)
(* the only writer of the follower command topics.  It forwards the arm    *)
(* setpoints that Cyclo produces while the PC holds an enabled intent,     *)
(* holds them over short gaps, and latches a fault on anything else.       *)
(*                                                                         *)
(* The rclpy executor is single threaded, so a callback is atomic: one     *)
(* action per callback, and Tick for the 50/100 Hz timer.  Time is kept as *)
(* ages (now - receipt time) that saturate at MaxAge, one unit past the    *)
(* longest limit the code compares an age with; Elapse advances them all.  *)
(* A stamp or sequence number that is not newer makes the callback return  *)
(* before it changes anything, so a replay is a stuttering step here.      *)
(***************************************************************************)
EXTENDS Integers, FiniteSets

CONSTANTS
  Sides,            \* SIDES: the two arms
  Sessions,         \* PC session identities (one per publisher process)
  NoSession,        \* pc_session = None
  MotorIdSets,      \* the motor ID tuples a DynamixelState may report
  NoIds,            \* motor_ids = None
  SampleKinds,      \* what a joint sample may be, a subset of Poses
  MotorHealth,      \* what a motor state may report, a subset of MotorReports
  AuxPayloads,      \* auxiliary commands a PC message may carry
  ManualAuxiliary,  \* profile['manual_auxiliary']
  StrictTorque,     \* readiness_policy = 'strict_torque'
  HandOutput,       \* controller_hands is not None (SH5 finger profile)
  HandLease,        \* .3  s: age of the intent that may move the fingers
  ManualLease,      \* .35 s: keyboard lease
  Prompt,           \* .5  s: feedback age for keyboard and fingers
  Skew,             \* 1.0 s: between the two arm commands
  Fresh,            \* FEEDBACK_FRESH_SECONDS = 5
  LeaseSeconds,     \* LEASE_SECONDS = 5: the intent age a reset accepts
  Startup,          \* 10 s to receive both arm commands after arming
  Wait              \* FEEDBACK_WAIT_SECONDS = 50

\* What the gate can tell of a well-formed joint sample: every arm joint
\* inside the model limits, one outside them, or a joint the profile froze
\* away from its captured position.
Poses == {"inside", "outside", "moved"}

\* What the gate can tell of a motor state: a bus, hardware or arm ID error,
\* a healthy read, or a healthy read with torque reported on every arm motor.
MotorReports == {"bad", "read", "torque"}

ASSUME ThresholdAssumption ==
  /\ HandLease \in Nat /\ ManualLease \in Nat /\ Prompt \in Nat
  /\ Skew \in Nat /\ Fresh \in Nat /\ LeaseSeconds \in Nat
  /\ Startup \in Nat /\ Wait \in Nat
  /\ HandLease <= ManualLease /\ ManualLease <= Prompt /\ Prompt <= Skew
  /\ Skew <= Fresh /\ Fresh <= Startup /\ Startup <= Wait
  /\ LeaseSeconds <= Wait

ASSUME DomainAssumption ==
  /\ Sides # {}
  /\ NoSession \notin Sessions
  /\ NoIds \notin MotorIdSets
  /\ SampleKinds \subseteq Poses /\ MotorHealth \subseteq MotorReports
  /\ AuxPayloads \subseteq SUBSET {"joints", "base"}
  /\ ManualAuxiliary \in BOOLEAN
  /\ StrictTorque \in BOOLEAN /\ HandOutput \in BOOLEAN

MaxAge == Wait + 1
Age == 0 .. MaxAge
NoCommand == -1
NoCommands == [s \in Sides |-> NoCommand]

VARIABLES
  running,            \* the node is spinning
  writers_ok,         \* environment: graph() would accept the topic writers
  description_ok, measured, measured_age,
  motor_ids, motor_ok, motor_topic_ok, motor_age,
  pc_session, pc_intent_enabled, intent_enabled, intent_age, enabled_age,
  commands,           \* age of each side's latest Cyclo setpoint, or NoCommand
  previous,           \* self.previous: empty, the pose measured at arming, or
                      \* the last forwarded output
  output_active, feedback_waiting, fault,
  manual_enabled, manual_age,
  aux_command,        \* which parts of the requested auxiliary motion are set
  aux_previous,       \* auxiliary joint targets have been sent
  aux_active,
  hand_active,        \* controller_hands.active
  base_moving,        \* observed: the last Twist on /cmd_vel was not zero
  follower_goal       \* observed: what the follower arms were last told to hold

envVars       == <<running, writers_ok>>
jointVars     == <<measured, measured_age>>
motorVars     == <<motor_ids, motor_ok, motor_topic_ok, motor_age>>
feedbackVars  == <<description_ok, jointVars, motorVars>>
leaseVars     == <<pc_session, pc_intent_enabled, intent_age, manual_age>>
armingVars    == <<enabled_age, previous>>
authorityVars == <<intent_enabled, fault>>
armVars       == <<commands, output_active, feedback_waiting, follower_goal>>
auxVars       == <<manual_enabled, aux_command, aux_previous, aux_active,
                   base_moving, hand_active>>
outputVars    == <<armVars, auxVars>>
vars == <<envVars, feedbackVars, leaseVars, armingVars, authorityVars, outputVars>>

TypeOK ==
  /\ running \in BOOLEAN /\ writers_ok \in BOOLEAN /\ fault \in BOOLEAN
  /\ description_ok \in BOOLEAN
  /\ motor_ok \in BOOLEAN /\ motor_topic_ok \in BOOLEAN
  /\ pc_intent_enabled \in BOOLEAN /\ intent_enabled \in BOOLEAN
  /\ output_active \in BOOLEAN /\ feedback_waiting \in BOOLEAN
  /\ manual_enabled \in BOOLEAN /\ aux_previous \in BOOLEAN
  /\ aux_active \in BOOLEAN /\ hand_active \in BOOLEAN
  /\ base_moving \in BOOLEAN
  /\ measured \in Poses \cup {"none"}
  /\ motor_ids \in MotorIdSets \cup {NoIds}
  /\ pc_session \in Sessions \cup {NoSession}
  /\ measured_age \in Age /\ motor_age \in Age
  /\ intent_age \in Age /\ enabled_age \in Age /\ manual_age \in Age
  /\ commands \in [Sides -> Age \cup {NoCommand}]
  /\ previous \in {"empty", "measured", "output"}
  /\ aux_command \subseteq {"joints", "base"}
  /\ follower_goal \in {"unknown", "measured", "output"}

\* __init__: nothing received (every receipt time is -inf), nothing armed.
Init ==
  /\ running = TRUE /\ writers_ok \in BOOLEAN
  /\ description_ok = FALSE /\ measured = "none" /\ measured_age = MaxAge
  /\ motor_ids = NoIds /\ motor_ok = FALSE /\ motor_topic_ok = FALSE
  /\ motor_age = MaxAge
  /\ pc_session = NoSession /\ pc_intent_enabled = FALSE
  /\ intent_enabled = FALSE /\ intent_age = MaxAge /\ enabled_age = MaxAge
  /\ commands = NoCommands /\ previous = "empty"
  /\ output_active = FALSE /\ feedback_waiting = FALSE /\ fault = FALSE
  /\ manual_enabled = FALSE /\ manual_age = MaxAge
  /\ aux_command = {} /\ aux_previous = FALSE /\ aux_active = FALSE
  /\ hand_active = FALSE /\ base_moving = FALSE
  /\ follower_goal = "unknown"

-----------------------------------------------------------------------------
(* Helpers. *)

\* Wrong variants, each used once to show that a run can see the difference,
\* stand before the definition they replace and are named Mutant...
MutantOlder(age) == IF age <= MaxAge THEN age + 1 ELSE age
Older(age) == IF age < MaxAge THEN age + 1 ELSE age

Complete == \A s \in Sides : commands[s] # NoCommand

\* tick's first statement: strict_torque drops motor_ok without reported torque.
MotorOkNow == motor_ok /\ (StrictTorque => motor_topic_ok)

\* reset_fault and tick compare every measured joint with the model bounds.
WithinBounds == measured \in {"inside", "moved"}

MutantUnhealthy ==
  \/ ~description_ok
  \/ measured_age > Wait
  \/ ~MotorOkNow \/ motor_age > Wait
  \/ measured # "inside"

\* tick's watchdog: the conditions under which an armed gate raises at once.
Unhealthy ==
  \/ intent_age > Wait
  \/ ~description_ok
  \/ measured_age > Wait
  \/ ~MotorOkNow \/ motor_age > Wait
  \/ ~WithinBounds
  \/ measured = "moved"

CommandStale == \E s \in Sides : commands[s] > Wait

\* The gap in which the current setpoint is kept instead of advanced.
Waiting ==
  \/ measured_age > Fresh \/ intent_age > Fresh \/ motor_age > Fresh
  \/ \E s \in Sides : commands[s] > Fresh
  \/ \E s, t \in Sides : commands[s] - commands[t] > Skew

ManualLive == manual_enabled /\ ~fault
ManualFresh ==
  /\ manual_age <= ManualLease
  /\ description_ok
  /\ MotorOkNow /\ motor_age <= Prompt
  /\ measured_age <= Prompt

MutantArmedLive == intent_enabled
ArmedLive == intent_enabled /\ ~fault

\* controller_hands.tick may move the fingers on a tick that forwarded.
HandsAllowed ==
  /\ HandOutput
  /\ intent_age <= HandLease
  /\ measured_age <= Prompt
  /\ MotorOkNow /\ motor_age <= Prompt

-----------------------------------------------------------------------------
(* hold() and latch(), called inside other handlers. *)

\* hold() publishes a zero Twist whatever the auxiliary joints do.
MutantHeldBase == base_moving
HeldBase == FALSE

\* and forgets that the gate was driving.
MutantHeldOutput == output_active
HeldOutput == FALSE

\* What hold() does to everything but the requested manual motion, which the
\* intent handler overwrites after it.  driving is output_active at the call.
HoldOutputs(driving) ==
  /\ follower_goal' = IF driving /\ measured_age <= Fresh
                      THEN "measured" ELSE follower_goal
  /\ feedback_waiting' = FALSE
  /\ hand_active' = FALSE
  /\ base_moving' = HeldBase
  /\ aux_previous' = FALSE /\ aux_active' = FALSE
  /\ output_active' = HeldOutput
  /\ commands' = NoCommands

Hold(driving) ==
  /\ HoldOutputs(driving)
  /\ manual_enabled' = FALSE
  /\ aux_command' = {}

\* The first fault holds; every later one only drops the intent.
Latch(driving) ==
  /\ fault' = TRUE
  /\ intent_enabled' = FALSE
  /\ \/ ~fault /\ Hold(driving)
     \/ fault /\ UNCHANGED outputVars

LatchIf(condition) ==
  \/ condition /\ Latch(output_active)
  \/ ~condition /\ UNCHANGED <<authorityVars, outputVars>>

-----------------------------------------------------------------------------
(* Feedback from the robot. *)

Description(ok) ==
  /\ description_ok' = ok
  /\ LatchIf(~ok /\ intent_enabled)
  /\ UNCHANGED <<envVars, jointVars, motorVars, leaseVars, armingVars>>

\* A malformed sample ages the measurement out but keeps its values.
JointsMalformed ==
  /\ measured_age' = MaxAge
  /\ UNCHANGED <<envVars, description_ok, measured, motorVars, leaseVars,
                 outputVars, authorityVars, armingVars>>

Joints(kind) ==
  /\ measured' = kind
  /\ measured_age' = 0
  /\ UNCHANGED <<envVars, description_ok, motorVars, leaseVars, outputVars,
                 authorityVars, armingVars>>

MutantSameMotors(ids) == TRUE

\* Once a healthy state has named the motors, other IDs are a bus error.
SameMotors(ids) == motor_ids \in {NoIds, ids}

\* Only strict_torque insists on the reported torque.
MotorState(ids, health) ==
  LET ok == /\ SameMotors(ids)
            /\ health \in IF StrictTorque THEN {"torque"} ELSE {"read", "torque"}
  IN
  /\ motor_topic_ok' = (health = "torque")
  /\ motor_ids' = IF ok THEN ids ELSE motor_ids
  /\ motor_ok' = ok
  /\ motor_age' = 0
  /\ LatchIf(~ok /\ intent_enabled)
  /\ UNCHANGED <<envVars, description_ok, jointVars, leaseVars, armingVars>>

-----------------------------------------------------------------------------
(* Messages of the PC and of Cyclo. *)

MutantSessionMayEnable(s) == TRUE

\* A new sender must first be observed disarmed.
SessionMayEnable(s) == s = pc_session

\* The three places where intent() raises: before the session is recorded,
\* after it (auxiliary or manual fields), and after the lease is stamped
\* (finger input that does not match the robot's hand mode).
IntentRejected(s) ==
  /\ \/ UNCHANGED <<pc_session, intent_age>>
     \/ pc_session' = s /\ intent_age' \in {intent_age, 0}
  /\ LatchIf(intent_enabled \/ manual_enabled)
  /\ UNCHANGED <<envVars, feedbackVars, pc_intent_enabled, manual_age,
                 armingVars>>

MutantCommandsAtArming == commands

\* Commands received while disarmed are dropped when the gate is armed.
CommandsAtArming == NoCommands

MutantSeedAtArming ==
  IF previous = "empty" /\ measured # "none" THEN "measured" ELSE previous

\* The slew starts from the pose measured when the gate is armed.
SeedAtArming == IF measured = "none" THEN "empty" ELSE "measured"

MutantReleasesKeyboard(manual) == FALSE

\* Auxiliary outputs that the keyboard left running.
ReleasesKeyboard(manual) == manual_enabled /\ ~manual /\ aux_active

\* Arming, or a refresh of the lease that leaves the arms as they are; when
\* the keyboard motion has been released, its outputs are stopped first.
IntentKeep(enabled, manual) ==
  /\ \/ /\ enabled /\ ~intent_enabled
        /\ enabled_age' = 0
        /\ commands' = CommandsAtArming
        /\ previous' = SeedAtArming
     \/ /\ enabled = intent_enabled
        /\ UNCHANGED <<armingVars, commands>>
  /\ \/ /\ ReleasesKeyboard(manual)
        /\ base_moving' = FALSE
        /\ aux_active' = aux_previous
        /\ aux_previous' = FALSE
     \/ /\ ~ReleasesKeyboard(manual)
        /\ UNCHANGED <<base_moving, aux_active, aux_previous>>
  /\ UNCHANGED <<output_active, feedback_waiting, hand_active, follower_goal>>

IntentDisarm(enabled) ==
  /\ ~enabled /\ intent_enabled
  /\ HoldOutputs(output_active)
  /\ UNCHANGED armingVars

IntentAccepted(s, enabled, manual, aux) ==
  /\ enabled => SessionMayEnable(s)
  /\ manual => ManualAuxiliary
  /\ pc_session' = s
  /\ intent_age' = 0 /\ manual_age' = 0
  /\ pc_intent_enabled' = enabled
  /\ intent_enabled' = enabled
  /\ manual_enabled' = manual
  /\ aux_command' = IF enabled \/ manual THEN aux ELSE {}
  /\ IntentDisarm(enabled) \/ IntentKeep(enabled, manual)
  /\ UNCHANGED <<envVars, feedbackVars, fault>>

\* A Cyclo setpoint; anything but one immediate in-range point raises.
Command(side) ==
  /\ commands' = [commands EXCEPT ![side] = 0]
  /\ UNCHANGED <<envVars, feedbackVars, leaseVars, output_active,
                 feedback_waiting, auxVars, follower_goal, authorityVars,
                 armingVars>>

\* An invalid Cyclo setpoint, or reference_diverged from the reference checker.
ControllerFault ==
  /\ intent_enabled
  /\ Latch(output_active)
  /\ UNCHANGED <<envVars, feedbackVars, leaseVars, armingVars>>

-----------------------------------------------------------------------------
(* tick().  Its try block is the keyboard branch followed by the arm branch; *)
(* a hold of the first leaves the second with no commands.  graph() runs     *)
(* when the last check is .25 s old, so with bad writers a tick may or may   *)
(* not raise.                                                                *)

TickFrame ==
  /\ motor_ok' = MotorOkNow
  /\ UNCHANGED <<envVars, description_ok, jointVars, motor_ids,
                 motor_topic_ok, motor_age, leaseVars, enabled_age>>

GraphRaises == ~writers_ok

AuxMotion(aux) ==
  /\ aux_previous' = ("joints" \in aux)
  /\ aux_active' = (aux # {})
  /\ base_moving' = ("base" \in aux)

\* The keyboard branch drives only while the arms are held.
ManualBranch == ManualLive /\ ManualFresh /\ ~intent_enabled

\* The arm branch of a gate whose keyboard lease, if any, is still good.
ArmBranch == ArmedLive /\ (manual_enabled => ManualFresh)

StartupExpired == ~Complete /\ enabled_age > Startup

MutantArmWatchdog == Unhealthy \/ StartupExpired \/ (Complete /\ Waiting)
ArmWatchdog == Unhealthy \/ StartupExpired \/ (Complete /\ CommandStale)

ForwardGuard == ArmBranch /\ ~ArmWatchdog /\ Complete /\ ~Waiting

\* The lease of the keyboard or its feedback ran out.  After the hold the arm
\* branch finds no commands, and raises when Startup has long passed.
ManualExpired == ManualLive /\ ~ManualFresh
ExpiredWatchdog == intent_enabled /\ (Unhealthy \/ enabled_age > Startup)

\* No output to step from; check_step, slew_aux or the collision guard refuse.
StepRefused ==
  previous = "empty" \/ StrictTorque \/ aux_command # {} \/ ManualAuxiliary

TickRaises ==
  \/ ManualBranch
  \/ ManualExpired /\ (ExpiredWatchdog \/ (intent_enabled /\ GraphRaises))
  \/ ArmBranch /\ (ArmWatchdog \/ GraphRaises)
  \/ ForwardGuard /\ StepRefused

TickFault ==
  /\ TickRaises
  /\ Latch(output_active)
  /\ UNCHANGED previous

\* Nothing may move (disarmed, or a fault is latched), or the armed gate still
\* waits for the first command of each arm.
TickStill ==
  /\ \/ ~ManualLive /\ ~ArmedLive
     \/ ArmBranch /\ ~ArmWatchdog /\ ~Complete
  /\ hand_active' = FALSE
  /\ UNCHANGED <<armVars, manual_enabled, aux_command, aux_previous,
                 aux_active, base_moving, authorityVars, previous>>

TickManual ==
  /\ ManualBranch
  /\ AuxMotion(aux_command)
  /\ hand_active' = FALSE
  /\ UNCHANGED <<armVars, manual_enabled, aux_command, authorityVars, previous>>

TickManualExpired ==
  /\ ManualExpired /\ ~ExpiredWatchdog
  /\ Hold(output_active)
  /\ UNCHANGED <<authorityVars, previous>>

MutantWaitingHands == hand_active

\* The waiting branch returns before controller_hands.tick, so it holds the
\* fingers itself.
WaitingHands == FALSE

TickWaiting ==
  /\ ArmBranch /\ ~ArmWatchdog /\ Complete /\ Waiting
  /\ feedback_waiting' = TRUE
  /\ follower_goal' = IF output_active THEN previous ELSE follower_goal
  /\ aux_active' = aux_previous
  /\ base_moving' = FALSE
  /\ hand_active' = WaitingHands
  /\ UNCHANGED <<commands, output_active, manual_enabled, aux_command,
                 aux_previous, authorityVars, previous>>

\* limit_step (driver_managed) or check_step (strict_torque) accepted the step.
TickForward ==
  /\ ForwardGuard /\ previous # "empty"
  /\ feedback_waiting' = FALSE
  /\ follower_goal' = "output"
  /\ previous' = "output"
  /\ output_active' = TRUE
  /\ AuxMotion(aux_command)
  /\ hand_active' \in {FALSE, HandsAllowed}
  /\ UNCHANGED <<commands, manual_enabled, aux_command, authorityVars>>

\* The arms were forwarded, then the fingers' preparation raised.
TickHandFault ==
  /\ ForwardGuard /\ previous # "empty" /\ HandsAllowed
  /\ Latch(TRUE)
  /\ previous' = "output"

Tick ==
  /\ \/ TickFault \/ TickStill \/ TickManual \/ TickManualExpired
     \/ TickWaiting \/ TickForward \/ TickHandFault
  /\ TickFrame

-----------------------------------------------------------------------------
(* The reset service, shutdown and the environment. *)

MutantResetAllowed ==
  /\ intent_age <= LeaseSeconds
  /\ description_ok /\ measured_age <= Fresh
  /\ motor_ok /\ motor_age <= Fresh
  /\ WithinBounds /\ writers_ok

ResetAllowed ==
  /\ ~intent_enabled /\ ~pc_intent_enabled
  /\ intent_age <= LeaseSeconds
  /\ description_ok /\ measured_age <= Fresh
  /\ motor_ok /\ motor_age <= Fresh
  /\ StrictTorque => motor_topic_ok
  /\ WithinBounds
  /\ writers_ok

\* A refused reset changes nothing.
ResetFault ==
  /\ ResetAllowed
  /\ Hold(output_active)
  /\ fault' = FALSE
  /\ UNCHANGED <<envVars, feedbackVars, leaseVars, intent_enabled,
                 armingVars>>

\* main's finally clause, after SIGTERM or SIGINT between two callbacks.
Shutdown ==
  /\ running' = FALSE
  /\ Hold(output_active)
  /\ UNCHANGED <<writers_ok, feedbackVars, leaseVars, authorityVars,
                 armingVars>>

\* A publisher joins or leaves one of the topics graph() inspects.
WritersChange ==
  /\ writers_ok' = ~writers_ok
  /\ UNCHANGED <<running, feedbackVars, leaseVars, outputVars, authorityVars,
                 armingVars>>

Elapse ==
  /\ measured_age' = Older(measured_age)
  /\ motor_age' = Older(motor_age)
  /\ intent_age' = Older(intent_age)
  /\ enabled_age' = Older(enabled_age)
  /\ manual_age' = Older(manual_age)
  /\ commands' = [s \in Sides |-> IF commands[s] = NoCommand
                                  THEN NoCommand ELSE Older(commands[s])]
  /\ UNCHANGED <<envVars, description_ok, measured, motor_ids, motor_ok,
                 motor_topic_ok, pc_session, pc_intent_enabled, output_active,
                 feedback_waiting, auxVars, follower_goal, authorityVars,
                 previous>>

Intent ==
  \E s \in Sessions :
    \/ IntentRejected(s)
    \/ \E enabled, manual \in BOOLEAN, aux \in AuxPayloads :
         IntentAccepted(s, enabled, manual, aux)

Callback ==
  \/ \E ok \in BOOLEAN : Description(ok)
  \/ JointsMalformed
  \/ \E kind \in SampleKinds : Joints(kind)
  \/ \E ids \in MotorIdSets, health \in MotorHealth :
       MotorState(ids, health)
  \/ Intent
  \/ \E side \in Sides : Command(side)
  \/ ControllerFault
  \/ ResetFault

Next ==
  /\ running
  /\ Callback \/ Tick \/ Shutdown \/ WritersChange \/ Elapse

\* The executor keeps serving the timer and the clock keeps running; nothing
\* is assumed of the PC, of Cyclo or of the robot's feedback.
Spec == Init /\ [][Next]_vars /\ WF_vars(running /\ Tick) /\ WF_vars(running /\ Elapse)

-----------------------------------------------------------------------------
(* Properties. *)

\* The arms are driven only by an armed gate without a fault, from a complete
\* pair of commands and on top of an output it already sent: hold(), latch()
\* and every path that disarms have to clear all of it together.
OutputHasAuthority ==
  output_active => /\ intent_enabled /\ ~fault
                   /\ Complete /\ previous = "output"

\* The base never keeps moving without somebody who asked for it: an armed PC
\* or a held key.  Releasing the key, disarming and a fault all stop it.
BaseHasAuthority ==
  base_moving => aux_active /\ ~fault /\ (intent_enabled \/ manual_enabled)

\* The fingers move only while the arms are forwarded, never during a gap.
HandsFollowArms == hand_active => output_active /\ ~feedback_waiting

\* Every command an armed gate may forward was received after it was armed,
\* whatever holds, faults and re-armings came before.
CommandsSinceArming ==
  intent_enabled => \A s \in Sides : commands[s] <= enabled_age

\* "slew-limit what reaches the follower": the output the next step is
\* limited against is what the follower was last told to hold.
SetpointContinuity ==
  (ArmedLive /\ Complete /\ previous = "output") => follower_goal = "output"

\* A driven gate rides out a feedback, intent or command gap shorter than
\* Wait: its tick keeps the setpoint and neither disarms nor latches.
GapOnlyHolds ==
  [][ (/\ Tick /\ output_active /\ writers_ok
       /\ ~Unhealthy /\ ~CommandStale /\ Waiting)
      => (output_active' /\ intent_enabled' /\ ~fault') ]_vars

\* The motors a healthy state has named are the only ones ever accepted.
MotorIdentityFixed == [][motor_ids # NoIds => motor_ids' = motor_ids]_vars

\* Another PC process never takes over a gate that is or becomes armed.
SessionChangeDisarms ==
  [][pc_session' # pc_session => ~intent_enabled' /\ ~output_active']_vars

\* The arms stop some time after the PC has gone silent.
LostLeaseStopsArms ==
  (output_active /\ intent_age > Wait) ~> (~output_active \/ intent_age = 0)

\* The base stops some time after the PC has gone silent.
LostLeaseStopsBase ==
  (base_moving /\ intent_age > Fresh) ~> (~base_moving \/ intent_age = 0)

\* Whatever moves stops some time after the PC has gone silent.
LostLeaseStopsMotion == LostLeaseStopsArms /\ LostLeaseStopsBase

\* The gate implements ArmedRelay.
Relay == INSTANCE ArmedRelay WITH armed <- intent_enabled,
                                  driving <- output_active
RelaySpec == Relay!Spec
=============================================================================
