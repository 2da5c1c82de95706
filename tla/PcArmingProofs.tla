---------------------------- MODULE PcArmingProofs ----------------------------
(***************************************************************************)
(* Theorems about the arming session of the PC, for every set of arms,     *)
(* every set of gate reports and every choice of the durations.            *)
(***************************************************************************)
EXTENDS PcArming, TLAPS

USE DEF vars, threadVars, buttonVars, startupVars, commandVars, robotVars,
        faultVars, resetVars, resetFrame, armVars, tailVars

-----------------------------------------------------------------------------
(* Types. *)

LEMMA AgeFacts ==
  /\ 0 \in Age /\ MaxAge \in Age /\ Age \subseteq Nat
  /\ 0 \in 0 .. Startup + 1 /\ 0 \in 0 .. Hold /\ 0 \in 0 .. ResetLimit + 1
  /\ \A age \in Age : 0 .. age \subseteq Age
  BY DurationAssumption DEF Age, MaxAge

\* Ageing stops one past the limit.
LEMMA SaturatingFacts ==
  /\ \A age \in Age : Saturating(age, Grace) \in Age
  /\ \A age \in 0 .. Startup + 1 : Saturating(age, Startup) \in 0 .. Startup + 1
  /\ \A age \in 0 .. Hold : Saturating(age, Hold - 1) \in 0 .. Hold
  /\ \A age \in 0 .. ResetLimit + 1 :
       Saturating(age, ResetLimit) \in 0 .. ResetLimit + 1
  BY DurationAssumption DEF Saturating, Age, MaxAge

\* The type invariant by groups of variables, so that a step has to look only
\* at the groups it changes.
ThreadType ==
  /\ vuer \in {"idle", "publish"}
  /\ ros \in {"idle", "stop", "tail", "answered", "accepted", "refused",
              "unlatch", "phase", "enable", "seed", "timer", "expiry"}
SessionType ==
  /\ arm_control_enabled \in BOOLEAN /\ session \in BOOLEAN
  /\ arm_start_armed \in BOOLEAN /\ post_stop \in BOOLEAN
  /\ cyclo_active \in BOOLEAN /\ moved \in BOOLEAN
  /\ phase \in Phases
StartupType ==
  /\ phase_age \in 0 .. Startup + 1 /\ first_age \in 0 .. Hold
  /\ first_command \subseteq Sides
CommandType == commanded \subseteq Sides /\ command_age \in Age
TailType ==
  /\ bridge \in BOOLEAN /\ reset_wait \in BOOLEAN /\ reset_started \in BOOLEAN
  /\ reset_future \in {"none", "open", "answered"}
FaultType == latched \in BOOLEAN /\ fault_reason \in {"none", "bool", "status"}
RobotType ==
  /\ joint_age \in Age /\ gate_age \in Age
  /\ gate_state \in GateReports \cup {"none"} /\ world_ok \in BOOLEAN
FrameType ==
  /\ both_a_prev \in BOOLEAN /\ both_b_prev \in BOOLEAN
  /\ stop_stands \in BOOLEAN /\ tracking_age \in Age
  /\ status_only \in BOOLEAN /\ reset_age \in 0 .. ResetLimit + 1
Types ==
  /\ ThreadType /\ SessionType /\ StartupType /\ CommandType
  /\ TailType /\ FaultType /\ RobotType /\ FrameType

LEMMA TypeGroups == TypeOK <=> Types
  BY DEF TypeOK, Types, ThreadType, SessionType, StartupType, CommandType,
         TailType, FaultType, RobotType, FrameType

\* What a group keeps when its variables do.
LEMMA Frames ==
  /\ ThreadType /\ UNCHANGED threadVars => ThreadType'
  /\ StartupType /\ UNCHANGED startupVars => StartupType'
  /\ CommandType /\ UNCHANGED commandVars => CommandType'
  /\ TailType /\ UNCHANGED tailVars => TailType'
  /\ FaultType /\ UNCHANGED faultVars => FaultType'
  /\ RobotType /\ UNCHANGED robotVars => RobotType'
  BY DEF ThreadType, StartupType, CommandType, TailType, FaultType, RobotType

LEMMA ArmFrame ==
  SessionType /\ StartupType /\ CommandType /\ UNCHANGED armVars
    => SessionType' /\ StartupType' /\ CommandType'
  BY DEF SessionType, StartupType, CommandType

\* A stop sends Cyclo a FALSE and forgets what the session had gathered.
LEMMA DisableLockedType ==
  ASSUME Types, DisableLocked
  PROVE  SessionType' /\ StartupType' /\ CommandType'
  BY AgeFacts DEF Types, DisableLocked, ReactivateAtStop, SessionType,
     StartupType, CommandType, Phases

LEMMA DisableType ==
  ASSUME Types, Disable
  PROVE  SessionType' /\ StartupType' /\ CommandType' /\ TailType'
  BY DisableLockedType DEF Disable, DisableTail, TailType

LEMMA EnableType ==
  ASSUME Types, Enable
  PROVE  /\ StartupType' /\ CommandType' /\ TailType'
         /\ arm_control_enabled' = TRUE /\ session' = TRUE
         /\ cyclo_active' = FALSE
         /\ UNCHANGED <<post_stop, moved>>
  BY AgeFacts DEF Types, Enable, StartupType, CommandType, TailType, SessionType

-----------------------------------------------------------------------------
(* The publication in five kinds: no frame, a stop, a frame that holds, the   *)
(* end of the bridge, a step of the startup, a frame that follows.            *)

FrameHeld ==
  /\ arm_control_enabled /\ phase = "ACTIVE"
  /\ moved' = FALSE
  /\ UNCHANGED <<arm_control_enabled, phase, session, arm_start_armed,
                 startupVars, commandVars, post_stop, cyclo_active, bridge,
                 resetVars>>
BridgeDone ==
  /\ arm_control_enabled /\ bridge
  /\ bridge' = FALSE /\ phase' = "SETTLING" /\ phase_age' = 0
  /\ UNCHANGED <<arm_control_enabled, session, arm_start_armed, commandVars,
                 first_command, first_age, post_stop, cyclo_active, moved,
                 resetVars>>
StartupStep ==
  /\ arm_control_enabled /\ ~bridge /\ phase \in {"SETTLING", "WARMUP"}
  /\ ~latched /\ StartupProceeds
FrameFollows ==
  /\ arm_control_enabled /\ ~bridge /\ phase \notin {"SETTLING", "WARMUP"}
  /\ ~(phase = "ACTIVE" /\ latched)
  /\ moved' = TRUE
  /\ UNCHANGED <<arm_control_enabled, phase, session, arm_start_armed,
                 startupVars, commandVars, post_stop, cyclo_active, bridge,
                 resetVars>>

LEMMA PublishCases ==
  ASSUME Publish
  PROVE  \/ NothingSent \/ Disable \/ FrameHeld \/ BridgeDone
         \/ StartupStep \/ FrameFollows
  <1>1. CASE PublishGap
    BY <1>1 DEF PublishGap, Gap, Active, FrameHeld
  <1>2. CASE PublishSeed
    BY <1>2 DEF PublishSeed, Bridging, BridgeDone
  <1>3. CASE PublishStartup
    BY <1>3 DEF PublishStartup, Bridging, StartupRefused, StartupStep
  <1>4. CASE PublishFollow
    BY <1>4 DEF PublishFollow, Bridging, FollowRefused, FrameFollows
  <1>. QED
    BY <1>1, <1>2, <1>3, <1>4 DEF Publish

LEMMA PublishType ==
  ASSUME Types, Publish
  PROVE  SessionType' /\ StartupType' /\ CommandType' /\ TailType'
  <1>1. CASE NothingSent
    BY <1>1, ArmFrame, Frames DEF Types, NothingSent
  <1>2. CASE Disable
    BY <1>2, DisableType
  <1>3. CASE FrameHeld \/ FrameFollows
    BY <1>3, Frames DEF Types, FrameHeld, FrameFollows, SessionType
  <1>4. CASE BridgeDone
    BY <1>4, AgeFacts, Frames
       DEF Types, BridgeDone, SessionType, StartupType, TailType, Phases
  <1>5. CASE StartupStep
    BY <1>5, AgeFacts, Frames
       DEF Types, StartupStep, StartupProceeds, SessionType, StartupType,
           Phases
  <1>. QED
    BY <1>1, <1>2, <1>3, <1>4, <1>5, PublishCases

LEMMA StartType ==
  ASSUME Types, NEW age \in Age, Start(age)
  PROVE  /\ SessionType' /\ StartupType' /\ CommandType' /\ TailType'
         /\ status_only' \in BOOLEAN /\ reset_age' \in 0 .. ResetLimit + 1
  <1>1. CASE latched /\ RequestReset
    BY <1>1, AgeFacts, Frames
       DEF Types, Start, RequestReset, SessionType, TailType, FrameType
  <1>2. CASE ~latched /\ arm_control_enabled
    BY <1>2, Frames DEF Types, Start, SessionType, FrameType
  <1>3. CASE Enable /\ UNCHANGED resetFrame
             /\ phase' = IF bridge' THEN "RESUME_SEED" ELSE "SETTLING"
    BY <1>3, EnableType DEF Types, Start, SessionType, FrameType, Phases
  <1>4. CASE Disable /\ UNCHANGED resetFrame
    BY <1>4, DisableType DEF Types, FrameType
  <1>. QED
    BY <1>1, <1>2, <1>3, <1>4 DEF Start

LEMMA ControllerMoveType ==
  ASSUME Types, NEW b \in Buttons, NEW valid \in BOOLEAN, NEW age \in Age,
         ControllerMove(b, valid, age)
  PROVE  Types'
  <1>1. ThreadType' /\ FaultType' /\ RobotType'
    BY Frames DEF Types, ControllerMove, ThreadType
  <1>2. /\ both_a_prev' \in BOOLEAN /\ both_b_prev' \in BOOLEAN
        /\ stop_stands' \in BOOLEAN /\ tracking_age' \in Age
    BY DEF ControllerMove
  <1>3. /\ SessionType' /\ StartupType' /\ CommandType' /\ TailType'
        /\ status_only' \in BOOLEAN /\ reset_age' \in 0 .. ResetLimit + 1
    <2>1. CASE Disable /\ UNCHANGED resetFrame
      BY <2>1, DisableType DEF Types, FrameType
    <2>2. CASE Start(age)
      BY <2>2, StartType
    <2>3. CASE arm_start_armed' \in BOOLEAN
               /\ UNCHANGED <<arm_control_enabled, phase, session, startupVars,
                       commandVars, post_stop, cyclo_active, moved, tailVars,
                       resetFrame>>
      BY <2>3, Frames DEF Types, SessionType, FrameType
    <2>. QED
      BY <2>1, <2>2, <2>3 DEF ControllerMove
  <1>. QED
    BY <1>1, <1>2, <1>3 DEF Types, FrameType

\* A step that leaves the session, the tail and the latch alone.
LEMMA FeedbackType ==
  ASSUME Types,
         \/ JointsMalformed \/ JointStates
         \/ \E side \in Sides : Command(side)
         \/ GateStatusInvalid \/ WorldChange
  PROVE  Types'
  <1>1. CASE JointsMalformed \/ GateStatusInvalid \/ WorldChange
    <2>1. RobotType'
      BY <1>1, AgeFacts
         DEF Types, JointsMalformed, GateStatusInvalid, WorldChange, RobotType
    <2>2. /\ UNCHANGED <<threadVars, armVars, tailVars, faultVars>>
          /\ FrameType'
      BY <1>1 DEF Types, JointsMalformed, GateStatusInvalid, WorldChange,
                  FrameType
    <2>. QED
      BY <2>1, <2>2, Frames, ArmFrame DEF Types
  <1>2. CASE JointStates
    <2>1. RobotType' /\ SessionType'
      BY <1>2, AgeFacts DEF Types, JointStates, RobotType, SessionType
    <2>. QED
      BY <1>2, <2>1, Frames DEF Types, JointStates, FrameType
  <1>3. ASSUME NEW side \in Sides, Command(side) PROVE Types'
    <2>1. CommandType'
      BY <1>3, AgeFacts DEF Types, Command, CommandType
    <2>2. StartupType'
      BY <1>3, AgeFacts DEF Types, Command, StartupType
    <2>. QED
      BY <1>3, <2>1, <2>2, Frames DEF Types, Command, SessionType, FrameType
  <1>. QED
    BY <1>1, <1>2, <1>3

LEMMA StopType ==
  ASSUME Types, InvalidCommand \/ StopLocked \/ StopTail PROVE Types'
  <1>1. CASE InvalidCommand \/ StopLocked
    BY <1>1, DisableLockedType, Frames
       DEF Types, InvalidCommand, StopLocked, ThreadType, FrameType
  <1>2. CASE StopTail
    BY <1>2, ArmFrame, Frames
       DEF Types, StopTail, DisableTail, ThreadType, TailType, FrameType
  <1>. QED
    BY <1>1, <1>2

LEMMA LatchType ==
  ASSUME Types, NEW reason \in {"bool", "status"}, Latch(reason)
  PROVE  FaultType' /\ ros' \in {"stop", "idle"}
  BY DEF Types, Latch, FaultType

LEMMA FaultMessageType ==
  ASSUME Types,
         \/ \E report \in GateReports, after \in BOOLEAN :
              GateStatus(report, after)
         \/ BoolFault \/ BoolFaultIgnored \/ ReferenceFault
  PROVE  Types'
  <1>1. ASSUME NEW report \in GateReports, NEW after \in BOOLEAN,
               GateStatus(report, after)
        PROVE  Types'
    <2>1. FaultType' /\ ThreadType'
      BY <1>1, LatchType, Frames DEF Types, GateStatus, ThreadType
    <2>2. TailType' /\ RobotType'
      BY <1>1, AgeFacts
         DEF Types, GateStatus, AfterBarrier, TailType, RobotType
    <2>. QED
      BY <1>1, <2>1, <2>2, ArmFrame DEF Types, GateStatus, FrameType
  <1>2. CASE BoolFault
    <2>1. FaultType' /\ ThreadType'
      BY <1>2, LatchType DEF Types, BoolFault, ThreadType
    <2>. QED
      BY <1>2, <2>1, ArmFrame, Frames DEF Types, BoolFault, FrameType
  <1>3. CASE BoolFaultIgnored
    BY <1>3, ArmFrame, Frames DEF Types, BoolFaultIgnored, FrameType
  <1>4. CASE ReferenceFault
    BY <1>4, ArmFrame, Frames
       DEF Types, ReferenceFault, ThreadType, FaultType, FrameType
  <1>. QED
    BY <1>1, <1>2, <1>3, <1>4

LEMMA ResetStepType ==
  ASSUME Types,
         \/ AnswerTaken \/ StoreResult
         \/ \E outcome \in {"accepted", "refused"} : FaultResetResult(outcome)
         \/ Unlatch \/ ResetPhase \/ Restart \/ RestartSeed
  PROVE  Types'
  <1>1. CASE \/ AnswerTaken \/ StoreResult
             \/ \E outcome \in {"accepted", "refused"} :
                  FaultResetResult(outcome)
    <2>1. ThreadType'
      BY <1>1 DEF Types, AnswerTaken, StoreResult, FaultResetResult, ThreadType
    <2>2. TailType'
      BY <1>1 DEF Types, AnswerTaken, StoreResult, FaultResetResult, TailType
    <2>3. FrameType'
      BY <1>1 DEF Types, AnswerTaken, StoreResult, FaultResetResult, FrameType
    <2>4. UNCHANGED <<armVars, faultVars, robotVars>>
      BY <1>1 DEF AnswerTaken, StoreResult, FaultResetResult
    <2>. QED
      BY <2>1, <2>2, <2>3, <2>4, ArmFrame, Frames DEF Types
  <1>2. CASE Unlatch
    BY <1>2, ArmFrame, Frames DEF Types, Unlatch, ThreadType, FaultType, FrameType
  <1>3. CASE ResetPhase \/ RestartSeed
    BY <1>3, Frames
       DEF Types, ResetPhase, RestartSeed, ThreadType, SessionType, FrameType,
           Phases
  <1>4. CASE Restart
    <2>1. /\ ThreadType' /\ SessionType' /\ StartupType' /\ CommandType'
          /\ TailType'
      <3>1. CASE Enable /\ phase' = "SETTLING" /\ UNCHANGED arm_start_armed
        BY <1>4, <3>1, EnableType DEF Types, Restart, ThreadType, SessionType, Phases
      <3>2. CASE Disable
        BY <1>4, <3>2, DisableType DEF Types, Restart, ThreadType
      <3>3. CASE UNCHANGED <<armVars, tailVars>>
        BY <1>4, <3>3, ArmFrame, Frames DEF Types, Restart, ThreadType
      <3>. QED
        BY <1>4, <3>1, <3>2, <3>3 DEF Restart
    <2>. QED
      BY <1>4, <2>1, Frames DEF Types, Restart, FrameType
  <1>. QED
    BY <1>1, <1>2, <1>3, <1>4

LEMMA TimerType ==
  ASSUME Types, TimerCheck \/ TimerPublish \/ TimerExpiry PROVE Types'
  <1>1. CASE TimerCheck
    <2>1. SessionType' /\ StartupType' /\ CommandType' /\ TailType'
      <3>1. CASE Disable
        BY <3>1, DisableType
      <3>2. CASE arm_start_armed' = FALSE /\
                 UNCHANGED <<arm_control_enabled, phase, session, startupVars,
                             commandVars, post_stop, cyclo_active, moved,
                             tailVars>>
        BY <3>2, Frames DEF Types, SessionType
      <3>3. CASE UNCHANGED <<armVars, tailVars>>
        BY <3>3, ArmFrame, Frames DEF Types
      <3>. QED
        BY <1>1, <3>1, <3>2, <3>3 DEF TimerCheck
    <2>. QED
      BY <1>1, <2>1, Frames DEF Types, TimerCheck, ThreadType, FrameType
  <1>2. CASE TimerPublish
    BY <1>2, PublishType, Frames DEF Types, TimerPublish, ThreadType, FrameType
  <1>3. CASE TimerExpiry
    BY <1>3, ArmFrame, Frames
       DEF Types, TimerExpiry, ThreadType, TailType, FrameType
  <1>. QED
    BY <1>1, <1>2, <1>3

LEMMA VuerType ==
  ASSUME Types,
         VuerPublish \/ \E valid \in BOOLEAN, age \in Age : BodyMove(valid, age)
  PROVE  Types'
  <1>1. CASE VuerPublish
    BY <1>1, PublishType, Frames DEF Types, VuerPublish, ThreadType, FrameType
  <1>2. ASSUME NEW valid \in BOOLEAN, NEW age \in Age, BodyMove(valid, age)
        PROVE  Types'
    <2>1. SessionType' /\ StartupType' /\ CommandType' /\ TailType'
      BY <1>2, DisableType, ArmFrame, Frames DEF Types, BodyMove
    <2>. QED
      BY <1>2, <2>1, Frames DEF Types, BodyMove, FrameType
  <1>. QED
    BY <1>1, <1>2

LEMMA ElapseType ==
  ASSUME Types, Elapse PROVE Types'
  <1>1. StartupType'
    BY SaturatingFacts DEF Types, Elapse, StartupType
  <1>2. CommandType' /\ RobotType'
    BY SaturatingFacts DEF Types, Elapse, CommandType, RobotType
  <1>3. FrameType'
    BY SaturatingFacts DEF Types, Elapse, FrameType
  <1>. QED
    BY <1>1, <1>2, <1>3, Frames DEF Types, Elapse, SessionType

LEMMA TypeStep == TypeOK /\ [Next]_vars => TypeOK'
  <1>. SUFFICES ASSUME Types, [Next]_vars PROVE Types'
    BY TypeGroups, PTL
  <1>1. CASE VuerStep
    BY <1>1, ControllerMoveType, VuerType DEF VuerStep
  <1>2. CASE RosInput
    BY <1>2, FeedbackType, StopType, FaultMessageType, ResetStepType
       DEF RosInput
  <1>3. CASE RosStep
    BY <1>3, StopType, ResetStepType, TimerType DEF RosStep
  <1>4. CASE WorldChange \/ Elapse
    BY <1>4, FeedbackType, ElapseType
  <1>5. CASE UNCHANGED vars
    BY <1>5, ArmFrame, Frames DEF Types, FrameType
  <1>. QED
    BY <1>1, <1>2, <1>3, <1>4, <1>5 DEF Next

LEMMA TypeInit == Init => TypeOK
  BY AgeFacts DEF Init, TypeOK, Phases

\* The state of the publisher stays in its domains.
THEOREM TypeCorrect == Spec => []TypeOK
  BY TypeInit, TypeStep, PTL DEF Spec

-----------------------------------------------------------------------------
(* What holds however the threads interleave. *)

\* A stop disables the session, a publication latches nothing: the latch and
\* the session meet only in a callback that has already decided to stop.
LEMMA FaultStep ==
  TypeOK /\ FaultStopsSession /\ [Next]_vars => FaultStopsSession'
  <1>. SUFFICES ASSUME Types, FaultStopsSession, [Next]_vars
                PROVE  FaultStopsSession'
    BY TypeGroups
  <1>. USE DEF FaultStopsSession, Disable, DisableLocked, Enable
  <1>0. ASSUME Publish, UNCHANGED latched
        PROVE  /\ latched' /\ arm_control_enabled' => latched /\ arm_control_enabled
    BY <1>0, PublishCases
       DEF NothingSent, FrameHeld, BridgeDone, StartupStep, StartupProceeds,
           FrameFollows
  <1>1. ASSUME NEW b \in Buttons, NEW valid \in BOOLEAN, NEW age \in Age,
               ControllerMove(b, valid, age)
        PROVE  FaultStopsSession'
    <2>1. CASE Disable
      BY <2>1
    <2>2. CASE Start(age)
      BY <1>1, <2>2 DEF ControllerMove, Start
    <2>3. CASE UNCHANGED arm_control_enabled
      BY <1>1, <2>3 DEF ControllerMove
    <2>. QED
      BY <1>1, <2>1, <2>2, <2>3 DEF ControllerMove
  <1>2. CASE VuerPublish
    BY <1>0, <1>2 DEF VuerPublish
  <1>3. ASSUME NEW valid \in BOOLEAN, NEW age \in Age, BodyMove(valid, age)
        PROVE  FaultStopsSession'
    BY <1>3 DEF BodyMove
  <1>4. CASE RosInput
    BY <1>4 DEF RosInput, JointsMalformed, JointStates, Command,
       InvalidCommand, GateStatus, Latch, GateStatusInvalid, BoolFault,
       BoolFaultIgnored, ReferenceFault, AnswerTaken, RosCallback
  <1>5. CASE TimerPublish
    BY <1>0, <1>5 DEF TimerPublish
  <1>6. CASE RosStep /\ ~TimerPublish
    <2>1. CASE StopLocked \/ StopTail \/ Restart \/ TimerCheck
      BY <2>1 DEF StopLocked, StopTail, Restart, CaptureAllowed, TimerCheck,
         RosCallback
    <2>2. CASE \/ \E outcome \in {"accepted", "refused"} :
                    FaultResetResult(outcome)
               \/ StoreResult \/ Unlatch \/ ResetPhase \/ RestartSeed
               \/ TimerExpiry
      BY <2>2 DEF FaultResetResult, StoreResult, Unlatch, ResetPhase,
         RestartSeed, TimerExpiry
    <2>. QED
      BY <1>6, <2>1, <2>2 DEF RosStep
  <1>7. CASE WorldChange \/ Elapse \/ UNCHANGED vars
    BY <1>7 DEF WorldChange, Elapse
  <1>. QED
    BY <1>1, <1>2, <1>3, <1>4, <1>5, <1>6, <1>7 DEF Next, VuerStep

\* The bridge ends before Cyclo is activated, and whatever disables a session
\* or starts one sends Cyclo a FALSE.
LEMMA SeedStep ==
  TypeOK /\ SeedWhileInactive /\ [Next]_vars => SeedWhileInactive'
  <1>. SUFFICES ASSUME Types, SeedWhileInactive, [Next]_vars
                PROVE  SeedWhileInactive'
    BY TypeGroups
  <1>. USE DEF SeedWhileInactive, Disable, DisableLocked, DisableTail, Enable,
               ReactivateAtStop
  <1>0. ASSUME Publish PROVE SeedWhileInactive'
    BY <1>0, PublishCases
       DEF NothingSent, FrameHeld, BridgeDone, StartupStep, StartupProceeds,
           FrameFollows
  <1>1. ASSUME NEW b \in Buttons, NEW valid \in BOOLEAN, NEW age \in Age,
               ControllerMove(b, valid, age)
        PROVE  SeedWhileInactive'
    <2>1. CASE Start(age)
      BY <2>1 DEF Start
    <2>. QED
      BY <1>1, <2>1 DEF ControllerMove
  <1>2. CASE VuerPublish \/ TimerPublish
    BY <1>0, <1>2 DEF VuerPublish, TimerPublish
  <1>3. ASSUME NEW valid \in BOOLEAN, NEW age \in Age, BodyMove(valid, age)
        PROVE  SeedWhileInactive'
    BY <1>3 DEF BodyMove
  <1>4. CASE RosInput
    BY <1>4 DEF RosInput, JointsMalformed, JointStates, Command,
       InvalidCommand, GateStatus, GateStatusInvalid, BoolFault,
       BoolFaultIgnored, ReferenceFault, AnswerTaken
  <1>6. CASE RosStep /\ ~TimerPublish
    <2>1. CASE StopLocked \/ StopTail \/ Restart \/ TimerCheck
      BY <2>1 DEF StopLocked, StopTail, Restart, TimerCheck
    <2>2. CASE \/ \E outcome \in {"accepted", "refused"} :
                    FaultResetResult(outcome)
               \/ StoreResult \/ Unlatch \/ ResetPhase \/ RestartSeed
               \/ TimerExpiry
      BY <2>2 DEF FaultResetResult, StoreResult, Unlatch, ResetPhase,
         RestartSeed, TimerExpiry
    <2>. QED
      BY <1>6, <2>1, <2>2 DEF RosStep
  <1>7. CASE WorldChange \/ Elapse \/ UNCHANGED vars
    BY <1>7 DEF WorldChange, Elapse
  <1>. QED
    BY <1>1, <1>2, <1>3, <1>4, <1>6, <1>7 DEF Next, VuerStep

\* A latched fault has stopped the session or its callback is about to,
\* whatever the Vuer thread does between two statements of that callback.
THEOREM FaultStops == Spec => []FaultStopsSession
  <1>1. Init => FaultStopsSession
    BY DEF Init, FaultStopsSession
  <1>. QED
    BY <1>1, TypeCorrect, FaultStep, PTL DEF Spec

\* The bridge of a resume never overlaps an active Cyclo or a following hand.
THEOREM SeedsInactive == Spec => []SeedWhileInactive
  <1>1. Init => SeedWhileInactive
    BY DEF Init, SeedWhileInactive
  <1>. QED
    BY <1>1, TypeCorrect, SeedStep, PTL DEF Spec

\* Only a publication step ends the timer's look at the session.
LEMMA PublicationSteps ==
  ASSUME [Next]_vars
  PROVE  /\ Publication => Publish
         /\ ros' = "timer" => TimerCheck \/ Publish \/ UNCHANGED vars
  <1>1. CASE VuerStep
    BY <1>1 DEF VuerStep, ControllerMove, VuerPublish, BodyMove, Publication,
       VuerMayRun, LockFree
  <1>2. CASE RosInput
    BY <1>2 DEF RosInput, JointsMalformed, JointStates, Command,
       InvalidCommand, GateStatus, Latch, GateStatusInvalid, BoolFault,
       BoolFaultIgnored, ReferenceFault, AnswerTaken, RosCallback, Publication
  <1>3. CASE RosStep
    BY <1>3 DEF RosStep, StopLocked, StopTail, FaultResetResult, StoreResult,
       Unlatch, ResetPhase, Restart, RestartSeed, TimerCheck, TimerPublish,
       TimerExpiry, RosCallback, Publication
  <1>4. CASE WorldChange \/ Elapse \/ UNCHANGED vars
    BY <1>4 DEF WorldChange, Elapse, Idle, Publication
  <1>. QED
    BY <1>1, <1>2, <1>3, <1>4 DEF Next

\* A gap that is shorter than the grace period costs an active session
\* nothing, on whichever thread it is noticed.
THEOREM GapsOnlyWait == Spec => GapOnlyWaits
  <1>1. ASSUME TypeOK, SeedWhileInactive, [Next]_vars,
               Publication \/ ros' = "timer",
               Active, world_ok, ~latched, commanded = Sides,
               tracking_age <= Grace, joint_age <= Grace,
               command_age <= Grace, gate_age <= Grace,
               gate_state \in {"good", "waiting", "late"}
        PROVE  Active'
    <2>0. \A age \in FeedbackAges : ~(age > Grace)
      <3>1. Types
        BY <1>1, TypeGroups
      <3>2. {joint_age, command_age, gate_age} \subseteq Nat /\ Grace \in Nat
        BY <3>1, AgeFacts, DurationAssumption DEF Types, CommandType, RobotType
      <3>. QED
        BY <1>1, <3>2 DEF FeedbackAges
    <2>1. /\ FeedbackState # "expired"
          /\ gate_state = "late" => FeedbackState = "waiting"
      BY <1>1, <2>0 DEF FeedbackState
    <2>2. \A age \in {tracking_age} : ArmFresh(age)
      BY <1>1 DEF ArmFresh, Limit
    <2>3. GraphOk
      BY <1>1, <2>1 DEF GraphOk, Limit
    <2>4. CASE Publish
      <3>1. CASE PublishGap
        BY <1>1, <2>1, <2>2, <2>3, <3>1 DEF PublishGap, GapTolerable, Active
      <3>2. CASE PublishSeed
        BY <1>1, <3>2 DEF PublishSeed, Bridging, SeedWhileInactive, Active
      <3>3. CASE PublishStartup
        BY <1>1, <3>3 DEF PublishStartup, Active
      <3>4. CASE PublishFollow
        <4>1. ~FollowRefused
          BY <1>1, <2>2, <2>3, <3>4
             DEF PublishFollow, Gap, FollowRefused, FeedbackState, FeedbackAges
        <4>. QED
          BY <1>1, <3>4, <4>1 DEF PublishFollow, Active
      <3>5. CASE NothingSent
        BY <1>1, <3>5 DEF NothingSent, Active
      <3>. QED
        BY <2>4, <3>1, <3>2, <3>3, <3>4, <3>5 DEF Publish
    <2>5. CASE TimerCheck
      BY <1>1, <2>2, <2>5 DEF TimerCheck, Active
    <2>6. CASE UNCHANGED vars
      BY <1>1, <2>6 DEF Active
    <2>. QED
      BY <1>1, <2>4, <2>5, <2>6, PublicationSteps
  <1>2. TypeOK /\ SeedWhileInactive /\ [Next]_vars
        => [ (/\ Publication \/ ros' = "timer"
              /\ Active /\ world_ok /\ ~latched /\ commanded = Sides
              /\ tracking_age <= Grace /\ joint_age <= Grace
              /\ command_age <= Grace /\ gate_age <= Grace
              /\ gate_state \in {"good", "waiting", "late"})
             => Active' ]_vars
    BY <1>1
  <1>. QED
    BY <1>2, TypeCorrect, SeedsInactive, PTL DEF Spec, GapOnlyWaits

-----------------------------------------------------------------------------
(* What holds when a controller event never comes between two statements of   *)
(* an rclpy callback.  With Preempt it does not: a Y+B in the middle of a      *)
(* confirmed reset is overtaken by the restart.                                *)
(*                                                                             *)
(* The inductive invariant of the reset: a request needs a latched fault, its  *)
(* answer and its confirmation follow one another, the restart begins with     *)
(* the session disabled, and a Y+B, which withdraws the request, leaves no     *)
(* step of it under way.                                                       *)

ResetUnderWay ==
  reset_future # "none" \/ reset_wait \/ ros \in {"answered", "accepted"}
Restarting == ros \in {"unlatch", "phase", "enable"}

CallbacksWhole ==
  /\ vuer = "publish" => ros = "idle"
  /\ ros = "tail" => ~arm_control_enabled
ResetProtocol ==
  /\ ResetUnderWay => latched
  /\ reset_wait => reset_future = "none"
  /\ ros = "answered" => reset_future = "answered"
  /\ ros \in {"accepted", "refused"} => reset_future = "none"
  /\ Restarting => /\ ~arm_control_enabled
                   /\ reset_future = "none" /\ ~reset_wait
StopEndsReset == ResetUnderWay \/ Restarting => ~stop_stands /\ ~both_b_prev
ResetInv == CallbacksWhole /\ ResetProtocol /\ StopEndsReset /\ StopStands

\* What the publication does to the session and the reset.
LEMMA PublishReset ==
  ASSUME Publish
  PROVE  /\ arm_control_enabled' => arm_control_enabled
         /\ \/ reset_future' = "none" /\ ~reset_wait'
            \/ UNCHANGED <<reset_future, reset_wait>>
  <1>1. CASE Disable
    BY <1>1 DEF Disable, DisableLocked, DisableTail
  <1>2. CASE \/ NothingSent \/ FrameHeld \/ BridgeDone \/ StartupStep
             \/ FrameFollows
    BY <1>2 DEF NothingSent, FrameHeld, BridgeDone, StartupStep,
       StartupProceeds, FrameFollows
  <1>. QED
    BY <1>1, <1>2, PublishCases

LEMMA ResetStep ==
  ASSUME Preempt = FALSE, TypeOK, FaultStopsSession, ResetInv, [Next]_vars
  PROVE  ResetInv'
  <1>0. Types
    BY TypeGroups
  <1>. USE DEF ResetInv, CallbacksWhole, ResetProtocol, StopEndsReset,
               StopStands, ResetUnderWay, Restarting, RosMayRun
  <1>1. ASSUME NEW b \in Buttons, NEW valid \in BOOLEAN, NEW age \in Age,
               ControllerMove(b, valid, age)
        PROVE  ResetInv'
    <2>1. ros = "idle" /\ ros' = "idle" /\ UNCHANGED latched
      BY <1>1 DEF ControllerMove, VuerMayRun
    <2>2. CASE Disable
      BY <2>1, <2>2 DEF Disable, DisableLocked, DisableTail
    <2>3. CASE Start(age) /\ b = "XA" /\ ~stop_stands' /\ ~both_b_prev'
      <3>1. CASE latched /\ RequestReset
        BY <2>1, <2>3, <3>1 DEF RequestReset, MayRequest
      <3>2. CASE ~latched /\ arm_control_enabled
        <4>1. UNCHANGED <<arm_control_enabled, tailVars>>
          BY <2>3, <3>2 DEF Start
        <4>. QED
          BY <2>1, <2>3, <4>1
      <3>3. CASE ~latched /\ Enable
        BY <2>1, <2>3, <3>3 DEF Enable
      <3>4. CASE Disable
        BY <2>1, <2>3, <3>4 DEF Disable, DisableLocked, DisableTail
      <3>. QED
        BY <2>3, <3>1, <3>2, <3>3, <3>4 DEF Start
    <2>4. CASE /\ UNCHANGED <<arm_control_enabled, tailVars>>
               /\ b \in {"YB", "XAYB"} => both_b_prev /\ ~arm_control_enabled
               /\ stop_stands' => b \in {"YB", "XAYB"} \/ stop_stands
               /\ both_b_prev' = (b \in {"YB", "XAYB"})
      BY <2>1, <2>4
    <2>. QED
      BY <1>1, <2>2, <2>3, <2>4 DEF ControllerMove, StartChord
  <1>2. CASE VuerPublish
    BY <1>2, PublishReset DEF VuerPublish
  <1>3. ASSUME NEW valid \in BOOLEAN, NEW age \in Age, BodyMove(valid, age)
        PROVE  ResetInv'
    BY <1>3 DEF BodyMove, VuerMayRun, Disable, DisableLocked, DisableTail
  <1>4. CASE RosInput
    <2>1. CASE \/ JointsMalformed \/ JointStates
               \/ \E side \in Sides : Command(side)
               \/ GateStatusInvalid \/ BoolFaultIgnored
      <3>1. UNCHANGED <<threadVars, arm_control_enabled, tailVars, latched,
                        both_b_prev, stop_stands>>
        BY <2>1 DEF JointsMalformed, JointStates, Command, GateStatusInvalid,
           BoolFaultIgnored
      <3>. QED
        BY <3>1
    <2>4. CASE InvalidCommand
      BY <2>4 DEF InvalidCommand, RosCallback, DisableLocked
    <2>5. CASE AnswerTaken
      BY <2>5 DEF AnswerTaken, RosCallback
    <2>2. CASE BoolFault \/ ReferenceFault
      BY <2>2 DEF BoolFault, ReferenceFault, Latch, RosCallback
    <2>3. ASSUME NEW report \in GateReports, NEW after \in BOOLEAN,
                 GateStatus(report, after)
          PROVE  ResetInv'
      <3>1. /\ ros = "idle" /\ vuer = "idle" /\ vuer' = "idle"
            /\ latched => ~arm_control_enabled
            /\ UNCHANGED <<arm_control_enabled, reset_future, both_b_prev,
                           stop_stands>>
        BY <2>3 DEF GateStatus, RosCallback, FaultStopsSession
      <3>2. CASE report # "fault"
        <4>1. /\ UNCHANGED latched /\ (reset_wait' => reset_wait)
              /\ \/ ros' = "idle"
                 \/ ros' = "unlatch" /\ reset_wait /\ ~reset_wait'
          BY <1>0, <2>3, <3>2 DEF GateStatus, AfterBarrier
        <4>. QED
          BY <3>1, <4>1
      <3>3. CASE report = "fault"
        <4>1. /\ latched' \/ UNCHANGED latched
              /\ reset_wait' => reset_wait
              /\ ros' \in {"idle", "stop"}
          BY <2>3, <3>3 DEF GateStatus, Latch
        <4>. QED
          BY <3>1, <4>1
      <3>. QED
        BY <3>2, <3>3
    <2>. QED
      BY <1>4, <2>1, <2>2, <2>3, <2>4, <2>5 DEF RosInput
  <1>5. CASE RosStep
    <2>1. CASE StopLocked \/ StopTail
      BY <2>1 DEF StopLocked, StopTail, DisableLocked, DisableTail
    <2>5. CASE Restart
      <3>1. /\ ros = "enable" /\ vuer = "idle" /\ vuer' = "idle"
            /\ UNCHANGED <<latched, both_b_prev, stop_stands>>
        BY <2>5 DEF Restart
      <3>2. CASE Enable /\ ros' = "seed"
        BY <3>1, <3>2 DEF Enable
      <3>3. CASE Disable /\ ros' = "idle"
        BY <3>1, <3>3 DEF Disable, DisableLocked, DisableTail
      <3>. QED
        BY <2>5, <3>1, <3>2, <3>3 DEF Restart
    <2>6. CASE TimerCheck
      BY <2>6 DEF TimerCheck, RosCallback, Disable, DisableLocked, DisableTail
    <2>2. CASE \/ \E outcome \in {"accepted", "refused"} :
                    FaultResetResult(outcome)
               \/ StoreResult
      BY <2>2 DEF FaultResetResult, StoreResult
    <2>3. CASE Unlatch \/ ResetPhase \/ RestartSeed \/ TimerExpiry
      BY <2>3 DEF Unlatch, ResetPhase, RestartSeed, TimerExpiry
    <2>4. CASE TimerPublish
      BY <2>4, PublishReset DEF TimerPublish
    <2>. QED
      BY <1>5, <2>1, <2>2, <2>3, <2>4, <2>5, <2>6 DEF RosStep
  <1>6. CASE WorldChange \/ Elapse \/ UNCHANGED vars
    BY <1>6 DEF WorldChange, Elapse
  <1>. QED
    BY <1>1, <1>2, <1>3, <1>4, <1>5, <1>6 DEF Next, VuerStep

-----------------------------------------------------------------------------
(* The inductive invariant of the startup: an enabled session is in one of    *)
(* its four phases, each with what it has already reached.  Cyclo and the     *)
(* frames say what the phase says.                                            *)

StartupOrder ==
  arm_control_enabled =>
    /\ phase \in {"RESUME_SEED", "SETTLING", "WARMUP", "ACTIVE"}
    /\ phase = "RESUME_SEED" => bridge
    /\ phase \in {"WARMUP", "ACTIVE"} => cyclo_active
    /\ phase = "ACTIVE" => first_command = Sides
    /\ gate_state # "none"
StartupInv == StartupOrder /\ CycloFollowsSession /\ HandsMoveAfterStartup

IInv ==
  /\ TypeOK /\ FaultStopsSession /\ SeedWhileInactive
  /\ ResetInv /\ StartupInv

\* A stop leaves nothing of the session.
LEMMA DisabledStartup ==
  ASSUME DisableLocked PROVE StartupInv'
  BY DEF DisableLocked, ReactivateAtStop, StartupInv, StartupOrder,
     CycloFollowsSession, HandsMoveAfterStartup

\* A session begins with Cyclo told FALSE and no frame that follows.
LEMMA EnabledStartup ==
  ASSUME StartupInv, Enable, ~arm_control_enabled, GraphOk,
         UNCHANGED gate_state,
         phase' \in {"SETTLING", IF bridge' THEN "RESUME_SEED" ELSE "SETTLING"}
  PROVE  StartupInv'
  BY DEF Enable, GraphOk, StartupInv, StartupOrder, CycloFollowsSession,
     HandsMoveAfterStartup

\* What the startup says is read from these variables.
LEMMA StartupFrame ==
  ASSUME StartupInv, ~arm_control_enabled \/ gate_state' # "none",
         ~arm_control_enabled \/ UNCHANGED <<phase, bridge>>,
         UNCHANGED <<arm_control_enabled, first_command, cyclo_active, moved>>
  PROVE  StartupInv'
  BY DEF StartupInv, StartupOrder, CycloFollowsSession, HandsMoveAfterStartup

LEMMA PublishStartupInv ==
  ASSUME Types, SeedWhileInactive, StartupInv, Publish, UNCHANGED gate_state
  PROVE  StartupInv'
  <1>. USE DEF StartupInv, StartupOrder, CycloFollowsSession,
               HandsMoveAfterStartup
  <1>1. CASE NothingSent
    BY <1>1 DEF NothingSent
  <1>2. CASE Disable
    BY <1>2, DisabledStartup DEF Disable
  <1>3. CASE FrameHeld
    BY <1>3 DEF FrameHeld
  <1>4. CASE BridgeDone
    BY <1>4 DEF BridgeDone, SeedWhileInactive
  <1>5. CASE StartupStep
    BY <1>5 DEF StartupStep, StartupProceeds, Warm
  <1>6. CASE FrameFollows
    BY <1>6 DEF FrameFollows
  <1>. QED
    BY <1>1, <1>2, <1>3, <1>4, <1>5, <1>6, PublishCases

LEMMA StartupStepKeeps ==
  ASSUME Preempt = FALSE, TypeOK, SeedWhileInactive, ResetInv, StartupInv,
         [Next]_vars
  PROVE  StartupInv'
  <1>0. Types
    BY TypeGroups
  <1>1. ASSUME NEW b \in Buttons, NEW valid \in BOOLEAN, NEW age \in Age,
               ControllerMove(b, valid, age)
        PROVE  StartupInv'
    <2>1. UNCHANGED gate_state
      BY <1>1 DEF ControllerMove
    <2>2. CASE Disable
      BY <2>2, DisabledStartup DEF Disable
    <2>3. CASE UNCHANGED <<arm_control_enabled, phase, bridge, startupVars,
                           cyclo_active, moved>>
      BY <2>1, <2>3, StartupFrame DEF StartupInv, StartupOrder
    <2>4. CASE Start(age)
      <3>1. CASE ~latched /\ ~arm_control_enabled /\ CaptureAllowed(age)
        BY <2>1, <2>4, <3>1, EnabledStartup DEF Start, CaptureAllowed
      <3>2. CASE ~latched /\ ~arm_control_enabled /\ ~CaptureAllowed(age)
        BY <2>2, <2>4, <3>2 DEF Start
      <3>3. CASE latched \/ arm_control_enabled
        BY <2>3, <2>4, <3>3 DEF Start
      <3>. QED
        BY <3>1, <3>2, <3>3
    <2>. QED
      BY <1>1, <2>2, <2>3, <2>4 DEF ControllerMove
  <1>2. CASE VuerPublish \/ TimerPublish
    BY <1>0, <1>2, PublishStartupInv DEF VuerPublish, TimerPublish
  <1>3. ASSUME NEW valid \in BOOLEAN, NEW age \in Age, BodyMove(valid, age)
        PROVE  StartupInv'
    <2>1. CASE Disable
      BY <2>1, DisabledStartup DEF Disable
    <2>2. CASE UNCHANGED <<armVars, tailVars>>
      BY <1>3, <2>2, StartupFrame DEF BodyMove, StartupInv, StartupOrder
    <2>. QED
      BY <1>3, <2>1, <2>2 DEF BodyMove
  <1>4. CASE RosInput
    <2>1. CASE \/ JointsMalformed \/ JointStates \/ GateStatusInvalid
               \/ BoolFault \/ BoolFaultIgnored \/ ReferenceFault \/ AnswerTaken
      <3>1. UNCHANGED <<arm_control_enabled, phase, bridge, first_command,
                        cyclo_active, moved, gate_state>>
        BY <2>1 DEF JointsMalformed, JointStates, GateStatusInvalid, BoolFault,
           BoolFaultIgnored, ReferenceFault, AnswerTaken
      <3>. QED
        BY <3>1, StartupFrame DEF StartupInv, StartupOrder
    <2>2. ASSUME NEW side \in Sides, Command(side) PROVE StartupInv'
      <3>1. first_command = Sides => first_command' = Sides
        BY <2>2 DEF Command
      <3>. QED
        BY <2>2, <3>1 DEF Command, StartupInv, StartupOrder,
           CycloFollowsSession, HandsMoveAfterStartup
    <2>3. CASE InvalidCommand
      BY <2>3, DisabledStartup DEF InvalidCommand
    <2>4. ASSUME NEW report \in GateReports, NEW after \in BOOLEAN,
                 GateStatus(report, after)
          PROVE  StartupInv'
      <3>1. gate_state' # "none"
        BY <2>4, SettingAssumption DEF GateStatus, GateStates
      <3>. QED
        BY <2>4, <3>1, StartupFrame DEF GateStatus
    <2>. QED
      BY <1>4, <2>1, <2>2, <2>3, <2>4 DEF RosInput
  <1>5. CASE RosStep
    <2>1. CASE StopLocked
      BY <2>1, DisabledStartup DEF StopLocked
    <2>2. CASE StopTail \/ ResetPhase
      <3>1. ~arm_control_enabled
        BY <2>2 DEF StopTail, ResetPhase, ResetInv, CallbacksWhole,
           ResetProtocol, Restarting
      <3>. QED
        BY <2>2, <3>1, StartupFrame DEF StopTail, ResetPhase
    <2>3. CASE \/ \E outcome \in {"accepted", "refused"} :
                    FaultResetResult(outcome)
               \/ StoreResult \/ Unlatch \/ TimerExpiry
      <3>1. UNCHANGED <<arm_control_enabled, phase, bridge, first_command,
                        cyclo_active, moved, gate_state>>
        BY <2>3 DEF FaultResetResult, StoreResult, Unlatch, TimerExpiry
      <3>. QED
        BY <3>1, StartupFrame DEF StartupInv, StartupOrder
    <2>4. CASE Restart
      <3>1. CASE ~arm_control_enabled /\ CaptureAllowed(tracking_age)
        BY <2>4, <3>1, EnabledStartup DEF Restart, CaptureAllowed
      <3>2. CASE ~arm_control_enabled /\ ~CaptureAllowed(tracking_age)
        BY <2>4, <3>2, DisabledStartup DEF Restart, Disable
      <3>3. CASE arm_control_enabled
        BY <2>4, <3>3, StartupFrame DEF Restart, StartupInv, StartupOrder
      <3>. QED
        BY <3>1, <3>2, <3>3
    <2>5. CASE RestartSeed
      BY <2>5 DEF RestartSeed, SeedWhileInactive, StartupInv, StartupOrder,
         CycloFollowsSession, HandsMoveAfterStartup
    <2>6. CASE TimerCheck
      <3>1. CASE Disable
        BY <3>1, DisabledStartup DEF Disable
      <3>2. CASE UNCHANGED <<arm_control_enabled, phase, startupVars,
                             cyclo_active, moved, tailVars>>
        BY <2>6, <3>2, StartupFrame DEF TimerCheck, StartupInv, StartupOrder
      <3>. QED
        BY <2>6, <3>1, <3>2 DEF TimerCheck
    <2>. QED
      BY <1>2, <1>5, <2>1, <2>2, <2>3, <2>4, <2>5, <2>6 DEF RosStep
  <1>6. CASE WorldChange \/ Elapse \/ UNCHANGED vars
    <2>1. UNCHANGED <<arm_control_enabled, phase, bridge, first_command,
                      cyclo_active, moved, gate_state>>
      BY <1>6 DEF WorldChange, Elapse
    <2>. QED
      BY <2>1, StartupFrame DEF StartupInv, StartupOrder
  <1>. QED
    BY <1>1, <1>2, <1>3, <1>4, <1>5, <1>6 DEF Next, VuerStep

\* The invariant of the publisher is inductive when no event comes between two
\* statements of a callback.
THEOREM Inductive ==
  ASSUME Preempt = FALSE PROVE Spec => []IInv
  <1>1. Init => IInv
    BY TypeInit
       DEF Init, IInv, FaultStopsSession, SeedWhileInactive, ResetInv,
           CallbacksWhole, ResetProtocol, ResetUnderWay, Restarting,
           StopEndsReset, StopStands, StartupInv, StartupOrder,
           CycloFollowsSession, HandsMoveAfterStartup
  <1>2. IInv /\ [Next]_vars => IInv'
    BY TypeStep, FaultStep, SeedStep, ResetStep, StartupStepKeeps DEF IInv
  <1>. QED
    BY <1>1, <1>2, PTL DEF Spec

-----------------------------------------------------------------------------
(* The theorems. *)

\* Y+B holds until the operator presses X+A again: no recovered gap and no
\* reset that was under way restarts the arms.
THEOREM StopsStand ==
  ASSUME Preempt = FALSE PROVE Spec => []StopStands
  BY Inductive, PTL DEF IInv, ResetInv

\* Cyclo is active only inside the session that activated it.
THEOREM CycloFollows ==
  ASSUME Preempt = FALSE PROVE Spec => []CycloFollowsSession
  BY Inductive, PTL DEF IInv, StartupInv

\* A frame follows the hands only after both sides have answered the startup.
THEOREM HandsMoveAfter ==
  ASSUME Preempt = FALSE PROVE Spec => []HandsMoveAfterStartup
  BY Inductive, PTL DEF IInv, StartupInv

\* An arming finds the robot at rest, and never starts on top of a session.
THEOREM ArmingsAtRest ==
  ASSUME Preempt = FALSE PROVE Spec => ArmsAtRest
  <1>1. ASSUME IInv, [Next]_vars, arm_control_enabled', ~arm_control_enabled
        PROVE  post_stop /\ ~cyclo_active /\ ~latched /\ ~moved'
    <2>1. ~cyclo_active /\ ~moved
      BY <1>1 DEF IInv, StartupInv, CycloFollowsSession, HandsMoveAfterStartup
    <2>2. ASSUME Publish PROVE FALSE
      BY <1>1, <2>2, PublishReset
    <2>3. post_stop /\ ~latched /\ UNCHANGED moved
      <3>0. ASSUME Disable PROVE FALSE
        BY <1>1, <3>0 DEF Disable, DisableLocked
      <3>1. CASE VuerStep
        <4>1. ASSUME NEW b \in Buttons, NEW valid \in BOOLEAN, NEW age \in Age,
                     ControllerMove(b, valid, age)
              PROVE  Start(age)
          BY <1>1, <3>0, <4>1 DEF ControllerMove
        <4>2. ASSUME NEW age \in Age, Start(age)
              PROVE  post_stop /\ ~latched /\ UNCHANGED moved
          BY <1>1, <3>0, <4>2 DEF Start, CaptureAllowed, Enable
        <4>. QED
          BY <1>1, <2>2, <3>0, <3>1, <4>1, <4>2
             DEF VuerStep, VuerPublish, BodyMove
      <3>2. CASE RosInput
        BY <1>1, <3>2 DEF RosInput, JointsMalformed, JointStates, Command,
           InvalidCommand, GateStatus, GateStatusInvalid, BoolFault,
           BoolFaultIgnored, ReferenceFault, AnswerTaken, DisableLocked
      <3>3. CASE RosStep
        BY <1>1, <2>2, <3>3 DEF RosStep, StopLocked, StopTail, FaultResetResult,
           StoreResult, Unlatch, ResetPhase, Restart, RestartSeed, TimerCheck,
           TimerPublish, TimerExpiry, CaptureAllowed, Enable, Disable,
           DisableLocked
      <3>4. CASE WorldChange \/ Elapse \/ UNCHANGED vars
        BY <1>1, <3>4 DEF WorldChange, Elapse
      <3>. QED
        BY <1>1, <3>1, <3>2, <3>3, <3>4 DEF Next
    <2>. QED
      BY <2>1, <2>3
  <1>2. IInv /\ [Next]_vars
        => [ arm_control_enabled' /\ ~arm_control_enabled
             => post_stop /\ ~cyclo_active /\ ~latched /\ ~moved' ]_vars
    BY <1>1
  <1>. QED
    BY <1>2, Inductive, PTL DEF Spec, ArmsAtRest

\* No frame follows the hands on top of late input.
THEOREM FollowsFresh ==
  ASSUME Preempt = FALSE PROVE Spec => FollowsFreshInput
  <1>1. ASSUME IInv, [Next]_vars, Publication, moved'
        PROVE  /\ tracking_age <= Fresh /\ joint_age <= Fresh
               /\ gate_age <= Fresh /\ command_age <= Fresh
    <2>1. Publish
      BY <1>1, PublicationSteps
    <2>2. Types /\ Fresh \in Nat /\ Grace \in Nat /\ Fresh <= Grace
      BY <1>1, TypeGroups, DurationAssumption DEF IInv
    <2>3. {tracking_age, joint_age, gate_age, command_age} \subseteq Nat
      BY <2>2, AgeFacts DEF Types, CommandType, RobotType, FrameType
    <2>4. ASSUME Active, ~Gap, gate_state # "none"
          PROVE  /\ tracking_age <= Fresh /\ joint_age <= Fresh
                 /\ gate_age <= Fresh /\ command_age <= Fresh
      BY <2>2, <2>3, <2>4
         DEF Gap, TrackingState, FeedbackState, FeedbackAges
    <2>5. moved => Active /\ gate_state # "none" /\ ~bridge
      BY <1>1 DEF IInv, StartupInv, StartupOrder, HandsMoveAfterStartup,
         SeedWhileInactive, Active
    <2>6. CASE PublishGap
      BY <1>1, <2>6 DEF PublishGap, Disable, DisableLocked
    <2>7. CASE PublishSeed
      BY <1>1, <2>5, <2>7 DEF PublishSeed, Bridging, NothingSent, Disable,
         DisableLocked
    <2>8. CASE PublishStartup
      BY <1>1, <2>8 DEF PublishStartup, StartupProceeds, Disable, DisableLocked
    <2>9. CASE PublishFollow
      <3>1. ~FollowRefused /\ ~Gap
        BY <1>1, <2>9 DEF PublishFollow, Disable, DisableLocked
      <3>2. CASE Active
        BY <2>4, <3>1, <3>2 DEF FollowRefused, GraphOk
      <3>3. CASE ~Active
        BY <2>2, <2>3, <3>1, <3>3 DEF FollowRefused, GraphOk, ArmFresh, Limit
      <3>. QED
        BY <3>2, <3>3
    <2>10. CASE ~Gap /\ NothingSent
      BY <1>1, <2>4, <2>5, <2>10 DEF NothingSent
    <2>. QED
      BY <2>1, <2>6, <2>7, <2>8, <2>9, <2>10 DEF Publish
  <1>2. IInv /\ [Next]_vars
        => [ Publication /\ moved'
             => /\ tracking_age <= Fresh /\ joint_age <= Fresh
                /\ gate_age <= Fresh /\ command_age <= Fresh ]_vars
    BY <1>1
  <1>. QED
    BY <1>2, Inductive, PTL DEF Spec, FollowsFreshInput
=============================================================================
