------------------------- MODULE CommandGateProofs -------------------------
(***************************************************************************)
(* Theorems about the hardware command gate, for every set of sides,       *)
(* sessions and motors and every choice of the thresholds.                 *)
(***************************************************************************)
EXTENDS CommandGate, TLAPS

USE DEF vars, envVars, jointVars, motorVars, feedbackVars, leaseVars,
        armingVars, authorityVars, armVars, auxVars, outputVars

\* Ages stay in range, and ageing keeps their order: what was not older stays
\* so.  This is what makes ages as good as receipt times.
LEMMA OlderFacts ==
  ASSUME NEW a \in Age, NEW b \in Age
  PROVE  /\ Older(a) \in Age
         /\ a <= b => Older(a) <= Older(b)
  BY ThresholdAssumption DEF Older, Age, MaxAge

\* A cleared command is below every age, and a new one is not above any.
LEMMA AgeFacts ==
  /\ 0 \in Age /\ NoCommand \notin Age
  /\ \A age \in Age : NoCommand <= age /\ 0 <= age
  BY ThresholdAssumption DEF Age, MaxAge, NoCommand

\* The type invariant by groups of variables, so that a step has to look only
\* at the groups it changes.
EnvType == running \in BOOLEAN /\ writers_ok \in BOOLEAN
FeedbackType ==
  /\ description_ok \in BOOLEAN
  /\ measured \in Poses \cup {"none"} /\ measured_age \in Age
  /\ motor_ids \in MotorIdSets \cup {NoIds}
  /\ motor_ok \in BOOLEAN /\ motor_topic_ok \in BOOLEAN /\ motor_age \in Age
LeaseType ==
  /\ pc_session \in Sessions \cup {NoSession} /\ pc_intent_enabled \in BOOLEAN
  /\ intent_age \in Age /\ manual_age \in Age
ArmingType ==
  enabled_age \in Age /\ previous \in {"empty", "measured", "output"}
AuthorityType == intent_enabled \in BOOLEAN /\ fault \in BOOLEAN
OutputType ==
  /\ commands \in [Sides -> Age \cup {NoCommand}]
  /\ output_active \in BOOLEAN /\ feedback_waiting \in BOOLEAN
  /\ follower_goal \in {"unknown", "measured", "output"}
  /\ manual_enabled \in BOOLEAN /\ aux_command \subseteq {"joints", "base"}
  /\ aux_previous \in BOOLEAN /\ aux_active \in BOOLEAN
  /\ base_moving \in BOOLEAN /\ hand_active \in BOOLEAN

LEMMA TypeGroups ==
  ASSUME TypeOK
  PROVE  /\ EnvType /\ FeedbackType /\ LeaseType /\ ArmingType
         /\ AuthorityType /\ OutputType
  BY DEF TypeOK, EnvType, FeedbackType, LeaseType, ArmingType, AuthorityType,
         OutputType

LEMMA TypeJoin ==
  ASSUME EnvType', FeedbackType', LeaseType', ArmingType', AuthorityType',
         OutputType'
  PROVE  TypeOK'
  BY DEF TypeOK, EnvType, FeedbackType, LeaseType, ArmingType, AuthorityType,
         OutputType

LEMMA FeedbackFrame ==
  ASSUME FeedbackType, UNCHANGED feedbackVars PROVE FeedbackType'
  BY DEF FeedbackType

LEMMA LeaseFrame ==
  ASSUME LeaseType, UNCHANGED leaseVars PROVE LeaseType'
  BY DEF LeaseType

LEMMA OutputFrame ==
  ASSUME OutputType, UNCHANGED outputVars PROVE OutputType'
  BY DEF OutputType

LEMMA SmallFrames ==
  /\ EnvType /\ UNCHANGED envVars => EnvType'
  /\ ArmingType /\ UNCHANGED armingVars => ArmingType'
  /\ AuthorityType /\ UNCHANGED authorityVars => AuthorityType'
  BY DEF EnvType, ArmingType, AuthorityType

\* hold() keeps the types, and leaves nothing driving or moving.
LEMMA HoldType ==
  ASSUME TypeOK, NEW driving \in BOOLEAN, Hold(driving)
  PROVE  /\ commands' \in [Sides -> Age \cup {NoCommand}]
         /\ output_active' = FALSE /\ feedback_waiting' = FALSE
         /\ manual_enabled' = FALSE /\ hand_active' = FALSE
         /\ base_moving' = FALSE
         /\ aux_previous' = FALSE /\ aux_active' = FALSE /\ aux_command' = {}
         /\ follower_goal' \in {"unknown", "measured", "output"}
  BY DEF Hold, HoldOutputs, HeldBase, HeldOutput, NoCommands, TypeOK

\* and forgets the commands of Cyclo.
LEMMA HoldClears ==
  ASSUME NEW driving, Hold(driving) PROVE commands' = NoCommands
  BY DEF Hold, HoldOutputs

\* Moving the base is an auxiliary motion.
LEMMA AuxMotionFacts ==
  ASSUME NEW aux, AuxMotion(aux)
  PROVE  /\ aux_previous' \in BOOLEAN /\ aux_active' \in BOOLEAN
         /\ base_moving' \in BOOLEAN
         /\ base_moving' => aux_active'
  <1>1. /\ aux_previous' \in BOOLEAN /\ aux_active' \in BOOLEAN
        /\ base_moving' \in BOOLEAN
    BY DEF AuxMotion
  <1>2. ASSUME aux = {} PROVE ~base_moving'
    BY <1>2 DEF AuxMotion
  <1>3. ASSUME aux # {} PROVE aux_active'
    BY <1>3 DEF AuxMotion
  <1>. QED
    BY <1>1, <1>2, <1>3

\* latch() keeps the types of everything it may change.
LEMMA LatchType ==
  ASSUME TypeOK, NEW driving \in BOOLEAN, Latch(driving)
  PROVE  /\ commands' \in [Sides -> Age \cup {NoCommand}]
         /\ output_active' \in BOOLEAN /\ feedback_waiting' \in BOOLEAN
         /\ manual_enabled' \in BOOLEAN /\ hand_active' \in BOOLEAN
         /\ base_moving' \in BOOLEAN
         /\ aux_previous' \in BOOLEAN /\ aux_active' \in BOOLEAN
         /\ aux_command' \subseteq {"joints", "base"}
         /\ follower_goal' \in {"unknown", "measured", "output"}
         /\ fault' = TRUE /\ intent_enabled' = FALSE
  <1>1. CASE ~fault /\ Hold(driving)
    BY <1>1, HoldType DEF Latch
  <1>2. CASE fault /\ UNCHANGED outputVars
    BY <1>2 DEF Latch, TypeOK
  <1>. QED
    BY <1>1, <1>2 DEF Latch

LEMMA LatchGroups ==
  ASSUME TypeOK, NEW driving \in BOOLEAN, Latch(driving)
  PROVE  AuthorityType' /\ OutputType'
  BY LatchType DEF AuthorityType, OutputType

LEMMA LatchIfGroups ==
  ASSUME TypeOK, NEW condition, LatchIf(condition)
  PROVE  AuthorityType' /\ OutputType'
  <1>1. output_active \in BOOLEAN
    BY DEF TypeOK
  <1>2. CASE Latch(output_active)
    BY <1>1, <1>2, LatchGroups
  <1>3. CASE UNCHANGED <<authorityVars, outputVars>>
    BY <1>3, TypeGroups, OutputFrame, SmallFrames
  <1>. QED
    BY <1>2, <1>3 DEF LatchIf

-----------------------------------------------------------------------------
(* The inductive invariant.  Each conjunct needs another: a repeated fault    *)
(* leaves every output alone, which is harmless only because a faulted gate   *)
(* is not driving; a refused or foreign intent disarms only because a driving *)
(* gate is armed.                                                             *)

IInv ==
  /\ TypeOK
  /\ OutputHasAuthority
  /\ BaseHasAuthority
  /\ HandsFollowArms
  /\ CommandsSinceArming

USE DEF OutputHasAuthority, BaseHasAuthority, HandsFollowArms,
        CommandsSinceArming, Complete

\* The gate starts disarmed with nothing received.
LEMMA IInvInit == Init => IInv
  <1>. SUFFICES ASSUME Init PROVE IInv
    OBVIOUS
  <1>1. MaxAge \in Age
    BY ThresholdAssumption DEF MaxAge, Age
  <1>2. commands \in [Sides -> Age \cup {NoCommand}]
    BY DEF Init, NoCommands
  <1>3. TypeOK
    BY <1>1, <1>2 DEF Init, TypeOK
  <1>. QED
    BY <1>3 DEF Init, IInv

\* A latch disarms, and nothing is left driving or moving.
LEMMA LatchSafe ==
  ASSUME IInv, NEW driving \in BOOLEAN, Latch(driving)
  PROVE  /\ intent_enabled' = FALSE /\ fault' = TRUE
         /\ output_active' = FALSE /\ base_moving' = FALSE
         /\ hand_active' = FALSE
  <1>1. CASE ~fault
    BY <1>1, HoldType DEF IInv, Latch
  <1>2. CASE fault
    BY <1>2 DEF IInv, TypeOK, Latch
  <1>. QED
    BY <1>1, <1>2

\* So a latch keeps whatever the authority invariants say.
LEMMA LatchAuthority ==
  ASSUME IInv, NEW driving \in BOOLEAN, Latch(driving)
  PROVE  /\ OutputHasAuthority' /\ BaseHasAuthority'
         /\ HandsFollowArms' /\ CommandsSinceArming'
  BY LatchSafe

LEMMA LatchIfAuthority ==
  ASSUME IInv, NEW condition, LatchIf(condition), UNCHANGED armingVars
  PROVE  /\ OutputHasAuthority' /\ BaseHasAuthority'
         /\ HandsFollowArms' /\ CommandsSinceArming'
  <1>1. output_active \in BOOLEAN
    BY DEF IInv, TypeOK
  <1>2. CASE Latch(output_active)
    BY <1>1, <1>2, LatchAuthority
  <1>3. CASE UNCHANGED <<authorityVars, outputVars>>
    BY <1>3 DEF IInv
  <1>. QED
    BY <1>2, <1>3 DEF LatchIf

LEMMA FeedbackKeeps ==
  ASSUME IInv,
         \/ \E ok \in BOOLEAN : Description(ok)
         \/ JointsMalformed
         \/ \E kind \in SampleKinds : Joints(kind)
         \/ \E ids \in MotorIdSets, health \in MotorHealth : MotorState(ids, health)
  PROVE  IInv'
  <1>. USE TypeGroups, TypeJoin, SmallFrames
  <1>0. TypeOK
    BY DEF IInv
  <1>1. ASSUME NEW ok \in BOOLEAN, Description(ok) PROVE IInv'
    <2>1. FeedbackType'
      BY <1>0, <1>1 DEF Description, FeedbackType
    <2>2. LeaseType' /\ AuthorityType' /\ OutputType'
      BY <1>0, <1>1, LatchIfGroups, LeaseFrame DEF Description
    <2>3. EnvType' /\ ArmingType'
      BY <1>0, <1>1 DEF Description
    <2>4. TypeOK'
      BY <2>1, <2>2, <2>3
    <2>. QED
      BY <1>1, <2>4, LatchIfAuthority DEF Description, IInv
  <1>2. ASSUME UNCHANGED <<envVars, leaseVars, outputVars, authorityVars,
                           armingVars>>,
               FeedbackType'
        PROVE  IInv'
    <2>1. TypeOK'
      BY <1>0, <1>2, LeaseFrame, OutputFrame
    <2>. QED
      BY <1>2, <2>1 DEF IInv
  <1>3. CASE JointsMalformed
    <2>1. FeedbackType'
      BY <1>0, <1>3, ThresholdAssumption
         DEF JointsMalformed, FeedbackType, Age, MaxAge
    <2>. QED
      BY <1>2, <1>3, <2>1 DEF JointsMalformed
  <1>4. ASSUME NEW kind \in SampleKinds, Joints(kind) PROVE IInv'
    <2>1. FeedbackType'
      BY <1>0, <1>4, ThresholdAssumption, DomainAssumption
         DEF Joints, FeedbackType, Age, MaxAge
    <2>. QED
      BY <1>2, <1>4, <2>1 DEF Joints
  <1>5. ASSUME NEW ids \in MotorIdSets, NEW health \in MotorHealth,
               MotorState(ids, health)
        PROVE  IInv'
    <2>1. FeedbackType'
      BY <1>0, <1>5, ThresholdAssumption
         DEF MotorState, FeedbackType, Age, MaxAge
    <2>2. LeaseType' /\ AuthorityType' /\ OutputType'
      BY <1>0, <1>5, LatchIfGroups, LeaseFrame DEF MotorState
    <2>3. EnvType' /\ ArmingType'
      BY <1>0, <1>5 DEF MotorState
    <2>4. TypeOK'
      BY <2>1, <2>2, <2>3
    <2>. QED
      BY <1>5, <2>4, LatchIfAuthority DEF MotorState, IInv
  <1>. QED
    BY <1>1, <1>3, <1>4, <1>5

\* The intent handler: a rejected message can only disarm, an accepted one
\* re-arms with no commands and stops what the released keyboard was moving.
LEMMA IntentKeeps ==
  ASSUME IInv, Intent PROVE IInv'
  <1>. USE TypeGroups, TypeJoin, SmallFrames
  <1>0. TypeOK
    BY DEF IInv
  <1>1. ASSUME NEW s \in Sessions, IntentRejected(s) PROVE IInv'
    <2>1. LeaseType'
      BY AgeFacts, <1>0, <1>1 DEF IntentRejected, LeaseType
    <2>2. FeedbackType' /\ AuthorityType' /\ OutputType'
      BY <1>0, <1>1, LatchIfGroups, FeedbackFrame DEF IntentRejected
    <2>3. EnvType' /\ ArmingType'
      BY <1>0, <1>1 DEF IntentRejected
    <2>4. TypeOK'
      BY <2>1, <2>2, <2>3
    <2>. QED
      BY <1>1, <2>4, LatchIfAuthority DEF IntentRejected, IInv
  <1>2. ASSUME NEW s \in Sessions, NEW enabled \in BOOLEAN,
               NEW manual \in BOOLEAN, NEW aux \in AuxPayloads,
               IntentAccepted(s, enabled, manual, aux)
        PROVE  IInv'
    <2>0. aux_command' \subseteq {"joints", "base"}
      BY <1>2, DomainAssumption DEF IntentAccepted
    <2>1. CASE IntentDisarm(enabled)
      <3>1. /\ commands' \in [Sides -> Age \cup {NoCommand}]
            /\ follower_goal' \in {"unknown", "measured", "output"}
        BY <2>1 DEF IInv, TypeOK, IntentDisarm, HoldOutputs, NoCommands
      <3>2. /\ feedback_waiting' = FALSE /\ hand_active' = FALSE
            /\ base_moving' = FALSE /\ output_active' = FALSE
            /\ aux_previous' = FALSE /\ aux_active' = FALSE
            /\ UNCHANGED armingVars
        BY <2>1 DEF IntentDisarm, HoldOutputs, HeldBase, HeldOutput
      <3>3. intent_enabled' = FALSE /\ fault' = fault
        BY <1>2, <2>1 DEF IntentAccepted, IntentDisarm
      <3>4. LeaseType' /\ AuthorityType'
        BY AgeFacts, <1>0, <1>2, <3>3
           DEF IntentAccepted, LeaseType, AuthorityType
      <3>5. OutputType'
        BY <1>2, <2>0, <3>1, <3>2 DEF IntentAccepted, OutputType
      <3>6. EnvType' /\ ArmingType' /\ FeedbackType'
        BY <1>0, <1>2, <3>2, FeedbackFrame DEF IntentAccepted
      <3>7. TypeOK'
        BY <3>4, <3>5, <3>6
      <3>. QED
        BY <3>2, <3>3, <3>7 DEF IInv
    <2>2. CASE IntentKeep(enabled, manual)
      <3>0. /\ commands' \in [Sides -> Age \cup {NoCommand}]
            /\ enabled_age' \in Age
            /\ previous' \in {"empty", "measured", "output"}
            /\ aux_active' \in BOOLEAN /\ aux_previous' \in BOOLEAN
            /\ base_moving' \in BOOLEAN
        BY AgeFacts, <2>2
           DEF IInv, IntentKeep, CommandsAtArming, NoCommands, SeedAtArming,
               TypeOK
      <3>1. TypeOK'
        BY AgeFacts, <1>2, <2>0, <2>2, <3>0
           DEF IInv, IntentAccepted, IntentKeep, TypeOK
      <3>2. BaseHasAuthority'
        <4>1. CASE ReleasesKeyboard(manual)
          BY <2>2, <4>1 DEF IntentKeep
        <4>2. CASE ~ReleasesKeyboard(manual)
          <5>1. base_moving' = base_moving /\ aux_active' = aux_active
            BY <2>2, <4>2 DEF IntentKeep
          <5>2. /\ fault' = fault
                /\ intent_enabled' = enabled /\ manual_enabled' = manual
            BY <1>2 DEF IntentAccepted
          <5>3. intent_enabled => enabled
            BY <2>2 DEF IntentKeep
          <5>. QED
            BY <4>2, <5>1, <5>2, <5>3 DEF IInv, ReleasesKeyboard
        <4>. QED
          BY <4>1, <4>2
      <3>4. OutputHasAuthority' /\ HandsFollowArms'
        BY <1>2, <2>2 DEF IInv, IntentAccepted, IntentKeep, TypeOK
      <3>3. CommandsSinceArming'
        BY AgeFacts, <1>2, <2>2
           DEF IInv, IntentAccepted, IntentKeep, CommandsAtArming, NoCommands,
               TypeOK
      <3>. QED
        BY <3>1, <3>2, <3>3, <3>4 DEF IInv
    <2>. QED
      BY <1>2, <2>1, <2>2 DEF IntentAccepted
  <1>. QED
    BY <1>1, <1>2 DEF Intent

LEMMA CommandKeeps ==
  ASSUME IInv, NEW side \in Sides, Command(side) PROVE IInv'
  <1>1. commands' \in [Sides -> Age \cup {NoCommand}]
    BY ThresholdAssumption DEF IInv, Command, TypeOK, Age, MaxAge
  <1>2. \A s \in Sides : commands'[s] = IF s = side THEN 0 ELSE commands[s]
    BY DEF IInv, Command, TypeOK
  <1>3. TypeOK' /\ BaseHasAuthority' /\ HandsFollowArms'
    BY <1>1 DEF IInv, Command, TypeOK
  <1>4. OutputHasAuthority' /\ CommandsSinceArming'
    BY <1>2 DEF IInv, Command, TypeOK, NoCommand, Age
  <1>. QED
    BY <1>3, <1>4 DEF IInv

LEMMA ControllerFaultKeeps ==
  ASSUME IInv, ControllerFault PROVE IInv'
  <1>1. TypeOK /\ output_active \in BOOLEAN /\ Latch(output_active)
    BY DEF IInv, TypeOK, ControllerFault
  <1>2. TypeOK'
    BY <1>1, LatchGroups, TypeGroups, TypeJoin, SmallFrames, FeedbackFrame,
       LeaseFrame DEF ControllerFault
  <1>. QED
    BY <1>1, <1>2, LatchAuthority DEF IInv

LEMMA ResetFaultKeeps ==
  ASSUME IInv, ResetFault PROVE IInv'
  BY HoldType DEF IInv, ResetFault, ResetAllowed, TypeOK

\* The hold leaves the gate armed without a command: NoCommand is below
\* every age.
LEMMA ShutdownKeeps ==
  ASSUME IInv, Shutdown PROVE IInv'
  <1>1. TypeOK /\ Hold(output_active) /\ output_active \in BOOLEAN
    BY DEF IInv, TypeOK, Shutdown
  <1>2. /\ commands' \in [Sides -> Age \cup {NoCommand}]
        /\ output_active' = FALSE /\ feedback_waiting' = FALSE
        /\ manual_enabled' = FALSE /\ hand_active' = FALSE
        /\ base_moving' = FALSE
        /\ aux_previous' = FALSE /\ aux_active' = FALSE /\ aux_command' = {}
        /\ follower_goal' \in {"unknown", "measured", "output"}
    BY <1>1, HoldType
  <1>3. running' \in BOOLEAN
    BY DEF Shutdown
  <1>4. TypeOK'
    <2>1. OutputType'
      BY <1>2 DEF OutputType
    <2>2. EnvType'
      BY <1>1, <1>3, TypeGroups DEF Shutdown, EnvType
    <2>. QED
      BY <1>1, <2>1, <2>2, TypeGroups, TypeJoin, SmallFrames, FeedbackFrame,
         LeaseFrame DEF Shutdown
  <1>5. OutputHasAuthority' /\ BaseHasAuthority' /\ HandsFollowArms'
    BY <1>2
  <1>6. enabled_age' \in Age /\ commands' = NoCommands
    BY <1>4, HoldClears DEF TypeOK, Shutdown
  <1>7. CommandsSinceArming'
    BY <1>6, AgeFacts DEF NoCommands
  <1>. QED
    BY <1>4, <1>5, <1>7 DEF IInv

LEMMA WritersChangeKeeps ==
  ASSUME IInv, WritersChange PROVE IInv'
  BY DEF IInv, WritersChange, TypeOK

\* Ageing keeps every command at most as old as the arming.
LEMMA ElapseKeeps ==
  ASSUME IInv, Elapse PROVE IInv'
  <1>1. /\ measured_age' \in Age /\ motor_age' \in Age /\ intent_age' \in Age
        /\ enabled_age' \in Age /\ manual_age' \in Age
    BY OlderFacts DEF IInv, Elapse, TypeOK
  <1>2. commands' \in [Sides -> Age \cup {NoCommand}]
    BY OlderFacts DEF IInv, Elapse, TypeOK
  <1>3. ASSUME NEW s \in Sides
        PROVE  /\ commands[s] # NoCommand => commands'[s] # NoCommand
               /\ commands[s] <= enabled_age => commands'[s] <= enabled_age'
    <2>1. CASE commands[s] = NoCommand
      BY <1>1, <2>1 DEF Elapse, NoCommand, Age
    <2>2. CASE commands[s] \in Age
      BY <2>2, OlderFacts DEF IInv, TypeOK, Elapse, NoCommand, Age
    <2>. QED
      BY <2>1, <2>2 DEF IInv, TypeOK
  <1>4. TypeOK' /\ BaseHasAuthority' /\ HandsFollowArms'
    BY <1>1, <1>2 DEF IInv, Elapse, TypeOK
  <1>5. OutputHasAuthority' /\ CommandsSinceArming'
    BY <1>3 DEF IInv, Elapse, TypeOK
  <1>. QED
    BY <1>4, <1>5 DEF IInv

\* What the timer leaves alone keeps its type.
LEMMA TickFrameType ==
  ASSUME TypeOK, TickFrame
  PROVE  /\ running' \in BOOLEAN /\ writers_ok' \in BOOLEAN
         /\ description_ok' \in BOOLEAN
         /\ motor_ok' \in BOOLEAN /\ motor_topic_ok' \in BOOLEAN
         /\ pc_intent_enabled' \in BOOLEAN
         /\ measured' \in Poses \cup {"none"}
         /\ motor_ids' \in MotorIdSets \cup {NoIds}
         /\ pc_session' \in Sessions \cup {NoSession}
         /\ measured_age' \in Age /\ motor_age' \in Age
         /\ intent_age' \in Age /\ manual_age' \in Age
         /\ enabled_age' = enabled_age
  BY DomainAssumption DEF TypeOK, TickFrame, MotorOkNow

\* A tick that raises latches, whichever branch raised and whatever it had
\* already sent.
LEMMA TickLatchKeeps ==
  ASSUME IInv, TickFrame, NEW driving \in BOOLEAN, Latch(driving),
         previous' \in {"empty", "measured", "output"}
  PROVE  IInv'
  <1>1. TypeOK /\ enabled_age \in Age
    BY DEF IInv, TypeOK
  <1>2. TypeOK'
    BY <1>1, TickFrameType, LatchType DEF TypeOK
  <1>. QED
    BY <1>2, LatchAuthority DEF IInv

LEMMA TickKeeps ==
  ASSUME IInv, Tick PROVE IInv'
  <1>0. TickFrame
    BY DEF Tick
  <1>. USE <1>0, TickFrameType
  <1>1. CASE TickFault
    BY <1>1, TickLatchKeeps DEF IInv, TypeOK, TickFault
  <1>2. CASE TickStill
    <2>1. OutputType' /\ AuthorityType'
      BY <1>2, TypeGroups DEF IInv, TickStill, OutputType, AuthorityType
    <2>2. EnvType' /\ FeedbackType' /\ LeaseType'
      BY DEF IInv, EnvType, FeedbackType, LeaseType
    <2>3. ArmingType'
      BY <1>2, TypeGroups DEF IInv, TickStill, ArmingType
    <2>4. TypeOK'
      BY <2>1, <2>2, <2>3, TypeJoin
    <2>. QED
      BY <1>2, <2>4 DEF IInv, TickStill
  <1>3. CASE TickManual
    <2>1. TypeOK'
      BY <1>3, AuxMotionFacts DEF IInv, TypeOK, TickManual
    <2>3. OutputHasAuthority' /\ HandsFollowArms' /\ CommandsSinceArming'
      BY <1>3 DEF IInv, TickManual
    <2>2. BaseHasAuthority'
      BY <1>3, AuxMotionFacts DEF TickManual, ManualBranch, ManualLive
    <2>. QED
      BY <2>1, <2>2, <2>3 DEF IInv
  <1>4. CASE TickManualExpired
    <2>1. TypeOK' /\ OutputHasAuthority' /\ BaseHasAuthority' /\ HandsFollowArms'
      BY <1>4, HoldType DEF IInv, TypeOK, TickManualExpired
    <2>2. enabled_age' \in Age /\ commands' = NoCommands
      BY <1>4, HoldClears DEF IInv, TypeOK, TickManualExpired
    <2>3. CommandsSinceArming'
      BY <2>2, AgeFacts DEF NoCommands
    <2>. QED
      BY <2>1, <2>3 DEF IInv
  <1>5. CASE TickWaiting
    BY <1>5 DEF IInv, TypeOK, TickWaiting, WaitingHands
  <1>6. CASE TickForward
    <2>1. ForwardGuard => ArmedLive /\ Complete
      BY DEF ForwardGuard, ArmBranch
    <2>2. hand_active' \in BOOLEAN
      BY <1>6 DEF TickForward, HandsAllowed
    <2>3. TypeOK' /\ OutputHasAuthority' /\ HandsFollowArms' /\ CommandsSinceArming'
      BY <1>6, <2>1, <2>2, AuxMotionFacts DEF IInv, TypeOK, TickForward, ArmedLive
    <2>4. BaseHasAuthority'
      BY <1>6, <2>1, AuxMotionFacts DEF TickForward, ArmedLive
    <2>. QED
      BY <2>3, <2>4 DEF IInv
  <1>7. CASE TickHandFault
    BY <1>7, TickLatchKeeps DEF IInv, TickHandFault
  <1>. QED
    BY <1>1, <1>2, <1>3, <1>4, <1>5, <1>6, <1>7 DEF Tick

LEMMA IInvStep ==
  ASSUME IInv, [Next]_vars PROVE IInv'
  <1>1. CASE Callback
    BY <1>1, FeedbackKeeps, IntentKeeps, CommandKeeps, ControllerFaultKeeps,
       ResetFaultKeeps DEF Callback
  <1>2. CASE UNCHANGED vars
    BY <1>2 DEF IInv, TypeOK
  <1>. QED
    BY <1>1, <1>2, TickKeeps, ShutdownKeeps, WritersChangeKeeps, ElapseKeeps
       DEF Next

\* The invariant of the gate is inductive.
THEOREM Inductive == Spec => []IInv
  BY IInvInit, IInvStep, PTL DEF Spec

\* Every reachable state is well typed: ages stay within MaxAge, whatever the
\* limits in command_gate.py are.
THEOREM TypeCorrect == Spec => []TypeOK
  BY Inductive, PTL DEF IInv

\* The gate drives the arms only while it is armed, free of a fault, holding a
\* complete pair of commands and stepping from its own last output.
THEOREM OutputAuthority == Spec => []OutputHasAuthority
  BY Inductive, PTL DEF IInv

\* The base keeps moving only while an armed PC or a held key asks for it.
THEOREM BaseAuthority == Spec => []BaseHasAuthority
  BY Inductive, PTL DEF IInv

\* The fingers move only while the arms are forwarded and not waiting.
THEOREM HandsAuthority == Spec => []HandsFollowArms
  BY Inductive, PTL DEF IInv

\* No command received before the gate was armed is ever there to forward.
THEOREM FreshCommands == Spec => []CommandsSinceArming
  BY Inductive, PTL DEF IInv

-----------------------------------------------------------------------------
(* What a step may never do. *)

LEMMA MotorIdentityStep ==
  ASSUME [Next]_vars, motor_ids # NoIds PROVE motor_ids' = motor_ids
  <1>1. ASSUME NEW ids \in MotorIdSets, NEW health \in MotorHealth,
               MotorState(ids, health)
        PROVE  motor_ids' = motor_ids
    BY <1>1 DEF MotorState, SameMotors
  <1>2. CASE Callback
    BY <1>1, <1>2
       DEF Callback, Description, JointsMalformed, Joints, Intent, IntentRejected,
           IntentAccepted, Command, ControllerFault, ResetFault
  <1>. QED
    BY <1>2 DEF Next, Tick, TickFrame, Shutdown, WritersChange, Elapse

\* Once a healthy state has named the robot's motors, no later feedback can
\* replace them (motor_state keeps the first tuple of IDs).
THEOREM MotorIdentity == Spec => MotorIdentityFixed
  BY MotorIdentityStep, PTL DEF Spec, MotorIdentityFixed

LEMMA SessionChangeStep ==
  ASSUME IInv, [Next]_vars, pc_session' # pc_session
  PROVE  ~intent_enabled' /\ ~output_active'
  <1>1. CASE Intent
    <2>1. ASSUME NEW s \in Sessions, IntentRejected(s)
          PROVE  ~intent_enabled' /\ ~output_active'
      <3>1. CASE Latch(output_active)
        BY <3>1, LatchSafe DEF IInv, TypeOK
      <3>2. CASE ~(intent_enabled \/ manual_enabled)
                 /\ UNCHANGED <<authorityVars, outputVars>>
        BY <3>2 DEF IInv
      <3>. QED
        BY <2>1, <3>1, <3>2 DEF IntentRejected, LatchIf
    <2>2. ASSUME NEW s \in Sessions, NEW enabled \in BOOLEAN,
                 NEW manual \in BOOLEAN, NEW aux \in AuxPayloads,
                 IntentAccepted(s, enabled, manual, aux)
          PROVE  ~intent_enabled' /\ ~output_active'
      <3>1. ~enabled /\ intent_enabled' = enabled
        BY <2>2 DEF IntentAccepted, SessionMayEnable
      <3>2. CASE IntentDisarm(enabled)
        BY <3>1, <3>2 DEF IntentDisarm, HoldOutputs, HeldOutput
      <3>3. CASE IntentKeep(enabled, manual)
        BY <3>1, <3>3 DEF IInv, IntentKeep
      <3>. QED
        BY <2>2, <3>2, <3>3 DEF IntentAccepted
    <2>. QED
      BY <1>1, <2>1, <2>2 DEF Intent
  <1>. QED
    BY <1>1
       DEF Next, Callback, Description, JointsMalformed, Joints, MotorState,
           Command, ControllerFault, ResetFault, Tick, TickFrame, Shutdown,
           WritersChange, Elapse

\* A PC process that takes the intent topic over finds, and leaves, the gate
\* disarmed.
THEOREM SessionChange == Spec => SessionChangeDisarms
  BY Inductive, SessionChangeStep, PTL DEF Spec, SessionChangeDisarms

-----------------------------------------------------------------------------
(* The gate implements ArmedRelay: a latch is a Trip, a disarming intent a    *)
(* Disarm, an arming an Arm, a forwarding tick a Drive, an expired keyboard   *)
(* lease or a shutdown a Rest, a granted reset a Clear; the rest stutters.    *)

USE DEF Relay!vars

LEMMA LatchTrips ==
  ASSUME IInv, NEW driving \in BOOLEAN, Latch(driving) PROVE Relay!Trip
  BY LatchSafe DEF Relay!Trip

LEMMA HoldStops ==
  ASSUME NEW driving, Hold(driving) PROVE output_active' = FALSE
  BY DEF Hold, HoldOutputs, HeldOutput

LEMMA LatchIfRefines ==
  ASSUME IInv, NEW condition, LatchIf(condition)
  PROVE  Relay!Trip \/ UNCHANGED Relay!vars
  BY LatchTrips DEF IInv, TypeOK, LatchIf

LEMMA IntentRefines ==
  ASSUME IInv, Intent PROVE Relay!Next \/ UNCHANGED Relay!vars
  <1>1. ASSUME NEW s \in Sessions, IntentRejected(s)
        PROVE  Relay!Next \/ UNCHANGED Relay!vars
    BY <1>1, LatchIfRefines DEF IntentRejected, Relay!Next
  <1>2. ASSUME NEW s \in Sessions, NEW enabled \in BOOLEAN,
               NEW manual \in BOOLEAN, NEW aux \in AuxPayloads,
               IntentAccepted(s, enabled, manual, aux)
        PROVE  Relay!Next \/ UNCHANGED Relay!vars
    <2>1. intent_enabled' = enabled /\ fault' = fault
      BY <1>2 DEF IntentAccepted
    <2>2. CASE IntentDisarm(enabled)
      <3>1. output_active' = FALSE /\ enabled = FALSE
        BY <2>2 DEF IntentDisarm, HoldOutputs, HeldOutput
      <3>. QED
        BY <2>1, <3>1 DEF Relay!Next, Relay!Disarm
    <2>3. CASE IntentKeep(enabled, manual) /\ enabled = intent_enabled
      BY <2>1, <2>3 DEF IntentKeep
    <2>4. CASE IntentKeep(enabled, manual) /\ enabled # intent_enabled
      <3>1. enabled = TRUE /\ intent_enabled = FALSE
        BY <2>4 DEF IntentKeep, IInv, TypeOK
      <3>2. output_active' = FALSE
        BY <2>4, <3>1 DEF IntentKeep, IInv, TypeOK
      <3>. QED
        BY <2>1, <3>1, <3>2 DEF Relay!Next, Relay!Arm
    <2>. QED
      BY <1>2, <2>2, <2>3, <2>4 DEF IntentAccepted
  <1>. QED
    BY <1>1, <1>2 DEF Intent

LEMMA CallbackRefines ==
  ASSUME IInv, Callback PROVE Relay!Next \/ UNCHANGED Relay!vars
  <1>1. ASSUME NEW ok \in BOOLEAN, Description(ok)
        PROVE  Relay!Next \/ UNCHANGED Relay!vars
    BY <1>1, LatchIfRefines DEF Description, Relay!Next
  <1>2. ASSUME NEW ids \in MotorIdSets, NEW health \in MotorHealth,
               MotorState(ids, health)
        PROVE  Relay!Next \/ UNCHANGED Relay!vars
    BY <1>2, LatchIfRefines DEF MotorState, Relay!Next
  <1>3. ASSUME ControllerFault PROVE Relay!Next
    BY <1>3, LatchTrips DEF IInv, TypeOK, ControllerFault, Relay!Next
  <1>4. ASSUME ResetFault PROVE Relay!Next
    <2>1. intent_enabled = FALSE /\ fault' = FALSE /\ UNCHANGED intent_enabled
      BY <1>4 DEF IInv, TypeOK, ResetFault, ResetAllowed
    <2>2. output_active' = FALSE
      BY <1>4, HoldStops DEF ResetFault
    <2>. QED
      BY <2>1, <2>2 DEF Relay!Next, Relay!Clear
  <1>. QED
    BY <1>1, <1>2, <1>3, <1>4, IntentRefines
       DEF Callback, JointsMalformed, Joints, Command

LEMMA TickRefines ==
  ASSUME IInv, Tick PROVE Relay!Next \/ UNCHANGED Relay!vars
  <1>1. CASE TickFault \/ TickHandFault
    BY <1>1, LatchTrips DEF IInv, TypeOK, TickFault, TickHandFault, Relay!Next
  <1>2. CASE TickStill \/ TickManual \/ TickWaiting
    BY <1>2 DEF TickStill, TickManual, TickWaiting
  <1>3. CASE TickManualExpired
    BY <1>3, HoldStops DEF TickManualExpired, Relay!Next, Relay!Rest
  <1>4. CASE TickForward
    BY <1>4 DEF TickForward, ForwardGuard, ArmBranch, ArmedLive, Relay!Next,
                Relay!Drive
  <1>. QED
    BY <1>1, <1>2, <1>3, <1>4 DEF Tick

LEMMA RelayStep ==
  ASSUME IInv, [Next]_vars PROVE [Relay!Next]_Relay!vars
  <1>1. ASSUME Shutdown PROVE Relay!Next
    BY <1>1, HoldStops DEF Shutdown, Relay!Next, Relay!Rest
  <1>. QED
    BY <1>1, CallbackRefines, TickRefines DEF Next, WritersChange, Elapse

\* CommandGate implements ArmedRelay, whatever the thresholds and the PC do.
THEOREM Refinement == Spec => RelaySpec
  <1>1. Init => Relay!Init
    BY DEF Init, Relay!Init
  <1>. QED
    BY <1>1, Inductive, RelayStep, PTL DEF Spec, RelaySpec, Relay!Spec

-----------------------------------------------------------------------------
(* A profile without keyboard control (manual_auxiliary absent).  The run     *)
(* gate_slew_manual shows that the first of the two results below needs that  *)
(* hypothesis.                                                                *)

\* What a step is slew-limited against is what the follower holds: while the
\* armed gate has sent an output, nothing but a further output reaches the
\* follower.  A stopped node has no commands left.
ArmedStep ==
  /\ IInv
  /\ ~manual_enabled
  /\ running /\ ArmedLive /\ previous = "output" => follower_goal = "output"
  /\ ~running => ~Complete

LEMMA ArmedStepStep ==
  ASSUME ManualAuxiliary = FALSE, ArmedStep, [Next]_vars
  PROVE  ArmedStep'
  <1>1. IInv'
    BY IInvStep DEF ArmedStep
  <1>2. ~manual_enabled'
    <2>1. ASSUME NEW driving, Hold(driving) PROVE ~manual_enabled'
      BY <2>1 DEF Hold
    <2>2. ASSUME NEW driving, Latch(driving) PROVE ~manual_enabled'
      BY <2>1, <2>2 DEF Latch, ArmedStep
    <2>3. ASSUME NEW condition, LatchIf(condition) PROVE ~manual_enabled'
      BY <2>2, <2>3 DEF LatchIf, ArmedStep
    <2>4. CASE Callback
      <3>1. CASE Intent
        BY <2>3, <3>1 DEF Intent, IntentRejected, IntentAccepted
      <3>. QED
        BY <2>1, <2>2, <2>3, <2>4, <3>1
           DEF Callback, Description, JointsMalformed, Joints, MotorState,
               Command, ControllerFault, ResetFault, ArmedStep
    <2>5. CASE Tick
      BY <2>1, <2>2, <2>5
         DEF Tick, TickFault, TickStill, TickManual, TickManualExpired,
             TickWaiting, TickForward, TickHandFault, ArmedStep
    <2>. QED
      BY <2>1, <2>4, <2>5 DEF Next, Shutdown, WritersChange, Elapse, ArmedStep
  <1>3. ~running' => ~Complete'
    <2>1. ASSUME Shutdown PROVE ~Complete'
      <3>1. commands' = NoCommands
        BY <2>1, HoldClears DEF Shutdown
      <3>. QED
        BY <3>1, DomainAssumption DEF NoCommands
    <2>2. ASSUME Callback PROVE running' = running
      BY <2>2
         DEF Callback, Description, JointsMalformed, Joints, MotorState,
             Intent, IntentRejected, IntentAccepted, Command, ControllerFault,
             ResetFault
    <2>. QED
      BY <2>1, <2>2 DEF Next, Tick, TickFrame, WritersChange, Elapse, ArmedStep
  <1>4. running' /\ ArmedLive' /\ previous' = "output" => follower_goal' = "output"
    <2>. SUFFICES ASSUME running', ArmedLive', previous' = "output"
                  PROVE  follower_goal' = "output"
      OBVIOUS
    <2>1. ASSUME NEW driving, Latch(driving) PROVE FALSE
      BY <2>1 DEF Latch, ArmedLive
    <2>2. ASSUME NEW condition, LatchIf(condition), UNCHANGED <<running, previous>>
          PROVE  follower_goal' = "output"
      BY <2>1, <2>2 DEF LatchIf, ArmedStep, ArmedLive
    <2>3. CASE Intent
      <3>1. ASSUME NEW s \in Sessions, IntentRejected(s)
            PROVE  follower_goal' = "output"
        BY <2>2, <3>1 DEF IntentRejected
      <3>2. ASSUME NEW s \in Sessions, NEW enabled \in BOOLEAN,
                   NEW manual \in BOOLEAN, NEW aux \in AuxPayloads,
                   IntentAccepted(s, enabled, manual, aux)
            PROVE  follower_goal' = "output"
        <4>1. intent_enabled' = enabled /\ fault' = fault /\ running' = running
          BY <3>2 DEF IntentAccepted
        <4>2. CASE IntentDisarm(enabled)
          BY <4>1, <4>2 DEF IntentDisarm, ArmedLive
        <4>3. CASE IntentKeep(enabled, manual)
          <5>1. ~(enabled /\ ~intent_enabled)
            BY <4>3 DEF IntentKeep, SeedAtArming
          <5>. QED
            BY <4>1, <4>3, <5>1 DEF IntentKeep, ArmedStep, ArmedLive
        <4>. QED
          BY <3>2, <4>2, <4>3 DEF IntentAccepted
      <3>. QED
        BY <2>3, <3>1, <3>2 DEF Intent
    <2>4. CASE ResetFault
      BY <2>4 DEF ResetFault, ResetAllowed, ArmedLive
    <2>5. CASE Callback /\ ~Intent /\ ~ResetFault
      <3>1. ASSUME NEW ok \in BOOLEAN, Description(ok)
            PROVE  follower_goal' = "output"
        BY <2>2, <3>1 DEF Description
      <3>2. ASSUME NEW ids \in MotorIdSets, NEW health \in MotorHealth,
                   MotorState(ids, health)
            PROVE  follower_goal' = "output"
        BY <2>2, <3>2 DEF MotorState
      <3>3. ASSUME NEW side \in Sides, Command(side)
            PROVE  follower_goal' = "output"
        BY <3>3 DEF Command, ArmedStep, ArmedLive
      <3>4. CASE JointsMalformed \/ \E kind \in SampleKinds : Joints(kind)
        BY <3>4 DEF JointsMalformed, Joints, ArmedStep, ArmedLive
      <3>5. ~ControllerFault
        BY <2>1 DEF ControllerFault
      <3>. QED
        BY <2>5, <3>1, <3>2, <3>3, <3>4, <3>5 DEF Callback
    <2>6. CASE Tick
      <3>1. ~TickManual /\ ~TickManualExpired
        BY DEF TickManual, ManualBranch, TickManualExpired, ManualExpired,
               ManualLive, ArmedStep
      <3>2. ~TickFault /\ ~TickHandFault
        BY <2>1 DEF TickFault, TickHandFault
      <3>3. CASE TickStill
        BY <2>6, <3>3 DEF TickStill, Tick, TickFrame, ArmedStep, ArmedLive
      <3>4. CASE TickWaiting
        BY <2>6, <3>4 DEF TickWaiting, Tick, TickFrame, ArmedStep, ArmedLive
      <3>5. CASE TickForward
        BY <3>5 DEF TickForward
      <3>. QED
        BY <2>6, <3>1, <3>2, <3>3, <3>4, <3>5 DEF Tick
    <2>. QED
      BY <2>3, <2>4, <2>5, <2>6 DEF Next, Shutdown, WritersChange, Elapse,
                                    ArmedStep, ArmedLive
  <1>. QED
    BY <1>1, <1>2, <1>3, <1>4 DEF ArmedStep

LEMMA ArmedStepInit == Init => ArmedStep
  BY IInvInit DEF Init, ArmedStep

\* Without keyboard control the slew limiter always steps from what the
\* follower was last told to hold.
THEOREM SlewContinuity ==
  ASSUME ManualAuxiliary = FALSE PROVE Spec => []SetpointContinuity
  <1>1. ArmedStep => SetpointContinuity
    BY DEF ArmedStep, SetpointContinuity
  <1>2. ArmedStep /\ [Next]_vars => ArmedStep'
    BY ArmedStepStep
  <1>. QED
    BY <1>1, <1>2, ArmedStepInit, PTL DEF Spec

\* Without keyboard control a gap shorter than Wait never costs the arming.
THEOREM GapTolerance ==
  ASSUME ManualAuxiliary = FALSE PROVE Spec => GapOnlyHolds
  <1>1. ASSUME ArmedStep, Tick, output_active, writers_ok,
               ~Unhealthy, ~CommandStale, Waiting
        PROVE  output_active' /\ intent_enabled' /\ ~fault'
    <2>1. ArmedLive /\ Complete /\ ~manual_enabled
      BY <1>1 DEF ArmedStep, IInv, ArmedLive
    <2>2. ~ArmWatchdog /\ ~GraphRaises
      BY <1>1, <2>1 DEF ArmWatchdog, StartupExpired, GraphRaises
    <2>3. ~ForwardGuard
      BY <1>1 DEF ForwardGuard
    <2>4. ~ManualBranch /\ ~ManualExpired
      BY <2>1 DEF ManualBranch, ManualExpired, ManualLive
    <2>5. ~TickFault
      BY <2>2, <2>3, <2>4 DEF TickFault, TickRaises
    <2>6. TickWaiting
      BY <1>1, <2>1, <2>2, <2>3, <2>4, <2>5
         DEF Tick, TickStill, TickManual, TickManualExpired, TickForward,
             TickHandFault
    <2>. QED
      BY <1>1, <2>1, <2>6 DEF TickWaiting, ArmedLive
  <1>2. ArmedStep /\ [Next]_vars => ArmedStep'
    BY ArmedStepStep
  <1>. QED
    BY <1>1, <1>2, ArmedStepInit, PTL DEF Spec, GapOnlyHolds
=============================================================================
