--------------------------- MODULE MotorPrecheck ---------------------------
(***************************************************************************)
(* ready_pose_precheck.py: before the ready pose, the motor bus must have    *)
(* been healthy for a while by samples of one publisher.                    *)
(***************************************************************************)
EXTENDS Naturals, PyNone

CONSTANTS
  Steady,      \* how long it has to be good (.3 s)
  MotorFresh,  \* the life of a motor sample (.5 s)
  Unverified   \* how long unverified torque is waited for (3 s)
ASSUME MotorPrecheckAssumption ==
  {Steady, MotorFresh, Unverified} \subseteq Nat /\ None \notin {"pass", "fail"}

VARIABLES
  strict,      \* readiness_policy = strict_torque
  busOk,       \* bus_ok
  torqueGood,  \* reported_torque_good
  sampleAge,   \* age of motor_rx
  goodSince,   \* age of good_since
  unverified,  \* age of unverified_since
  verdict,     \* None, pass or fail
  calm         \* history: time since something was last seen to be wrong
motorVars == <<strict, busOk, torqueGood, sampleAge, goodSince, unverified, verdict, calm>>

MotorInit ==
  /\ strict \in BOOLEAN /\ busOk = FALSE /\ torqueGood = FALSE
  /\ sampleAge = MotorFresh + 1 /\ goodSince = None /\ unverified = None
  /\ verdict = None /\ calm = 0

MutantRestarts(good) == IF good /\ goodSince = None THEN 0 ELSE goodSince
\* whatever is wrong starts the wait again
Restarts(good) == IF good THEN (IF goodSince = None THEN 0 ELSE goodSince) ELSE None

\* motor, for a sample that is newer than the last one
Sample(bus, torque) ==
  /\ busOk' = bus /\ torqueGood' = (bus /\ torque) /\ sampleAge' = 0
  /\ unverified' = IF ~bus \/ torque THEN None ELSE IF unverified = None THEN 0 ELSE unverified
NoSample == UNCHANGED <<busOk, torqueGood, sampleAge, unverified>>

\* one turn of main: at most one callback, then ready
Spin(single) ==
  /\ verdict = None
  /\ NoSample \/ \E bus, torque \in BOOLEAN : Sample(bus, torque)
  /\ LET good == busOk' /\ sampleAge' <= MotorFresh /\ (~strict \/ torqueGood') /\ single
         since == Restarts(good)
         hopeless == strict /\ unverified' # None /\ unverified' > Unverified
     IN  /\ goodSince' = since
         /\ verdict' = IF hopeless THEN "fail"
                       ELSE IF good /\ since # None /\ since >= Steady THEN "pass" ELSE None
         /\ calm' = IF good THEN calm ELSE 0
  /\ UNCHANGED strict

\* the deadline of main, or a signal
PrecheckEnds == verdict = None /\ verdict' = "fail"
  /\ UNCHANGED <<strict, busOk, torqueGood, sampleAge, goodSince, unverified, calm>>

MotorTick ==
  LET later(age, cap) == IF age = None \/ age = cap THEN age ELSE age + 1
  IN  /\ verdict = None
      /\ sampleAge' = later(sampleAge, MotorFresh + 1) /\ goodSince' = later(goodSince, Steady)
      /\ unverified' = later(unverified, Unverified + 1) /\ calm' = later(calm, Steady)
      /\ UNCHANGED <<strict, busOk, torqueGood, verdict>>

MotorNext == MotorTick \/ PrecheckEnds \/ \E single \in BOOLEAN : Spin(single)

MotorSpec == MotorInit /\ [][MotorNext]_motorVars

-----------------------------------------------------------------------------
\* A pass says that nothing was seen to be wrong with the bus, its torque (where
\* the policy asks for it), its age or its publishers for the whole time.
PassIsSteady == verdict = "pass" => calm >= Steady
=============================================================================
