------------------------------ MODULE SimRelay ------------------------------
(***************************************************************************)
(* SimulationBridge of sh5_sim_bridge.py: between Cyclo and the simulated    *)
(* SH5 stands a relay that forwards commands while the headset's publisher   *)
(* says that it is enabled, and otherwise holds one pose.  One thread runs   *)
(* all callbacks.  An arm or a hand is one joint; the bounds of commands are *)
(* a verdict.  Times are ages.                                             *)
(***************************************************************************)
EXTENDS PyNone, Integers

CONSTANTS
  FeedbackLife, InputLife, CommandLife,  \* FEEDBACK_, INPUT_ and COMMAND_MAX_AGE
  SimJoints,  \* a subset of {"arm", "hand"}
  Positions   \* of a joint

ASSUME RelayAssumption ==
  /\ {FeedbackLife, InputLife, CommandLife} \subseteq Nat /\ Positions \subseteq Int
  /\ SimJoints \subseteq {"arm", "hand"}

VARIABLES
  simSeen,   \* measured: positions, whether the other joints are still, feedback_rx
  simInput,  \* input and input_rx
  raw,       \* goals by joint, their ages, and whether the last stop came after them
  simOut,    \* last_output
  simFault,  \* fault
  was,       \* was_enabled
  simTold    \* the stop topic
simVars == <<simSeen, simInput, raw, simOut, simFault, was, simTold>>

Phases == {"SETTLING", "ACTIVE"}

SimInit ==
  /\ simSeen = [at |-> None, still |-> TRUE, age |-> FeedbackLife + 1]
  /\ simInput = [enabled |-> FALSE, fresh |-> FALSE, phase |-> "SETTLING", age |-> InputLife + 1]
  /\ raw = [j \in SimJoints |-> None]
  /\ simOut = [j \in SimJoints |-> None]
  /\ simFault = FALSE /\ was = FALSE /\ simTold = None

\* joints: a complete message that is newer than the last
SimMeasured(at, still) ==
  /\ simSeen' = [at |-> at, still |-> still, age |-> 0]
  /\ UNCHANGED <<simInput, raw, simOut, simFault, was, simTold>>

\* input_status
SimStatus(enabled, fresh, phase) ==
  /\ simInput' = [enabled |-> enabled, fresh |-> fresh, phase |-> phase, age |-> 0]
  /\ UNCHANGED <<simSeen, raw, simOut, simFault, was, simTold>>

\* command: one that is malformed or out of bounds is a fault
SimCommand(j, goal, valid) ==
  /\ raw' = IF valid THEN [raw EXCEPT ![j] = [goal |-> goal, age |-> 0, past |-> FALSE]] ELSE raw
  /\ simFault' = (simFault \/ ~valid)
  /\ UNCHANGED <<simSeen, simInput, simOut, was, simTold>>

\* report: somebody else writes to the robot
SimReport ==
  /\ simFault' = TRUE
  /\ UNCHANGED <<simSeen, simInput, raw, simOut, was, simTold>>

SimElapse ==
  /\ simSeen' = [simSeen EXCEPT !.age = IF @ > FeedbackLife THEN @ ELSE @ + 1]
  /\ simInput' = [simInput EXCEPT !.age = IF @ > InputLife THEN @ ELSE @ + 1]
  /\ raw' = [j \in SimJoints |->
       IF raw[j] = None \/ raw[j].age > CommandLife THEN raw[j]
       ELSE [raw[j] EXCEPT !.age = @ + 1]]
  /\ UNCHANGED <<simOut, simFault, was, simTold>>

-----------------------------------------------------------------------------
HasFeedback == simSeen.age <= FeedbackLife
RelayEnabled ==
  HasFeedback /\ simInput.age <= InputLife /\ simInput.enabled /\ simInput.fresh /\ ~simFault
RelayStops == was /\ ~RelayEnabled

MutantRawAfterStop == [j \in SimJoints |-> IF raw[j] = None THEN None ELSE [raw[j] EXCEPT !.past = TRUE]]
RawAfterStop == [j \in SimJoints |-> None]

\* whether the joint follows its goal in this tick
Follows(j, goals) ==
  /\ RelayEnabled /\ simSeen.still
  /\ goals[j] # None /\ goals[j].age <= CommandLife
  /\ j = "hand" => simInput.phase = "ACTIVE"
SpeedLimited(from, to) == IF to > from THEN from + 1 ELSE IF to < from THEN from - 1 ELSE from

MutantHeld(out, actual) == actual
\* hold one captured target, not what the arm sags to
Held(out, actual) == IF out = None THEN actual ELSE out

\* tick
RelayTick ==
  /\ was' = RelayEnabled
  /\ simTold' = IF RelayStops THEN FALSE ELSE simTold
  /\ raw' = IF RelayStops THEN RawAfterStop ELSE raw
  /\ simFault' = (simFault \/ (HasFeedback /\ ~simSeen.still))
  /\ LET captured == IF RelayStops /\ HasFeedback THEN simSeen.at ELSE simOut
         held == [j \in SimJoints |-> Held(captured[j], simSeen.at[j])]
     IN simOut' = IF ~HasFeedback THEN captured
                  ELSE [j \in SimJoints |->
                    IF Follows(j, raw') THEN SpeedLimited(held[j], raw'[j].goal) ELSE held[j]]
  /\ UNCHANGED <<simSeen, simInput>>

SimNext ==
  \/ \E at \in [SimJoints -> Positions], still \in BOOLEAN : SimMeasured(at, still)
  \/ \E enabled, fresh \in BOOLEAN, phase \in Phases : SimStatus(enabled, fresh, phase)
  \/ \E j \in SimJoints, goal \in Positions, valid \in BOOLEAN : SimCommand(j, goal, valid)
  \/ SimReport \/ SimElapse \/ RelayTick

SimSpec == SimInit /\ [][SimNext]_simVars
-----------------------------------------------------------------------------
\* Between a stop and the next start the robot is told one pose, whatever it sags
\* to, and whatever Cyclo or feedback do meanwhile.
HoldsOnePose == [][~was /\ ~was' => \A j \in SimJoints : simOut[j] \in {None, simOut'[j]}]_simVars

\* No joint moves for a goal that was sent before the last stop.
FollowsNoOldGoal ==
  [][\A j \in SimJoints :
       was' /\ simOut[j] # None /\ simOut'[j] # simOut[j] => raw'[j] # None /\ ~raw'[j].past]_simVars
=============================================================================
