----------------------------- MODULE ReadyPose -----------------------------
(***************************************************************************)
(* hardware/ready_pose.py: moves both arms to the ready pose with one        *)
(* trajectory action each, before anything else commands them, and takes the *)
(* motion back when it cannot be completed.  What the mover knows of a goal  *)
(* (its request, its result, its cancellation) lags behind what the action   *)
(* server of that arm does, and the handle of an accepted goal lags behind   *)
(* the answer: remember_handle is a done callback, which the executor runs   *)
(* in a later spin_once than the one that completed the future.              *)
(***************************************************************************)
EXTENDS Naturals

ArmSides == {"l", "r"}

VARIABLES
  phase,     \* of move and main: where it waits; absent without --ready-pose
  robot,     \* description and servers ready, fresh(), arms moving, other commanders
  request,   \* send_goal_async: none, sent, accepted, rejected
  handles,   \* handles: the arms whose accepted goal remember_handle has seen
  result,    \* get_result_async: none, asked, succeeded, failed
  cancel,    \* cancel_goal_async: none, sent, handled at the server, done
  goal,      \* at the server: none, pending, running, succeeded, failed, refused, canceled
  aborting,  \* aborting
  gaveUp,    \* cancel_moves ran into its deadline
  shut       \* the ROS context was shut down by a signal
readyVars == <<phase, robot, request, handles, result, cancel, goal, aborting, gaveUp, shut>>

Waiting == {"servers", "graph", "accept", "result", "settle", "cancel"}
Over == {"ready", "aborted"}

RobotStates == [fresh : BOOLEAN, served : BOOLEAN, moving : BOOLEAN, rival : BOOLEAN]

ReadyInit ==
  /\ phase \in {"absent", "servers"}
  /\ robot = [fresh |-> FALSE, served |-> FALSE, moving |-> TRUE, rival |-> FALSE]
  /\ request = [s \in ArmSides |-> "none"] /\ result = request /\ cancel = request /\ goal = request
  /\ handles = {}
  /\ aborting = FALSE /\ gaveUp = FALSE /\ shut = FALSE

-----------------------------------------------------------------------------
(* The robot and its action servers.                                       *)

\* on_description, on_state, the graph
RobotChanges(to) ==
  /\ phase \in Waiting /\ robot' = to
  /\ UNCHANGED <<phase, request, handles, result, cancel, goal, aborting, gaveUp, shut>>

ServerDecides(s) ==
  /\ goal[s] = "pending"
  /\ \E to \in {"running", "refused"} : goal' = [goal EXCEPT ![s] = to]
  /\ UNCHANGED <<phase, robot, request, handles, result, cancel, aborting, gaveUp, shut>>
ServerFinishes(s) ==
  /\ goal[s] = "running"
  /\ \E to \in {"succeeded", "failed"} : goal' = [goal EXCEPT ![s] = to]
  /\ UNCHANGED <<phase, robot, request, handles, result, cancel, aborting, gaveUp, shut>>
ServerCancels(s) ==
  /\ cancel[s] = "sent" /\ cancel' = [cancel EXCEPT ![s] = "handled"]
  /\ goal' = IF goal[s] = "running" THEN [goal EXCEPT ![s] = "canceled"] ELSE goal
  /\ UNCHANGED <<phase, robot, request, handles, result, aborting, gaveUp, shut>>

-----------------------------------------------------------------------------
(* What a spin_once of the mover brings.                                   *)

Spins == phase \in Waiting

\* the answer completes the future of the request
RequestReply(s) ==
  /\ Spins /\ request[s] = "sent" /\ goal[s] # "pending"
  /\ request' = [request EXCEPT ![s] = IF goal[s] = "refused" THEN "rejected" ELSE "accepted"]
  /\ UNCHANGED <<phase, robot, handles, result, cancel, goal, aborting, gaveUp, shut>>

MutantTakenBack(s) == FALSE
\* a goal that is remembered after the move was given up is taken back at once
TakenBack(s) == aborting

\* remember_handle, in any spin_once after the one that completed the future
RememberHandle(s) ==
  /\ Spins /\ request[s] = "accepted" /\ s \notin handles
  /\ handles' = handles \cup {s}
  /\ cancel' = IF TakenBack(s) THEN [cancel EXCEPT ![s] = "sent"] ELSE cancel
  /\ UNCHANGED <<phase, robot, request, result, goal, aborting, gaveUp, shut>>
ResultReply(s) ==
  /\ Spins /\ result[s] = "asked" /\ goal[s] \in {"succeeded", "failed", "canceled"}
  /\ result' = [result EXCEPT ![s] = IF goal[s] = "succeeded" THEN "succeeded" ELSE "failed"]
  /\ UNCHANGED <<phase, robot, request, handles, cancel, goal, aborting, gaveUp, shut>>
CancelReply(s) ==
  /\ Spins /\ cancel[s] = "handled" /\ cancel' = [cancel EXCEPT ![s] = "done"]
  /\ UNCHANGED <<phase, robot, request, handles, result, goal, aborting, gaveUp, shut>>

-----------------------------------------------------------------------------
(* move.                                                                   *)

\* main: except clause; cancel_moves begins
MutantCancels == ArmSides
\* every goal whose handle is kept, whatever became of it
Cancels == handles
GiveUp ==
  /\ phase' = "cancel" /\ aborting' = TRUE
  /\ cancel' = [s \in ArmSides |-> IF s \in Cancels THEN "sent" ELSE cancel[s]]
  /\ UNCHANGED <<robot, request, handles, result, goal, gaveUp, shut>>

Goes(to) ==
  /\ phase' = to
  /\ UNCHANGED <<robot, request, handles, result, cancel, goal, aborting, gaveUp, shut>>

Served ==
  /\ phase = "servers" /\ robot.fresh /\ robot.served
  /\ Goes("graph")

\* after a second for the graph: check_other_commanders, fresh, at rest
MayMove == ~robot.rival /\ robot.fresh /\ ~robot.moving
Send ==
  /\ phase = "graph"
  /\ IF ~MayMove THEN GiveUp
     ELSE /\ phase' = "accept"
          /\ request' = [s \in ArmSides |-> "sent"] /\ goal' = [s \in ArmSides |-> "pending"]
          /\ UNCHANGED <<robot, handles, result, cancel, aborting, gaveUp, shut>>

Accepted ==
  /\ phase = "accept" /\ \A s \in ArmSides : request[s] \in {"accepted", "rejected"}
  /\ IF \E s \in ArmSides : request[s] = "rejected" THEN GiveUp
     ELSE /\ phase' = "result" /\ result' = [s \in ArmSides |-> "asked"]
          /\ UNCHANGED <<robot, request, handles, cancel, goal, aborting, gaveUp, shut>>

MutantFailed == \A s \in ArmSides : result[s] = "failed"
Failed == \E s \in ArmSides : result[s] = "failed"
Finished ==
  /\ phase = "result" /\ \A s \in ArmSides : result[s] \in {"succeeded", "failed"}
  /\ IF Failed THEN GiveUp ELSE Goes("settle")

Settled == phase = "settle" /\ robot.fresh /\ ~robot.moving /\ Goes("ready")

MutantTimed == {"servers", "accept", "settle"}
Timed == {"servers", "accept", "result", "settle"}
\* the deadlines of wait_for, and errors raised meanwhile
WaitTimeout == phase \in Timed /\ GiveUp

MutantAllAnswered == \A s \in ArmSides : request[s] # "sent"
\* cancel_moves: all futures are done; a done callback that still has to run is
\* not looked at, and the spin_once before may have been spent on anything
AllAnswered == \A s \in ArmSides : request[s] # "sent" /\ cancel[s] \in {"none", "done"}

Canceled == phase = "cancel" /\ AllAnswered /\ Goes("aborted")
CancelTimeout ==
  /\ phase = "cancel" /\ ~AllAnswered /\ phase' = "aborted" /\ gaveUp' = TRUE
  /\ UNCHANGED <<robot, request, handles, result, cancel, goal, aborting, shut>>

\* SIGINT and SIGTERM shut the context down first: nothing is sent any more
Signal ==
  /\ phase \in Waiting /\ shut' = TRUE /\ phase' = "aborted"
  /\ UNCHANGED <<robot, request, handles, result, cancel, goal, aborting, gaveUp>>

MoverStep ==
  \/ Served \/ Send \/ Accepted \/ Finished \/ Settled \/ WaitTimeout \/ Canceled \/ CancelTimeout

ReadyNext ==
  \/ MoverStep \/ Signal
  \/ \E to \in RobotStates : RobotChanges(to)
  \/ \E s \in ArmSides :
       \/ ServerDecides(s) \/ ServerFinishes(s) \/ ServerCancels(s)
       \/ RequestReply(s) \/ RememberHandle(s) \/ ResultReply(s) \/ CancelReply(s)

ReadySpec == ReadyInit /\ [][ReadyNext]_readyVars /\ WF_readyVars(MoverStep)

-----------------------------------------------------------------------------
ReadyTypeOK ==
  /\ phase \in Waiting \cup Over \cup {"absent"} /\ robot \in RobotStates
  /\ handles \subseteq ArmSides
  /\ \A s \in ArmSides :
       /\ request[s] \in {"none", "sent", "accepted", "rejected"}
       /\ result[s] \in {"none", "asked", "succeeded", "failed"}
       /\ cancel[s] \in {"none", "sent", "handled", "done"}
       /\ s \in handles => request[s] = "accepted"
       /\ cancel[s] # "none" => aborting /\ s \in handles
  /\ {aborting, gaveUp, shut} \subseteq BOOLEAN

\* A move that is given up leaves no arm moving and no goal to be accepted
\* later, unless the servers did not answer in time or a signal ended the mover.
\* An arm is excepted, and goes on moving in the code: cancel_moves looks at the
\* futures of the requests and not at remember_handle, so an accepted goal whose
\* callback has not run when the last answer ends the wait is never cancelled.
AbortStopsArms ==
  (phase = "aborted" /\ ~gaveUp /\ ~shut) =>
    \A s \in ArmSides : goal[s] \in {"pending", "running"} =>
      goal[s] = "running" /\ request[s] = "accepted" /\ s \notin handles

\* The VR publisher starts only when both servers have carried out their goal and
\* nothing of it has been taken back.
ReadyIsBoth ==
  phase = "ready" => \A s \in ArmSides : goal[s] = "succeeded" /\ cancel[s] = "none"
\* The mover ends: each of its waits has a deadline.
MoverEnds == phase \in Waiting ~> phase \in Over
=============================================================================
