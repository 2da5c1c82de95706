----------------------------- MODULE MCOperator -----------------------------
(***************************************************************************)
(* Three views of operating under the console, in one run: `view` says      *)
(* which of them moves, and the others stay in their first state.           *)
(*   "link"   the console's node and the publisher's protocol               *)
(*   "arms"   the publisher with its guards, asked by any requests          *)
(*   "keys"   the console's keyboard and Loop                               *)
(***************************************************************************)
EXTENDS Operator, OperatorPause, OperatorKeys

VARIABLE view

allVars == <<view, pauseVars, armVars, nvars, kvars>>

MCInit ==
  /\ view \in {"link", "arms", "keys"}
  /\ OInit /\ PInit /\ KInit
  /\ view # "arms" => mode = "neck"

MCNext ==
  /\ UNCHANGED view
  /\ \/ view = "link" /\ ONext /\ UNCHANGED <<armVars, kvars>>
     \/ view = "arms" /\ PNext({1, 2}) /\ UNCHANGED <<nvars, kvars>>
     \/ view = "keys" /\ KNext /\ UNCHANGED <<pauseVars, armVars, nvars>>

MCSpec == MCInit /\ [][MCNext]_allVars
MCFairSpec == MCSpec /\ (view = "link" => OFairness)

-----------------------------------------------------------------------------
OperatorTypeOK == OTypeOK /\ PTypeOK /\ KTypeOK

\* What the console cannot see or is not looked at moves nothing: keys move
\* the robot while the publisher is known to be paused, and no key stays
\* down in Loop or in the console when the focus or the input is lost.
ConsoleStops == ManualOnlyPaused /\ SilenceStopsMotion /\ NoStuckLoopKey /\ UnfocusedIsSilent

\* Going on is asked for and gentle: a request is answered, the arms resume
\* near where they were left, the neck follows, and keys move after a press.
ResumesGently == ToggleRecovers /\ ResumeNear /\ NeckNeverJumps /\ FreshPressMoves

=============================================================================
