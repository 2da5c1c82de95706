--------------------------- MODULE PauseProtocol ---------------------------
(***************************************************************************)
(* What a publisher under the operator console promises about pausing, all  *)
(* that the console can rely on: each request identifier is obeyed once,    *)
(* a pause always takes effect, and a resume is either complete at once or  *)
(* completes later.  OperatorPause implements it; Operator composes it with *)
(* the console.                                                             *)
(***************************************************************************)
EXTENDS PyNone

CONSTANT Ids   \* request identifiers

ASSUME IdsAssumption == None \notin Ids

VARIABLES
  paused,    \* operator_paused
  resuming,  \* operator_resuming
  requestId  \* operator_request_id

pauseVars == <<paused, resuming, requestId>>

PauseInit == paused = FALSE /\ resuming = FALSE /\ requestId = None

Pause(id) ==
  /\ id # requestId /\ requestId' = id
  /\ paused' = TRUE /\ resuming' = FALSE

Resume(id) ==
  /\ id # requestId /\ requestId' = id
  /\ paused' = FALSE
  /\ IF paused THEN resuming' \in BOOLEAN ELSE UNCHANGED resuming

\* the guard accepted the arms
Complete ==
  /\ resuming /\ resuming' = FALSE
  /\ UNCHANGED <<paused, requestId>>

PauseNext == (\E id \in Ids : Pause(id) \/ Resume(id)) \/ Complete

PauseSpec == PauseInit /\ [][PauseNext]_pauseVars
=============================================================================
