-------------------------- MODULE MCGateLiveness --------------------------
(***************************************************************************)
(* How a stop gets from the PC to the gate, in one run: `view` says which    *)
(* half moves, and the other stays in its first state.                      *)
(*   "gate"     CommandGate                                                 *)
(*   "intent"   IntentRace                                                  *)
(***************************************************************************)
EXTENDS CommandGate, IntentRace

BaseAux == {{}, {"base"}}

VARIABLE view
stopVars == <<view, vars, intentVars>>

MCInit == view \in {"gate", "intent"} /\ Init /\ IntentInit
MCNext ==
  /\ UNCHANGED view
  /\ \/ view = "gate" /\ Next /\ UNCHANGED intentVars
     \/ view = "intent" /\ IntentNext /\ UNCHANGED vars

\* the fairness of Spec and IntentSpec, where the view lets their actions happen
MCSpec ==
  /\ MCInit /\ [][MCNext]_stopVars
  /\ WF_vars(view = "gate" /\ running /\ Tick) /\ WF_vars(view = "gate" /\ running /\ Elapse)
  /\ WF_intentVars(view = "intent" /\ IntentTimer)
  /\ \A t \in Senders : WF_intentVars(view = "intent" /\ Beats(t))
-----------------------------------------------------------------------------
\* A PC that stays off is heard by the gate, however its two threads interleave,
\* and a gate whose PC is silent stops the arms and the base.
StopReachesGate == StopIsHeard /\ LostLeaseStopsMotion
=============================================================================
