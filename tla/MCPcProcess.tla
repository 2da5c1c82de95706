---------------------------- MODULE MCPcProcess ----------------------------
(***************************************************************************)
(* The publisher's process on the PC and who listens to it, in one run:      *)
(* `view` says which part moves, and the others stay in their first state.  *)
(*   "arming"   PcArming                                                    *)
(*   "link"     GateLink                                                    *)
(*   "intent"   IntentRace                                                  *)
(*   "record"   LoopRecording                                               *)
(***************************************************************************)
EXTENDS PcArming, GateLink, IntentRace, LoopRecording

\* the profiles are interchangeable
KnownProfile == CHOOSE profile \in Profiles : TRUE

VARIABLE view
processVars == <<view, vars, linkVars, intentVars, recordVars>>

\* what else a gate reports takes the mark away by itself
ReportedDoings == {{"forwarding"}}

MCInit ==
  /\ view \in {"arming", "link", "intent", "record"}
  /\ Init /\ LinkInit /\ IntentInit /\ RecordInit
  /\ cyclo = KnownProfile /\ (view # "link" => serving.profile = cyclo)
  /\ view # "arming" => ~world_ok

MCNext ==
  /\ UNCHANGED view
  /\ \/ view = "arming" /\ Next /\ UNCHANGED <<linkVars, intentVars, recordVars>>
     \/ view = "link" /\ LinkNext /\ UNCHANGED <<vars, intentVars, recordVars>>
     \/ view = "intent" /\ IntentNext /\ UNCHANGED <<vars, linkVars, recordVars>>
     \/ view = "record" /\ RecordNext /\ UNCHANGED <<vars, linkVars, intentVars>>

MCSpec == MCInit /\ [][MCNext]_processVars
-----------------------------------------------------------------------------
\* What the PC believes of the gate is not that of an earlier gate, what it
\* verified is what Cyclo said, and an undisturbed heartbeat tells the gate
\* what the PC wants, whatever is late or overtaken on the way; and the
\* recorder, who hears both, marks nothing as a demonstration that has ended or
\* has another clock.
LinkIsCurrent ==
  /\ ManifestIsCurrent /\ VerifiedMatches /\ QuietBeatTells
  /\ DemonstrationWasMoved /\ DemonstrationHasPcTime
=============================================================================
