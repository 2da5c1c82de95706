------------------------------ MODULE GateLink ------------------------------
(***************************************************************************)
(* What the PC knows of the gate it talks to: the filter on gate statuses    *)
(* and the parameter queries by which it learns the gate's profile and       *)
(* compares it with what Cyclo was started with.  Gates are numbered in the  *)
(* order they are started; one runs at a time.  All of this happens on the   *)
(* rclpy thread.                                                            *)
(***************************************************************************)
EXTENDS PyNone, Naturals, FiniteSets

CONSTANTS
  MaxGate,     \* bound: gates started after one another
  MaxStatus,   \* bound: statuses of a gate
  MaxQueries,  \* bound: parameter requests not over yet
  Profiles     \* profiles a gate or Cyclo can be started with

ASSUME GateLinkAssumption ==
  /\ {MaxGate, MaxStatus, MaxQueries} \subseteq Nat \ {0}
  /\ None \notin Profiles \cup Nat \cup [from : Nat, profile : Profiles]

Gates == 1 .. MaxGate
Clients == {"gate", "cyclo"}

VARIABLES
  serving,     \* the gate that runs and its profile_json
  cyclo,       \* what Cyclo's parameters say
  statuses,    \* gate statuses on their way: [gate, number]
  announced,   \* _gate_instance, _gate_status_sequence
  retiredGates,  \* _retired_gate_instances
  queries,     \* requests: live while _gate_future or _profile_future names them,
               \* with a reply whose callback is to come once they were served
  manifest,    \* _hardware_manifest, with the gate that sent it
  verified,    \* _profile_verified
  compared     \* history: while verified, what Cyclo said
linkVars == <<serving, cyclo, statuses, announced, retiredGates, queries, manifest, verified, compared>>

LinkInit ==
  /\ serving \in [gate : {1}, number : {0}, profile : Profiles] /\ cyclo \in Profiles
  /\ statuses = {} /\ announced = [gate |-> None, number |-> 0] /\ retiredGates = {}
  /\ queries = {} /\ manifest = None /\ verified = FALSE /\ compared = None

-----------------------------------------------------------------------------
(* The gate, Cyclo and the network.                                        *)

GateSends ==
  /\ serving.number < MaxStatus
  /\ serving' = [serving EXCEPT !.number = @ + 1]
  /\ statuses' = statuses \cup {[gate |-> serving.gate, number |-> serving.number + 1]}
  /\ UNCHANGED <<cyclo, announced, retiredGates, queries, manifest, verified, compared>>

\* what the old one has sent may still arrive, what it was asked is lost
Unanswered(client) == {q \in queries : q.client = client /\ q.reply = None}
GateRestarts ==
  /\ serving.gate < MaxGate
  /\ serving' \in [gate : {serving.gate + 1}, number : {0}, profile : Profiles]
  /\ queries' = queries \ Unanswered("gate")
  /\ UNCHANGED <<cyclo, statuses, announced, retiredGates, manifest, verified, compared>>

CycloRestarts(profile) ==
  /\ cyclo' = profile /\ queries' = queries \ Unanswered("cyclo")
  /\ UNCHANGED <<serving, statuses, announced, retiredGates, manifest, verified, compared>>

Serve(q) ==
  /\ q.reply = None
  /\ queries' = (queries \ {q}) \cup
       {[q EXCEPT !.reply = IF q.client = "gate" THEN serving.profile ELSE cyclo, !.from = serving.gate]}
  /\ UNCHANGED <<serving, cyclo, statuses, announced, retiredGates, manifest, verified, compared>>

-----------------------------------------------------------------------------
(* _gate_status and _query_profile.                                        *)

\* a request that is given up is cancelled; one whose reply is there already
\* has its callback run all the same
Abandoned(clients) ==
  {IF q.client \in clients THEN [q EXCEPT !.live = FALSE] ELSE q :
     q \in queries \ UNION {Unanswered(client) : client \in clients}}

\* a gate that was left is not listened to again, nor an older status
Heeds(s) == s.gate \notin retiredGates /\ (s.gate = announced.gate => s.number > announced.number)

\* _gate_status; another gate: _invalidate_profile_requests
ReceiveStatus(s) ==
  /\ statuses' = statuses \ {s}
  /\ IF ~Heeds(s) THEN UNCHANGED <<announced, retiredGates, queries, manifest, verified>>
     ELSE /\ announced' = s
          /\ IF s.gate = announced.gate
               THEN UNCHANGED <<retiredGates, queries, manifest, verified>>
             ELSE /\ retiredGates' = retiredGates \cup ({announced.gate} \ {None})
                  /\ queries' = Abandoned(Clients) /\ manifest' = None /\ verified' = FALSE
  /\ compared' = IF verified' THEN compared ELSE None
  /\ UNCHANGED <<serving, cyclo>>

\* _query_profile for one of the two: a request without a reply is given up
\* after a while, and the present one asked
Query(client) ==
  /\ Cardinality(Abandoned({client})) < MaxQueries
  /\ queries' = Abandoned({client}) \cup
       {[client |-> client, asked |-> announced.gate, live |-> TRUE, reply |-> None, from |-> None]}
  /\ UNCHANGED <<serving, cyclo, statuses, announced, retiredGates, manifest, verified, compared>>

MutantCounts(q) == TRUE
\* received: the answer to the last request, asked from the announced gate
Counts(q) == q.live /\ q.asked = announced.gate

\* _gate_profile (a profile of another kind is refused) and _profile_result
Receive(q, valid) ==
  /\ q.reply # None
  /\ queries' = queries \ {q}
  /\ IF ~Counts(q) THEN UNCHANGED <<manifest, verified>>
     ELSE IF q.client = "gate"
       THEN /\ manifest' = IF valid THEN [from |-> q.from, profile |-> q.reply] ELSE None
            /\ verified' = (verified /\ valid)
     ELSE /\ verified' = (valid /\ manifest # None /\ manifest.profile = q.reply)
          /\ UNCHANGED manifest
  /\ compared' = IF ~verified' THEN None ELSE IF Counts(q) /\ q.client = "cyclo" THEN q.reply ELSE compared
  /\ UNCHANGED <<serving, cyclo, statuses, announced, retiredGates>>

LinkNext ==
  \/ GateSends \/ GateRestarts
  \/ \E profile \in Profiles : CycloRestarts(profile)
  \/ \E q \in queries : Serve(q) \/ \E valid \in BOOLEAN : Receive(q, valid)
  \/ \E s \in statuses : ReceiveStatus(s)
  \/ \E client \in Clients : Query(client)

LinkSpec == LinkInit /\ [][LinkNext]_linkVars

-----------------------------------------------------------------------------
\* The manifest is never that of a gate before the announced one, however late
\* a reply or a status of an earlier gate arrives.
ManifestIsCurrent == manifest # None /\ announced.gate # None => manifest.from >= announced.gate

\* A verified manifest of the announced gate is what Cyclo said it was started
\* with; the manifest of a gate that has not been heard yet may be another.
VerifiedMatches ==
  (verified /\ manifest.from = announced.gate) => manifest.profile = compared
=============================================================================
