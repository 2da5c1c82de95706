------------------------ MODULE OperatorPauseProofs ------------------------
(***************************************************************************)
(* Theorems about the publisher under the operator console, for every      *)
(* request, every place of the arms and every choice of the limits.        *)
(***************************************************************************)
EXTENDS OperatorPause, TLAPS

USE DEF pvars, pauseVars, armVars

-----------------------------------------------------------------------------
(* The tracking guard.                                                     *)

\* Half way between a filtered place and a place is again between two places.
LEMMA ReachFacts ==
  /\ Reach \subseteq Int /\ Places \subseteq Reach
  /\ \A f \in Reach, p \in Places : (f + p) \div 2 \in Reach
  <1>1. Reach \subseteq Int /\ Places \subseteq Reach
    BY OperatorAssumption DEF Reach
  <1>2. \A x \in Int, low \in Places, high \in Places : low <= x /\ x <= high => x \in Reach
    BY DEF Reach
  <1>3. ASSUME NEW f \in Reach, NEW p \in Places PROVE (f + p) \div 2 \in Reach
    <2>1. PICK low \in Places, high \in Places : low <= f /\ f <= high
      BY DEF Reach
    <2>2. p \in Int /\ f \in Int /\ low \in Int /\ high \in Int
      BY <1>1, OperatorAssumption
    <2> DEFINE m == (f + p) \div 2
    <2>3. m \in Int /\ 2 * m <= f + p /\ f + p < 2 * m + 2
      BY <2>2
    <2> HIDE DEF m
    <2>4. CASE p < low
      <3>1. p <= m /\ m <= high
        BY <2>1, <2>2, <2>3, <2>4
      <3> QED  BY <1>2, <2>3, <3>1 DEF m
    <2>5. CASE p > high
      <3>1. low <= m /\ m <= p
        BY <2>1, <2>2, <2>3, <2>5
      <3> QED  BY <1>2, <2>3, <3>1 DEF m
    <2>6. CASE low <= p /\ p <= high
      <3>1. low <= m /\ m <= high
        BY <2>1, <2>2, <2>3, <2>6
      <3> QED  BY <1>2, <2>3, <3>1 DEF m
    <2> QED  BY <2>2, <2>4, <2>5, <2>6
  <1> QED  BY <1>1, <1>3

Poses == G!Batches(Reach)
AnyGuard == G!Guards(Reach)

LEMMA PoseFacts ==
  /\ None \notin Poses /\ None \notin Reach
  /\ \A poses \in Poses : poses.raw \in Int /\ poses.goal \in Int
  <1>1. Poses \subseteq [raw : Int, goal : Int]
    BY ReachFacts DEF Poses, G!Batches
  <1> QED  BY <1>1, ReachFacts, OperatorAssumption

\* A guard that holds remembers what it remembered, and time changes only
\* how long it has seen stillness.
LEMMA HoldFacts ==
  ASSUME NEW g \in AnyGuard
  PROVE  /\ G!Hold(g) \in AnyGuard /\ G!Hold(g).last = g.last /\ G!Hold(g).holding
         /\ G!Age(g) \in AnyGuard /\ G!Age(g).last = g.last
         /\ G!Age(g).holding = g.holding
  <1>1. AnyGuard = [last : Poses \cup {None}, candidate : Poses \cup {None},
                    stable : (0 .. StableTicks) \cup {None}, holding : BOOLEAN]
    BY DEF AnyGuard, G!Guards, Poses
  <1>2. /\ G!Hold(g) \in AnyGuard /\ G!Hold(g).last = g.last
        /\ G!Hold(g).holding
    BY <1>1 DEF G!Hold
  <1>3. /\ G!Age(g) \in AnyGuard /\ G!Age(g).last = g.last
        /\ G!Age(g).holding = g.holding
    <2>1. \A age \in 0 .. StableTicks - 1 : age + 1 \in 0 .. StableTicks
      BY OperatorAssumption
    <2> QED  BY <1>1, <2>1 DEF G!Age
  <1> QED  BY <1>2, <1>3

LEMMA SettleFacts ==
  ASSUME NEW g \in AnyGuard, NEW poses \in Poses, g.holding
  PROVE  /\ G!Settle(g, poses) \in AnyGuard
         /\ G!Settle(g, poses).holding /\ G!Settle(g, poses).last = g.last
         /\ (g.last # None /\ ~G!Close(poses, g.last, ReturnLimit))
              => G!Settle(g, poses).stable = None
  <1> DEFINE far == g.last # None /\ ~G!Close(poses, g.last, ReturnLimit)
             fresh == g.candidate = None \/ ~G!Close(poses, g.candidate, StillLimit)
  <1>1. CASE far
    BY <1>1 DEF AnyGuard, G!Guards, G!Settle
  <1>2. CASE ~far /\ fresh
    <2>1. G!Settle(g, poses) = [g EXCEPT !.candidate = poses, !.stable = 0]
      BY <1>2 DEF G!Settle
    <2>2. AnyGuard = [last : Poses \cup {None}, candidate : Poses \cup {None},
                      stable : (0 .. StableTicks) \cup {None}, holding : BOOLEAN]
      BY DEF AnyGuard, G!Guards, Poses
    <2>3. 0 \in 0 .. StableTicks
      BY OperatorAssumption
    <2> QED  BY <1>2, <2>1, <2>2, <2>3
  <1>3. CASE ~far /\ ~fresh
    <2>1. G!Settle(g, poses) = g
      BY <1>3 DEF G!Settle
    <2> QED  BY <1>3, <2>1
  <1> QED  BY <1>1, <1>2, <1>3

\* What accepting poses means: the guard remembers them, and they are near
\* the ones it remembered, the nearer if it was holding.  A guard that does
\* not accept remembers what it remembered.
LEMMA OfferFacts ==
  ASSUME NEW g \in AnyGuard, NEW poses \in Poses
  PROVE  /\ G!Offer(g, poses) \in AnyGuard
         /\ G!Accepts(g, poses) => G!Offer(g, poses).last = poses
         /\ ~G!Accepts(g, poses) =>
              G!Offer(g, poses).holding /\ G!Offer(g, poses).last = g.last
         /\ (G!Accepts(g, poses) /\ g.last # None) =>
              \/ G!Close(poses, g.last, ReturnLimit)
              \/ ~g.holding /\ G!Close(poses, g.last, JumpLimit)
  <1> DEFINE seen == IF ~g.holding /\ ~G!Close(poses, g.last, JumpLimit)
                     THEN G!Hold(g) ELSE g
             settled == IF seen.holding THEN G!Settle(seen, poses) ELSE seen
             wait == settled.holding /\ settled.stable # StableTicks
  <1>1. /\ seen \in AnyGuard /\ seen.last = g.last
        /\ g.holding => seen.holding
        /\ ~seen.holding => ~g.holding /\ G!Close(poses, g.last, JumpLimit)
    BY HoldFacts
  <1>2. /\ settled \in AnyGuard /\ settled.last = g.last
        /\ settled.holding <=> seen.holding
        /\ seen.holding /\ g.last # None /\ ~G!Close(poses, g.last, ReturnLimit)
             => settled.stable = None
    <2> HIDE DEF seen
    <2> QED  BY <1>1, SettleFacts
  <1>3. G!Offer(g, poses) = IF wait THEN settled
                            ELSE [settled EXCEPT !.last = poses, !.holding = FALSE]
    BY DEF G!Offer
  <1>4. wait \/ settled.stable = StableTicks \/ ~settled.holding
    OBVIOUS
  <1> HIDE DEF seen, settled
  <1>5. CASE wait
    BY <1>2, <1>3, <1>5 DEF G!Accepts
  <1>6. CASE ~wait
    <2>1. /\ G!Offer(g, poses) \in AnyGuard /\ G!Offer(g, poses).last = poses
          /\ ~G!Offer(g, poses).holding
      BY <1>2, <1>3, <1>6 DEF AnyGuard, G!Guards, Poses
    <2>2. g.last # None => \/ G!Close(poses, g.last, ReturnLimit)
                           \/ ~g.holding /\ G!Close(poses, g.last, JumpLimit)
      BY <1>1, <1>2, <1>4, <1>6, OperatorAssumption
    <2> QED  BY <2>1, <2>2 DEF G!Accepts
  <1> QED  BY <1>5, <1>6

-----------------------------------------------------------------------------
(* The inductive invariant.                                                *)

Kinds ==
  /\ mode \in Modes
  /\ enabled \in BOOLEAN /\ paused \in BOOLEAN /\ resuming \in BOOLEAN
  /\ told \in BOOLEAN \cup {None}
  /\ guard \in AnyGuard /\ track \in AnyGuard
  /\ filter \in Reach \cup {None} /\ goal \in Reach \cup {None}
  /\ apart \in {"no", "partial", "strayed"}

\* The operator either holds or waits to resume, and the guard holds with him.
Held ==
  /\ ~(paused /\ resuming)
  /\ (paused \/ resuming) => guard.holding

\* The neck publisher publishes whole batches only.
NeckWhole == mode = "neck" => apart # "partial"

\* The guard of the mixin remembers the last goals as soon as there are any,
\* and so does the neck's own guard, as long as it has not strayed.
GuardKnows ==
  (goal # None /\ apart # "partial") => guard.last \in Poses /\ guard.last.goal = goal
TrackKnows ==
  (mode = "neck" /\ goal # None /\ apart # "strayed")
    => track.last \in Poses /\ track.last.goal = goal

Memory == GuardRemembers /\ NeckWhole /\ GuardKnows /\ TrackKnows
Word == HeldMeansDisarmed /\ ToldFollows

PauseInv == Kinds /\ Held /\ Word /\ Memory

-----------------------------------------------------------------------------
(* What the parts of a body event return.                                  *)

LEMMA StartFacts == G!Start \in AnyGuard /\ G!Start.holding /\ G!Start.last = None
  BY DEF G!Start, AnyGuard, G!Guards

LEMMA BatchFacts ==
  ASSUME Kinds, NEW p \in Places
  PROVE  /\ Filtered(p) \in Reach /\ Batch(p) \in Poses /\ Seen(p) \in Poses
         /\ Batch(p).goal = Filtered(p) /\ Seen(p).goal = Filtered(p)
  <1>1. p \in Reach /\ Filtered(p) \in Reach
    BY ReachFacts DEF Kinds, Filtered
  <1> QED  BY <1>1 DEF Batch, Seen, Poses, G!Batches

\* The neck's guard after a body event: it remembers the batch it passed on,
\* which was near the one before, or remembers what it remembered.
LEMMA NeckFacts ==
  ASSUME Kinds, NEW p \in Places, NEW complete \in BOOLEAN
  PROVE  /\ NeckTrack(p, complete) \in AnyGuard
         /\ (mode = "neck" /\ Passes(p, complete)) =>
              /\ complete
              /\ NeckTrack(p, complete).last = Batch(p)
              /\ track.last # None =>
                   \/ G!Close(Batch(p), track.last, ReturnLimit)
                   \/ G!Close(Batch(p), track.last, JumpLimit)
         /\ (mode = "neck" /\ ~Passes(p, complete)) =>
              NeckTrack(p, complete).last = track.last
         /\ mode # "neck" => NeckTrack(p, complete) = track
  <1>1. CASE mode # "neck"
    BY <1>1 DEF Kinds, NeckTrack
  <1>2. CASE mode = "neck" /\ (~complete \/ ~HandsFresh)
    BY <1>2, HoldFacts DEF Kinds, NeckTrack, Passes, NeckPasses
  <1>3. CASE mode = "neck" /\ complete /\ HandsFresh
    <2>1. /\ NeckTrack(p, complete) = G!Offer(track, Batch(p))
          /\ Passes(p, complete) <=> G!Accepts(track, Batch(p))
      BY <1>3 DEF NeckTrack, Passes, NeckPasses
    <2>2. Batch(p) \in Poses /\ track \in AnyGuard
      BY BatchFacts DEF Kinds
    <2>3. /\ G!Offer(track, Batch(p)) \in AnyGuard
          /\ G!Accepts(track, Batch(p)) => G!Offer(track, Batch(p)).last = Batch(p)
          /\ ~G!Accepts(track, Batch(p)) => G!Offer(track, Batch(p)).last = track.last
          /\ (G!Accepts(track, Batch(p)) /\ track.last # None) =>
               \/ G!Close(Batch(p), track.last, ReturnLimit)
               \/ G!Close(Batch(p), track.last, JumpLimit)
      BY <2>2, OfferFacts
    <2> QED  BY <1>3, <2>1, <2>3
  <1> QED  BY <1>1, <1>2, <1>3

\* The mixin's guard after a published batch.
LEMMA RememberedFacts ==
  ASSUME Kinds, NEW p \in Places, NEW complete \in BOOLEAN
  PROVE  /\ Remembered(p, complete) \in AnyGuard
         /\ complete => Remembered(p, complete).last = Seen(p)
         /\ ~complete => Remembered(p, complete) = guard
  <1>1. Seen(p) \in Poses
    BY BatchFacts
  <1> QED  BY <1>1 DEF Kinds, Remembered, AnyGuard, G!Guards, Poses

Near0 == \A limit \in Nat, a \in Int : G!Near(a, a, limit)
LEMMA NearSelf == Near0
  BY DEF Near0, G!Near

LEMMA CloseFacts ==
  ASSUME NEW a \in Poses, NEW b \in Poses
  PROVE  /\ G!Close(a, b, ReturnLimit) => G!Near(b.goal, a.goal, ReturnLimit)
         /\ G!Close(a, b, JumpLimit) => G!Near(b.goal, a.goal, JumpLimit)
         /\ G!Near(b.goal, a.goal, ReturnLimit) => G!Near(b.goal, a.goal, JumpLimit)
  BY PoseFacts, OperatorAssumption DEF G!Close, G!Near

-----------------------------------------------------------------------------
(* The invariant is kept by every step.                                    *)

USE DEF PauseInv, Memory, Word

LEMMA StartHolds == PInit => PauseInv
  BY StartFacts, OperatorAssumption
  DEF PInit, PauseInit, Kinds, Held, HeldMeansDisarmed, ToldFollows,
      GuardRemembers, NeckWhole, GuardKnows, TrackKnows

\* Steps that publish no pose: the guards remember what they remembered.
Quiet ==
  /\ Kinds' /\ UNCHANGED <<mode, goal>>
  /\ guard'.last = guard.last /\ track'.last = track.last
  /\ apart' = apart \/ (mode = "neck" /\ apart' = "strayed")

LEMMA QuietKeepsMemory == ASSUME PauseInv, Quiet PROVE Memory'
  BY DEF Quiet, Kinds, GuardRemembers, NeckWhole, GuardKnows, TrackKnows

LEMMA RequestStep ==
  ASSUME PauseInv, NEW id \in Ids, PauseRequest(id) \/ ResumeRequest(id)
  PROVE  PauseInv'
  <1>1. CASE PauseRequest(id)
    <2>1. /\ paused' = TRUE /\ resuming' = FALSE /\ told' = FALSE
          /\ guard' = G!Hold(guard)
          /\ UNCHANGED <<mode, enabled, track, filter, goal, apart>>
      BY <1>1 DEF PauseRequest, Pause
    <2>2. Quiet /\ guard'.holding
      BY <2>1, HoldFacts DEF Quiet, Kinds
    <2>3. Held' /\ Word'
      BY <2>1, <2>2 DEF Held, HeldMeansDisarmed, ToldFollows
    <2> QED  BY <2>2, <2>3, QuietKeepsMemory DEF Quiet
  <1>2. CASE ResumeRequest(id)
    <2>1. /\ paused' = FALSE
          /\ IF paused THEN resuming' = enabled ELSE resuming' = resuming
          /\ told' = IF resuming' THEN FALSE ELSE told
          /\ UNCHANGED <<mode, enabled, guard, track, filter, goal, apart>>
      BY <1>2 DEF ResumeRequest, Resume
    <2>2. Quiet
      BY <2>1 DEF Quiet, Kinds
    <2>3. Held'
      BY <2>1 DEF Held
    <2>4. HeldMeansDisarmed'
      BY <2>1, <2>2 DEF HeldMeansDisarmed
    <2>5. ToldFollows'
      BY <2>1, <2>2 DEF Kinds, HeldMeansDisarmed, ToldFollows
    <2> QED  BY <2>2, <2>3, <2>4, <2>5, QuietKeepsMemory DEF Quiet
  <1> QED  BY <1>1, <1>2

LEMMA SwitchStep ==
  ASSUME PauseInv, RepeatDisable \/ GestureToggle \/ (\E to \in BOOLEAN : Override(to))
  PROVE  PauseInv'
  <1>1. CASE RepeatDisable
    <2>1. Quiet
      BY <1>1 DEF RepeatDisable, Quiet, Kinds
    <2>2. Held' /\ Word'
      BY <1>1 DEF RepeatDisable, Held, HeldMeansDisarmed, ToldFollows
    <2> QED  BY <2>1, <2>2, QuietKeepsMemory DEF Quiet
  <1>2. CASE GestureToggle
    <2>1. Quiet
      BY <1>2 DEF GestureToggle, Quiet, Kinds
    <2>2. Held' /\ Word'
      BY <1>2 DEF GestureToggle, Held, HeldMeansDisarmed, ToldFollows
    <2> QED  BY <2>1, <2>2, QuietKeepsMemory DEF Quiet
  <1>3. ASSUME NEW to \in BOOLEAN, Override(to) PROVE PauseInv'
    <2>1. Quiet
      BY <1>3 DEF Override, Quiet, Kinds
    <2>2. Held' /\ Word'
      BY <1>3 DEF Override, Held, HeldMeansDisarmed, ToldFollows
    <2> QED  BY <2>1, <2>2, QuietKeepsMemory DEF Quiet
  <1> QED  BY <1>1, <1>2, <1>3

LEMMA WatchStep ==
  ASSUME PauseInv,
         CheckTracking \/ (\E valid \in BOOLEAN : HandMove(valid)) \/ PAge \/ BodyDisabled
  PROVE  PauseInv'
  <1>1. /\ UNCHANGED <<mode, enabled, paused, resuming, filter, goal, told, apart>>
        /\ guard' = guard \/ guard' = G!Age(guard)
        /\ track' = track \/ track' = G!Hold(track) \/ track' = G!Age(track)
    BY DEF CheckTracking, HandMove, PAge, BodyDisabled, Discard
  <1>2. Quiet /\ guard'.holding = guard.holding
    BY <1>1, HoldFacts DEF Quiet, Kinds
  <1>3. Held' /\ Word'
    BY <1>1, <1>2 DEF Held, HeldMeansDisarmed, ToldFollows
  <1> QED  BY <1>2, <1>3, QuietKeepsMemory DEF Quiet

\* A body event while teleoperating publishes the batch or discards it.
LEMMA MoveStep ==
  ASSUME PauseInv, NEW p \in Places, NEW complete \in BOOLEAN, BodyMove(p, complete)
  PROVE  PauseInv'
  <1>1. /\ track' = NeckTrack(p, complete)
        /\ UNCHANGED <<mode, enabled, paused, resuming, told>>
        /\ ~paused /\ ~resuming
    BY DEF BodyMove
  <1>2. Held' /\ Word'
    BY <1>1 DEF Held, HeldMeansDisarmed, ToldFollows
  <1>3. CASE ~Passes(p, complete)
    <2>1. UNCHANGED <<filter, goal, apart, guard>>
      BY <1>3 DEF BodyMove, Discard
    <2>2. Quiet
      BY <1>1, <1>3, <2>1, NeckFacts DEF Quiet, Kinds
    <2> QED  BY <1>2, <2>2, QuietKeepsMemory DEF Quiet
  <1>4. CASE Passes(p, complete)
    <2>1. /\ filter' = Filtered(p) /\ goal' = Filtered(p)
          /\ apart' = IF complete THEN "no" ELSE "partial"
          /\ guard' = Remembered(p, complete)
      BY <1>4 DEF BodyMove, Publish
    <2>2. Kinds'
      BY <1>1, <2>1, BatchFacts, NeckFacts, RememberedFacts DEF Kinds
    <2>3. /\ mode = "neck" => complete /\ track'.last = Batch(p)
          /\ complete => guard'.last = Seen(p)
      BY <1>1, <1>4, <2>1, NeckFacts, RememberedFacts
    <2>4. Memory'
      BY <1>1, <2>1, <2>2, <2>3, BatchFacts
      DEF Kinds, GuardRemembers, NeckWhole, GuardKnows, TrackKnows
    <2> QED  BY <1>2, <2>2, <2>4
  <1> QED  BY <1>3, <1>4

\* What a body event on a resume does, in the terms of the guards.
Whole(p, complete) == complete /\ Passes(p, complete)
Freed(p, complete) == Whole(p, complete) /\ G!Accepts(guard, Seen(p))

LEMMA ResumeEffect ==
  ASSUME PauseInv, NEW p \in Places, NEW complete \in BOOLEAN, BodyResume(p, complete)
  PROVE  /\ ~paused /\ resuming /\ enabled
         /\ track' = NeckTrack(p, complete)
         /\ UNCHANGED <<mode, enabled, paused>>
         /\ Freed(p, complete) =>
              /\ resuming' = FALSE /\ told' = TRUE
              /\ filter' = Filtered(p) /\ goal' = Filtered(p) /\ apart' = "no"
              /\ guard' \in AnyGuard /\ guard'.last = Seen(p)
              /\ guard.last # None => G!Close(Seen(p), guard.last, ReturnLimit)
         /\ ~Freed(p, complete) =>
              /\ resuming' = TRUE /\ told' = told
              /\ UNCHANGED <<filter, goal>>
              /\ guard' \in AnyGuard /\ guard'.last = guard.last /\ guard'.holding
              /\ apart' = IF Whole(p, complete) /\ mode = "neck" THEN "strayed" ELSE apart
  <1>1. /\ ~paused /\ resuming /\ enabled
        /\ track' = NeckTrack(p, complete)
        /\ UNCHANGED <<mode, enabled, paused>>
        /\ guard' = IF Whole(p, complete) THEN G!Offer(guard, Seen(p)) ELSE guard
        /\ resuming' = ~Freed(p, complete)
        /\ told' = IF Freed(p, complete) THEN TRUE ELSE told
    BY DEF BodyResume, Whole, Freed
  <1>2. /\ Freed(p, complete) =>
             filter' = Filtered(p) /\ goal' = Filtered(p) /\ apart' = "no"
        /\ ~Freed(p, complete) =>
             /\ UNCHANGED <<filter, goal>>
             /\ apart' = IF Whole(p, complete) /\ mode = "neck" THEN "strayed" ELSE apart
    BY DEF BodyResume, Whole, Freed, Publish
  <1>3. guard \in AnyGuard /\ guard.holding /\ Seen(p) \in Poses
    BY <1>1, BatchFacts DEF Kinds, Held
  <1>4. /\ G!Offer(guard, Seen(p)) \in AnyGuard
        /\ G!Accepts(guard, Seen(p)) =>
             /\ G!Offer(guard, Seen(p)).last = Seen(p)
             /\ guard.last # None => G!Close(Seen(p), guard.last, ReturnLimit)
        /\ ~G!Accepts(guard, Seen(p)) =>
             /\ G!Offer(guard, Seen(p)).holding
             /\ G!Offer(guard, Seen(p)).last = guard.last
    BY <1>3, OfferFacts
  <1>5. CASE Freed(p, complete)
    BY <1>1, <1>2, <1>4, <1>5 DEF Freed
  <1>6. CASE ~Freed(p, complete)
    <2>1. guard' \in AnyGuard /\ guard'.last = guard.last /\ guard'.holding
      BY <1>1, <1>3, <1>4, <1>6 DEF Freed
    <2> QED  BY <1>1, <1>2, <1>6, <2>1
  <1> QED  BY <1>5, <1>6

LEMMA ResumeStep ==
  ASSUME PauseInv, NEW p \in Places, NEW complete \in BOOLEAN, BodyResume(p, complete)
  PROVE  PauseInv'
  <1>1. CASE Freed(p, complete)
    <2>1. Kinds'
      BY <1>1, ResumeEffect, BatchFacts, NeckFacts DEF Kinds
    <2>2. Held' /\ Word'
      BY <1>1, ResumeEffect DEF Held, HeldMeansDisarmed, ToldFollows
    <2>3. mode = "neck" => track'.last = Batch(p)
      BY <1>1, ResumeEffect, NeckFacts DEF Freed, Whole
    <2>4. Memory'
      BY <1>1, <2>1, <2>3, ResumeEffect, BatchFacts
      DEF GuardRemembers, NeckWhole, GuardKnows, TrackKnows
    <2> QED  BY <2>1, <2>2, <2>4
  <1>2. CASE ~Freed(p, complete)
    <2>1. Kinds'
      BY <1>2, ResumeEffect, NeckFacts DEF Kinds
    <2>2. Held' /\ Word'
      BY <1>2, ResumeEffect DEF Held, HeldMeansDisarmed, ToldFollows
    <2>3. /\ (mode = "neck" /\ apart' # "strayed") => track'.last = track.last
          /\ apart' = apart \/ (mode = "neck" /\ apart' = "strayed")
      <3>1. /\ track' = NeckTrack(p, complete)
            /\ apart' = IF Whole(p, complete) /\ mode = "neck" THEN "strayed" ELSE apart
        BY <1>2, ResumeEffect
      <3>2. (mode = "neck" /\ ~Whole(p, complete)) => ~Passes(p, complete)
        BY NeckFacts DEF Whole
      <3>3. (mode = "neck" /\ ~Whole(p, complete)) => NeckTrack(p, complete).last = track.last
        BY <3>2, NeckFacts
      <3> QED  BY <3>1, <3>3
    <2>4. Memory'
      BY <1>2, <2>3, ResumeEffect
      DEF GuardRemembers, NeckWhole, GuardKnows, TrackKnows
    <2> QED  BY <2>1, <2>2, <2>4
  <1> QED  BY <1>1, <1>2

LEMMA PauseStep ==
  ASSUME PauseInv, [PNext(Ids)]_pvars PROVE PauseInv'
  <1>1. CASE UNCHANGED pvars
    BY <1>1 DEF Kinds, Held, HeldMeansDisarmed, ToldFollows, GuardRemembers,
                NeckWhole, GuardKnows, TrackKnows
  <1>2. CASE PNext(Ids)
    BY <1>2, RequestStep, SwitchStep, WatchStep, MoveStep, ResumeStep
    DEF PNext, HandEvent, BodyEvent
  <1> QED  BY <1>1, <1>2

\* The invariant of the paused publisher is inductive.
THEOREM Inductive == PSpec => []PauseInv
  BY StartHolds, PauseStep, PTL DEF PSpec

\* A pause holds: no gesture, override or body event tells the robot to arm
\* while the operator holds or a resume waits; outside a hold it is told what
\* the publisher does; and the guard of operator_hand.py remembers the last
\* arm goals that were published.
THEOREM PauseStands == PSpec => []PauseHolds
  <1>1. PauseInv => PauseHolds
    BY DEF PauseHolds
  <1> QED  BY <1>1, Inductive, PTL

-----------------------------------------------------------------------------
(* Types.                                                                  *)

\* A guard has a candidate exactly while it measures how long that stands still.
Paired(g) == g.candidate = None <=> g.stable = None

LEMMA AnyGuardFacts ==
  AnyGuard = [last : Poses \cup {None}, candidate : Poses \cup {None},
              stable : (0 .. StableTicks) \cup {None}, holding : BOOLEAN]
  BY DEF AnyGuard, G!Guards, Poses

LEMMA WaitFacts ==
  ASSUME NEW g \in AnyGuard
  PROVE  Paired(G!Hold(g)) /\ (Paired(g) => Paired(G!Age(g)))
  <1>1. Paired(G!Hold(g))
    BY AnyGuardFacts DEF G!Hold, Paired
  <1>2. CASE g.stable \in 0 .. StableTicks - 1
    <2>1. g.stable # None /\ g.stable + 1 # None
      BY <1>2, OperatorAssumption
    <2> QED  BY <1>1, <1>2, <2>1, AnyGuardFacts DEF G!Age, Paired
  <1>3. CASE g.stable \notin 0 .. StableTicks - 1
    BY <1>1, <1>3, AnyGuardFacts DEF G!Age, Paired
  <1> QED  BY <1>2, <1>3

LEMMA PairedFacts ==
  ASSUME NEW g \in AnyGuard, Paired(g), NEW poses \in Poses
  PROVE  Paired([g EXCEPT !.last = poses]) /\ Paired(G!Offer(g, poses))
  <1>1. \A h \in AnyGuard : Paired(G!Hold(h)) /\ G!Hold(h) \in AnyGuard
    BY WaitFacts, HoldFacts
  <1>2. \A h \in AnyGuard :
          /\ Paired(h) => Paired([h EXCEPT !.last = poses])
          /\ Paired(h) => Paired([h EXCEPT !.last = poses, !.holding = FALSE])
    BY AnyGuardFacts DEF Paired
  <1>3. ASSUME NEW h \in AnyGuard, Paired(h) PROVE Paired(G!Settle(h, poses))
    <2>1. 0 # None /\ poses # None
      BY PoseFacts, OperatorAssumption
    <2>2. \/ G!Settle(h, poses) = [h EXCEPT !.candidate = None, !.stable = None]
          \/ G!Settle(h, poses) = [h EXCEPT !.candidate = poses, !.stable = 0]
          \/ G!Settle(h, poses) = h
      BY DEF G!Settle
    <2> QED  BY <1>3, <2>1, <2>2, AnyGuardFacts DEF Paired
  <1>4. Paired(G!Offer(g, poses))
    <2> DEFINE seen == IF ~g.holding /\ ~G!Close(poses, g.last, JumpLimit)
                       THEN G!Hold(g) ELSE g
               settled == IF seen.holding THEN G!Settle(seen, poses) ELSE seen
    <2>1. G!Offer(g, poses) =
            IF settled.holding /\ settled.stable # StableTicks THEN settled
            ELSE [settled EXCEPT !.last = poses, !.holding = FALSE]
      BY DEF G!Offer
    <2>2. seen \in AnyGuard /\ Paired(seen)
      BY <1>1
    <2> HIDE DEF seen
    <2>3. settled \in AnyGuard /\ Paired(settled)
      BY <1>3, <2>2, SettleFacts
    <2> HIDE DEF settled
    <2> QED  BY <1>2, <2>1, <2>3
  <1> QED  BY <1>2, <1>4

Ages == (0 .. FreshTicks + 1) \cup {None}

LEMMA AgesFacts ==
  /\ 0 \in Ages /\ None \in Ages
  /\ \A age \in Ages : Later(age) \in Ages
  BY OperatorAssumption DEF Ages, Later

Stamps ==
  /\ requestId \in Ids \cup {None}
  /\ hands \in Ages /\ body \in Ages
  /\ Paired(guard) /\ Paired(track)

LEMMA StampsStep == PauseInv /\ Stamps /\ [PNext(Ids)]_pvars => Stamps'
  <1> SUFFICES ASSUME PauseInv, Stamps, [PNext(Ids)]_pvars PROVE Stamps'
    OBVIOUS
  <1>1. guard \in AnyGuard /\ track \in AnyGuard
    BY DEF Kinds
  <1>2. requestId' \in Ids \cup {None}
    BY DEF Stamps, PNext, PauseRequest, Pause, ResumeRequest, Resume, RepeatDisable, Override,
           CheckTracking, GestureToggle, HandEvent, HandMove, BodyEvent, BodyDisabled, BodyMove,
           BodyResume, PAge
  <1>3. hands' \in Ages /\ body' \in Ages
    BY AgesFacts
    DEF Stamps, PNext, PauseRequest, ResumeRequest, RepeatDisable, Override, CheckTracking,
        GestureToggle, HandEvent, HandMove, BodyEvent, BodyDisabled, BodyMove, BodyResume,
        BodySeen, PAge
  <1>4. /\ \/ guard' \in {guard, G!Hold(guard), G!Age(guard)}
           \/ \E p \in Places, complete \in BOOLEAN :
                guard' = Remembered(p, complete) \/ guard' = G!Offer(guard, Seen(p))
        /\ \/ track' \in {track, G!Hold(track), G!Age(track)}
           \/ \E p \in Places, complete \in BOOLEAN : track' = NeckTrack(p, complete)
    BY DEF PNext, PauseRequest, ResumeRequest, RepeatDisable, Override, CheckTracking,
           GestureToggle, HandEvent, HandMove, BodyEvent, BodyDisabled, BodyMove, BodyResume,
           PAge
  <1>5. Paired(G!Hold(guard)) /\ Paired(G!Age(guard)) /\ Paired(G!Hold(track)) /\ Paired(G!Age(track))
    BY <1>1, WaitFacts DEF Stamps
  <1>6. ASSUME NEW p \in Places, NEW complete \in BOOLEAN
        PROVE  /\ Paired(Remembered(p, complete)) /\ Paired(G!Offer(guard, Seen(p)))
               /\ Paired(NeckTrack(p, complete))
    <2>1. Batch(p) \in Poses /\ Seen(p) \in Poses
      BY BatchFacts
    <2>2. /\ Paired([guard EXCEPT !.last = Seen(p)])
          /\ Paired(G!Offer(guard, Seen(p))) /\ Paired(G!Offer(track, Batch(p)))
      BY <1>1, <2>1, PairedFacts DEF Stamps
    <2> QED  BY <1>5, <2>2 DEF Stamps, Remembered, NeckTrack
  <1>7. Paired(guard') /\ Paired(track')
    BY <1>4, <1>5, <1>6 DEF Stamps
  <1> QED  BY <1>2, <1>3, <1>7 DEF Stamps

LEMMA StampsStart == PInit => Stamps
  BY AgesFacts DEF PInit, PauseInit, Stamps, Paired, G!Start

\* The state of the publisher under the console: a guard measures stillness
\* exactly while it has a candidate, and the low-pass filter of the arms stays
\* between the places the arms have been in.
THEOREM PauseTypes == PSpec => []PTypeOK
  <1>1. PauseInv /\ Stamps => PTypeOK
    <2> SUFFICES ASSUME PauseInv, Stamps PROVE PTypeOK
      OBVIOUS
    <2>1. {hands, body} \subseteq (0 .. FreshTicks + 1) \cup {None}
      <3>1. hands \in Ages /\ body \in Ages
        BY DEF Stamps
      <3> QED  BY <3>1 DEF Ages
    <2>2. \A g \in {guard, track} : g.candidate = None <=> g.stable = None
      BY DEF Stamps, Paired
    <2> QED  BY <2>1, <2>2 DEF PTypeOK, Kinds, AnyGuard, Stamps
  <1> QED  BY <1>1, StampsStart, StampsStep, Inductive, PTL DEF PSpec

-----------------------------------------------------------------------------
(* The action properties and the refinement.                               *)

\* Every goal that is published comes from a body event whose batch passed.
LEMMA GoalStep ==
  ASSUME PauseInv, [PNext(Ids)]_pvars
  PROVE  \/ goal' = goal
         \/ \E p \in Places, complete \in BOOLEAN :
              /\ goal' = Filtered(p) /\ Passes(p, complete)
              /\ BodyMove(p, complete) \/ (BodyResume(p, complete) /\ Freed(p, complete))
  <1>1. CASE \E p \in Places, complete \in BOOLEAN : BodyMove(p, complete)
    BY <1>1 DEF BodyMove, Publish, Discard
  <1>2. CASE \E p \in Places, complete \in BOOLEAN : BodyResume(p, complete)
    BY <1>2, ResumeEffect DEF Freed, Whole
  <1>3. CASE UNCHANGED goal
    BY <1>3
  <1>4. [PNext(Ids)]_pvars =>
          \/ \E p \in Places, complete \in BOOLEAN : BodyMove(p, complete)
          \/ \E p \in Places, complete \in BOOLEAN : BodyResume(p, complete)
          \/ UNCHANGED goal
    BY DEF PNext, PauseRequest, ResumeRequest, RepeatDisable, Override, CheckTracking,
           GestureToggle, HandEvent, HandMove, BodyEvent, BodyDisabled, Discard, PAge
  <1> QED  BY <1>1, <1>2, <1>3, <1>4

\* The first goals after a hold are near the last ones, for every value of the
\* limits: this is the guard of operator_hand.py doing its job.
THEOREM ResumesNear == PSpec => ResumeNear
  <1>1. ASSUME PauseInv, [PNext(Ids)]_pvars,
               resuming, ~resuming', enabled', told' = TRUE, goal # None, apart # "partial"
        PROVE  G!Near(goal, goal', ReturnLimit)
    <2>1. CASE \E p \in Places, complete \in BOOLEAN : BodyResume(p, complete)
      <3>1. PICK p \in Places, complete \in BOOLEAN : BodyResume(p, complete)
        BY <2>1
      <3>2. Freed(p, complete)
        BY <1>1, <3>1, ResumeEffect
      <3>3. /\ goal' = Filtered(p) /\ Seen(p) \in Poses /\ Seen(p).goal = goal'
            /\ guard.last # None => G!Close(Seen(p), guard.last, ReturnLimit)
        BY <1>1, <3>1, <3>2, ResumeEffect, BatchFacts
      <3>4. guard.last \in Poses /\ guard.last.goal = goal /\ guard.last # None
        BY <1>1, PoseFacts DEF GuardKnows
      <3> QED  BY <3>3, <3>4, CloseFacts
    <2>2. CASE \A p \in Places, complete \in BOOLEAN : ~BodyResume(p, complete)
      <3>1. ~paused
        BY <1>1 DEF Held
      <3> QED
        BY <1>1, <2>2, <3>1
        DEF PNext, PauseRequest, Pause, ResumeRequest, Resume, RepeatDisable, Override,
            CheckTracking, GestureToggle, HandEvent, HandMove, BodyEvent, BodyDisabled,
            BodyMove, PAge
    <2> QED  BY <2>1, <2>2
  <1>2. PauseInv /\ [PNext(Ids)]_pvars =>
          [(resuming /\ ~resuming' /\ enabled' /\ told' = TRUE /\ goal # None
              /\ apart # "partial") => G!Near(goal, goal', ReturnLimit)]_pvars
    BY <1>1
  <1> QED  BY <1>2, Inductive, PTL DEF ResumeNear, PSpec

\* The neck publisher's goals never jump, whatever tracking does.
THEOREM NeckSteady == PSpec => NeckNeverJumps
  <1>1. ASSUME PauseInv, [PNext(Ids)]_pvars,
               mode = "neck", goal # None, apart # "strayed"
        PROVE  G!Near(goal, goal', JumpLimit)
    <2>1. CASE goal' = goal
      BY <1>1, <2>1, NearSelf, ReachFacts, OperatorAssumption DEF Near0, Kinds
    <2>2. ASSUME NEW p \in Places, NEW complete \in BOOLEAN,
                 goal' = Filtered(p), Passes(p, complete)
          PROVE  G!Near(goal, goal', JumpLimit)
      <3>1. track.last \in Poses /\ track.last.goal = goal /\ track.last # None
        BY <1>1, PoseFacts DEF TrackKnows
      <3>2. \/ G!Close(Batch(p), track.last, ReturnLimit)
            \/ G!Close(Batch(p), track.last, JumpLimit)
        BY <1>1, <2>2, <3>1, NeckFacts
      <3>3. Batch(p) \in Poses /\ Batch(p).goal = goal'
        BY <1>1, <2>2, BatchFacts
      <3> QED  BY <3>1, <3>2, <3>3, CloseFacts
    <2> QED  BY <1>1, <2>1, <2>2, GoalStep
  <1>2. PauseInv /\ [PNext(Ids)]_pvars =>
          [(mode = "neck" /\ goal # None /\ apart # "strayed")
             => G!Near(goal, goal', JumpLimit)]_pvars
    BY <1>1
  <1> QED  BY <1>2, Inductive, PTL DEF NeckNeverJumps, PSpec

\* The paused publisher keeps what PauseProtocol promises the console: each
\* request is obeyed once, a pause takes effect at once, and a resume that
\* waits ends only by completing or by another request.
THEOREM KeepsProtocol == PSpec => PauseSpec
  <1>1. PInit => PauseInit
    BY DEF PInit
  <1>2. ASSUME PauseInv, [PNext(Ids)]_pvars PROVE [PauseNext]_pauseVars
    <2>1. CASE \E id \in Ids : PauseRequest(id) \/ ResumeRequest(id)
      BY <2>1 DEF PauseRequest, ResumeRequest, PauseNext
    <2>2. CASE \E p \in Places, complete \in BOOLEAN : BodyResume(p, complete)
      <3>1. PICK p \in Places, complete \in BOOLEAN : BodyResume(p, complete)
        BY <2>2
      <3>2. resuming' = ~Freed(p, complete) /\ resuming /\ UNCHANGED <<paused, requestId>>
        BY <3>1 DEF BodyResume, Freed, Whole
      <3>3. CASE Freed(p, complete)
        BY <3>2, <3>3 DEF PauseNext, Complete
      <3>4. CASE ~Freed(p, complete)
        BY <1>2, <3>2, <3>4 DEF Kinds
      <3> QED  BY <3>3, <3>4
    <2>3. CASE UNCHANGED pauseVars
      BY <2>3
    <2>4. \/ \E id \in Ids : PauseRequest(id) \/ ResumeRequest(id)
          \/ \E p \in Places, complete \in BOOLEAN : BodyResume(p, complete)
          \/ UNCHANGED pauseVars
      BY <1>2 DEF PNext, RepeatDisable, Override, CheckTracking, GestureToggle, HandEvent,
                  HandMove, BodyEvent, BodyDisabled, BodyMove, PAge
    <2> QED  BY <2>1, <2>2, <2>3, <2>4
  <1> QED  BY <1>1, <1>2, Inductive, PTL DEF PSpec, PauseSpec
=============================================================================
