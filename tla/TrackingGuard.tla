--------------------------- MODULE TrackingGuard ---------------------------
(***************************************************************************)
(* ArmTrackingGuard of arm_tracking_guard.py: operators on the guard's      *)
(* fields.  A pose batch is a record of its pre-filter place and its goal;  *)
(* one coordinate stands for the six positions and orientations.            *)
(***************************************************************************)
LOCAL INSTANCE Integers

CONSTANTS
  JumpLimit,    \* .08 m, 20 degrees: a step of a tracked arm
  ReturnLimit,  \* .05 m, 15 degrees: nearness to the held pose
  StillLimit,   \* .02 m, 8 degrees: movement while waiting
  StableTicks,  \* .3 s of stillness
  None

Batches(places) == [raw : places, goal : places]

Guards(places) ==
  [last : Batches(places) \cup {None}, candidate : Batches(places) \cup {None},
   stable : (0 .. StableTicks) \cup {None}, holding : BOOLEAN]

Start == [last |-> None, candidate |-> None, stable |-> None, holding |-> TRUE]

Near(a, b, limit) == b - a \in -limit .. limit
Close(a, b, limit) == Near(a.raw, b.raw, limit) /\ Near(a.goal, b.goal, limit)

MutantHold(g) == [g EXCEPT !.holding = TRUE, !.stable = None]
Hold(g) == [g EXCEPT !.holding = TRUE, !.candidate = None, !.stable = None]

\* stable_since, as an age
Age(g) == [g EXCEPT !.stable = IF @ \in 0 .. StableTicks - 1 THEN @ + 1 ELSE @]

MutantSettle(g, poses) ==
  IF g.candidate = None \/ ~Close(poses, g.candidate, StillLimit)
  THEN [g EXCEPT !.candidate = poses, !.stable = 0] ELSE g

\* A tracked guard that sees a jump holds; a holding guard waits for poses
\* that are near the held ones and still.
Settle(g, poses) ==
  LET far == g.last # None /\ ~Close(poses, g.last, ReturnLimit)
      fresh == g.candidate = None \/ ~Close(poses, g.candidate, StillLimit)
  IN IF far THEN [g EXCEPT !.candidate = None, !.stable = None]
     ELSE IF fresh THEN [g EXCEPT !.candidate = poses, !.stable = 0]
     ELSE g

Offer(g, poses) ==
  LET seen == IF ~g.holding /\ ~Close(poses, g.last, JumpLimit) THEN Hold(g) ELSE g
      settled == IF seen.holding THEN Settle(seen, poses) ELSE seen
  IN IF settled.holding /\ settled.stable # StableTicks THEN settled
     ELSE [settled EXCEPT !.last = poses, !.holding = FALSE]

\* the guard after accept(poses, now) and what accept returned
Accepts(g, poses) == ~Offer(g, poses).holding
=============================================================================
