------------------------------ MODULE ArmPoses ------------------------------
(***************************************************************************)
(* The arm goals of vr_publisher_sh5.py: hand events store what they bring, *)
(* and a body event turns stored hands and its own joints into wrist, elbow *)
(* and shoulder goals.  All of it runs on the vuer thread, so a handler is  *)
(* one action.  VrPublisher has the session around it.                      *)
(*                                                                         *)
(* Heights stand for positions and a single angle for orientations; frames  *)
(* are left out.  Heights are counted in the headset's unit and goals in     *)
(* parts of it: Unit parts make one unit of the robot, VrScale parts are what *)
(* one unit becomes that is scaled (1.4 is 7 to 5).  zedm_to_base_offset, the  *)
(* same for every joint, is taken as part of Offset.                        *)
(***************************************************************************)
EXTENDS PyNone, Integers

CONSTANTS
  Sides,       \* subset of {"left", "right"}
  HandPoses,   \* [z, a]: heights and angles of a tracked hand
  HeadHeights, \* heights of the head
  LimbHeights, \* heights of an elbow or shoulder
  Limbs,       \* subset of {"elbow", "shoulder"}
  VrScale,     \* wrist_vr_scale, elbow_vr_scale, shoulder_vr_scale, in parts
  Unit,        \* an unscaled unit, in parts
  Offset,      \* wrist_offsets, elbow_offsets and shoulder_offsets, in parts
  Reach,       \* max_elbow_wrist_distance, in parts
  MaxTurn      \* max_wrist_angle_step_deg

Roles == Limbs \cup {"wrist"}

ASSUME ArmAssumption ==
  /\ Sides \subseteq {"left", "right"}
  /\ HandPoses \subseteq [z : Int, a : Int]
  /\ HeadHeights \subseteq Int /\ LimbHeights \subseteq Int
  /\ Limbs \subseteq {"elbow", "shoulder"}
  /\ VrScale \in Nat /\ Unit \in Nat /\ Offset \in [Sides -> [Roles -> Int]]
  /\ Reach \in Nat /\ MaxTurn \in Nat
  /\ None \notin Int /\ None \notin [goal : Int, low : Int, high : Int]

VARIABLES
  flags,      \* [coupled, zeroed]: head height moves the arms; zero_z_on_start
  hand,       \* left_hand_data, right_hand_data
  initial,    \* initial_camera_height
  zero,       \* z_calibration_offset once z_calibrated
  filters,    \* pose_filters, positions: before reach and offsets
  turn,       \* pose_filters, orientation of the wrists
  goals,      \* the heights last published
  elbowLast,  \* history: the side's elbow was published after its wrist
  rest        \* history: the wrist goal that had arrived at a hand nothing was heard
              \* of since, and the range of the head's heights from then on

poseVars == <<flags, hand, initial, zero, filters, turn, goals, elbowLast, rest>>

Nothing == [s \in Sides |-> [r \in Roles |-> None]]

ArmInit ==
  /\ flags \in [coupled : BOOLEAN, zeroed : BOOLEAN]
  /\ hand = [s \in Sides |-> None]
  /\ initial = None /\ zero = None
  /\ filters = Nothing /\ goals = Nothing
  /\ turn = [s \in Sides |-> None]
  /\ elbowLast = [s \in Sides |-> FALSE] /\ rest = [s \in Sides |-> None]

\* on_hand_move: a hand that is not in the event keeps its last data
ArmHandMove(s, pose) ==
  /\ hand' = [hand EXCEPT ![s] = pose]
  /\ rest' = [rest EXCEPT ![s] = None]
  /\ UNCHANGED <<flags, initial, zero, filters, turn, goals, elbowLast>>

\* enabling forgets the head's reference, but neither filters nor zero
ArmEnable ==
  /\ initial' = None
  /\ UNCHANGED <<flags, hand, zero, filters, turn, goals, elbowLast, rest>>

-----------------------------------------------------------------------------
\* low_pass_filter_pose: half way to the new value
Blend(past, new) == IF past = None THEN new ELSE (past + new) \div 2

Within(x, centre, bound) ==
  IF x > centre + bound THEN centre + bound
  ELSE IF x < centre - bound THEN centre - bound ELSE x

MutantTurnOf(past, new) == Blend(past, new)

\* limit_quaternion_spike after the filter
TurnOf(past, new) == IF past = None THEN new ELSE Within(Blend(past, new), past, MaxTurn)

MutantSafe(role, height, wrist) == height
MutantNoWrist(role, height, wrist) ==
  IF role = "elbow" THEN IF wrist = None THEN None ELSE Within(height, wrist, Reach)
  ELSE height

\* apply_elbow_wrist_safety: the filtered wrist has priority
Safe(role, height, wrist) ==
  IF role = "elbow" /\ wrist # None THEN Within(height, wrist, Reach) ELSE height

\* head_height_offset_for_arms of this frame
Lifted(head, start) == IF flags.coupled THEN head - start ELSE 0

\* a joint as publish_relative_pose sees it: relative to the head and scaled; the
\* head's own height is added unscaled
Relative(height, head, start) == VrScale * (height - head) + Unit * Lifted(head, start)

HandSides == {s \in Sides : hand[s] # None}

\* the first wrist of the first frame with hands becomes the zero
ZeroFrom(head, start) ==
  IF ~flags.zeroed \/ zero # None \/ HandSides = {} THEN zero
  ELSE Relative(hand[IF "left" \in HandSides THEN "left" ELSE "right"].z, head, start)

Zeroed(height, z) == IF z = None THEN height ELSE height - z

\* the range of the head's heights, with this one
Widened(past, head) ==
  [past EXCEPT !.low = IF head < @ THEN head ELSE @, !.high = IF head > @ THEN head ELSE @]

\* on_body_tracking_move with a usable head: the wrists of all hands ever
\* seen, then the elbows and shoulders that have a usable matrix
ArmBodyMove(head, limbs) ==
  LET start == IF initial = None THEN head ELSE initial
      z == ZeroFrom(head, start)
      Place(height) == Zeroed(Relative(height, head, start), z)
      wrist == [s \in Sides |-> IF s \in HandSides
                                THEN Blend(filters[s]["wrist"], Place(hand[s].z))
                                ELSE filters[s]["wrist"]]
      New(s, r) == IF r = "wrist" THEN wrist[s]
                   ELSE IF limbs[s] = None THEN filters[s][r]
                   ELSE Blend(filters[s][r], Place(limbs[s]))
  IN /\ initial' = start
     /\ zero' = z
     /\ filters' = [s \in Sides |-> [r \in Roles |-> New(s, r)]]
     /\ turn' = [s \in Sides |-> IF s \in HandSides THEN TurnOf(turn[s], hand[s].a)
                                 ELSE turn[s]]
     /\ goals' = [s \in Sides |-> [r \in Roles |->
                    IF (IF r = "wrist" THEN s \notin HandSides ELSE limbs[s] = None)
                    THEN goals[s][r]
                    ELSE Safe(r, New(s, r), wrist[s]) + Offset[s][r]]]
     /\ rest' = [s \in Sides |->
                    IF s \notin HandSides THEN None
                    ELSE IF rest[s] # None /\ initial # None /\ z = zero THEN Widened(rest[s], head)
                    ELSE IF wrist[s] = Place(hand[s].z)
                    THEN [goal |-> wrist[s] + Offset[s]["wrist"], low |-> head, high |-> head]
                    ELSE None]
     /\ elbowLast' = [s \in Sides |-> limbs[s] # None \/ (elbowLast[s] /\ s \notin HandSides)]
     /\ UNCHANGED <<flags, hand>>

ArmNext ==
  \/ \E s \in Sides, pose \in HandPoses : ArmHandMove(s, pose)
  \/ ArmEnable
  \/ \E head \in HeadHeights, limbs \in [Sides -> LimbHeights \cup {None}] :
        ArmBodyMove(head, limbs)

ArmSpec == ArmInit /\ [][ArmNext]_poseVars

-----------------------------------------------------------------------------
ArmTypeOK ==
  /\ hand \in [Sides -> HandPoses \cup {None}]
  /\ initial \in HeadHeights \cup {None}
  /\ filters \in [Sides -> [Roles -> Int \cup {None}]]
  /\ goals \in [Sides -> [Roles -> Int \cup {None}]]
  /\ \A s \in Sides, r \in Roles : goals[s][r] = None <=> filters[s][r] = None
  /\ rest \in [Sides -> [goal : Int, low : HeadHeights, high : HeadHeights] \cup {None}]

\* "Clamp wrist-elbow distance to safety limit": without the offsets the elbow
\* goal is within reach of the wrist goal of its side, also when the hand is stale
\* or lost and while the filters of the two lag by different amounts.  What is
\* published has the offsets of the two joints added behind the clamp, and may be
\* farther apart by their difference.
ElbowNearWrist ==
  \A s \in Sides : (elbowLast[s] /\ goals[s]["wrist"] # None /\ "elbow" \in Limbs) =>
    LET wrist == goals[s]["wrist"] - Offset[s]["wrist"]
        elbow == goals[s]["elbow"] - Offset[s]["elbow"]
    IN Within(elbow, wrist, Reach) = elbow

\* A wrist goal never turns by more than one step from one message to the
\* next, not even across lost hands or a pause.
WristTurnsSlowly ==
  [][\A s \in Sides : turn[s] # None => turn'[s] - turn[s] \in -MaxTurn .. MaxTurn]_poseVars

\* What one unit of the head's motion does to a wrist goal: the hand is scaled
\* relative to the head, and the coupling gives back the unscaled motion only.
Residual == IF flags.coupled THEN Unit - VrScale ELSE -VrScale
Swing(range) == Residual * (range.high - range.low)

\* As long as a hand rests, or tracking has lost it, its wrist goal stays within
\* the residual of the range in which the head has moved, however often: with the
\* coupling ducking moves the arms by .4 of it, without it by 1.4, and the filter
\* adds nothing up.
HeadMotionBounded ==
  \A s \in Sides : rest[s] # None =>
    LET moved == goals[s]["wrist"] - rest[s].goal
    IN moved \in Swing(rest[s]) .. -Swing(rest[s]) \/ moved \in -Swing(rest[s]) .. Swing(rest[s])
=============================================================================
