---------------------------- MODULE MCPublishers ----------------------------
(***************************************************************************)
(* The headset publishers, in one run: `view` says which of them moves, and *)
(* the others stay in their first state.                                    *)
(*   "lift", "base"      VrPublisher, the headset moving up or sideways     *)
(*   "poses"             ArmPoses                                           *)
(*   "arms", "sticks"    Sg2Publisher, its buttons and poses or its sticks  *)
(*   "taps", "fingers"   ControllerHands, at the PC or at the robot         *)
(*   "tact"              TactTrigger                                        *)
(*   "xr", "relay"       XrDelta, SimRelay                                  *)
(***************************************************************************)
EXTENDS VrPublisher, ArmPoses, Sg2Publisher, ControllerHands, TactTrigger, XrDelta,
  SimRelay

Pad(a, b, pose) == [a |-> a, b |-> b, click |-> FALSE, pose |-> pose, push |-> 0]
ArmPads ==
  {Pad(a, FALSE, pose) : a, pose \in BOOLEAN} \cup {Pad(FALSE, TRUE, TRUE), None}
StickPads ==
  {[Pad(FALSE, FALSE, FALSE) EXCEPT !.click = c, !.push = p] : c \in BOOLEAN, p \in -1 .. 1}
  \cup {None}
ElbowOffset == [s \in {"left"} |-> [r \in {"elbow", "wrist"} |-> IF r = "elbow" THEN 1 ELSE 0]]
TwoHandPoses == {[z |-> 0, a |-> 0], [z |-> 2, a |-> 3]}
OneLostElbow == {{}, {<<"elbow", "left">>}}
LaunchParams == [lift : BOOLEAN, base : BOOLEAN, head : {FALSE}]

HandControls ==
  {None} \cup [trigger : Levels, grip : BOOLEAN, pose : {"full_grip", "thumb_out_grip"}]

VARIABLE view
bodyVars == <<vrVars, poseVars, sgVars>>
controllerVars == <<pcHandVars, robotHandVars, tactVars>>
simulated == <<xrVars, simVars>>
others == <<view, bodyVars, controllerVars, simulated>>

MCInit ==
  /\ view \in {"lift", "base", "poses", "arms", "sticks", "taps", "fingers", "tact", "xr",
             "relay"}
  /\ VrInit /\ ArmInit /\ SgInit
  /\ params.lift = (view = "lift") /\ params.base = (view = "base")
  /\ view # "poses" => flags = [coupled |-> FALSE, zeroed |-> FALSE]
  /\ PcHandInit /\ RobotHandInit /\ TactInit
  /\ XrInit /\ (view # "xr" => ~cyclo.active) /\ SimInit

BodyView ==
  \/ view = "lift" /\ VrNext(Heights, {0}, {}) /\ UNCHANGED <<poseVars, sgVars>>
  \/ view = "base" /\ VrNext({0}, Places, {0}) /\ UNCHANGED <<poseVars, sgVars>>
  \/ view = "poses" /\ ArmNext /\ UNCHANGED <<vrVars, sgVars>>
  \/ view = "arms" /\ SgNext(ArmPads) /\ UNCHANGED <<vrVars, poseVars>>
  \/ view = "sticks" /\ SgNext(StickPads) /\ UNCHANGED <<vrVars, poseVars>>
ControllerView ==
  \/ view = "taps" /\ PcHandNext /\ UNCHANGED <<robotHandVars, tactVars>>
  \/ view = "fingers" /\ RobotHandNext(HandControls) /\ UNCHANGED <<pcHandVars, tactVars>>
  \/ view = "tact" /\ TactNext /\ UNCHANGED <<pcHandVars, robotHandVars>>

SimulatedView ==
  \/ view = "xr" /\ XrNext /\ UNCHANGED simVars
  \/ view = "relay" /\ SimNext /\ UNCHANGED xrVars

MCNext ==
  /\ UNCHANGED view
  /\ \/ BodyView /\ UNCHANGED <<controllerVars, simulated>>
     \/ ControllerView /\ UNCHANGED <<bodyVars, simulated>>
     \/ SimulatedView /\ UNCHANGED <<bodyVars, controllerVars>>

MCSpec == MCInit /\ [][MCNext]_others

-----------------------------------------------------------------------------
PublishersTypeOK == VrTypeOK /\ ArmTypeOK /\ SgTypeOK /\ ControllerHandsTypeOK /\ XrTypeOK

\* Switching the SH5 session on or off, by either thread between any two
\* statements of the other: what a frame is related to is always one frame's, and at
\* most one Twist follows the zero; where switching tears the references, leaves old
\* ones in use, makes a frame fail or announces the wrong state, it is by the one
\* overlap of the threads that the part names, and an enabling without it heals it.
SwitchIsWhole ==
  RefsOfOneFrame /\ TornByCapture /\ OldRefsWhileRising /\ FreshStart /\ BaseStands /\ ToldTruth

\* What the arms and the lift are sent follows the operator: no jump of the
\* lift, an elbow within reach of its wrist but for their offsets, a wrist that turns
\* slowly and that the head alone moves by no more than the uncompensated part of its
\* own range, a start from measured wrists that a resting hand does not leave, and
\* one pose while the simulation is off.
GoalsStayNear ==
  /\ LiftNeverJumps
  /\ []ElbowNearWrist /\ WristTurnsSlowly /\ []HeadMotionBounded
  /\ []AnchorIsMeasured /\ []CycloStartsAtAnchor /\ []StillHandMovesNothing
  /\ HoldsOnePose /\ FollowsNoOldGoal

\* What the SG2 loses stops its arms, and what it sends to both arms is one
\* frame newer than the last; the base stands while the sticks move the head.
LossStopsArms == LossDisarms /\ OneLatePose /\ FramesAreNew /\ HeadModeStandsBase

\* A chord of buttons is never also taken for its parts, a held button never
\* for a click, and a button that is still down starts nothing.
ButtonsMeanOneThing == TapsAreAlone /\ ClicksAreShort /\ BothIsSaid /\ StartAfterRelease

\* A grip that is held stands, whichever packets, measurements and poses are
\* late, and fingers that change their grip move in order and without a jump.
GripsStand == []HeldGripStays /\ HandNeverJumps /\ ThumbGoesFirst
=============================================================================
