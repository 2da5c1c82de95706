----------------------------- MODULE MCStation -----------------------------
(***************************************************************************)
(* What starts and stops motion at the two computers, in one run: `view`    *)
(* says which part moves, and the others stay in their first state.         *)
(*   "session", "pc"     RobotSession, PcSession                            *)
(*   "keys"              LoopKeyboard with the messages' way to HandInput   *)
(*   "moves", "gesture"  HandInput: its keys and services, or its hands     *)
(*   "precheck", "pose"  MotorPrecheck, ReadyPose                           *)
(***************************************************************************)
EXTENDS RobotSession, PcSession, HandInput, MotorPrecheck, ReadyPose

\* without Loop nothing asks for its cameras
AllCommandLines == {o \in SUBSET Options : "camera" \in o => "loop" \in o}

KeyMessages ==
  {Message(TRUE, keys, FALSE, FALSE) : keys \in {{}, {"w"}, {"u"}}}
  \cup {Message(TRUE, {}, FALSE, TRUE), StopMessage}

VARIABLE view
handVars == <<keyVars, hiVars>>
poseVars == <<motorVars, readyVars>>
stationVars == <<view, vars, pcVars, handVars, poseVars>>

MCInit ==
  /\ view \in {"session", "pc", "keys", "moves", "gesture", "precheck", "pose"}
  /\ Init
  /\ view # "session" => option = {} /\ ~outer_router /\ alive = {} /\ fingers = "on"
  /\ PcSessionInit /\ (view # "pc" => ~pcLoop /\ ~robotRouter)
  /\ LoopInit /\ HandInit /\ (view # "keys" => loopApp = "active")
  /\ ReadyInit /\ (phase = "absent" <=> view # "pose")
  /\ MotorInit /\ (view # "precheck" => ~strict)

\* what a session does to HandInput whatever is used to start it
SessionStep ==
  \/ Started \/ ResetConfirmed \/ HiTick
  \/ \E fault \in BOOLEAN : Stopped(fault)
  \/ \E data \in BOOLEAN : Service(data)
MoveStep ==
  \/ Tracked \/ GateReports \/ Heartbeat \/ MalformedInput
  \/ \E m \in KeyMessages : OperatorInput(m)
GestureStep ==
  \/ InvalidFrame \/ HandFrameRaises \/ BodyFrame
  \/ \E combined, jumped, joints \in BOOLEAN : HandFrame(combined, jumped, joints)

HandView ==
  \/ view = "keys" /\ LoopStep /\ UNCHANGED hiVars
  \/ view = "keys" /\ Deliver
  \/ view = "keys" /\ HiTick /\ UNCHANGED keyVars
  \/ view = "moves" /\ (SessionStep \/ MoveStep) /\ UNCHANGED keyVars
  \/ view = "gesture" /\ (SessionStep \/ GestureStep) /\ UNCHANGED keyVars
PoseView ==
  \/ view = "precheck" /\ MotorNext /\ UNCHANGED readyVars
  \/ view = "pose" /\ ReadyNext /\ UNCHANGED motorVars

MCNext ==
  /\ UNCHANGED view
  /\ \/ view = "session" /\ Next /\ UNCHANGED <<pcVars, handVars, poseVars>>
     \/ view = "pc" /\ PcSessionNext /\ UNCHANGED <<vars, handVars, poseVars>>
     \/ HandView /\ UNCHANGED <<vars, pcVars, poseVars>>
     \/ PoseView /\ UNCHANGED <<vars, pcVars, handVars>>

\* the fairness of Spec, PcSessionSpec, HandSpec and ReadySpec, where the view lets their
\* actions happen
MCSpec ==
  /\ MCInit /\ [][MCNext]_stationVars
  /\ WF_vars(view = "session" /\ MainStep) /\ WF_vars(view = "session" /\ Interrupt)
  /\ WF_pcVars(view = "pc" /\ PcMain) /\ WF_pcVars(view = "pc" /\ PcSigterm)
  /\ WF_handVars(view = "keys" /\ HiTick /\ UNCHANGED keyVars)
  /\ WF_handVars(view = "keys" /\ Deliver)
  /\ WF_handVars(view = "keys" /\ (Poll \/ PollFails) /\ UNCHANGED hiVars)
  /\ WF_readyVars(view = "pose" /\ MoverStep)
-----------------------------------------------------------------------------
StationTypeOK == TypeOK /\ KeyTypeOK /\ HandTypeOK /\ ReadyTypeOK

\* Whatever happens to the operator's input - the window, the bridge, a reset
\* confirmed while keys are down, a session that ends - no key stays pressed
\* in Loop, base and arms are not commanded together for longer than one
\* message lives, and no finger goes on from an earlier session; part of:
OperatorInputSafe == LoopCReleased /\ BaseWithArmsIsBrief /\ FingersStartAfresh

\* Nothing starts to move that was not asked for by itself: a key pressed with
\* nothing else held, or a combination seen for its whole time.
MotionIsAsked == []OperatorInputSafe /\ PressStartsMotion /\ GestureIsDeliberate

\* The ready pose starts from motors seen well for long enough, is both arms'
\* or nobody's, and leaves no arm moving when it is given up, but for an arm whose
\* accepted goal the mover had not yet taken note of.
PoseIsWhole == PassIsSteady /\ AbortStopsArms /\ ReadyIsBoth

\* Whoever is gone - the host, the Loop window, the bridge, a robot that never
\* answers - is noticed, and what depended on it ends.  A behaviour has one
\* view, and for it this is HostGoneEndsSession, PcSessionEnds, UnattendedStops
\* or MoverEnds.
StopDue ==
  CASE view = "session" -> ~lease
    [] view = "pc" -> PcStopDue
    [] view = "keys" -> ~Watched
    [] view = "pose" -> phase \in Waiting
    [] OTHER -> FALSE
StopDone ==
  CASE view = "session" -> stage \in Ended
    [] view = "pc" -> PcStopped
    [] view = "keys" -> manual = {} \/ Watched
    [] view = "pose" -> phase \in Over
    [] OTHER -> TRUE
EveryStopArrives == StopDue ~> StopDone
=============================================================================
