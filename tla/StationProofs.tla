--------------------------- MODULE StationProofs ---------------------------
(***************************************************************************)
(* What starts motion at the two computers: the ready pose and its          *)
(* precheck, the keyboard of Loop, and what HandInput makes of keys and     *)
(* hands.  Each half below has its own inductive invariant; the components  *)
(* share no variable.                                                       *)
(***************************************************************************)
EXTENDS MCStation, RobotSessionProofs

-----------------------------------------------------------------------------
(* MotorPrecheck: what good_since counts never was longer than nothing has  *)
(* been wrong.                                                              *)

MotorInv ==
  /\ strict \in BOOLEAN /\ busOk \in BOOLEAN /\ torqueGood \in BOOLEAN
  /\ calm \in 0 .. Steady /\ sampleAge \in Nat
  /\ goodSince # None => goodSince \in 0 .. Steady /\ goodSince <= calm
  /\ PassIsSteady

LEMMA MotorSteady == MotorSpec => []PassIsSteady
  <1>0. Steady \in Nat /\ MotorFresh \in Nat /\ None # "pass" /\ None # "fail"
    BY MotorPrecheckAssumption
  <1>1. MotorInit => MotorInv
    <2> SUFFICES ASSUME MotorInit PROVE MotorInv
      OBVIOUS
    <2>1. PassIsSteady
      BY <1>0 DEF MotorInit, PassIsSteady
    <2>2. calm \in 0 .. Steady /\ sampleAge \in Nat /\ goodSince = None
      BY <1>0 DEF MotorInit
    <2>3. strict \in BOOLEAN /\ busOk \in BOOLEAN /\ torqueGood \in BOOLEAN
      BY DEF MotorInit
    <2> QED  BY <2>1, <2>2, <2>3 DEF MotorInv
  <1>2. ASSUME MotorInv, [MotorNext]_motorVars PROVE MotorInv'
    <2>1. CASE MotorTick
      BY <1>0, <1>2, <2>1 DEF MotorTick, MotorInv, PassIsSteady
    <2>2. CASE PrecheckEnds
      BY <1>2, <2>2 DEF PrecheckEnds, MotorInv, PassIsSteady
    <2>3. ASSUME NEW single \in BOOLEAN, Spin(single) PROVE MotorInv'
      <3>1. \E good \in BOOLEAN :
              /\ goodSince' = Restarts(good)
              /\ calm' = IF good THEN calm ELSE 0
              /\ verdict' = "pass" => good /\ goodSince' # None /\ goodSince' >= Steady
        BY <1>0, <2>3, Zenon DEF Spin
      <3>2. sampleAge' \in Nat /\ strict' \in BOOLEAN /\ busOk' \in BOOLEAN /\ torqueGood' \in BOOLEAN
        BY <1>2, <2>3 DEF Spin, NoSample, Sample, MotorInv
      <3>3. PICK good \in BOOLEAN :
              /\ goodSince' = Restarts(good)
              /\ calm' = IF good THEN calm ELSE 0
              /\ verdict' = "pass" => good /\ goodSince' # None /\ goodSince' >= Steady
        BY <3>1
      <3>4. calm' \in 0 .. Steady
        BY <1>0, <1>2, <3>3 DEF MotorInv
      <3>5. goodSince' # None => goodSince' \in 0 .. Steady /\ goodSince' <= calm'
        BY <1>0, <1>2, <3>3 DEF MotorInv, Restarts
      <3>6. ASSUME verdict' = "pass" PROVE calm' >= Steady
        <4>1. goodSince' \in 0 .. Steady /\ goodSince' <= calm' /\ goodSince' >= Steady
          BY <3>3, <3>5, <3>6
        <4>2. calm' \in Int /\ goodSince' \in Int /\ Steady \in Int
          BY <1>0, <3>4, <4>1
        <4> QED  BY <4>1, <4>2
      <3> QED  BY <3>2, <3>4, <3>5, <3>6 DEF MotorInv, PassIsSteady
    <2>4. CASE UNCHANGED motorVars
      BY <1>2, <2>4 DEF motorVars, MotorInv, PassIsSteady
    <2> QED  BY <1>2, <2>1, <2>2, <2>3, <2>4 DEF MotorNext
  <1>3. MotorInv => PassIsSteady
    BY DEF MotorInv
  <1> QED  BY <1>1, <1>2, <1>3, PTL DEF MotorSpec

-----------------------------------------------------------------------------
(* ReadyPose: what the mover knows of an arm lags behind its server, but    *)
(* never contradicts it.                                                    *)

Moving == {"pending", "running"}
ReadyType ==
  /\ phase \in Waiting \cup Over \cup {"absent"} /\ robot \in RobotStates
  /\ request \in [ArmSides -> {"none", "sent", "accepted", "rejected"}]
  /\ handles \subseteq ArmSides
  /\ result \in [ArmSides -> {"none", "asked", "succeeded", "failed"}]
  /\ cancel \in [ArmSides -> {"none", "sent", "handled", "done"}]
  /\ goal \in [ArmSides -> {"none", "pending", "running", "succeeded", "failed", "refused",
                            "canceled"}]
  /\ aborting \in BOOLEAN /\ gaveUp \in BOOLEAN /\ shut \in BOOLEAN

\* what was heard of one arm
Heard(s) ==
  /\ goal[s] = "none" <=> request[s] = "none"
  /\ request[s] = "accepted" => goal[s] \notin {"pending", "refused", "none"}
  /\ request[s] \in {"none", "rejected"} => goal[s] \notin Moving
  /\ result[s] = "succeeded" => goal[s] = "succeeded"
  /\ cancel[s] \in {"handled", "done"} => goal[s] \notin Moving
  /\ s \in handles => request[s] = "accepted"
  /\ cancel[s] # "none" => aborting /\ s \in handles
  /\ (aborting /\ s \in handles) => cancel[s] # "none"

\* what the phases of move say
Phases ==
  /\ phase \in {"servers", "graph"} => \A s \in ArmSides : request[s] = "none"
  /\ phase \in (Waiting \ {"cancel"}) \cup {"ready"} => ~aborting
  /\ phase = "cancel" => aborting
  /\ phase \in {"settle", "ready"} => \A s \in ArmSides : result[s] = "succeeded"
  /\ (phase = "aborted" /\ ~gaveUp /\ ~shut) => aborting /\ AllAnswered
  /\ phase \in Waiting => ~gaveUp /\ ~shut

ReadyInv == ReadyType /\ (\A s \in ArmSides : Heard(s)) /\ Phases

LEMMA ReadyStart == ReadyInit => ReadyInv
  <1> SUFFICES ASSUME ReadyInit PROVE ReadyInv
    OBVIOUS
  <1>1. ReadyType
    BY DEF ReadyInit, ReadyType, Waiting, RobotStates
  <1>2. \A s \in ArmSides : request[s] = "none" /\ result[s] = "none" /\ cancel[s] = "none"
                            /\ goal[s] = "none" /\ s \notin handles
    BY DEF ReadyInit
  <1>3. Phases
    BY <1>2 DEF ReadyInit, Phases, Waiting
  <1>4. \A s \in ArmSides : Heard(s)
    BY <1>2 DEF Heard, Moving
  <1> QED  BY <1>1, <1>3, <1>4 DEF ReadyInv

\* Steps at the robot change no phase and take no reply back.
LEMMA ServerStep ==
  ASSUME ReadyInv, NEW s \in ArmSides, ServerDecides(s) \/ ServerFinishes(s) \/ ServerCancels(s)
  PROVE  ReadyInv'
  <1> USE DEF ReadyInv
  <1>1. ReadyType'
    BY DEF ReadyType, ServerDecides, ServerFinishes, ServerCancels
  <1>2. ASSUME NEW o \in ArmSides PROVE Heard(o)'
    <2>1. CASE o = s
      BY <2>1 DEF ReadyType, Heard, Moving, ServerDecides, ServerFinishes, ServerCancels
    <2>2. CASE o # s
      BY <2>2 DEF ReadyType, Heard, Moving, ServerDecides, ServerFinishes, ServerCancels
    <2> QED  BY <2>1, <2>2
  <1>3. \A o \in ArmSides : cancel'[o] = cancel[o] \/ (cancel[o] = "sent" /\ cancel'[o] = "handled")
    BY DEF ReadyType, ServerDecides, ServerFinishes, ServerCancels
  <1>4. UNCHANGED <<phase, request, handles, result, aborting, gaveUp, shut>>
    BY DEF ServerDecides, ServerFinishes, ServerCancels
  <1>5. Phases'
    BY <1>3, <1>4 DEF Phases, AllAnswered
  <1> QED  BY <1>1, <1>2, <1>5

LEMMA ReplyStep ==
  ASSUME ReadyInv, NEW s \in ArmSides, RequestReply(s) \/ RememberHandle(s) \/ ResultReply(s) \/ CancelReply(s)
  PROVE  ReadyInv'
  <1> USE DEF ReadyInv
  <1>1. ReadyType'
    BY DEF ReadyType, RequestReply, RememberHandle, ResultReply, CancelReply, TakenBack
  <1>2. ASSUME NEW o \in ArmSides PROVE Heard(o)'
    <2>1. CASE o = s
      BY <2>1 DEF ReadyType, Heard, Moving, RequestReply, RememberHandle, ResultReply, CancelReply, TakenBack
    <2>2. CASE o # s
      BY <2>2 DEF ReadyType, Heard, Moving, RequestReply, RememberHandle, ResultReply, CancelReply, TakenBack
    <2> QED  BY <2>1, <2>2
  <1>3. /\ UNCHANGED <<phase, aborting, gaveUp, shut>> /\ phase \in Waiting
        /\ \A o \in ArmSides : request[o] = "none" => request'[o] = "none"
        /\ \A o \in ArmSides : result[o] = "succeeded" => result'[o] = "succeeded"
    BY DEF ReadyType, RequestReply, RememberHandle, ResultReply, CancelReply, Spins
  <1>4. Phases'
    BY <1>3 DEF Phases, Waiting
  <1> QED  BY <1>1, <1>2, <1>4

LEMMA GiveUpStep ==
  ASSUME ReadyInv, phase \in Waiting \ {"cancel"}, GiveUp
  PROVE  ReadyInv'
  <1> USE DEF ReadyInv
  <1>1. ReadyType'
    BY DEF ReadyType, GiveUp, Waiting, Over
  <1>2. ASSUME NEW o \in ArmSides PROVE Heard(o)'
    BY DEF ReadyType, Heard, Phases, GiveUp, Cancels
  <1>3. Phases'
    BY DEF Phases, GiveUp, Waiting
  <1> QED  BY <1>1, <1>2, <1>3

LEMMA GoesStep ==
  ASSUME ReadyInv, NEW to \in Waiting \cup Over, Goes(to), Phases'
  PROVE  ReadyInv'
  BY DEF ReadyInv, ReadyType, Heard, Goes

LEMMA MoverKeeps ==
  ASSUME ReadyInv, MoverStep
  PROVE  ReadyInv'
  <1> USE DEF ReadyInv
  <1>1. CASE Served
    <2>1. Phases'
      BY <1>1 DEF Served, Goes, Phases, Waiting
    <2> QED  BY <1>1, <2>1, GoesStep DEF Served, Waiting
  <1>2. CASE Send /\ ~MayMove
    BY <1>2, GiveUpStep DEF Send, Waiting
  <1>3. CASE Send /\ MayMove
    <2>1. ReadyType'
      BY <1>3 DEF Send, ReadyType, Waiting
    <2>2. \A s \in ArmSides : /\ cancel[s] = "none" /\ ~aborting /\ result[s] # "succeeded"
                             /\ s \notin handles
      BY <1>3 DEF Send, Phases, Heard, Waiting
    <2>3. \A s \in ArmSides : Heard(s)'
      BY <1>3, <2>2 DEF Send, Heard, Moving
    <2>4. Phases'
      BY <1>3 DEF Send, Phases, Waiting
    <2> QED  BY <2>1, <2>3, <2>4
  <1>4. CASE Accepted
    <2>1. CASE \E s \in ArmSides : request[s] = "rejected"
      BY <1>4, <2>1, GiveUpStep DEF Accepted, Waiting
    <2>2. CASE ~\E s \in ArmSides : request[s] = "rejected"
      <3>1. ReadyType'
        BY <1>4, <2>2 DEF Accepted, ReadyType, Waiting
      <3>2. \A s \in ArmSides : Heard(s)'
        BY <1>4, <2>2 DEF Accepted, Heard
      <3>3. Phases'
        BY <1>4, <2>2 DEF Accepted, Phases, Waiting
      <3> QED  BY <3>1, <3>2, <3>3
    <2> QED  BY <2>1, <2>2
  <1>5. CASE Finished
    <2>1. CASE Failed
      BY <1>5, <2>1, GiveUpStep DEF Finished, Waiting
    <2>2. CASE ~Failed
      <3>1. Phases'
        BY <1>5, <2>2 DEF Finished, Failed, Goes, Phases, Waiting
      <3> QED  BY <1>5, <2>2, <3>1, GoesStep DEF Finished, Waiting
    <2> QED  BY <2>1, <2>2
  <1>6. CASE Settled
    <2>1. Phases'
      BY <1>6 DEF Settled, Goes, Phases, Waiting
    <2> QED  BY <1>6, <2>1, GoesStep DEF Settled, Over
  <1>7. CASE WaitTimeout
    BY <1>7, GiveUpStep DEF WaitTimeout, Timed, Waiting
  <1>8. CASE Canceled
    <2>1. Phases'
      BY <1>8 DEF Canceled, Goes, Phases, Waiting, AllAnswered
    <2> QED  BY <1>8, <2>1, GoesStep DEF Canceled, Over
  <1>9. CASE CancelTimeout
    <2>1. ReadyType' /\ \A s \in ArmSides : Heard(s)'
      BY <1>9 DEF CancelTimeout, ReadyType, Over, Heard
    <2>2. Phases'
      BY <1>9 DEF CancelTimeout, Phases, Waiting
    <2> QED  BY <2>1, <2>2
  <1> QED  BY <1>1, <1>2, <1>3, <1>4, <1>5, <1>6, <1>7, <1>8, <1>9 DEF MoverStep, Send

LEMMA ReadyStep == ReadyInv /\ [ReadyNext]_readyVars => ReadyInv'
  <1> SUFFICES ASSUME ReadyInv, [ReadyNext]_readyVars PROVE ReadyInv'
    OBVIOUS
  <1>1. CASE Signal
    <2>1. ReadyType' /\ \A s \in ArmSides : Heard(s)'
      BY <1>1 DEF Signal, ReadyInv, ReadyType, Over, Heard
    <2>2. Phases'
      BY <1>1 DEF Signal, Phases, Waiting
    <2> QED  BY <2>1, <2>2 DEF ReadyInv
  <1>2. ASSUME NEW to \in RobotStates, RobotChanges(to) PROVE ReadyInv'
    BY <1>2 DEF RobotChanges, ReadyInv, ReadyType, Heard, Phases, AllAnswered
  <1>3. CASE UNCHANGED readyVars
    BY <1>3 DEF readyVars, ReadyInv, ReadyType, Heard, Phases, AllAnswered
  <1> QED  BY <1>1, <1>2, <1>3, MoverKeeps, ServerStep, ReplyStep DEF ReadyNext

LEMMA ReadyWhole == ReadySpec => [](AbortStopsArms /\ ReadyIsBoth)
  <1>1. ReadyInv => AbortStopsArms /\ ReadyIsBoth
    <2>1. ReadyInv => AbortStopsArms
      BY DEF ReadyInv, ReadyType, Phases, AllAnswered, Heard, Moving, AbortStopsArms
    <2>2. ReadyInv => ReadyIsBoth
      BY DEF ReadyInv, Phases, Heard, ReadyIsBoth
    <2> QED  BY <2>1, <2>2
  <1> QED  BY <1>1, ReadyStart, ReadyStep, PTL DEF ReadySpec

\* The ready pose (ready_pose.py) starts only after motors that were seen well
\* without interruption for the whole steady time (ready_pose_precheck.py); the
\* publisher is started only when both servers have carried out their goal; and a
\* move that is given up leaves no arm moving and no goal to be accepted later,
\* unless a cancellation ran into its deadline, a signal ended the mover, or the done
\* callback of the accepted goal (remember_handle) had not run when the last answer
\* ended the wait of cancel_moves.
THEOREM PoseStaysWhole == MotorSpec /\ ReadySpec => []PoseIsWhole
  <1>1. PassIsSteady /\ AbortStopsArms /\ ReadyIsBoth => PoseIsWhole
    BY DEF PoseIsWhole
  <1> QED  BY <1>1, MotorSteady, ReadyWhole, PTL

-----------------------------------------------------------------------------
(* LoopKeyboard.                                                            *)

Messages == [focused : BOOLEAN, keys : SUBSET MotionItems, stop : BOOLEAN, toggle : BOOLEAN]
Sent == {m \in Messages : (m.toggle \/ m.keys # {}) => m.focused}
Sights == [window : BOOLEAN, focused : BOOLEAN, armed : BOOLEAN, toggle : BOOLEAN]

KeyInv ==
  /\ held \subseteq KeyItems /\ stale \subseteq held \cap MotionItems
  /\ seen \in Sights /\ discard \in {"up", "down", "lost"} /\ loopC \in BOOLEAN
  /\ wire \in Seq(Sent) /\ Len(wire) <= MaxWire
  /\ seen.armed => stale = {}   \* keys count only once all have been up
  /\ LoopCReleased

LEMMA MessageFacts ==
  /\ StopMessage \in Sent /\ StopMessage.keys = {}
  /\ \A focused, stop, toggle \in BOOLEAN, keys \in SUBSET MotionItems :
       (toggle \/ keys # {} => focused) =>
         /\ Message(focused, keys, stop, toggle) \in Sent
         /\ Message(focused, keys, stop, toggle).keys = keys
  BY DEF StopMessage, Message, Sent, Messages

LEMMA WireFacts ==
  ASSUME NEW w \in Seq(Sent), NEW m \in Sent, Len(w) < MaxWire
  PROVE  /\ Append(w, m) \in Seq(Sent) /\ Len(Append(w, m)) <= MaxWire
         /\ Append(w, m)[Len(Append(w, m))] = m
  <1>1. MaxWire \in Nat /\ Len(w) \in Nat
    BY LoopKeyboardAssumption, LenProperties
  <1> QED  BY <1>1, AppendProperties

LEMMA KeyStart == LoopInit => KeyInv
  <1> SUFFICES ASSUME LoopInit PROVE KeyInv
    OBVIOUS
  <1>1. <<>> \in Seq(Sent) /\ Len(<<>>) = 0 /\ MaxWire \in Nat
    BY LoopKeyboardAssumption, EmptySeq
  <1>2. seen \in Sights /\ ~seen.armed
    BY DEF LoopInit, Sights
  <1>3. wire \in Seq(Sent) /\ Len(wire) <= MaxWire
    BY <1>1 DEF LoopInit
  <1>4. held = {} /\ stale = {} /\ discard = "up" /\ loopC = FALSE
    BY DEF LoopInit
  <1>5. LoopCReleased
    BY <1>4 DEF LoopCReleased
  <1> QED  BY <1>2, <1>3, <1>4, <1>5 DEF KeyInv

\* What a turn of the loop sends, and what it remembers of the keys.
LEMMA PollStep ==
  ASSUME KeyInv, Poll
  PROVE  /\ KeyInv'
         /\ wire'[Len(wire')].keys \cap stale' = {}
  <1> USE DEF KeyInv
  <1> DEFINE keys == IF MotionCounts THEN Keys \cap MotionItems ELSE {}
             m == Message(Focused, keys, Halts, Toggles)
  <1>1. wire' = Append(wire, m) /\ Len(wire) < MaxWire
    BY DEF Poll
  <1>2. /\ keys \in SUBSET MotionItems /\ keys \subseteq Keys
        /\ Focused \in BOOLEAN /\ Halts \in BOOLEAN /\ Toggles \in BOOLEAN
        /\ MotionCounts \in BOOLEAN /\ ("v" \in Keys) \in BOOLEAN
    BY DEF Focused, Halts, Toggles, MotionCounts, Sights
  <1>3. (Toggles \/ keys # {}) => Focused
    BY <1>2 DEF Toggles, Keys
  <1>4. m \in Sent /\ m.keys = keys
    BY <1>2, <1>3, MessageFacts
  <1>5. wire' \in Seq(Sent) /\ Len(wire') <= MaxWire /\ wire'[Len(wire')] = m
    BY <1>1, <1>4, WireFacts
  <1>6. held' = held /\ stale' = (IF Interrupted THEN held \cap MotionItems ELSE stale)
    BY DEF Poll
  <1>7. seen' \in Sights /\ seen'.armed = MotionCounts
    BY <1>2 DEF Poll, Sights, Found
  <1>8. MotionCounts => (Focused /\ Keys = {}) \/ (stale = {} /\ ~Interrupted)
    BY DEF MotionCounts
  <1>9. (Focused /\ Keys = {}) => held \cap MotionItems = {}
    BY DEF Keys, MotionItems
  <1>10. MotionCounts => stale' = {}
    BY <1>6, <1>8, <1>9
  <1>11. m.keys \cap stale' = {}
    BY <1>4, <1>10
  <1>12. discard' \in {"up", "down", "lost"} /\ loopC' \in BOOLEAN /\ LoopCReleased'
    BY DEF Poll, LoopCReleased, Discards
  <1> HIDE DEF m, keys
  <1> QED  BY <1>5, <1>6, <1>7, <1>10, <1>11, <1>12

\* The end of the process, by itself or by a signal.
LEMMA FinallyStep ==
  ASSUME KeyInv, bridge = "running", Finally \/ TerminateInPoll
  PROVE  KeyInv' /\ wire' \in {wire, Append(wire, StopMessage)}
  <1> USE DEF KeyInv
  <1>1. wire' \in Seq(Sent) /\ Len(wire') <= MaxWire
    BY MessageFacts, WireFacts DEF Finally, TerminateInPoll, LastStop
  <1>2. loopC' \in BOOLEAN /\ LoopCReleased'
    BY DEF Finally, TerminateInPoll, LoopCReleased, ReleasedC
  <1>3. wire' \in {wire, Append(wire, StopMessage)}
    BY DEF Finally, TerminateInPoll, LastStop
  <1> QED  BY <1>1, <1>2, <1>3 DEF Finally, TerminateInPoll

LEMMA LoopStepKeeps ==
  ASSUME KeyInv, LoopStep
  PROVE  /\ KeyInv'
         /\ Len(wire') > Len(wire) => wire'[Len(wire')].keys \cap stale' = {}
  <1> USE DEF KeyInv
  <1>0. Len(wire) \in Nat
    BY LenProperties
  <1>1. ASSUME NEW k \in KeyItems, PressKey(k) PROVE KeyInv' /\ wire' = wire
    BY <1>1 DEF PressKey, LoopCReleased
  <1>2. ASSUME NEW k \in KeyItems, ReleaseKey(k) PROVE KeyInv' /\ wire' = wire
    BY <1>2 DEF ReleaseKey, LoopCReleased
  <1>3. ASSUME NEW to, LoopChanges(to) PROVE KeyInv' /\ wire' = wire
    BY <1>3 DEF LoopChanges, LoopCReleased
  <1>4. CASE Poll
    BY <1>4, PollStep
  <1>5. CASE PollFails \/ Terminate \/ TerminateInPoll
    <2>1. KeyInv' /\ wire' \in {wire, Append(wire, StopMessage)}
      BY <1>5, FinallyStep DEF PollFails, Terminate, TerminateInPoll
    <2>2. Append(wire, StopMessage)[Len(Append(wire, StopMessage))] = StopMessage
      BY MessageFacts, AppendProperties, <1>0
    <2> QED  BY <1>0, <2>1, <2>2, MessageFacts
  <1>6. CASE Kill
    BY <1>0, <1>6 DEF Kill, LoopCReleased
  <1> QED  BY <1>0, <1>1, <1>2, <1>3, <1>4, <1>5, <1>6 DEF LoopStep

\* A message is taken off the wire.
LEMMA DeliverKeeps ==
  ASSUME KeyInv, wire # <<>>, wire' = Tail(wire),
         UNCHANGED <<held, loopApp, bridge, seen, discard, loopC, stale>>
  PROVE  KeyInv' /\ Len(wire') < Len(wire) /\ Head(wire) \in Messages
  <1> USE DEF KeyInv
  <1>1. /\ Tail(wire) \in Seq(Sent) /\ Len(Tail(wire)) = Len(wire) - 1 /\ Len(wire) \in Nat
        /\ Head(wire) \in Sent /\ MaxWire \in Nat
    BY HeadTailProperties, LenProperties, LoopKeyboardAssumption
  <1> QED  BY <1>1 DEF Sent, LoopCReleased

-----------------------------------------------------------------------------
(* HandInput.                                                               *)

Pasts == {"none", "this", "earlier", "mixed"}
Gestures == [since : Nat \cup {None}, ready : BOOLEAN, latched : BOOLEAN]

HandType ==
  /\ arms \in {"off", "starting", "active"}
  /\ startOk \in BOOLEAN /\ latch \in BOOLEAN /\ resetting \in BOOLEAN
  /\ opKeys \subseteq MotionItems /\ opAge \in 0 .. KeyTtl + 1 /\ dirty \in BOOLEAN
  /\ manual \subseteq MotionItems
  /\ gest \in Gestures /\ spent \in BOOLEAN /\ combo \in Nat \cup {None}
  /\ past \in Pasts /\ together \in 0 .. KeyTtl

BaseAsked == opKeys \cap BaseItems # {}

\* How long arms and base were asked for together is bounded by the age of the
\* keys that ask: while the arms are on, and while they are off for a hand that
\* could start them, which it cannot behind a dirty base profile.
Brief == (BaseAsked /\ (arms # "off" \/ ~dirty)) => together <= opAge

\* A finger filter has a past only in its session; what an earlier one left is
\* forgotten before the arms can start again, by a reset too.
Fresh ==
  /\ past # "mixed"
  /\ past = "earlier" => arms = "off" /\ ~resetting
  /\ past = "this" => arms = "active"
  /\ resetting => latch
  /\ latch => arms = "off"

\* The timer of the gesture never ran longer than the combination was seen.
Deliberate ==
  /\ gest.since # None => combo # None /\ gest.since <= combo /\ gest.ready
  /\ (gest.ready /\ ~gest.latched) => ~spent

HandInv == HandType /\ Brief /\ Fresh /\ Deliberate
Switches == (gest'.latched /\ ~gest.latched) => combo # None /\ combo >= HoldTime /\ ~spent

LEMMA HandFacts ==
  /\ KeyTtl \in Nat /\ HoldTime \in Nat /\ None \notin Nat
  /\ NoGesture \in Gestures /\ NoGesture.since = None
  /\ ~NoGesture.ready /\ ~NoGesture.latched
  /\ None \notin 0 .. HoldTime
  BY HandInputAssumption DEF NoGesture, Gestures

LEMMA HandStart == HandInit => HandInv
  <1> SUFFICES ASSUME HandInit PROVE HandInv
    OBVIOUS
  <1>1. gest = NoGesture /\ combo = None /\ spent = FALSE /\ past = "none" /\ together = 0
        /\ opKeys = {} /\ arms = "off" /\ latch = FALSE /\ resetting = FALSE
    BY DEF HandInit
  <1>2. HandType
    <2>1. opAge \in 0 .. KeyTtl + 1 /\ 0 \in 0 .. KeyTtl
      BY HandFacts DEF HandInit
    <2>2. startOk = FALSE /\ dirty = FALSE /\ manual = {}
      BY DEF HandInit
    <2> QED  BY <1>1, <2>1, <2>2, HandFacts DEF HandType, Pasts
  <1>3. Brief /\ Fresh /\ Deliberate
    BY <1>1, HandFacts DEF Brief, BaseAsked, Fresh, Deliberate
  <1> QED  BY <1>2, <1>3 DEF HandInv

\* What _set_arm_control_enabled leaves, asked to start or to stop.
LEMMA OnEffect ==
  ASSUME HandInv, On
  PROVE  /\ arms' \in {"off", "starting", "active"} /\ resetting' \in BOOLEAN /\ latch' = latch
         /\ arms # "off" => arms' = arms
         /\ arms' \in {arms, "starting"}
         /\ resetting' => latch'
         /\ latch' => arms' = "off"
  <1>1. HandType /\ Fresh
    BY DEF HandInv
  <1>2. CASE arms # "off" /\ UNCHANGED <<arms, resetting, latch>>
    BY <1>1, <1>2 DEF HandType, Fresh
  <1>3. CASE arms = "off" /\ latch /\ resetting' \in {TRUE, resetting} /\ UNCHANGED <<arms, latch>>
    <2>1. resetting' \in BOOLEAN
      BY <1>1, <1>3 DEF HandType
    <2> QED  BY <1>1, <1>3, <2>1 DEF HandType
  <1>4. CASE arms = "off" /\ ~latch /\ arms' \in {"starting", "off"} /\ UNCHANGED <<resetting, latch>>
    BY <1>1, <1>4 DEF HandType, Fresh
  <1> QED  BY <1>2, <1>3, <1>4 DEF On

\* No gesture, no finger: what a reset of the hands leaves.
LEMMA ResetEffect ==
  ASSUME HandInv, ResetHandInput
  PROVE  /\ gest' \in Gestures /\ combo' \in Nat \cup {None} /\ spent' \in BOOLEAN
         /\ past' = "none" /\ Deliberate' /\ ~gest'.latched
  BY HandFacts DEF HandInv, HandType, ResetHandInput, Deliberate

LEMMA TogetherEffect ==
  ASSUME HandInv, Separately
  PROVE  together' \in 0 .. KeyTtl /\ (arms = "off" => together' = 0)
         /\ (arms # "off" => together' = together)
  BY HandFacts DEF Separately, HandInv, HandType

\* Whatever it answers, the service leaves hands and arms in order; it clears
\* a dirty base profile only with the arms on.
LEMMA EnableEffect ==
  ASSUME HandInv, NEW data \in BOOLEAN, NEW last, NEW joints \in BOOLEAN,
         EnableService(data, last, joints)
  PROVE  /\ arms' \in {"off", "starting", "active"} /\ startOk' \in BOOLEAN
         /\ latch' \in BOOLEAN /\ resetting' \in BOOLEAN /\ dirty' \in BOOLEAN
         /\ gest' \in Gestures /\ combo' \in Nat \cup {None} /\ spent' \in BOOLEAN
         /\ past' \in Pasts
         /\ Fresh' /\ Deliberate' /\ Switches
         /\ (arms' = "off" /\ ~dirty') => ~dirty
         /\ (arms' # "off" /\ arms # "off") => arms' = arms
  <1> USE DEF HandInv
  <1>1. CASE UNCHANGED <<authority, gestVars, dirty>>
    BY <1>1 DEF authority, gestVars, HandType, Fresh, Deliberate, Switches
  <1>2. CASE ~UNCHANGED <<authority, gestVars, dirty>>
    <2>1. /\ ResetHandInput /\ dirty' = (dirty /\ ~(data /\ arms' # "off"))
          /\ IF data THEN On /\ startOk' = (startOk /\ (arms' # "off" \/ latch)) ELSE Off
      BY <1>2 DEF EnableService
    <2>2. /\ gest' \in Gestures /\ combo' \in Nat \cup {None} /\ spent' \in BOOLEAN
          /\ past' = "none" /\ Deliberate' /\ ~gest'.latched
      BY <2>1, ResetEffect
    <2>3. CASE data
      <3>1. On /\ startOk' \in BOOLEAN
        BY <2>1, <2>3 DEF HandType
      <3> QED  BY <3>1, <2>1, <2>2, <2>3, OnEffect DEF HandType, Fresh, Switches, Pasts
    <2>4. CASE ~data
      BY <2>1, <2>2, <2>4 DEF Off, HandType, Fresh, Switches, Pasts
    <2> QED  BY <2>3, <2>4
  <1> QED  BY <1>1, <1>2

LEMMA OperatorStep ==
  ASSUME HandInv, NEW m \in Messages, OperatorInput(m)
  PROVE  HandInv' /\ Switches
  <1> USE DEF HandInv
  <1> DEFINE base == Moves(m) \cap BaseItems # {}
             last == IF base THEN 0 ELSE baseAge
  <1>1. Moves(m) \subseteq MotionItems /\ BaseHolds(m) = base
    BY DEF Messages, Moves, BaseHolds
  <1>2. /\ opAge' = 0 /\ manual' = manual
        /\ together' \in 0 .. KeyTtl
        /\ arms = "off" => together' = 0
    BY TogetherEffect DEF OperatorInput
  <1>3. 0 \in 0 .. KeyTtl + 1
    BY HandFacts
  <1>4. CASE m.stop
    <2>1. opKeys' = {} /\ dirty' = (dirty \/ base) /\ Off /\ ResetHandInput
      BY <1>4 DEF OperatorInput
    <2>2. HandType'
      BY <1>2, <1>3, <2>1, ResetEffect DEF HandType, Off, Pasts
    <2> QED  BY <1>2, <2>1, <2>2, ResetEffect DEF Off, Brief, BaseAsked, Fresh, Switches
  <1>5. CASE ~m.stop /\ m.toggle /\ m.focused
    <2>1. opKeys' = {} /\ \E joints \in BOOLEAN : EnableService(arms = "off", last, joints)
      BY <1>5 DEF OperatorInput, Messages
    <2>2. PICK joints \in BOOLEAN : EnableService(arms = "off", last, joints)
      BY <2>1
    <2> HIDE DEF last
    <2>3. (arms = "off") \in BOOLEAN
      OBVIOUS
    <2>4. /\ arms' \in {"off", "starting", "active"} /\ startOk' \in BOOLEAN
          /\ latch' \in BOOLEAN /\ resetting' \in BOOLEAN /\ dirty' \in BOOLEAN
          /\ gest' \in Gestures /\ combo' \in Nat \cup {None} /\ spent' \in BOOLEAN
          /\ past' \in Pasts /\ Fresh' /\ Deliberate' /\ Switches
      BY <2>2, <2>3, EnableEffect
    <2>5. HandType'
      BY <1>2, <1>3, <2>1, <2>4 DEF HandType
    <2> QED  BY <2>1, <2>4, <2>5 DEF Brief, BaseAsked
  <1>6. CASE ~m.stop /\ ~(m.toggle /\ m.focused)
    <2>1. /\ opKeys' = Moves(m) /\ dirty' = (dirty \/ base)
          /\ UNCHANGED <<gest, frameAge, combo, spent>>
          /\ IF base /\ arms # "off" THEN Off /\ past' = Aged("off")
             ELSE UNCHANGED <<authority, past>>
      BY <1>1, <1>6 DEF OperatorInput, Messages
    <2>2. HandType' /\ Fresh'
      BY <1>1, <1>2, <1>3, <2>1 DEF HandType, Fresh, Off, Aged, authority, Pasts
    <2>3. Deliberate' /\ Switches
      BY <2>1 DEF Deliberate, Switches
    <2>4. Brief'
      BY <2>1 DEF Brief, BaseAsked, Off, authority
    <2> QED  BY <2>2, <2>3, <2>4
  <1> QED  BY <1>4, <1>5, <1>6 DEF Messages

LEMMA ServiceStep ==
  ASSUME HandInv, NEW data \in BOOLEAN, Service(data)
  PROVE  HandInv' /\ Switches
  <1> USE DEF HandInv
  <1>1. PICK joints \in BOOLEAN : EnableService(data, baseAge, joints)
    BY DEF Service
  <1>2. /\ arms' \in {"off", "starting", "active"} /\ startOk' \in BOOLEAN
        /\ latch' \in BOOLEAN /\ resetting' \in BOOLEAN /\ dirty' \in BOOLEAN
        /\ gest' \in Gestures /\ combo' \in Nat \cup {None} /\ spent' \in BOOLEAN
        /\ past' \in Pasts /\ Fresh' /\ Deliberate' /\ Switches
        /\ (arms' = "off" /\ ~dirty') => ~dirty
    BY <1>1, EnableEffect
  <1>3. UNCHANGED <<opKeys, opAge, manual>> /\ Separately
    BY DEF Service
  <1>4. together' \in 0 .. KeyTtl
        /\ (arms = "off" => together' = 0) /\ (arms # "off" => together' = together)
    BY <1>3, TogetherEffect
  <1>5. HandType'
    BY <1>2, <1>3, <1>4 DEF HandType
  <1>6. Brief'
    <2>1. CASE arms = "off"
      <3>1. together' = 0 /\ opAge' \in 0 .. KeyTtl + 1
        BY <1>4, <2>1, <1>5 DEF HandType
      <3> QED  BY <3>1, HandFacts DEF Brief
    <2>2. CASE arms # "off"
      BY <1>3, <1>4, <2>2 DEF Brief, BaseAsked
    <2> QED  BY <2>1, <2>2
  <1> QED  BY <1>2, <1>5, <1>6

\* Steps that neither look at the hands nor at the arms.
LEMMA ElsewhereStep ==
  ASSUME HandInv, UNCHANGED <<authority, gest, combo, spent, past, together, dirty>>,
         manual' \subseteq MotionItems,
         \/ UNCHANGED <<opKeys, opAge>>
         \/ opKeys' = {} /\ opAge' \in 0 .. KeyTtl + 1
  PROVE  HandInv' /\ Switches
  <1>1. HandType'
    BY DEF HandInv, HandType, authority
  <1>2. Brief' /\ Fresh' /\ Deliberate' /\ Switches
    BY DEF HandInv, Brief, BaseAsked, Fresh, Deliberate, Switches, authority
  <1> QED  BY <1>1, <1>2 DEF HandInv

LEMMA InvalidFrameStep ==
  ASSUME HandInv, InvalidFrame
  PROVE  HandInv' /\ Switches
  <1>1. /\ gest' = NoGesture /\ past' = "none" /\ combo' = None
        /\ UNCHANGED <<spent, authority, opVars, manual, together>>
    BY DEF InvalidFrame, BrokenGesture
  <1>2. HandType'
    BY <1>1, HandFacts DEF HandInv, HandType, authority, opVars, Pasts
  <1>3. Brief' /\ Fresh' /\ Deliberate' /\ Switches
    BY <1>1, HandFacts DEF HandInv, Brief, BaseAsked, Fresh, Deliberate, Switches, authority, opVars
  <1> QED  BY <1>2, <1>3 DEF HandInv

LEMMA HandFrameRaisesStep ==
  ASSUME HandInv, HandFrameRaises
  PROVE  HandInv' /\ Switches
  <1>1. Off /\ ResetHandInput /\ UNCHANGED <<opVars, manual, together>>
    BY DEF HandFrameRaises
  <1>2. HandType' /\ Fresh' /\ Deliberate' /\ Switches
    BY <1>1, ResetEffect DEF HandInv, HandType, Fresh, Switches, Off, opVars, Pasts
  <1>3. Brief'
    BY <1>1 DEF HandInv, Brief, BaseAsked, Off, opVars
  <1> QED  BY <1>2, <1>3 DEF HandInv

LEMMA AuthorityStep ==
  ASSUME HandInv, Started \/ ResetConfirmed \/ \E fault \in BOOLEAN : Stopped(fault)
  PROVE  HandInv' /\ Switches
  <1> USE DEF HandInv
  <1>1. UNCHANGED <<gest, combo, spent, opKeys, opAge, dirty, manual>>
    BY DEF Started, ResetConfirmed, Stopped, opVars, gestVars
  <1>2. CASE Started
    <2>1. HandType' /\ Fresh'
      BY <1>1, <1>2 DEF Started, HandType, Fresh, gestVars, opVars
    <2>2. Brief' /\ Deliberate' /\ Switches
      BY <1>1, <1>2 DEF Started, Brief, BaseAsked, Deliberate, Switches
    <2> QED  BY <2>1, <2>2
  <1>3. CASE ResetConfirmed
    <2>1. arms = "off" /\ past = "none" /\ past' = past /\ startOk' = startOk
      BY <1>3 DEF ResetConfirmed, Fresh, HandType, Pasts, gestVars
    <2>2. together' = 0 /\ 0 \in 0 .. KeyTtl
      BY <1>3, <2>1, TogetherEffect DEF ResetConfirmed
    <2>3. HandType' /\ Fresh'
      BY <1>1, <1>3, <2>1, <2>2 DEF ResetConfirmed, HandType, Fresh
    <2>4. Brief'
      BY <2>2, <2>3, HandFacts DEF Brief, HandType
    <2>5. Deliberate' /\ Switches
      BY <1>1 DEF Deliberate, Switches
    <2> QED  BY <2>3, <2>4, <2>5
  <1>4. ASSUME NEW fault \in BOOLEAN, Stopped(fault) PROVE HandInv' /\ Switches
    <2>1. HandType' /\ Fresh'
      BY <1>1, <1>4 DEF Stopped, HandType, Fresh, Aged, Pasts
    <2>2. Brief' /\ Deliberate' /\ Switches
      BY <1>1, <1>4 DEF Stopped, Brief, BaseAsked, Deliberate, Switches
    <2> QED  BY <2>1, <2>2
  <1> QED  BY <1>2, <1>3, <1>4

\* Time: the overlap grows only together with the age of the keys.
LEMMA OlderFacts ==
  ASSUME NEW cap \in Nat, NEW age \in Nat
  PROVE  /\ Older(age, cap) \in Nat /\ Older(age, cap) \in {age + 1, cap}
         /\ Older(age, cap) <= cap
         /\ age < cap => Older(age, cap) = age + 1
         /\ Older(age, cap) <= age + 1
         /\ \A b \in Nat : age <= b => Older(age, cap) <= Older(b, cap)
  BY DEF Older

LEMMA TickStep ==
  ASSUME HandInv, HiTick
  PROVE  HandInv' /\ Switches
  <1> USE DEF HandInv
  <1>1. /\ opAge' = Older(opAge, KeyTtl + 1) /\ manual' = Carries(opAge')
        /\ UNCHANGED <<authority, opKeys, dirty, past, spent>>
        /\ together' = IF arms # "off" /\ manual' \cap BaseItems # {}
                         THEN Older(together, KeyTtl + 1) ELSE 0
        /\ gest' = IF gest.since = None THEN gest ELSE [gest EXCEPT !.since = Older(@, HoldTime)]
        /\ combo' = IF combo = None THEN None ELSE Older(combo, HoldTime)
    BY DEF HiTick
  <1>2. /\ opAge \in Nat /\ together \in Nat /\ KeyTtl + 1 \in Nat /\ KeyTtl \in Nat
        /\ opAge <= KeyTtl + 1 /\ together <= KeyTtl
    BY HandFacts DEF HandType
  <1>3. opAge' \in 0 .. KeyTtl + 1 /\ opAge' \in Nat
    BY <1>1, <1>2, OlderFacts
  <1>4. together' \in 0 .. KeyTtl /\ together' <= opAge'
    <2>1. CASE arms # "off" /\ manual' \cap BaseItems # {}
      <3>1. BaseAsked /\ opAge' <= KeyTtl
        BY <1>1, <2>1 DEF Carries, BaseAsked
      <3>2. together <= opAge /\ together' = Older(together, KeyTtl + 1)
        BY <1>1, <2>1, <3>1 DEF Brief
      <3>3. together' \in Nat /\ together' <= opAge'
        <4>1. /\ Older(together, KeyTtl + 1) \in Nat
              /\ Older(together, KeyTtl + 1) <= Older(opAge, KeyTtl + 1)
          BY <1>2, <3>2, OlderFacts
        <4> QED  BY <1>1, <3>2, <4>1
      <3> QED  BY <1>2, <1>3, <3>1, <3>3
    <2>2. CASE ~(arms # "off" /\ manual' \cap BaseItems # {})
      BY <1>1, <1>2, <1>3, <2>2
    <2> QED  BY <2>1, <2>2
  <1>5. manual' \subseteq MotionItems
    BY <1>1 DEF Carries, HandType
  <1>6. /\ gest' \in Gestures /\ combo' \in Nat \cup {None}
        /\ gest'.ready = gest.ready /\ gest'.latched = gest.latched
        /\ gest'.since # None => combo' # None /\ gest'.since <= combo' /\ gest.ready
    <2>1. CASE gest.since = None
      BY <1>1, <2>1, HandFacts, OlderFacts DEF HandType
    <2>2. CASE gest.since # None
      <3>1. /\ gest.since \in Nat /\ combo \in Nat /\ gest.since <= combo /\ gest.ready
        BY <2>2 DEF HandType, Gestures, Deliberate
      <3>2. /\ Older(gest.since, HoldTime) \in Nat /\ Older(combo, HoldTime) \in Nat
            /\ Older(gest.since, HoldTime) <= Older(combo, HoldTime)
        BY <3>1, HandFacts, OlderFacts
      <3>3. gest' = [gest EXCEPT !.since = Older(gest.since, HoldTime)]
            /\ combo' = Older(combo, HoldTime)
        BY <1>1, <2>2, <3>1, HandFacts
      <3>4. gest' \in Gestures /\ gest'.since = Older(gest.since, HoldTime)
            /\ gest'.ready = gest.ready /\ gest'.latched = gest.latched
        BY <3>2, <3>3 DEF HandType, Gestures
      <3> QED  BY <3>1, <3>2, <3>3, <3>4, HandFacts
    <2> QED  BY <2>1, <2>2
  <1>7. HandType'
    BY <1>1, <1>3, <1>4, <1>5, <1>6 DEF HandType, authority
  <1>8. Brief' /\ Fresh'
    BY <1>1, <1>4 DEF Brief, Fresh, authority
  <1>9. Deliberate' /\ Switches
    BY <1>1, <1>6 DEF Deliberate, Switches
  <1> QED  BY <1>7, <1>8, <1>9

\* _gesture_buttons: latched anew only by a timer that ran to its end.
LEMMA GestureFacts ==
  ASSUME NEW g \in Gestures, NEW combined \in BOOLEAN
  PROVE  LET n == Gesture(g, combined)
         IN  /\ n \in Gestures
             /\ ~combined => n.since = None /\ n.ready /\ ~n.latched
             /\ combined => n.ready = g.ready /\ (g.latched => n.latched)
             /\ (n.latched /\ ~g.latched) => combined /\ g.ready /\ g.since # None
                                             /\ g.since >= HoldTime
             /\ (combined /\ n.since # None) => n.since = g.since \/ (n.since = 0 /\ n.ready)
  <1>1. CASE ~combined
    BY <1>1 DEF Gesture, Gestures
  <1>2. CASE combined /\ (~g.ready \/ g.latched)
    BY <1>2 DEF Gesture, Gestures
  <1>3. CASE combined /\ g.ready /\ ~g.latched /\ g.since = None
    <2>1. [g EXCEPT !.since = 0] \in Gestures /\ [g EXCEPT !.since = 0].since = 0
          /\ [g EXCEPT !.since = 0].ready = g.ready /\ [g EXCEPT !.since = 0].latched = g.latched
      BY DEF Gestures
    <2> QED  BY <1>3, <2>1 DEF Gesture
  <1>4. CASE combined /\ g.ready /\ ~g.latched /\ g.since # None
    <2>1. [g EXCEPT !.latched = TRUE] \in Gestures /\ [g EXCEPT !.latched = TRUE].since = g.since
          /\ [g EXCEPT !.latched = TRUE].ready = g.ready /\ [g EXCEPT !.latched = TRUE].latched
      BY DEF Gestures
    <2> QED  BY <1>4, <2>1 DEF Gesture
  <1> QED  BY <1>1, <1>2, <1>3, <1>4

LEMMA HandFrameStep ==
  ASSUME HandInv, NEW combined \in BOOLEAN, NEW jumped \in BOOLEAN, NEW joints \in BOOLEAN,
         HandFrame(combined, jumped, joints)
  PROVE  HandInv' /\ Switches
  <1> USE DEF HandInv
  <1> DEFINE gap == frameAge # None /\ frameAge > TrackTtl
             g0 == IF gap THEN NoGesture ELSE gest
             bodyFresh == bodyAge <= TrackTtl
             g1 == Gesture(g0, combined)
             pulse == bodyFresh /\ g1.latched /\ ~g0.latched
             before == IF gap \/ ~bodyFresh THEN "none" ELSE past
  <1>1. /\ gest' = IF bodyFresh THEN g1 ELSE NoGesture
        /\ combo' = IF ~combined \/ ~bodyFresh THEN None
                    ELSE IF combo = None \/ gap THEN 0 ELSE combo
        /\ spent' = (pulse \/ (spent /\ combined))
        /\ past' = IF arms' # "active" \/ ~joints \/ ~bodyFresh THEN "none"
                   ELSE IF before \in {"earlier", "mixed"} THEN "mixed" ELSE "this"
        /\ UNCHANGED <<opKeys, opAge, dirty, manual, together>>
    BY DEF HandFrame, opVars
  <1>2. \/ Off
        \/ arms = "off" /\ ~dirty /\ On /\ startOk' = FALSE
        \/ UNCHANGED <<arms, resetting, latch>> /\ startOk' \in BOOLEAN
    BY DEF HandFrame
  <1>3. g0 \in Gestures
    BY HandFacts DEF HandType
  <1>4. /\ g1 \in Gestures
        /\ ~combined => g1.since = None /\ g1.ready /\ ~g1.latched
        /\ combined => g1.ready = g0.ready /\ (g0.latched => g1.latched)
        /\ (g1.latched /\ ~g0.latched) => combined /\ g0.ready /\ g0.since # None
                                          /\ g0.since >= HoldTime
        /\ (combined /\ g1.since # None) => g1.since = g0.since \/ (g1.since = 0 /\ g1.ready)
    BY <1>3, GestureFacts
  <1>5. /\ gap => g0.since = None /\ ~g0.ready /\ ~g0.latched
        /\ ~gap => g0 = gest
    BY HandFacts
  <1> HIDE DEF g1, g0, gap
  <1>6. Deliberate'
    <2>1. CASE ~bodyFresh
      BY <1>1, <2>1, HandFacts DEF Deliberate
    <2>2. CASE bodyFresh /\ ~combined
      BY <1>1, <1>4, <2>2, HandFacts DEF Deliberate
    <2>3. CASE bodyFresh /\ combined
      <3>1. gest' = g1 /\ spent' = (pulse \/ spent)
            /\ combo' = IF combo = None \/ gap THEN 0 ELSE combo
        BY <1>1, <2>3
      <3>2. combo' \in Nat /\ combo' # None
        BY <3>1, HandFacts DEF HandType
      <3>3. g1.since # None => g1.since <= combo' /\ g1.ready
        <4>1. CASE g1.since = 0 /\ g1.ready
          BY <3>2, <4>1
        <4>2. CASE g1.since # None /\ g1.since = g0.since
          <5>1. ~gap /\ g0 = gest
            BY <1>5, <4>2
          <5>2. combo # None /\ gest.since <= combo /\ gest.ready
            BY <4>2, <5>1 DEF Deliberate
          <5> QED  BY <1>4, <2>3, <3>1, <4>2, <5>1, <5>2
        <4> QED  BY <1>4, <2>3, <4>1, <4>2
      <3>4. (g1.ready /\ ~g1.latched) => ~spent'
        <4>1. SUFFICES ASSUME g1.ready, ~g1.latched PROVE ~spent'
          OBVIOUS
        <4>2. g0.ready /\ ~g0.latched
          BY <1>4, <2>3, <4>1
        <4>3. ~spent
          BY <1>5, <4>2 DEF Deliberate
        <4> QED  BY <3>1, <4>1, <4>3
      <3> QED  BY <3>1, <3>2, <3>3, <3>4 DEF Deliberate
    <2> QED  BY <2>1, <2>2, <2>3
  <1>7. Switches
    <2>1. SUFFICES ASSUME gest'.latched, ~gest.latched
                   PROVE  combo # None /\ combo >= HoldTime /\ ~spent
      BY DEF Switches
    <2>2. bodyFresh /\ gest' = g1
      BY <1>1, <2>1, HandFacts
    <2>3. ~g0.latched
      BY <1>5, <2>1
    <2>4. g0.since # None /\ g0.since >= HoldTime /\ g0.ready
      BY <1>4, <2>1, <2>2, <2>3
    <2>5. g0 = gest
      BY <1>5, <2>4
    <2>6. combo # None /\ gest.since <= combo /\ ~spent
      BY <2>1, <2>4, <2>5 DEF Deliberate
    <2>7. combo \in Nat /\ gest.since \in Nat /\ HoldTime \in Nat
      BY <2>4, <2>5, <2>6, HandFacts DEF HandType, Gestures
    <2> QED  BY <2>4, <2>5, <2>6, <2>7
  <1>8. /\ arms' \in {"off", "starting", "active"} /\ startOk' \in BOOLEAN
        /\ latch' \in BOOLEAN /\ resetting' \in BOOLEAN
        /\ resetting' => latch'
        /\ latch' => arms' = "off"
        /\ arms' = "active" => arms = "active"
        /\ (arms' # "off" /\ arms = "off") => ~dirty
    <2>1. CASE Off
      BY <2>1 DEF Off, HandType, Fresh
    <2>2. CASE arms = "off" /\ ~dirty /\ On /\ startOk' = FALSE
      BY <2>2, OnEffect DEF HandType
    <2>3. CASE UNCHANGED <<arms, resetting, latch>> /\ startOk' \in BOOLEAN
      BY <2>3 DEF HandType, Fresh
    <2> QED  BY <1>2, <2>1, <2>2, <2>3
  <1>9. past' \in {"none", "this"} /\ (past' = "this" => arms' = "active")
    <2>1. CASE arms' = "active"
      BY <1>1, <1>8, <2>1 DEF HandType, Fresh, Pasts
    <2>2. CASE arms' # "active"
      BY <1>1, <2>2
    <2> QED  BY <2>1, <2>2
  <1>10. gest' \in Gestures /\ combo' \in Nat \cup {None} /\ spent' \in BOOLEAN
    BY <1>1, <1>4, HandFacts DEF HandType
  <1>11. HandType' /\ Fresh'
    BY <1>1, <1>8, <1>9, <1>10 DEF HandType, Fresh, Pasts
  <1>12. Brief'
    BY <1>1, <1>8 DEF Brief, BaseAsked
  <1> QED  BY <1>6, <1>7, <1>11, <1>12

-----------------------------------------------------------------------------
(* The keyboard and the hands together.                                     *)

LEMMA HiKeeps ==
  ASSUME HandInv, HiStep
  PROVE  HandInv' /\ Switches
  <1>1. CASE MalformedInput \/ Heartbeat \/ BodyFrame \/ GateReports
    <2>1. Carries(opAge) \subseteq MotionItems /\ KeyTtl + 1 \in 0 .. KeyTtl + 1
      BY HandFacts DEF Carries, HandInv, HandType
    <2>2. /\ UNCHANGED <<authority, gest, combo, spent, past, together, dirty>>
          /\ manual' \subseteq MotionItems
          /\ \/ UNCHANGED <<opKeys, opAge>>
             \/ opKeys' = {} /\ opAge' = KeyTtl + 1
      BY <1>1, <2>1 DEF MalformedInput, Heartbeat, BodyFrame, GateReports, gestVars, opVars,
                        HandInv, HandType
    <2> QED  BY <2>1, <2>2, ElsewhereStep
  <1> QED  BY <1>1, ServiceStep, InvalidFrameStep, HandFrameRaisesStep, HandFrameStep, AuthorityStep, TickStep DEF HiStep

LEMMA HandIdle ==
  ASSUME HandInv, UNCHANGED hiVars
  PROVE  HandInv' /\ Switches
  BY ElsewhereStep DEF hiVars, opVars, gestVars, HandInv, HandType

LEMMA KeyIdle ==
  ASSUME KeyInv, UNCHANGED keyVars
  PROVE  KeyInv' /\ ~(Len(wire') > Len(wire))
  <1>1. Len(wire) \in Nat
    BY LenProperties DEF KeyInv
  <1> QED  BY <1>1 DEF keyVars, KeyInv, LoopCReleased

Presses == Len(wire') > Len(wire) => wire'[Len(wire')].keys \cap stale' = {}

LEMMA StationStep ==
  KeyInv /\ HandInv /\ [HandNext]_<<keyVars, hiVars>> =>
    KeyInv' /\ HandInv' /\ Presses /\ Switches
  <1> SUFFICES ASSUME KeyInv, HandInv, [HandNext]_<<keyVars, hiVars>>
               PROVE  KeyInv' /\ HandInv' /\ Presses /\ Switches
    OBVIOUS
  <1>1. CASE LoopStep /\ UNCHANGED hiVars
    BY <1>1, LoopStepKeeps, HandIdle DEF Presses
  <1>2. CASE Deliver
    <2>1. KeyInv' /\ Len(wire') < Len(wire) /\ Head(wire) \in Messages
      BY <1>2, DeliverKeeps DEF Deliver
    <2>2. HandInv' /\ Switches
      BY <1>2, <2>1, OperatorStep DEF Deliver
    <2>3. Len(wire') \in Nat /\ Len(wire) \in Nat
      BY <2>1, LenProperties DEF KeyInv
    <2> QED  BY <2>1, <2>2, <2>3 DEF Presses
  <1>3. CASE HiStep /\ UNCHANGED keyVars
    BY <1>3, HiKeeps, KeyIdle DEF Presses
  <1>4. CASE UNCHANGED <<keyVars, hiVars>>
    BY <1>4, HandIdle, KeyIdle DEF Presses
  <1> QED  BY <1>1, <1>2, <1>3, <1>4 DEF HandNext

\* The inductive invariant of the keyboard and of what HandInput makes of it.
THEOREM InputInductive == HandSpec => [](KeyInv /\ HandInv)
  BY KeyStart, HandStart, StationStep, PTL DEF HandSpec

\* Nothing starts to move that was not asked for by itself (loop_operator.py and
\* _operator_input, on_hand_move, _heartbeat of the hands publisher): a motion key
\* that was down before an interruption stays without effect, C is never left
\* down in Loop, base keys and armed arms are commanded together for no longer
\* than one message lives, the gesture switches only after its whole time, and no
\* finger goes on from an earlier session.
THEOREM MotionStaysAsked == HandSpec => MotionIsAsked
  <1>1. HandSpec => [](KeyInv /\ HandInv)
    BY InputInductive
  <1>2. KeyInv /\ HandInv => OperatorInputSafe
    <2>1. HandInv => together <= KeyTtl
      BY HandFacts DEF HandInv, HandType
    <2> QED  BY <2>1 DEF KeyInv, HandInv, Fresh, OperatorInputSafe, BaseWithArmsIsBrief,
                         FingersStartAfresh
  <1>3. KeyInv /\ HandInv /\ [HandNext]_<<keyVars, hiVars>> =>
          [Len(wire') > Len(wire) => wire'[Len(wire')].keys \cap stale' = {}]_keyVars
    BY StationStep DEF Presses
  <1>4. KeyInv /\ HandInv /\ [HandNext]_<<keyVars, hiVars>> =>
          [(gest'.latched /\ ~gest.latched) => combo # None /\ combo >= HoldTime /\ ~spent]_hiVars
    BY StationStep DEF Switches
  <1> QED  BY <1>1, <1>2, <1>3, <1>4, PTL
           DEF HandSpec, MotionIsAsked, PressStartsMotion, GestureIsDeliberate

-----------------------------------------------------------------------------
\* Every variable of the session coordinator, the keyboard of Loop, the hands and
\* the ready pose keeps its type, with what the types of KeyTypeOK, HandTypeOK and
\* ReadyTypeOK relate: a message with motion or toggle says that Loop is focused, a
\* latched fault has the arms off, only accepted goals are cancelled.
THEOREM StationTypes == Spec /\ HandSpec /\ ReadySpec => []StationTypeOK
  <1>1. KeyInv => KeyTypeOK
    <2> SUFFICES ASSUME KeyInv PROVE KeyTypeOK
      OBVIOUS
    <2>1. \A i \in 1 .. Len(wire) : wire[i] \in Sent
      BY LenProperties, ElementOfSeq DEF KeyInv
    <2> QED  BY <2>1 DEF KeyInv, KeyTypeOK, Sent, Messages
  <1>2. HandInv => HandTypeOK
    BY DEF HandInv, HandType, Fresh, HandTypeOK, Pasts
  <1>3. ReadyInv => ReadyTypeOK
    BY DEF ReadyInv, ReadyType, Heard, ReadyTypeOK
  <1>4. HandSpec => [](KeyInv /\ HandInv)
    BY InputInductive
  <1>5. ReadySpec => []ReadyInv
    BY ReadyStart, ReadyStep, PTL DEF ReadySpec
  <1>6. Spec => []TypeOK
    BY TypeCorrect
  <1>7. TypeOK /\ KeyTypeOK /\ HandTypeOK /\ ReadyTypeOK => StationTypeOK
    BY DEF StationTypeOK
  <1> QED  BY <1>1, <1>2, <1>3, <1>4, <1>5, <1>6, <1>7, PTL
=============================================================================
