--------------------------- MODULE PublisherProofs ---------------------------
(***************************************************************************)
(* Theorems about the headset publishers, for every value of their         *)
(* constants: what the SG2 does when it loses a source or is switched off, *)
(* what switching the SH5 on and off leaves behind, how far lift and arms  *)
(* may go, what the buttons and switches of the controllers mean, how the  *)
(* fingers follow them, when the XR session starts, and what the relay     *)
(* passes on.                                                              *)
(***************************************************************************)
EXTENDS MCPublishers, FiniteSetTheorems, TLAPS

-----------------------------------------------------------------------------
(* Sg2Publisher.                                                           *)

Both == {"body", "controllers"}

SgType ==
  /\ armsOn \in BOOLEAN /\ sending \in BOOLEAN /\ timerDue \in BOOLEAN
  /\ joystick \in BOOLEAN
  /\ ages \in [Sources -> Nat \cup {None}]
  /\ late \in Nat /\ new \subseteq Both /\ pending \subseteq Both

\* Between the timer's run and the end of its period nothing is too old.
TimerInTime ==
  armsOn => \A s \in Sources :
    ages[s] \in 0 .. Timeout + 1 /\ (~timerDue => ages[s] \in 0 .. Timeout)

\* After the arms were switched off the one pose under way is still to come or
\* is the one that was late.
LateInv == late <= 1 /\ ((~armsOn /\ sending) => late = 0)

\* What waits for a frame came after the last one; a frame has both parts; and
\* nothing waits while the arms are off.
FrameInv ==
  /\ pending \subseteq new
  /\ todo # <<>> => new = Both
  /\ sending => todo # <<>>
  /\ ~armsOn => pending = {}

SgInv == SgType /\ TimerInTime /\ LateInv /\ FrameInv /\ HeadModeStandsBase

LEMMA SourceFacts == \A s \in Sources : s = "left" \/ s = "right" \/ s = "body"
  BY DEF Sources, Arms

LEMMA SgStart == SgInit => SgInv
  <1> SUFFICES ASSUME SgInit PROVE SgInv
    OBVIOUS
  <1>1. SgType
    BY DEF SgInit, SgType
  <1>2. TimerInTime /\ LateInv /\ FrameInv /\ HeadModeStandsBase
    BY DEF SgInit, TimerInTime, LateInv, FrameInv, HeadModeStandsBase
  <1> QED  BY <1>1, <1>2 DEF SgInv

LEMMA AgesFacts ==
  ASSUME SgInv, NEW seen
  PROVE  /\ AgesAfter(seen) \in [Sources -> Nat \cup {None}]
         /\ TimerInTime /\ armsOn =>
              \A s \in Sources :
                /\ AgesAfter(seen)[s] \in 0 .. Timeout + 1
                /\ ~timerDue => AgesAfter(seen)[s] \in 0 .. Timeout
         /\ Fresh(AgesAfter(seen)) => \A s \in Sources : AgesAfter(seen)[s] \in 0 .. Timeout
  <1>1. AgesAfter(seen) = [s \in Sources |-> IF s \in seen THEN 0 ELSE ages[s]]
    BY DEF AgesAfter
  <1> QED  BY <1>1, Sg2Assumption DEF SgInv, SgType, TimerInTime, Fresh

LEMMA SgTickStep ==
  ASSUME SgInv, SgTick
  PROVE  SgInv'
  <1>1. /\ ~timerDue /\ timerDue' = TRUE
        /\ ages' = [s \in Sources |-> IF ages[s] \in 0 .. Timeout + 1 THEN ages[s] + 1 ELSE ages[s]]
        /\ UNCHANGED <<armsOn, pending, todo, sending, late, new, joystick, twist>>
    BY DEF SgTick
  <1>2. SgType'
    BY <1>1, Sg2Assumption DEF SgInv, SgType
  <1>3. TimerInTime'
    BY <1>1, Sg2Assumption DEF SgInv, TimerInTime
  <1>4. LateInv' /\ FrameInv' /\ HeadModeStandsBase'
    BY <1>1 DEF SgInv, LateInv, FrameInv, HeadModeStandsBase
  <1> QED  BY <1>2, <1>3, <1>4 DEF SgInv

LEMMA SgTimerStep ==
  ASSUME SgInv, TrackingTimer
  PROVE  SgInv'
  <1>1. /\ timerDue' = FALSE
        /\ UNCHANGED <<ages, todo, sending, new, joystick, twist>>
    BY DEF TrackingTimer, stickVars
  <1>2. CASE Fresh(ages)
    <2>1. UNCHANGED <<armsOn, pending, late>>
      BY <1>2 DEF TrackingTimer
    <2>2. TimerInTime'
      BY <1>1, <1>2, <2>1, Sg2Assumption DEF TimerInTime, Fresh
    <2> QED  BY <1>1, <2>1, <2>2 DEF SgInv, SgType, LateInv, FrameInv, HeadModeStandsBase
  <1>3. CASE ~Fresh(ages)
    <2>1. /\ armsOn' = FALSE /\ pending' = IF armsOn THEN {} ELSE pending
          /\ late' = IF armsOn THEN 0 ELSE late
      BY <1>3 DEF TrackingTimer
    <2>2. SgType' /\ TimerInTime'
      BY <1>1, <2>1 DEF SgInv, SgType, TimerInTime
    <2>3. LateInv'
      BY <1>1, <2>1 DEF SgInv, LateInv
    <2>4. FrameInv' /\ HeadModeStandsBase'
      BY <1>1, <2>1 DEF SgInv, FrameInv, HeadModeStandsBase
    <2> QED  BY <2>2, <2>3, <2>4 DEF SgInv
  <1> QED  BY <1>2, <1>3

\* The sticks: entering the mode in which the left one moves the head stops
\* the base.
LEMMA StickStep ==
  ASSUME SgInv, NEW l, NEW r, Thumbsticks(l, r)
  PROVE  joystick' \in BOOLEAN /\ HeadModeStandsBase'
  BY DEF SgInv, SgType, Thumbsticks, ModeAfter, TwistAfter, HeadModeStandsBase

LEMMA FrameFacts ==
  ASSUME NEW on \in BOOLEAN, NEW at, NEW waiting \in SUBSET Both, StartFrame(on, at, waiting)
  PROVE  /\ pending' \subseteq waiting /\ (~on => pending' = {})
         /\ todo' # <<>> => waiting = Both
  BY DEF StartFrame, CanPublish, Both

\* The outcome of the buttons.
LEMMA ButtonFacts ==
  ASSUME SgInv, NEW l, NEW r, NEW at, NEW on, on = OnAfter(l, r, at)
  PROVE  /\ on \in BOOLEAN
         /\ on => Fresh(at)
         /\ (armsOn /\ ~on) => Stops(l, r, at)
         /\ (~armsOn /\ on) => Starts(l, r, at)
         /\ Starts(l, r, at) => on
         /\ Starts(l, r, at) => (armsOn => ~Stops(l, r, at))
  BY DEF SgInv, SgType, OnAfter, Starts, MayStart, Stops

LEMMA ControllerStep ==
  ASSUME SgInv, NEW l, NEW r, ControllerMove(l, r)
  PROVE  SgInv'
  <1> DEFINE seen == Seen(l, r)
             at == AgesAfter(seen)
             starts == Starts(l, r, at)
             stops == Stops(l, r, at)
             waiting == IF stops THEN {} ELSE pending
             heard == IF seen # {} THEN {"controllers"} ELSE {}
  <1>1. /\ todo = <<>> /\ Thumbsticks(l, r) /\ ages' = at /\ armsOn' = OnAfter(l, r, at)
        /\ late' = IF stops THEN 0 ELSE late
        /\ new' = (IF starts /\ ~armsOn THEN {} ELSE new) \cup heard
        /\ UNCHANGED <<sending, timerDue>>
    BY DEF ControllerMove, VuerFree
  <1>2. IF seen # {} THEN StartFrame(armsOn', at, waiting \cup {"controllers"})
        ELSE pending' = waiting /\ todo' = todo
    BY DEF ControllerMove
  <1> HIDE DEF seen
  <1>3. at \in [Sources -> Nat \cup {None}]
    BY AgesFacts
  <1>4. /\ armsOn' \in BOOLEAN /\ (armsOn' => Fresh(at))
        /\ (armsOn /\ ~armsOn') => stops
        /\ (~armsOn /\ armsOn') => starts
        /\ starts => armsOn'
    BY <1>1, ButtonFacts
  <1>5. waiting \subseteq pending /\ waiting \cup heard \in SUBSET Both
    BY DEF SgInv, SgType, Both
  <1>6. /\ pending' \subseteq waiting \cup heard
        /\ todo' # <<>> => waiting \cup heard = Both
        /\ ~armsOn' => pending' = {} \/ pending' = waiting
    <2>1. CASE seen # {}
      <3>1. heard = {"controllers"} /\ StartFrame(armsOn', at, waiting \cup heard)
        BY <1>2, <2>1
      <3> HIDE DEF heard, waiting, at
      <3> QED  BY <1>4, <1>5, <3>1, FrameFacts
    <2>2. CASE seen = {}
      BY <1>1, <1>2, <2>2
    <2> QED  BY <2>1, <2>2
  <1>7. joystick' \in BOOLEAN /\ HeadModeStandsBase'
    BY <1>1, StickStep
  <1>8. SgType'
    BY <1>1, <1>3, <1>4, <1>5, <1>6, <1>7 DEF SgInv, SgType, Both
  <1>9. TimerInTime'
    <2>1. ages' = at /\ timerDue' = timerDue
      BY <1>1
    <2>2. Fresh(at) => \A s \in Sources : at[s] \in 0 .. Timeout
      BY AgesFacts
    <2> HIDE DEF at
    <2> QED  BY <1>4, <2>1, <2>2, Sg2Assumption DEF TimerInTime
  <1>10. LateInv'
    BY <1>1, <1>4 DEF SgInv, FrameInv, LateInv
  <1>11. FrameInv'
    <2>1. waiting \subseteq (IF starts /\ ~armsOn THEN {} ELSE new)
      BY DEF SgInv, FrameInv
    <2>2. pending' \subseteq new' /\ new' \subseteq Both
      BY <1>1, <1>5, <1>6, <1>8, <2>1 DEF SgType
    <2>3. todo' # <<>> => new' = Both
      BY <1>1, <1>6, <2>1, <2>2
    <2>4. ~armsOn' => waiting = {}
      BY <1>4 DEF SgInv, FrameInv
    <2>5. ~sending
      BY <1>1 DEF SgInv, FrameInv
    <2> QED  BY <1>1, <1>6, <2>2, <2>3, <2>4, <2>5 DEF FrameInv
  <1> QED  BY <1>7, <1>8, <1>9, <1>10, <1>11 DEF SgInv

LEMMA BodyStep ==
  ASSUME SgInv, NEW missing, SgBodyMove(missing)
  PROVE  SgInv'
  <1>1. /\ todo = <<>>
        /\ UNCHANGED <<armsOn, sending, timerDue, late, joystick, twist>>
    BY DEF SgBodyMove, VuerFree, stickVars
  <1>2. ~sending
    BY <1>1 DEF SgInv, FrameInv
  <1>3. CASE missing # {}
    <2>1. UNCHANGED <<ages, pending, todo, new>>
      BY <1>3 DEF SgBodyMove
    <2> QED  BY <1>1, <2>1 DEF SgInv, SgType, TimerInTime, LateInv, FrameInv, HeadModeStandsBase
  <1>4. CASE missing = {}
    <2>1. /\ ages' = AgesAfter({"body"}) /\ new' = new \cup {"body"}
          /\ StartFrame(armsOn, ages', pending \cup {"body"})
      BY <1>4 DEF SgBodyMove
    <2>2. pending \cup {"body"} \in SUBSET Both /\ armsOn \in BOOLEAN
      BY DEF SgInv, SgType, Both
    <2>3. /\ pending' \subseteq pending \cup {"body"} /\ (~armsOn => pending' = {})
          /\ todo' # <<>> => pending \cup {"body"} = Both
      BY <2>1, <2>2, FrameFacts
    <2>4. SgType'
      BY <1>1, <2>1, <2>2, <2>3, AgesFacts DEF SgInv, SgType, Both
    <2>5. TimerInTime'
      BY <1>1, <2>1, AgesFacts DEF SgInv, TimerInTime
    <2>6. LateInv' /\ HeadModeStandsBase'
      BY <1>1 DEF SgInv, LateInv, HeadModeStandsBase
    <2>7. FrameInv'
      BY <1>1, <1>2, <2>1, <2>2, <2>3, <2>4 DEF SgInv, SgType, FrameInv
    <2> QED  BY <2>4, <2>5, <2>6, <2>7 DEF SgInv
  <1> QED  BY <1>3, <1>4

LEMMA CheckStep ==
  ASSUME SgInv, CheckPose
  PROVE  SgInv'
  <1>1. /\ todo # <<>> /\ ~sending
        /\ UNCHANGED <<armsOn, ages, timerDue, late, joystick, twist>>
    BY DEF CheckPose, stickVars
  <1>2. \/ \E remaining : FrameGoesOn(remaining)
        \/ /\ armsOn /\ sending' = TRUE
           /\ UNCHANGED <<todo, pending, new>>
    BY DEF CheckPose, PoseSkipped, CanPublish
  <1>3. TimerInTime' /\ HeadModeStandsBase'
    BY <1>1 DEF SgInv, TimerInTime, HeadModeStandsBase
  <1>4. ASSUME NEW remaining, FrameGoesOn(remaining) PROVE SgInv'
    <2>1. SgType' /\ LateInv' /\ FrameInv'
      BY <1>1, <1>4 DEF SgInv, SgType, LateInv, FrameInv, FrameGoesOn
    <2> QED  BY <1>3, <2>1 DEF SgInv
  <1>5. CASE armsOn /\ sending' = TRUE /\ UNCHANGED <<todo, pending, new>>
    <2>1. SgType' /\ LateInv' /\ FrameInv'
      BY <1>1, <1>5 DEF SgInv, SgType, LateInv, FrameInv
    <2> QED  BY <1>3, <2>1 DEF SgInv
  <1> QED  BY <1>2, <1>4, <1>5

LEMMA SendStep ==
  ASSUME SgInv, SendPose
  PROVE  SgInv'
  <1>1. /\ sending /\ late' = (IF armsOn THEN late ELSE late + 1)
        /\ FrameGoesOn(Tail(todo))
        /\ UNCHANGED <<armsOn, ages, timerDue, joystick, twist>>
    BY DEF SendPose, stickVars
  <1>2. TimerInTime' /\ HeadModeStandsBase'
    BY <1>1 DEF SgInv, TimerInTime, HeadModeStandsBase
  <1>3. SgType' /\ FrameInv'
    <2>1. ASSUME NEW remaining, FrameGoesOn(remaining)
          PROVE  /\ sending' = FALSE /\ pending' \subseteq pending /\ pending' \subseteq new'
                 /\ new' \subseteq new /\ (todo' # <<>> => new' = new)
      BY <2>1 DEF FrameGoesOn, SgInv, FrameInv
    <2>2. /\ sending' = FALSE /\ pending' \subseteq pending /\ pending' \subseteq new'
          /\ new' \subseteq new /\ (todo' # <<>> => new' = new)
      BY <1>1, <2>1
    <2>3. late' \in Nat
      BY <1>1 DEF SgInv, SgType
    <2>4. SgType'
      BY <1>1, <2>2, <2>3 DEF SgInv, SgType
    <2>5. FrameInv'
      BY <1>1, <2>2 DEF SgInv, FrameInv
    <2> QED  BY <2>4, <2>5
  <1>4. LateInv'
    BY <1>1 DEF SgInv, SgType, LateInv, FrameGoesOn
  <1> QED  BY <1>2, <1>3, <1>4 DEF SgInv

LEMMA SgStep ==
  ASSUME SgInv, [SgNext(Controllers)]_sgVars PROVE SgInv'
  <1>1. CASE UNCHANGED sgVars
    BY <1>1 DEF sgVars, joyVars, stickVars, SgInv, SgType, TimerInTime, LateInv, FrameInv,
                HeadModeStandsBase
  <1>2. ASSUME NEW h, LiftMeasured(h) PROVE SgInv'
    BY <1>2 DEF LiftMeasured, joyVars, SgInv, SgType, TimerInTime, LateInv, FrameInv,
                HeadModeStandsBase
  <1>3. CASE SgNext(Controllers)
    BY <1>2, <1>3, SgTickStep, SgTimerStep, ControllerStep, BodyStep, CheckStep, SendStep
    DEF SgNext
  <1> QED  BY <1>1, <1>3

\* A source that falls silent stops the SG2's arms within the timeout and one
\* period of its timer; at most the one pose that had passed its checks is sent
\* afterwards; a frame is made of what came since the last; and the base stands
\* while the sticks move the head.
THEOREM LossStops == SgSpec => []LossStopsArms
  <1>1. SgInv => LossStopsArms
    BY DEF SgInv, LossStopsArms, LossDisarms, OneLatePose, FramesAreNew, HeadModeStandsBase,
           TimerInTime, LateInv, FrameInv, Both
  <1> QED  BY <1>1, SgStart, SgStep, PTL DEF SgSpec

\* The arms wait to be started only after X and A were up, and only while no
\* source was lost since.
Waits ==
  startArmed => letGo /\ \A s \in Sources :
    ages[s] \in 0 .. Timeout + 1 /\ (~timerDue => ages[s] \in 0 .. Timeout)

LEMMA ReleaseInv ==
  ASSUME SgInv, startArmed \in BOOLEAN, letGo \in BOOLEAN, Waits, [SgNext(Controllers)]_sgVars
  PROVE  /\ startArmed' \in BOOLEAN /\ letGo' \in BOOLEAN /\ Waits'
         /\ (~armsOn /\ armsOn') => letGo
  <1>1. CASE SgTick
    <2>1. /\ ~timerDue /\ timerDue' = TRUE
          /\ ages' = [s \in Sources |-> IF ages[s] \in 0 .. Timeout + 1 THEN ages[s] + 1 ELSE ages[s]]
          /\ letGo' = (letGo /\ \A s \in Sources : ages'[s] # Timeout + 2)
          /\ UNCHANGED <<armsOn, startArmed>>
      BY <1>1 DEF SgTick
    <2> QED  BY <2>1, Sg2Assumption DEF Waits
  <1>2. CASE TrackingTimer
    <2>1. timerDue' = FALSE /\ UNCHANGED <<ages, letGo>>
      BY <1>2 DEF TrackingTimer
    <2>2. CASE Fresh(ages)
      <3>1. UNCHANGED <<startArmed, armsOn>>
        BY <1>2, <2>2 DEF TrackingTimer
      <3> QED  BY <2>1, <2>2, <3>1, Sg2Assumption DEF Waits, Fresh
    <2>3. CASE ~Fresh(ages)
      <3>1. startArmed' = FALSE /\ armsOn' = FALSE
        BY <1>2, <2>3 DEF TrackingTimer
      <3> QED  BY <2>1, <3>1 DEF Waits
    <2> QED  BY <2>2, <2>3
  <1>3. CASE \E l, r \in Controllers : ControllerMove(l, r)
    <2>1. PICK l \in Controllers, r \in Controllers : ControllerMove(l, r)
      BY <1>3
    <2> DEFINE at == AgesAfter(Seen(l, r))
    <2>2. /\ ages' = at /\ armsOn' = OnAfter(l, r, at)
          /\ startArmed' = (MayStart(l, r, at) /\ ~BothB(l, r) /\ ~Starts(l, r, at))
          /\ letGo' = (IF Starts(l, r, at) \/ BothB(l, r) THEN FALSE ELSE letGo \/ Hands(l, r))
          /\ UNCHANGED timerDue
      BY <2>1 DEF ControllerMove
    <2>3. Fresh(at) => \A s \in Sources : at[s] \in 0 .. Timeout
      BY AgesFacts
    <2> HIDE DEF at
    <2>4. BothA(l, r) => ~Hands(l, r)
      BY DEF BothA, Hands
    <2>5. MayStart(l, r, at) => Fresh(at) /\ (startArmed \/ Hands(l, r))
      BY DEF MayStart
    <2>6. Starts(l, r, at) => MayStart(l, r, at) /\ BothA(l, r)
      BY DEF Starts
    <2>7. (~armsOn /\ armsOn') => Starts(l, r, at)
      BY <2>2 DEF OnAfter
    <2>8. MayStart(l, r, at) \in BOOLEAN /\ BothB(l, r) \in BOOLEAN /\ Hands(l, r) \in BOOLEAN
      BY DEF MayStart, BothB, Hands, Fresh
    <2>9. startArmed' \in BOOLEAN /\ letGo' \in BOOLEAN
      BY <2>2, <2>8
    <2>10. startArmed' => letGo' /\ Fresh(at)
      BY <2>2, <2>5 DEF Waits
    <2>11. Waits'
      BY <2>2, <2>3, <2>10, Sg2Assumption DEF Waits
    <2>12. (~armsOn /\ armsOn') => letGo
      BY <2>4, <2>5, <2>6, <2>7 DEF Waits
    <2> QED  BY <2>9, <2>11, <2>12
  <1>4. CASE \E missing \in Lost : SgBodyMove(missing)
    <2>1. PICK missing \in Lost : SgBodyMove(missing)
      BY <1>4
    <2>2. UNCHANGED <<armsOn, startArmed, letGo, timerDue>>
          /\ (ages' = ages \/ ages' = AgesAfter({"body"}))
      BY <2>1 DEF SgBodyMove
    <2>3. \A s \in Sources : ages'[s] = ages[s] \/ ages'[s] = 0
      BY <2>2 DEF AgesAfter
    <2> QED  BY <2>2, <2>3, Sg2Assumption DEF Waits
  <1>5. CASE \/ CheckPose \/ SendPose
             \/ (\E h \in LiftHeights : LiftMeasured(h)) \/ UNCHANGED sgVars
    <2>1. UNCHANGED <<armsOn, startArmed, letGo, timerDue, ages>>
      BY <1>5 DEF CheckPose, SendPose, LiftMeasured, joyVars, sgVars
    <2> QED  BY <2>1 DEF Waits
  <1> QED  BY <1>1, <1>2, <1>3, <1>4, <1>5 DEF SgNext

\* "requires releasing X/A before starting again" (vr_publisher_sg2.py): the arms
\* start only after both controllers were seen with the buttons up since the last
\* stop, start and loss of tracking, for all controllers and every timeout.
THEOREM ReleaseComesFirst == SgSpec => StartAfterRelease
  <1> DEFINE Inv == SgInv /\ startArmed \in BOOLEAN /\ letGo \in BOOLEAN /\ Waits
  <1>1. SgInit => Inv
    BY SgStart DEF SgInit, Waits
  <1>2. Inv /\ [SgNext(Controllers)]_sgVars => Inv'
    BY SgStep, ReleaseInv
  <1>3. Inv /\ [SgNext(Controllers)]_sgVars => [(~armsOn /\ armsOn') => letGo]_sgVars
    BY ReleaseInv
  <1> QED  BY <1>1, <1>2, <1>3, PTL DEF SgSpec, StartAfterRelease

-----------------------------------------------------------------------------
(* VrPublisher.                                                            *)

Points == {"idle", "read", "write", "test", "else", "reset", "rest", "zero", "tell"}
Calls == [at : Points, to : BOOLEAN, was : BOOLEAN]
BodyStages == {"idle", "capture", "place", "relate", "hands", "drive"}
Bodies == [at : BodyStages, height : Int \cup {None}, place : Int \cup {None}, apart : BOOLEAN]
Histories == [height : Heights \cup {None}, place : Places \cup {None}, now : BOOLEAN,
              over : {"none", "event", "switch"}, torn : BOOLEAN, raced : BOOLEAN, late : Nat]

VrType ==
  /\ enabled \in BOOLEAN /\ fingers \in BOOLEAN /\ told \in BOOLEAN \cup {None}
  /\ call \in [Threads -> Calls]
  /\ body \in Bodies
  /\ body.at \in {"capture", "place", "relate"} => body.height \in Heights /\ body.place \in Places
  /\ body.at = "hands" => body.height \in LiftRange /\ body.place \in Int
  /\ body.at = "drive" => body.place \in Int
  /\ camHeight \in Heights \cup {None} /\ camPlace \in Places \cup {None}
  /\ history \in Histories

Busy(t) == call[t].at # "idle"
Written(t) == call[t].at \in {"test", "else", "reset", "rest", "zero", "tell"}
\* the thread has raised the flag, or believes so, and its reset is not through
Resetting(t) == call[t].to /\ ~call[t].was /\ call[t].at \in {"test", "reset", "rest"}
Clearing(t) == Resetting(t) /\ call[t].at # "rest"
Zeroing(t) == call[t].at \in {"test", "else", "zero"}

\* The vuer thread runs one handler at a time, a switch on both threads at once is
\* known as one, and who resets has seen the edge.
Turns ==
  /\ Busy("vuer") => body.at = "idle"
  /\ Busy("ros") /\ Busy("vuer") => history.raced
  /\ \A t \in Threads : call[t].at \in {"reset", "rest"} => Resetting(t)

\* A switch that runs alone has read the flag as it is, has written what it says,
\* and what was said last is what is so.
Announced ==
  ~history.raced =>
    /\ \A t \in Threads : /\ call[t].at = "write" => call[t].was = enabled
                          /\ Written(t) => call[t].to = enabled
    /\ (~Busy("ros") /\ ~Busy("vuer") /\ told # None) => told = enabled

\* The references are the history's frame's, but for a place that is just being
\* captured.
OneFrame ==
  camHeight # None =>
    /\ camHeight = history.height
    /\ body.at = "place" => body.place = history.place
    /\ (body.at # "place" /\ camPlace # None) => camPlace = history.place

\* A missing place has its cause; between the blocks of a reset it is still to come.
TornRefs ==
  camHeight # None =>
    /\ ~history.torn => call["ros"].at # "rest" /\ (camPlace # None \/ body.at = "place")
    /\ call["vuer"].at # "rest"

\* References from before the flag rose are about to be cleared, unless both threads
\* switched at once, and an event that began later uses none of them.
OldRefs ==
  (camHeight # None /\ ~history.now /\ history.over # "switch") =>
    /\ enabled => \E t \in Threads : Clearing(t)
    /\ body.at \in {"capture", "place", "relate"} => ~body.apart

\* After an enabling that overlaps with nothing, nothing resets under an event, and
\* until the first frame is captured nothing is left from before.
FreshRefs ==
  history.over = "none" =>
    /\ enabled => \A t \in Threads : call[t].at = "write" => call[t].was
    /\ body.at # "idle" \/ history.now => \A t \in Threads : ~Resetting(t)
    /\ history.now => camHeight # None
    /\ (enabled \/ body.at # "idle") /\ (\A t \in Threads : ~Clearing(t))
         => ~history.torn /\ (history.now \/ (camHeight = None /\ ~fingers))
    /\ body.at \notin {"idle", "capture"} => history.now
    /\ body.at = "place" => camHeight # None /\ ~fingers
    /\ body.at = "relate" => camHeight # None /\ camPlace # None

\* With the flag cleared the zero is sent or still to come, unless a Twist came late.
Stands ==
  /\ history.late = 0 \/ (history.late = 1 /\ body.at = "idle" /\ ~enabled)
  /\ (~enabled /\ history.late = 0 /\ cmdVel # 0) => \E t \in Threads : Zeroing(t)

VrInv == VrType /\ Turns /\ Announced /\ OneFrame /\ TornRefs /\ OldRefs /\ FreshRefs /\ Stands

LEMMA VrFacts ==
  /\ None \notin Heights /\ None \notin Places
  /\ Heights \subseteq Int /\ Places \subseteq Int /\ LiftRange \subseteq Int
  /\ \A h, c \in Heights : h - c \in LiftRange
  /\ "ros" \in Threads /\ "vuer" \in Threads
  BY VrAssumption DEF LiftRange, Threads

LEMMA VrStart == VrInit => VrInv
  <1> SUFFICES ASSUME VrInit PROVE VrInv
    OBVIOUS
  <1>1. call \in [Threads -> Calls] /\ \A t \in Threads : call[t].at = "idle"
    BY DEF VrInit, IdleCall, Calls, Points
  <1>2. body \in Bodies /\ body.at = "idle"
    BY DEF VrInit, IdleBody, Bodies, BodyStages
  <1>3. history \in Histories /\ history.late = 0 /\ history.over = "none"
    BY DEF VrInit, Histories
  <1>4. VrType
    BY <1>1, <1>2, <1>3 DEF VrInit, VrType
  <1> QED  BY <1>1, <1>2, <1>3, <1>4 DEF VrInit, VrInv, Turns, Announced, OneFrame, TornRefs, OldRefs,
              FreshRefs, Stands, Busy, Written, Resetting, Clearing, Zeroing, Threads

\* One thread's call moves on.
LEMMA CallFacts ==
  ASSUME VrType, NEW t \in Threads, NEW c \in Calls, call' = [call EXCEPT ![t] = c]
  PROVE  /\ call' \in [Threads -> Calls] /\ call'[t] = c
         /\ \A o \in Threads : o # t => call'[o] = call[o]
  BY DEF VrType

LEMMA GotoFacts ==
  ASSUME VrType, NEW t \in Threads, NEW point \in Points, Goto(t, point)
  PROVE  /\ call' \in [Threads -> Calls]
         /\ call'[t].at = point /\ call'[t].to = call[t].to /\ call'[t].was = call[t].was
         /\ \A o \in Threads : o # t => call'[o] = call[o]
  <1>1. call[t] \in Calls /\ call \in [Threads -> Calls]
    BY DEF VrType
  <1>2. /\ [call[t] EXCEPT !.at = point] \in Calls
        /\ [call[t] EXCEPT !.at = point].at = point
        /\ [call[t] EXCEPT !.at = point].to = call[t].to
        /\ [call[t] EXCEPT !.at = point].was = call[t].was
    BY <1>1 DEF Calls
  <1> QED  BY <1>1, <1>2 DEF Goto

LEMMA ReadStep ==
  ASSUME VrInv, NEW t \in Threads, ReadFlag(t)
  PROVE  VrInv'
  <1> DEFINE c == [call[t] EXCEPT !.at = "write", !.was = enabled]
  <1>1. c \in Calls /\ c.at = "write" /\ c.was = enabled /\ c.to = call[t].to
    BY DEF VrInv, VrType, Calls, Points
  <1>2. /\ call' \in [Threads -> Calls] /\ call'[t].at = "write" /\ call'[t].was = enabled
        /\ call'[t].to = call[t].to /\ call[t].at = "read"
        /\ \A o \in Threads : o # t => call'[o] = call[o]
    BY <1>1, CallFacts DEF ReadFlag, VrInv, VrType
  <1>3. UNCHANGED <<enabled, body, camHeight, camPlace, fingers, cmdVel, told, history>>
    BY DEF ReadFlag, refs
  <1>4. VrType'
    BY <1>2, <1>3 DEF VrInv, VrType
  <1>5. Turns'
    BY <1>2, <1>3, VrFacts DEF VrInv, VrType, Turns, Busy, Resetting, Threads
  <1>6. Announced'
    BY <1>2, <1>3, VrFacts DEF VrInv, VrType, Turns, Announced, Busy, Written, Threads
  <1>7. OneFrame'
    BY <1>2, <1>3, VrFacts DEF VrInv, VrType, OneFrame
  <1>8. TornRefs'
    BY <1>2, <1>3, VrFacts DEF VrInv, VrType, Turns, TornRefs, Busy, Threads
  <1>9. OldRefs'
    BY <1>2, <1>3, VrFacts DEF VrInv, VrType, Turns, Announced, OldRefs, Busy, Written, Resetting,
        Clearing, Threads
  <1>10. FreshRefs'
    BY <1>2, <1>3, VrFacts DEF VrInv, VrType, Turns, Announced, FreshRefs, Busy, Written, Resetting,
        Clearing, Threads
  <1>11. Stands'
    BY <1>2, <1>3, VrFacts DEF VrInv, VrType, Stands, Zeroing, Threads
  <1> QED  BY <1>4, <1>5, <1>6, <1>7, <1>8, <1>9, <1>10, <1>11 DEF VrInv

LEMMA WriteStep ==
  ASSUME VrInv, NEW t \in Threads, WriteFlag(t)
  PROVE  VrInv'
  <1>1. /\ call' \in [Threads -> Calls] /\ call'[t].at = "test" /\ call'[t].was = call[t].was
        /\ call'[t].to = call[t].to /\ call[t].at = "write" /\ call[t].to \in BOOLEAN
        /\ \A o \in Threads : o # t => call'[o] = call[o]
    BY GotoFacts DEF WriteFlag, VrInv, VrType, Points, Calls
  <1>2. /\ body' = [body EXCEPT !.apart = body.apart /\ ~Rises(t)]
        /\ history' = [history EXCEPT !.now = history.now /\ ~Rises(t),
                                      !.over = IF Rises(t) THEN Overlap ELSE history.over,
                                      !.late = IF call[t].to = enabled THEN history.late ELSE 0]
    BY DEF WriteFlag
  <1>3. /\ enabled' = call[t].to /\ UNCHANGED <<camHeight, camPlace, fingers, cmdVel, told>>
        /\ body' \in Bodies /\ body'.at = body.at /\ body'.height = body.height
        /\ body'.place = body.place /\ body'.apart = (body.apart /\ ~Rises(t))
        /\ history' \in Histories /\ history'.height = history.height
        /\ history'.place = history.place /\ history'.torn = history.torn
        /\ history'.raced = history.raced
        /\ history'.now = (history.now /\ ~Rises(t))
        /\ history'.over = IF Rises(t) THEN Overlap ELSE history.over
        /\ history'.late = IF call[t].to = enabled THEN history.late ELSE 0
        /\ Rises(t) = (call[t].to /\ ~enabled)
        /\ Overlap = IF history.raced THEN "switch" ELSE IF body.at # "idle" THEN "event" ELSE "none"
    <2>1. body \in Bodies /\ history \in Histories
      BY DEF VrInv, VrType
    <2>2. Overlap \in {"none", "event", "switch"} /\ Rises(t) \in BOOLEAN
      BY <1>1 DEF Overlap, Rises, VrInv, VrType
    <2>3. /\ body' \in Bodies /\ body'.at = body.at /\ body'.height = body.height
          /\ body'.place = body.place /\ body'.apart = (body.apart /\ ~Rises(t))
      BY <1>2, <2>1, <2>2 DEF Bodies
    <2> DEFINE twists == IF call[t].to = enabled THEN history.late ELSE 0
               over == IF Rises(t) THEN Overlap ELSE history.over
               now == history.now /\ ~Rises(t)
    <2>4. twists \in Nat /\ over \in {"none", "event", "switch"} /\ now \in BOOLEAN
      BY <2>1, <2>2 DEF Histories
    <2>5. history' = [history EXCEPT !.now = now, !.over = over, !.late = twists]
      BY <1>2
    <2> HIDE DEF twists, over, now
    <2>6. /\ history' \in Histories /\ history'.height = history.height
          /\ history'.place = history.place /\ history'.torn = history.torn
          /\ history'.raced = history.raced
          /\ history'.now = now /\ history'.over = over /\ history'.late = twists
      BY <2>1, <2>4, <2>5 DEF Histories
    <2> QED  BY <2>3, <2>6 DEF WriteFlag, refs, Rises, Overlap, twists, over, now
  <1>4. VrType'
    BY <1>1, <1>3 DEF VrInv, VrType
  <1>5. Turns'
    BY <1>1, <1>3, VrFacts DEF VrInv, VrType, Turns, Busy, Resetting, Threads
  <1>6. Announced'
    BY <1>1, <1>3, VrFacts DEF VrInv, VrType, Turns, Announced, Busy, Written, Threads
  <1>7. OneFrame'
    BY <1>1, <1>3, VrFacts DEF VrInv, VrType, OneFrame
  <1>8. TornRefs'
    BY <1>1, <1>3, VrFacts DEF VrInv, VrType, Turns, TornRefs, Busy, Threads
  <1>9. OldRefs'
    BY <1>1, <1>3, VrFacts DEF VrInv, VrType, Turns, Announced, OldRefs, Busy, Written, Resetting,
        Clearing, Threads
  <1>10. FreshRefs'
    BY <1>1, <1>3, VrFacts DEF VrInv, VrType, Turns, Announced, FreshRefs, Busy, Written, Resetting,
        Clearing, Threads
  <1>11. Stands'
    BY <1>1, <1>3, VrFacts DEF VrInv, VrType, Stands, Zeroing, Threads
  <1> QED  BY <1>4, <1>5, <1>6, <1>7, <1>8, <1>9, <1>10, <1>11 DEF VrInv

LEMMA TestStep ==
  ASSUME VrInv, NEW t \in Threads, TestFlag(t)
  PROVE  VrInv'
  <1> DEFINE p == IF Resets(t) THEN "reset" ELSE "else"
  <1>1. /\ call' \in [Threads -> Calls] /\ call'[t].at = p /\ call'[t].was = call[t].was
        /\ call'[t].to = call[t].to /\ call[t].at = "test" /\ call[t].to \in BOOLEAN
        /\ \A o \in Threads : o # t => call'[o] = call[o]
        /\ p = IF call[t].to /\ enabled /\ ~call[t].was THEN "reset" ELSE "else"
    BY GotoFacts DEF TestFlag, VrInv, VrType, Points, Calls, Resets, AfterElse
  <1> HIDE DEF p
  <1>2. UNCHANGED <<enabled, body, camHeight, camPlace, fingers, cmdVel, told, history>>
    BY DEF TestFlag, refs
  <1>3. VrType'
    BY <1>1, <1>2 DEF VrInv, VrType
  <1>4. Turns'
    BY <1>1, <1>2, VrFacts DEF VrInv, VrType, Turns, Busy, Resetting, Threads
  <1>5. Announced'
    BY <1>1, <1>2, VrFacts DEF VrInv, VrType, Turns, Announced, Busy, Written, Threads
  <1>6. OneFrame'
    BY <1>1, <1>2, VrFacts DEF VrInv, VrType, OneFrame
  <1>7. TornRefs'
    BY <1>1, <1>2, VrFacts DEF VrInv, VrType, Turns, TornRefs, Busy, Threads
  <1>8. OldRefs'
    BY <1>1, <1>2, VrFacts DEF VrInv, VrType, Turns, Announced, OldRefs, Busy, Written, Resetting,
        Clearing, Threads
  <1>9. FreshRefs'
    BY <1>1, <1>2, VrFacts DEF VrInv, VrType, Turns, Announced, FreshRefs, Busy, Written, Resetting,
        Clearing, Threads
  <1>10. Stands'
    BY <1>1, <1>2, VrFacts DEF VrInv, VrType, Stands, Zeroing, Threads
  <1> QED  BY <1>3, <1>4, <1>5, <1>6, <1>7, <1>8, <1>9, <1>10 DEF VrInv

LEMMA ElseStep ==
  ASSUME VrInv, NEW t \in Threads, ElseFlag(t)
  PROVE  VrInv'
  <1> DEFINE p == AfterElse
  <1>1. /\ call' \in [Threads -> Calls] /\ call'[t].at = p /\ call'[t].was = call[t].was
        /\ call'[t].to = call[t].to /\ call[t].at = "else" /\ call[t].to \in BOOLEAN
        /\ \A o \in Threads : o # t => call'[o] = call[o]
        /\ p = IF enabled THEN "tell" ELSE "zero"
    BY GotoFacts DEF ElseFlag, VrInv, VrType, Points, Calls, Resets, AfterElse
  <1> HIDE DEF p
  <1>2. UNCHANGED <<enabled, body, camHeight, camPlace, fingers, cmdVel, told, history>>
    BY DEF ElseFlag, refs
  <1>3. VrType'
    BY <1>1, <1>2 DEF VrInv, VrType
  <1>4. Turns'
    BY <1>1, <1>2, VrFacts DEF VrInv, VrType, Turns, Busy, Resetting, Threads
  <1>5. Announced'
    BY <1>1, <1>2, VrFacts DEF VrInv, VrType, Turns, Announced, Busy, Written, Threads
  <1>6. OneFrame'
    BY <1>1, <1>2, VrFacts DEF VrInv, VrType, OneFrame
  <1>7. TornRefs'
    BY <1>1, <1>2, VrFacts DEF VrInv, VrType, Turns, TornRefs, Busy, Threads
  <1>8. OldRefs'
    BY <1>1, <1>2, VrFacts DEF VrInv, VrType, Turns, Announced, OldRefs, Busy, Written, Resetting,
        Clearing, Threads
  <1>9. FreshRefs'
    BY <1>1, <1>2, VrFacts DEF VrInv, VrType, Turns, Announced, FreshRefs, Busy, Written, Resetting,
        Clearing, Threads
  <1>10. Stands'
    BY <1>1, <1>2, VrFacts DEF VrInv, VrType, Stands, Zeroing, Threads
  <1> QED  BY <1>3, <1>4, <1>5, <1>6, <1>7, <1>8, <1>9, <1>10 DEF VrInv

LEMMA ResetHeightStep ==
  ASSUME VrInv, NEW t \in Threads, ResetHeight(t)
  PROVE  VrInv'
  <1>1. /\ call' \in [Threads -> Calls] /\ call'[t].at = "rest" /\ call'[t].was = call[t].was
        /\ call'[t].to = call[t].to /\ call[t].at = "reset" /\ call[t].to \in BOOLEAN
        /\ \A o \in Threads : o # t => call'[o] = call[o]
    BY GotoFacts DEF ResetHeight, VrInv, VrType, Points, Calls
  <1>2. /\ UNCHANGED <<enabled, body, camPlace, cmdVel, told>>
        /\ camHeight' = None /\ fingers' = FALSE
        /\ history' \in Histories /\ history'.torn = FALSE /\ history'.raced = history.raced
        /\ history'.now = history.now /\ history'.over = history.over /\ history'.late = history.late
    BY DEF ResetHeight, VrInv, VrType, Histories
  <1>3. VrType'
    BY <1>1, <1>2 DEF VrInv, VrType
  <1>4. Turns'
    BY <1>1, <1>2, VrFacts DEF VrInv, VrType, Turns, Busy, Resetting, Threads
  <1>5. Announced'
    BY <1>1, <1>2, VrFacts DEF VrInv, VrType, Turns, Announced, Busy, Written, Threads
  <1>6. OneFrame'
    BY <1>1, <1>2, VrFacts DEF VrInv, VrType, OneFrame
  <1>7. TornRefs'
    BY <1>1, <1>2, VrFacts DEF VrInv, VrType, Turns, TornRefs, Busy, Threads
  <1>8. OldRefs'
    BY <1>1, <1>2, VrFacts DEF VrInv, VrType, Turns, Announced, OldRefs, Busy, Written, Resetting,
        Clearing, Threads
  <1>9. FreshRefs'
    BY <1>1, <1>2, VrFacts DEF VrInv, VrType, Turns, Announced, FreshRefs, Busy, Written, Resetting,
        Clearing, Threads
  <1>10. Stands'
    BY <1>1, <1>2, VrFacts DEF VrInv, VrType, Stands, Zeroing, Threads
  <1> QED  BY <1>3, <1>4, <1>5, <1>6, <1>7, <1>8, <1>9, <1>10 DEF VrInv

LEMMA ResetRestStep ==
  ASSUME VrInv, NEW t \in Threads, ResetRest(t)
  PROVE  VrInv'
  <1>1. /\ call' \in [Threads -> Calls] /\ call'[t].at = "tell" /\ call'[t].was = call[t].was
        /\ call'[t].to = call[t].to /\ call[t].at = "rest" /\ call[t].to \in BOOLEAN
        /\ \A o \in Threads : o # t => call'[o] = call[o]
    BY GotoFacts DEF ResetRest, VrInv, VrType, Points, Calls
  <1>2. /\ UNCHANGED <<enabled, body, camHeight, cmdVel, told, fingers, history>>
        /\ camPlace' = None
    BY DEF ResetRest
  <1>3. VrType'
    BY <1>1, <1>2 DEF VrInv, VrType
  <1>4. Turns'
    BY <1>1, <1>2, VrFacts DEF VrInv, VrType, Turns, Busy, Resetting, Threads
  <1>5. Announced'
    BY <1>1, <1>2, VrFacts DEF VrInv, VrType, Turns, Announced, Busy, Written, Threads
  <1>6. OneFrame'
    BY <1>1, <1>2, VrFacts DEF VrInv, VrType, OneFrame
  <1>7. TornRefs'
    BY <1>1, <1>2, VrFacts DEF VrInv, VrType, Turns, TornRefs, Busy, Threads
  <1>8. OldRefs'
    BY <1>1, <1>2, VrFacts DEF VrInv, VrType, Turns, Announced, OldRefs, Busy, Written, Resetting,
        Clearing, Threads
  <1>9. FreshRefs'
    BY <1>1, <1>2, VrFacts DEF VrInv, VrType, Turns, Announced, FreshRefs, Busy, Written, Resetting,
        Clearing, Threads
  <1>10. Stands'
    BY <1>1, <1>2, VrFacts DEF VrInv, VrType, Stands, Zeroing, Threads
  <1> QED  BY <1>3, <1>4, <1>5, <1>6, <1>7, <1>8, <1>9, <1>10 DEF VrInv

LEMMA ZeroStep ==
  ASSUME VrInv, NEW t \in Threads, PublishZero(t)
  PROVE  VrInv'
  <1>1. /\ call' \in [Threads -> Calls] /\ call'[t].at = "tell" /\ call'[t].was = call[t].was
        /\ call'[t].to = call[t].to /\ call[t].at = "zero" /\ call[t].to \in BOOLEAN
        /\ \A o \in Threads : o # t => call'[o] = call[o]
    BY GotoFacts DEF PublishZero, VrInv, VrType, Points, Calls
  <1>2. /\ UNCHANGED <<enabled, body, camHeight, camPlace, told, fingers, history>>
        /\ cmdVel' = 0
    BY DEF PublishZero, refs
  <1>3. VrType'
    BY <1>1, <1>2 DEF VrInv, VrType
  <1>4. Turns'
    BY <1>1, <1>2, VrFacts DEF VrInv, VrType, Turns, Busy, Resetting, Threads
  <1>5. Announced'
    BY <1>1, <1>2, VrFacts DEF VrInv, VrType, Turns, Announced, Busy, Written, Threads
  <1>6. OneFrame'
    BY <1>1, <1>2, VrFacts DEF VrInv, VrType, OneFrame
  <1>7. TornRefs'
    BY <1>1, <1>2, VrFacts DEF VrInv, VrType, Turns, TornRefs, Busy, Threads
  <1>8. OldRefs'
    BY <1>1, <1>2, VrFacts DEF VrInv, VrType, Turns, Announced, OldRefs, Busy, Written, Resetting,
        Clearing, Threads
  <1>9. FreshRefs'
    BY <1>1, <1>2, VrFacts DEF VrInv, VrType, Turns, Announced, FreshRefs, Busy, Written, Resetting,
        Clearing, Threads
  <1>10. Stands'
    BY <1>1, <1>2, VrFacts DEF VrInv, VrType, Stands, Zeroing, Threads
  <1> QED  BY <1>3, <1>4, <1>5, <1>6, <1>7, <1>8, <1>9, <1>10 DEF VrInv

LEMMA TellStep ==
  ASSUME VrInv, NEW t \in Threads, Tell(t)
  PROVE  VrInv'
  <1>1. /\ call' \in [Threads -> Calls] /\ call'[t].at = "idle"
        /\ call[t].at = "tell" /\ call[t].to \in BOOLEAN
        /\ \A o \in Threads : o # t => call'[o] = call[o]
    BY CallFacts DEF Tell, VrInv, VrType, IdleCall, Points, Calls
  <1>2. /\ UNCHANGED <<enabled, body, camHeight, camPlace, fingers, cmdVel, history>>
        /\ told' = call[t].to
    BY DEF Tell, refs
  <1>3. VrType'
    BY <1>1, <1>2 DEF VrInv, VrType
  <1>4. Turns'
    BY <1>1, <1>2, VrFacts DEF VrInv, VrType, Turns, Busy, Resetting, Threads
  <1>5. Announced'
    BY <1>1, <1>2, VrFacts DEF VrInv, VrType, Turns, Announced, Busy, Written, Threads
  <1>6. OneFrame'
    BY <1>1, <1>2, VrFacts DEF VrInv, VrType, OneFrame
  <1>7. TornRefs'
    BY <1>1, <1>2, VrFacts DEF VrInv, VrType, Turns, TornRefs, Busy, Threads
  <1>8. OldRefs'
    BY <1>1, <1>2, VrFacts DEF VrInv, VrType, Turns, Announced, OldRefs, Busy, Written, Resetting,
        Clearing, Threads
  <1>9. FreshRefs'
    BY <1>1, <1>2, VrFacts DEF VrInv, VrType, Turns, Announced, FreshRefs, Busy, Written, Resetting,
        Clearing, Threads
  <1>10. Stands'
    BY <1>1, <1>2, VrFacts DEF VrInv, VrType, Stands, Zeroing, Threads
  <1> QED  BY <1>3, <1>4, <1>5, <1>6, <1>7, <1>8, <1>9, <1>10 DEF VrInv

LEMMA BeginStep ==
  ASSUME VrInv, NEW t \in Threads, NEW to \in BOOLEAN, Begin(t, to), ~Busy(t),
         t = "vuer" => body.at = "idle",
         UNCHANGED <<enabled, body, camHeight, camPlace, fingers, cmdVel, told>>
  PROVE  VrInv'
  <1>1. /\ call' \in [Threads -> Calls] /\ call'[t].at = "read" /\ call'[t].to = to
        /\ call[t].at = "idle" /\ \A o \in Threads : o # t => call'[o] = call[o]
    BY CallFacts DEF Begin, VrInv, VrType, Points, Calls, Busy
  <1>2. /\ UNCHANGED <<enabled, body, camHeight, camPlace, fingers, cmdVel, told>>
        /\ t = "vuer" => body.at = "idle"
        /\ history' \in Histories /\ history'.height = history.height
        /\ history'.place = history.place /\ history'.torn = history.torn
        /\ history'.now = history.now /\ history'.over = history.over
        /\ history'.late = history.late
        /\ history'.raced = (call[Other(t)].at # "idle")
        /\ Other(t) = IF t = "ros" THEN "vuer" ELSE "ros"
    BY DEF Begin, VrInv, VrType, Histories, Other
  <1>3. VrType'
    BY <1>1, <1>2 DEF VrInv, VrType
  <1>4. Turns'
    BY <1>1, <1>2, VrFacts DEF VrInv, VrType, Turns, Busy, Resetting, Threads
  <1>5. Announced'
    BY <1>1, <1>2, VrFacts DEF VrInv, VrType, Turns, Announced, Busy, Written, Threads
  <1>6. OneFrame'
    BY <1>1, <1>2, VrFacts DEF VrInv, VrType, OneFrame
  <1>7. TornRefs'
    BY <1>1, <1>2, VrFacts DEF VrInv, VrType, Turns, TornRefs, Busy, Threads
  <1>8. OldRefs'
    BY <1>1, <1>2, VrFacts DEF VrInv, VrType, Turns, Announced, OldRefs, Busy, Written, Resetting,
        Clearing, Threads
  <1>9. FreshRefs'
    BY <1>1, <1>2, VrFacts DEF VrInv, VrType, Turns, Announced, FreshRefs, Busy, Written, Resetting,
        Clearing, Threads
  <1>10. Stands'
    BY <1>1, <1>2, VrFacts DEF VrInv, VrType, Stands, Zeroing, Threads
  <1> QED  BY <1>3, <1>4, <1>5, <1>6, <1>7, <1>8, <1>9, <1>10 DEF VrInv

\* A step that touches none of what the invariant is about.
LEMMA AsideStep ==
  ASSUME VrInv, UNCHANGED <<enabled, call, body, camHeight, camPlace, fingers, cmdVel, told, history>>
  PROVE  VrInv'
  BY DEF VrInv, VrType, Turns, Announced, OneFrame, TornRefs, OldRefs, FreshRefs, Stands,
         Busy, Written, Resetting, Clearing, Zeroing

LEMMA BodyMoveStep ==
  ASSUME VrInv, NEW h \in Heights, NEW p \in Places, BodyMove(h, p)
  PROVE  VrInv'
  <1>1. /\ body.at = "idle" /\ ~Busy("vuer") /\ enabled
        /\ UNCHANGED <<enabled, call, camHeight, camPlace, fingers, cmdVel, told>>
        /\ body' = [at |-> "capture", height |-> h, place |-> p, apart |-> ~Rising]
        /\ Rising = Resetting("ros")
        /\ history' = [history EXCEPT !.over = IF history.over = "none" /\ Rising THEN "event"
                                               ELSE history.over]
    BY DEF BodyMove, VuerIdle, Moves, Rising, Resetting, Busy, session, refs
  <1>2. /\ body' \in Bodies /\ body'.at = "capture" /\ body'.apart = ~Resetting("ros")
        /\ body'.height \in Heights /\ body'.place \in Places
        /\ history' \in Histories /\ history'.height = history.height
        /\ history'.place = history.place /\ history'.torn = history.torn
        /\ history'.now = history.now /\ history'.raced = history.raced
        /\ history'.late = history.late
        /\ history'.over = IF history.over = "none" /\ Resetting("ros") THEN "event" ELSE history.over
    <2>1. Resetting("ros") \in BOOLEAN
      BY DEF Resetting, VrInv, VrType, Calls, Threads
    <2>2. body' \in Bodies
      BY <1>1, <2>1, VrFacts DEF Bodies, BodyStages
    <2>3. history \in Histories
      BY DEF VrInv, VrType
    <2>4. history' \in Histories
      BY <1>1, <2>3 DEF Histories
    <2> QED  BY <1>1, <2>1, <2>2, <2>3, <2>4 DEF Histories
  <1>3. VrType'
    BY <1>1, <1>2 DEF VrInv, VrType
  <1>4. Turns'
    BY <1>1, <1>2, VrFacts DEF VrInv, VrType, Turns, Busy, Resetting, Threads
  <1>5. Announced'
    BY <1>1, <1>2, VrFacts DEF VrInv, VrType, Turns, Announced, Busy, Written, Threads
  <1>6. OneFrame'
    BY <1>1, <1>2, VrFacts DEF VrInv, VrType, OneFrame
  <1>7. TornRefs'
    BY <1>1, <1>2, VrFacts DEF VrInv, VrType, Turns, TornRefs, Busy, Threads
  <1>8. OldRefs'
    BY <1>1, <1>2, VrFacts DEF VrInv, VrType, Turns, Announced, OldRefs, Busy, Written, Resetting,
        Clearing, Threads
  <1>9. FreshRefs'
    BY <1>1, <1>2, VrFacts DEF VrInv, VrType, Turns, Announced, FreshRefs, Busy, Written, Resetting,
        Clearing, Threads
  <1>10. Stands'
    BY <1>1, <1>2, VrFacts DEF VrInv, VrType, Stands, Zeroing, Threads
  <1> QED  BY <1>3, <1>4, <1>5, <1>6, <1>7, <1>8, <1>9, <1>10 DEF VrInv

LEMMA CaptureHeightStep ==
  ASSUME VrInv, CaptureHeight
  PROVE  VrInv'
  <1>1. /\ body.at = "capture" /\ camHeight = None /\ camHeight' = body.height
        /\ body.height \in Heights /\ body.place \in Places
        /\ UNCHANGED <<enabled, call, camPlace, fingers, cmdVel, told>>
        /\ body' = [body EXCEPT !.at = "place"]
        /\ history' = [history EXCEPT !.height = body.height, !.place = body.place, !.now = TRUE,
                                      !.torn = history.torn \/ call["ros"].at = "rest"]
    BY DEF CaptureHeight, session, VrInv, VrType
  <1>2. /\ body' \in Bodies /\ body'.at = "place" /\ body'.height = body.height
        /\ body'.place = body.place /\ body'.apart = body.apart
        /\ history' \in Histories /\ history'.height = body.height
        /\ history'.place = body.place /\ history'.now /\ history'.over = history.over
        /\ history'.torn = (history.torn \/ call["ros"].at = "rest")
        /\ history'.raced = history.raced /\ history'.late = history.late
    BY <1>1 DEF Bodies, BodyStages, Histories, VrInv, VrType
  <1>3. VrType'
    BY <1>1, <1>2 DEF VrInv, VrType
  <1>4. Turns'
    BY <1>1, <1>2, VrFacts DEF VrInv, VrType, Turns, Busy, Resetting, Threads
  <1>5. Announced'
    BY <1>1, <1>2, VrFacts DEF VrInv, VrType, Turns, Announced, Busy, Written, Threads
  <1>6. OneFrame'
    BY <1>1, <1>2, VrFacts DEF VrInv, VrType, OneFrame
  <1>7. TornRefs'
    BY <1>1, <1>2, VrFacts DEF VrInv, VrType, Turns, TornRefs, Busy, Threads
  <1>8. OldRefs'
    BY <1>1, <1>2, VrFacts DEF VrInv, VrType, Turns, Announced, OldRefs, Busy, Written, Resetting,
        Clearing, Threads
  <1>9. FreshRefs'
    <2>1. ASSUME history.over = "none"
          PROVE  /\ \A t \in Threads : ~Resetting(t) /\ ~Clearing(t)
                 /\ ~history.torn /\ ~fingers
      BY <1>1, <2>1 DEF VrInv, FreshRefs, Clearing
    <2>2. history.over = "none" => call["ros"].at # "rest"
      BY <2>1, VrFacts DEF VrInv, Turns
    <2>3. history.over = "none" /\ enabled =>
            \A t \in Threads : call[t].at = "write" => call[t].was
      BY DEF VrInv, FreshRefs
    <2> QED  BY <1>1, <1>2, <2>1, <2>2, <2>3, VrFacts DEF FreshRefs, Resetting, Clearing
  <1>10. Stands'
    BY <1>1, <1>2, VrFacts DEF VrInv, VrType, Stands, Zeroing, Threads
  <1> QED  BY <1>3, <1>4, <1>5, <1>6, <1>7, <1>8, <1>9, <1>10 DEF VrInv

LEMMA CapturePlaceStep ==
  ASSUME VrInv, CapturePlace
  PROVE  VrInv'
  <1>1. /\ body.at = "place" /\ camPlace' = body.place
        /\ body.height \in Heights /\ body.place \in Places
        /\ UNCHANGED <<enabled, call, camHeight, fingers, cmdVel, told, history>>
        /\ body' = [body EXCEPT !.at = "relate"]
    BY DEF CapturePlace, session, VrInv, VrType
  <1>2. /\ body' \in Bodies /\ body'.at = "relate" /\ body'.height = body.height
        /\ body'.place = body.place /\ body'.apart = body.apart
    BY <1>1 DEF Bodies, BodyStages, VrInv, VrType
  <1>3. VrType'
    BY <1>1, <1>2 DEF VrInv, VrType
  <1>4. Turns'
    BY <1>1, <1>2, VrFacts DEF VrInv, VrType, Turns, Busy, Resetting, Threads
  <1>5. Announced'
    BY <1>1, <1>2, VrFacts DEF VrInv, VrType, Turns, Announced, Busy, Written, Threads
  <1>6. OneFrame'
    BY <1>1, <1>2, VrFacts DEF VrInv, VrType, OneFrame
  <1>7. TornRefs'
    BY <1>1, <1>2, VrFacts DEF VrInv, VrType, Turns, TornRefs, Busy, Threads
  <1>8. OldRefs'
    BY <1>1, <1>2, VrFacts DEF VrInv, VrType, Turns, Announced, OldRefs, Busy, Written, Resetting,
        Clearing, Threads
  <1>9. FreshRefs'
    BY <1>1, <1>2, VrFacts DEF VrInv, VrType, Turns, Announced, FreshRefs, Busy, Written, Resetting,
        Clearing, Threads
  <1>10. Stands'
    BY <1>1, <1>2, VrFacts DEF VrInv, VrType, Stands, Zeroing, Threads
  <1> QED  BY <1>3, <1>4, <1>5, <1>6, <1>7, <1>8, <1>9, <1>10 DEF VrInv

LEMMA CaptureNothingStep ==
  ASSUME VrInv, CaptureNothing
  PROVE  VrInv'
  <1>1. /\ body.at = "capture" /\ camHeight # None
        /\ body.height \in Heights /\ body.place \in Places
        /\ UNCHANGED <<enabled, call, camHeight, camPlace, fingers, cmdVel, told, history>>
        /\ body' = [body EXCEPT !.at = "relate"]
    BY DEF CaptureNothing, session, VrInv, VrType
  <1>2. /\ body' \in Bodies /\ body'.at = "relate" /\ body'.height = body.height
        /\ body'.place = body.place /\ body'.apart = body.apart
    BY <1>1 DEF Bodies, BodyStages, VrInv, VrType
  <1>3. VrType'
    BY <1>1, <1>2 DEF VrInv, VrType
  <1>4. Turns'
    BY <1>1, <1>2, VrFacts DEF VrInv, VrType, Turns, Busy, Resetting, Threads
  <1>5. Announced'
    BY <1>1, <1>2, VrFacts DEF VrInv, VrType, Turns, Announced, Busy, Written, Threads
  <1>6. OneFrame'
    BY <1>1, <1>2, VrFacts DEF VrInv, VrType, OneFrame
  <1>7. TornRefs'
    BY <1>1, <1>2, VrFacts DEF VrInv, VrType, Turns, TornRefs, Busy, Threads
  <1>8. OldRefs'
    BY <1>1, <1>2, VrFacts DEF VrInv, VrType, Turns, Announced, OldRefs, Busy, Written, Resetting,
        Clearing, Threads
  <1>9. FreshRefs'
    <2>1. ASSUME history.over = "none"
          PROVE  /\ \A t \in Threads : ~Resetting(t) /\ ~Clearing(t)
                 /\ ~history.torn /\ history.now
      BY <1>1, <2>1 DEF VrInv, FreshRefs, Clearing
    <2>2. history.over = "none" => camPlace # None
      BY <1>1, <2>1 DEF VrInv, VrType, Histories, TornRefs
    <2> QED  BY <1>1, <1>2, <2>1, <2>2 DEF VrInv, FreshRefs, Resetting, Clearing
  <1>10. Stands'
    BY <1>1, <1>2, VrFacts DEF VrInv, VrType, Stands, Zeroing, Threads
  <1> QED  BY <1>3, <1>4, <1>5, <1>6, <1>7, <1>8, <1>9, <1>10 DEF VrInv

LEMMA RelateStep ==
  ASSUME VrInv, Relate
  PROVE  VrInv'
  <1>1. /\ body.at = "relate" /\ camHeight # None /\ camPlace # None
        /\ UNCHANGED <<enabled, call, camHeight, camPlace, fingers, cmdVel, told, history>>
        /\ body' = [body EXCEPT !.at = "hands", !.height = body.height - camHeight,
                                !.place = body.place - camPlace, !.apart = FALSE]
    BY DEF Relate, session, refs
  <1>2. /\ body' \in Bodies /\ body'.at = "hands" /\ body'.height \in LiftRange
        /\ body'.place \in Int
    <2>1. body.height - camHeight \in LiftRange /\ body.height - camHeight \in Int
      BY <1>1, VrFacts DEF VrInv, VrType
    <2>2. body.place - camPlace \in Int
      BY <1>1, VrFacts DEF VrInv, VrType
    <2> QED  BY <1>1, <2>1, <2>2 DEF Bodies, BodyStages, VrInv, VrType
  <1>3. VrType'
    BY <1>1, <1>2 DEF VrInv, VrType
  <1>4. Turns'
    BY <1>1, <1>2, VrFacts DEF VrInv, VrType, Turns, Busy, Resetting, Threads
  <1>5. Announced'
    BY <1>1, <1>2, VrFacts DEF VrInv, VrType, Turns, Announced, Busy, Written, Threads
  <1>6. OneFrame'
    BY <1>1, <1>2, VrFacts DEF VrInv, VrType, OneFrame
  <1>7. TornRefs'
    BY <1>1, <1>2, VrFacts DEF VrInv, VrType, Turns, TornRefs, Busy, Threads
  <1>8. OldRefs'
    BY <1>1, <1>2, VrFacts DEF VrInv, VrType, Turns, Announced, OldRefs, Busy, Written, Resetting,
        Clearing, Threads
  <1>9. FreshRefs'
    BY <1>1, <1>2, VrFacts DEF VrInv, VrType, Turns, Announced, FreshRefs, Busy, Written, Resetting,
        Clearing, Threads
  <1>10. Stands'
    BY <1>1, <1>2, VrFacts DEF VrInv, VrType, Stands, Zeroing, Threads
  <1> QED  BY <1>3, <1>4, <1>5, <1>6, <1>7, <1>8, <1>9, <1>10 DEF VrInv

LEMMA RelateFailsStep ==
  ASSUME VrInv, RelateFails
  PROVE  VrInv'
  <1>1. /\ body.at = "relate" /\ UNCHANGED <<enabled, call, camHeight, camPlace, fingers, cmdVel, told, history>>
    BY DEF RelateFails, session, refs
  <1>2. body' \in Bodies /\ body'.at = "idle"
    BY DEF RelateFails, IdleBody, Bodies, BodyStages
  <1>3. VrType'
    BY <1>1, <1>2 DEF VrInv, VrType
  <1>4. Turns'
    BY <1>1, <1>2, VrFacts DEF VrInv, VrType, Turns, Busy, Resetting, Threads
  <1>5. Announced'
    BY <1>1, <1>2, VrFacts DEF VrInv, VrType, Turns, Announced, Busy, Written, Threads
  <1>6. OneFrame'
    BY <1>1, <1>2, VrFacts DEF VrInv, VrType, OneFrame
  <1>7. TornRefs'
    BY <1>1, <1>2, VrFacts DEF VrInv, VrType, Turns, TornRefs, Busy, Threads
  <1>8. OldRefs'
    BY <1>1, <1>2, VrFacts DEF VrInv, VrType, Turns, Announced, OldRefs, Busy, Written, Resetting,
        Clearing, Threads
  <1>9. FreshRefs'
    BY <1>1, <1>2, VrFacts DEF VrInv, VrType, Turns, Announced, FreshRefs, Busy, Written, Resetting,
        Clearing, Threads
  <1>10. Stands'
    BY <1>1, <1>2, VrFacts DEF VrInv, VrType, Stands, Zeroing, Threads
  <1> QED  BY <1>3, <1>4, <1>5, <1>6, <1>7, <1>8, <1>9, <1>10 DEF VrInv

LEMMA HandsStep ==
  ASSUME VrInv, NEW s \in LiftSteps, ProcessHands(s)
  PROVE  VrInv'
  <1>1. /\ body.at = "hands" /\ UNCHANGED <<enabled, call, camHeight, camPlace, cmdVel, told, history>>
        /\ body' = [body EXCEPT !.at = "drive", !.height = None]
    BY DEF ProcessHands, session, refs
  <1>2. /\ body' \in Bodies /\ body'.at = "drive" /\ body'.place = body.place /\ fingers' \in BOOLEAN
    BY <1>1 DEF ProcessHands, Bodies, BodyStages, VrInv, VrType
  <1>3. VrType'
    BY <1>1, <1>2 DEF VrInv, VrType
  <1>4. Turns'
    BY <1>1, <1>2, VrFacts DEF VrInv, VrType, Turns, Busy, Resetting, Threads
  <1>5. Announced'
    BY <1>1, <1>2, VrFacts DEF VrInv, VrType, Turns, Announced, Busy, Written, Threads
  <1>6. OneFrame'
    BY <1>1, <1>2, VrFacts DEF VrInv, VrType, OneFrame
  <1>7. TornRefs'
    BY <1>1, <1>2, VrFacts DEF VrInv, VrType, Turns, TornRefs, Busy, Threads
  <1>8. OldRefs'
    BY <1>1, <1>2, VrFacts DEF VrInv, VrType, Turns, Announced, OldRefs, Busy, Written, Resetting,
        Clearing, Threads
  <1>9. FreshRefs'
    BY <1>1, <1>2, VrFacts DEF VrInv, VrType, Turns, Announced, FreshRefs, Busy, Written, Resetting,
        Clearing, Threads
  <1>10. Stands'
    BY <1>1, <1>2, VrFacts DEF VrInv, VrType, Stands, Zeroing, Threads
  <1> QED  BY <1>3, <1>4, <1>5, <1>6, <1>7, <1>8, <1>9, <1>10 DEF VrInv

LEMMA DriveStep ==
  ASSUME VrInv, Drive
  PROVE  VrInv'
  <1>1. /\ body.at = "drive" /\ UNCHANGED <<enabled, call, camHeight, camPlace, fingers, told>>
        /\ body' \in Bodies /\ body'.at = "idle"
    BY DEF Drive, IdleBody, Bodies, BodyStages, session, refs
  <1>2. /\ \/ UNCHANGED <<cmdVel, history>>
           \/ history'.late = IF enabled THEN history.late ELSE history.late + 1
        /\ history' \in Histories /\ history'.height = history.height
        /\ history'.place = history.place /\ history'.torn = history.torn
        /\ history'.now = history.now /\ history'.raced = history.raced
        /\ history'.over = history.over
    <2>1. history \in Histories
      BY DEF VrInv, VrType
    <2>2. \/ UNCHANGED <<cmdVel, history>>
          \/ history' = [history EXCEPT !.late = IF enabled THEN history.late ELSE history.late + 1]
      BY DEF Drive
    <2> QED  BY <2>1, <2>2 DEF Histories
  <1>3. VrType'
    BY <1>1, <1>2 DEF VrInv, VrType
  <1>4. Turns'
    BY <1>1, <1>2, VrFacts DEF VrInv, VrType, Turns, Busy, Resetting, Threads
  <1>5. Announced'
    BY <1>1, <1>2, VrFacts DEF VrInv, VrType, Turns, Announced, Busy, Written, Threads
  <1>6. OneFrame'
    BY <1>1, <1>2, VrFacts DEF VrInv, VrType, OneFrame
  <1>7. TornRefs'
    BY <1>1, <1>2, VrFacts DEF VrInv, VrType, Turns, TornRefs, Busy, Threads
  <1>8. OldRefs'
    BY <1>1, <1>2, VrFacts DEF VrInv, VrType, Turns, Announced, OldRefs, Busy, Written, Resetting,
        Clearing, Threads
  <1>9. FreshRefs'
    BY <1>1, <1>2, VrFacts DEF VrInv, VrType, Turns, Announced, FreshRefs, Busy, Written, Resetting,
        Clearing, Threads
  <1>10. Stands'
    BY <1>1, <1>2, VrFacts DEF VrInv, VrType, Stands, Zeroing, Threads
  <1> QED  BY <1>3, <1>4, <1>5, <1>6, <1>7, <1>8, <1>9, <1>10 DEF VrInv

LEMMA SetStep ==
  ASSUME VrInv, NEW t \in Threads, SetSteps(t)
  PROVE  VrInv'
  BY ReadStep, WriteStep, TestStep, ElseStep, ResetHeightStep, ResetRestStep, ZeroStep, TellStep
     DEF SetSteps

LEMMA BodyStepsStep ==
  ASSUME VrInv, BodySteps
  PROVE  VrInv'
  BY CaptureHeightStep, CapturePlaceStep, CaptureNothingStep, RelateStep, RelateFailsStep,
     HandsStep, DriveStep DEF BodySteps

LEMMA VrStep == VrInv /\ [VrNext(Heights, Places, Places)]_vrVars => VrInv'
  <1> SUFFICES ASSUME VrInv, [VrNext(Heights, Places, Places)]_vrVars PROVE VrInv'
    OBVIOUS
  <1>1. ASSUME NEW o \in Places, OdomCallback(o) PROVE VrInv'
    BY <1>1, AsideStep DEF OdomCallback, session, refs
  <1>2. ASSUME NEW to \in BOOLEAN, ReactivateCallback(to) PROVE VrInv'
    BY <1>2, BeginStep DEF ReactivateCallback, Busy, refs, Threads
  <1>3. CASE GestureToggle
    <2>1. enabled \in BOOLEAN
      BY DEF VrInv, VrType
    <2> QED  BY <1>3, <2>1, BeginStep DEF GestureToggle, VuerIdle, Busy, refs, Threads
  <1>4. CASE GestureReleased \/ GestureHeld
    BY <1>4, AsideStep DEF GestureReleased, GestureHeld, session, refs
  <1>5. CASE BodyEvent(Heights, Places)
    BY <1>5, BodyMoveStep DEF BodyEvent
  <1>6. CASE UNCHANGED vrVars
    BY <1>6, AsideStep DEF vrVars
  <1> QED  BY <1>1, <1>2, <1>3, <1>4, <1>5, <1>6, SetStep, BodyStepsStep DEF VrNext

LEMMA VrInvImplies == VrInv => SwitchIsWhole
  <1> SUFFICES ASSUME VrInv PROVE SwitchIsWhole
    OBVIOUS
  <1>1. RefsOfOneFrame /\ TornByCapture /\ OldRefsWhileRising
    BY DEF VrInv, OneFrame, TornRefs, OldRefs, RefsOfOneFrame, TornByCapture, OldRefsWhileRising, RelatesTo
  <1>2. FreshStart
    BY DEF VrInv, FreshRefs, FreshStart
  <1>3. BaseStands
    BY DEF VrInv, VrType, Histories, Stands, BaseStands, Quiet, VuerIdle, Zeroing, Threads
  <1>4. ToldTruth
    BY DEF VrInv, Announced, ToldTruth, Busy
  <1> QED  BY <1>1, <1>2, <1>3, <1>4 DEF SwitchIsWhole

\* Switching the SH5 session (_set_vr_publishing_enabled and on_body_tracking_move,
\* vr_publisher_sh5.py), with its two threads between any two statements of each
\* other, for any heights and places: a frame is always related to the references of
\* one frame, and at most one Twist follows the zero of a disabling.  References
\* without a place, references from before the pause, a frame that fails and an
\* announcement that is not so each need the one overlap of the threads that the
\* property names; an enabling without it starts afresh.
THEOREM SwitchStaysWhole == VrSpec => []SwitchIsWhole
  <1>1. VrSpec => []VrInv
    BY VrStart, VrStep, PTL DEF VrSpec
  <1> QED  BY <1>1, VrInvImplies, PTL

-----------------------------------------------------------------------------
(* SimRelay.                                                               *)

\* No goal outlives a stop.
RawInv ==
  /\ raw \in [SimJoints -> [goal : Int, age : Nat, past : BOOLEAN] \cup {None}]
  /\ \A j \in SimJoints : raw[j] # None => ~raw[j].past

LEMMA SimStep ==
  ASSUME RawInv, [SimNext]_simVars
  PROVE  /\ RawInv'
         /\ ~was /\ ~was' => \A j \in SimJoints : simOut[j] \in {None, simOut'[j]}
         /\ \A j \in SimJoints :
              was' /\ simOut[j] # None /\ simOut'[j] # simOut[j] => raw'[j] # None /\ ~raw'[j].past
  <1> DEFINE Goal == [goal : Int, age : Nat, past : BOOLEAN]
  <1>1. CASE RelayTick
    <2> DEFINE target == IF RelayStops /\ HasFeedback THEN simSeen.at ELSE simOut
               held == [j \in SimJoints |-> Held(target[j], simSeen.at[j])]
    <2>1. /\ was' = RelayEnabled
          /\ raw' = IF RelayStops THEN RawAfterStop ELSE raw
          /\ simOut' = IF ~HasFeedback THEN target
                       ELSE [j \in SimJoints |->
                         IF Follows(j, raw') THEN SpeedLimited(held[j], raw'[j].goal) ELSE held[j]]
      BY <1>1 DEF RelayTick
    <2>2. RawInv'
      BY <2>1 DEF RawInv, RawAfterStop
    <2>3. (~was \/ RelayEnabled) => target = simOut
      BY DEF RelayStops
    <2>4. \A j \in SimJoints : Follows(j, raw') => RelayEnabled /\ raw'[j] # None
      BY DEF Follows
    <2>5. ASSUME NEW j \in SimJoints, simOut[j] # None, target = simOut, ~Follows(j, raw')
          PROVE  simOut'[j] = simOut[j]
      BY <2>1, <2>5 DEF Held
    <2> HIDE DEF target
    <2>6. \A j \in SimJoints : raw'[j] # None => ~raw'[j].past
      BY <2>2 DEF RawInv
    <2> QED  BY <2>1, <2>2, <2>3, <2>4, <2>5, <2>6
  <1>2. CASE \E j \in SimJoints, goal \in Positions, valid \in BOOLEAN : SimCommand(j, goal, valid)
    <2>1. PICK j \in SimJoints, goal \in Positions, valid \in BOOLEAN : SimCommand(j, goal, valid)
      BY <1>2
    <2>2. UNCHANGED <<simOut, was>>
          /\ raw' = IF valid THEN [raw EXCEPT ![j] = [goal |-> goal, age |-> 0, past |-> FALSE]]
                    ELSE raw
      BY <2>1 DEF SimCommand
    <2>3. [goal |-> goal, age |-> 0, past |-> FALSE] \in Goal
      BY RelayAssumption
    <2> QED  BY <2>2, <2>3 DEF RawInv
  <1>3. CASE SimElapse
    <2>1. \A g \in Goal : /\ [g EXCEPT !.age = g.age + 1] \in Goal
                         /\ [g EXCEPT !.age = g.age + 1].past = g.past
      OBVIOUS
    <2> HIDE DEF Goal
    <2>2. /\ UNCHANGED <<simOut, was>>
          /\ raw' = [j \in SimJoints |->
               IF raw[j] = None \/ raw[j].age > CommandLife THEN raw[j]
               ELSE [raw[j] EXCEPT !.age = raw[j].age + 1]]
      BY <1>3 DEF SimElapse
    <2>3. \A j \in SimJoints : raw[j] \in Goal \cup {None}
      BY DEF RawInv, Goal
    <2>4. \A j \in SimJoints : raw'[j] \in Goal \cup {None}
      BY <2>1, <2>2, <2>3
    <2>5. raw' \in [SimJoints -> Goal \cup {None}]
      BY <2>2, <2>4
    <2> QED  BY <2>2, <2>5 DEF RawInv, Goal
  <1>4. CASE UNCHANGED <<raw, simOut, was>>
    BY <1>4 DEF RawInv
  <1> QED  BY <1>1, <1>2, <1>3, <1>4 DEF SimNext, SimMeasured, SimStatus, SimReport, simVars

-----------------------------------------------------------------------------
(* VrPublisher: the lift.                                                  *)

LiftInv == lift = None \/ (lift \in Int /\ LiftSteps # {})

LEMMA LiftStep ==
  ASSUME VrInv, LiftInv, [VrNext(Heights, Places, Places)]_vrVars
  PROVE  /\ LiftInv'
         /\ lift # None => \E s \in LiftSteps : Dist(lift, lift') <= s
  <1>1. CASE UNCHANGED lift
    <2>1. lift # None => \A s \in LiftSteps : Dist(lift, lift') <= s
      BY <1>1, VrAssumption DEF LiftInv, Dist
    <2> QED  BY <1>1, <2>1 DEF LiftInv
  <1>2. CASE \E s \in LiftSteps : ProcessHands(s)
    <2>1. PICK s \in LiftSteps : ProcessHands(s)
      BY <1>2
    <2> DEFINE relative == body.height
    <2>2. relative \in Int /\ s \in Nat
      BY <2>1, VrFacts, VrAssumption DEF ProcessHands, VrInv, VrType
    <2>3. lift' = IF params.lift THEN LiftGoal(relative, s) ELSE lift
      BY <2>1 DEF ProcessHands
    <2> HIDE DEF relative
    <2>4. CASE lift' = lift
      BY <1>1, <2>4
    <2>5. CASE lift' # lift /\ lift = None
      BY <2>2, <2>3, <2>5 DEF LiftGoal, LiftInv
    <2>6. CASE lift' # lift /\ lift # None
      <3> DEFINE filtered1 == (3 * relative + 7 * lift) \div 10
      <3>1. lift \in Int
        BY <2>6 DEF LiftInv
      <3>2. filtered1 \in Int
        BY <2>2, <3>1
      <3>3. lift' = lift + Clamp(filtered1 - lift, s)
        BY <2>3, <2>6 DEF LiftGoal
      <3> HIDE DEF filtered1
      <3>4. lift' \in Int /\ Dist(lift, lift') <= s
        BY <2>2, <3>1, <3>2, <3>3 DEF Clamp, Dist
      <3> QED  BY <3>4 DEF LiftInv
    <2> QED  BY <2>4, <2>5, <2>6
  <1> QED  BY <1>1, <1>2 DEF VrNext, SetSteps, ReadFlag, WriteFlag, TestFlag, ElseFlag, ResetHeight,
       ResetRest, PublishZero, Tell, OdomCallback, ReactivateCallback, GestureReleased, GestureHeld,
       GestureToggle, BodyEvent, BodyMove, BodySteps, CaptureHeight, CapturePlace, CaptureNothing,
       Relate, RelateFails, Drive, vrVars

-----------------------------------------------------------------------------
(* ArmPoses.                                                               *)

Joint == [Roles -> Int \cup {None}]
Rests == [goal : Int, low : HeadHeights, high : HeadHeights]

\* Where the wrist's filter goes with the head at this height, for the hand, the
\* reference and the zero as they are.
Target(s, head) == Zeroed(Relative(hand[s].z, head, initial), zero)
\* A height lies where the head's range takes the wrist.
Swept(s, height, range) ==
  /\ Residual >= 0 => Target(s, range.low) <= height /\ height <= Target(s, range.high)
  /\ Residual <= 0 => Target(s, range.high) <= height /\ height <= Target(s, range.low)

\* A wrist at rest was, and is, where some height of the head's range takes it.
RestInv ==
  \A s \in Sides : rest[s] # None =>
    /\ hand[s] # None /\ filters[s]["wrist"] # None /\ rest[s].low <= rest[s].high
    /\ initial # None => /\ Swept(s, rest[s].goal - Offset[s]["wrist"], rest[s])
                         /\ Swept(s, filters[s]["wrist"], rest[s])

\* The wrist goal is the filter's with its offset, and the elbow goal within its reach.
PoseInv ==
  /\ hand \in [Sides -> HandPoses \cup {None}]
  /\ initial \in HeadHeights \cup {None} /\ zero \in Int \cup {None}
  /\ filters \in [Sides -> Joint] /\ goals \in [Sides -> Joint]
  /\ \A s \in Sides, r \in Roles : goals[s][r] = None <=> filters[s][r] = None
  /\ turn \in [Sides -> Int \cup {None}]
  /\ rest \in [Sides -> Rests \cup {None}]
  /\ \A s \in Sides : filters[s]["wrist"] # None
                      => goals[s]["wrist"] = filters[s]["wrist"] + Offset[s]["wrist"]
  /\ \A s \in Sides : (elbowLast[s] /\ "elbow" \in Limbs) => goals[s]["elbow"] \in Int
  /\ ElbowNearWrist /\ RestInv /\ HeadMotionBounded

LEMMA WithinFacts ==
  ASSUME NEW x \in Int, NEW centre \in Int, NEW bound \in Nat
  PROVE  /\ Within(x, centre, bound) \in Int
         /\ Within(x, centre, bound) - centre \in -bound .. bound
         /\ Within(Within(x, centre, bound), centre, bound) = Within(x, centre, bound)
  BY DEF Within

LEMMA BlendFacts ==
  ASSUME NEW past \in Int \cup {None}, NEW place \in Int
  PROVE  /\ Blend(past, place) \in Int
         /\ past # None => /\ past <= Blend(past, place) \/ place <= Blend(past, place)
                           /\ Blend(past, place) <= past \/ Blend(past, place) <= place
         /\ past = None => Blend(past, place) = place
  BY DEF Blend

LEMMA ArmFacts ==
  /\ VrScale \in Int /\ Unit \in Int /\ Reach \in Nat /\ MaxTurn \in Nat /\ Residual \in Int
  /\ HeadHeights \subseteq Int /\ LimbHeights \subseteq Int
  /\ None \notin Int /\ None \notin Rests
  /\ "wrist" \in Roles /\ Limbs \subseteq Roles
  /\ \A s \in Sides, r \in Roles : Offset[s][r] \in Int
  <1>1. VrScale \in Int /\ Unit \in Int /\ Reach \in Nat /\ MaxTurn \in Nat
    BY ArmAssumption
  <1>2. HeadHeights \subseteq Int /\ LimbHeights \subseteq Int /\ None \notin Int
    BY ArmAssumption
  <1>3. Rests \subseteq [goal : Int, low : Int, high : Int]
    BY <1>2 DEF Rests
  <1>4. None \notin Rests
    BY <1>3, ArmAssumption
  <1>5. \A s \in Sides, r \in Roles : Offset[s][r] \in Int
    BY ArmAssumption
  <1> QED  BY <1>1, <1>2, <1>4, <1>5 DEF Residual, Roles

\* A number times what grows, grows or falls.
LEMMA Product ==
  ASSUME NEW c \in Int, NEW d \in Nat
  PROVE  (c >= 0 => c * d >= 0) /\ (c <= 0 => c * d <= 0) /\ c * d \in Int
  OBVIOUS

\* One unit of the head's motion moves the target by the residual.
LEMMA Linear ==
  ASSUME NEW h \in Int, NEW x \in Int, NEW y \in Int, NEW start \in Int, NEW z \in Int \cup {None}
  PROVE  /\ Zeroed(Relative(h, x, start), z) \in Int
         /\ Zeroed(Relative(h, y, start), z) = Zeroed(Relative(h, x, start), z) + Residual * (y - x)
  <1> DEFINE X == Relative(h, x, start)
             Y == Relative(h, y, start)
  <1>1. X \in Int /\ Y \in Int /\ Y = X + Residual * (y - x)
    <2>1. CASE flags.coupled
      <3>1. /\ X = VrScale * (h - x) + Unit * (x - start)
            /\ Y = VrScale * (h - y) + Unit * (y - start) /\ Residual = Unit - VrScale
        BY <2>1 DEF Relative, Lifted, Residual
      <3> QED  BY <3>1, ArmFacts
    <2>2. CASE ~flags.coupled
      <3>1. /\ X = VrScale * (h - x) + Unit * 0
            /\ Y = VrScale * (h - y) + Unit * 0 /\ Residual = -VrScale
        BY <2>2 DEF Relative, Lifted, Residual
      <3> QED  BY <3>1, ArmFacts
    <2> QED  BY <2>1, <2>2
  <1>2. Residual * (y - x) \in Int
    BY ArmFacts
  <1> HIDE DEF X, Y
  <1>3. Zeroed(X, z) \in Int /\ Zeroed(Y, z) = Zeroed(X, z) + Residual * (y - x)
    <2> DEFINE d == Residual * (y - x)
    <2>1. d \in Int /\ Y = X + d
      BY <1>1, <1>2
    <2> HIDE DEF d
    <2>2. Zeroed(X, z) \in Int /\ Zeroed(Y, z) = Zeroed(X, z) + d
      BY <1>1, <2>1 DEF Zeroed
    <2> QED  BY <2>2 DEF d
  <1> QED  BY <1>3 DEF X, Y

\* A wider range of the head's heights takes the wrist farther, and to any height
\* within it.
LEMMA Sweep ==
  ASSUME NEW h \in Int, NEW start \in Int, NEW z \in Int \cup {None},
         NEW low \in Int, NEW x \in Int, NEW high \in Int, low <= x, x <= high
  PROVE  LET T(y) == Zeroed(Relative(h, y, start), z)
         IN /\ T(x) \in Int /\ T(low) \in Int /\ T(high) \in Int
            /\ Residual >= 0 => T(low) <= T(x) /\ T(x) <= T(high)
            /\ Residual <= 0 => T(high) <= T(x) /\ T(x) <= T(low)
  <1> DEFINE T(y) == Zeroed(Relative(h, y, start), z)
  <1>1. /\ T(x) \in Int /\ T(low) \in Int /\ T(high) \in Int
        /\ T(x) = T(low) + Residual * (x - low) /\ T(high) = T(x) + Residual * (high - x)
    BY Linear
  <1>2. x - low \in Nat /\ high - x \in Nat /\ Residual \in Int
    BY ArmFacts
  <1> HIDE DEF T
  <1> DEFINE a == Residual * (x - low)
             b == Residual * (high - x)
  <1>3. /\ a \in Int /\ b \in Int
        /\ Residual >= 0 => a >= 0 /\ b >= 0
        /\ Residual <= 0 => a <= 0 /\ b <= 0
    BY <1>2, Product
  <1>4. T(x) = T(low) + a /\ T(high) = T(x) + b
    BY <1>1
  <1> HIDE DEF a, b
  <1>5. /\ Residual >= 0 => T(low) <= T(x) /\ T(x) <= T(high)
        /\ Residual <= 0 => T(high) <= T(x) /\ T(x) <= T(low)
    BY <1>1, <1>3, <1>4
  <1> QED  BY <1>1, <1>5 DEF T

LEMMA PoseStart == ArmInit => PoseInv
  BY DEF ArmInit, PoseInv, ElbowNearWrist, RestInv, HeadMotionBounded, Nothing, Joint, Roles

\* One frame of the body.
LEMMA PoseFrame ==
  ASSUME PoseInv, NEW head \in HeadHeights, NEW limbs \in [Sides -> LimbHeights \cup {None}],
         ArmBodyMove(head, limbs)
  PROVE  /\ PoseInv'
         /\ \A s \in Sides : turn[s] # None => turn'[s] - turn[s] \in -MaxTurn .. MaxTurn
  <1> DEFINE start == IF initial = None THEN head ELSE initial
             z == ZeroFrom(head, start)
             Place(height) == Zeroed(Relative(height, head, start), z)
             wrist == [s \in Sides |-> IF s \in HandSides
                                       THEN Blend(filters[s]["wrist"], Place(hand[s].z))
                                       ELSE filters[s]["wrist"]]
             New(s, r) == IF r = "wrist" THEN wrist[s]
                          ELSE IF limbs[s] = None THEN filters[s][r]
                          ELSE Blend(filters[s][r], Place(limbs[s]))
             Skips(s, r) == IF r = "wrist" THEN s \notin HandSides ELSE limbs[s] = None
             Goal(s, r) == IF Skips(s, r) THEN goals[s][r]
                           ELSE Safe(r, New(s, r), wrist[s]) + Offset[s][r]
             Anew(s) == IF s \notin HandSides THEN None
                        ELSE IF rest[s] # None /\ initial # None /\ z = zero THEN Widened(rest[s], head)
                        ELSE IF wrist[s] = Place(hand[s].z)
                        THEN [goal |-> wrist[s] + Offset[s]["wrist"], low |-> head, high |-> head]
                        ELSE None
  <1>1. /\ initial' = start /\ zero' = z
        /\ filters' = [s \in Sides |-> [r \in Roles |-> New(s, r)]]
        /\ turn' = [s \in Sides |-> IF s \in HandSides THEN TurnOf(turn[s], hand[s].a) ELSE turn[s]]
        /\ goals' = [s \in Sides |-> [r \in Roles |-> Goal(s, r)]]
        /\ elbowLast' = [s \in Sides |-> limbs[s] # None \/ (elbowLast[s] /\ s \notin HandSides)]
        /\ rest' = [s \in Sides |-> Anew(s)]
        /\ UNCHANGED <<flags, hand>>
    BY DEF ArmBodyMove
  <1>2. /\ \A s \in HandSides : s \in Sides /\ hand[s].z \in Int /\ hand[s].a \in Int
        /\ head \in Int /\ start \in Int /\ start \in HeadHeights
        /\ \A s \in Sides : limbs[s] # None => limbs[s] \in Int
    <2>1. \A s \in HandSides : s \in Sides /\ hand[s].z \in Int /\ hand[s].a \in Int
      BY ArmAssumption DEF PoseInv, HandSides
    <2>2. HeadHeights \subseteq Int /\ start \in HeadHeights
      BY ArmAssumption DEF PoseInv
    <2>3. \A s \in Sides : limbs[s] # None => limbs[s] \in Int
      BY ArmAssumption
    <2> HIDE DEF start
    <2> QED  BY <2>1, <2>2, <2>3
  <1>3. \A height \in Int : Relative(height, head, start) \in Int
    BY <1>2, ArmFacts DEF Relative, Lifted
  <1>4. z \in Int \cup {None}
    <2>1. CASE z = zero
      BY <2>1 DEF PoseInv
    <2>2. CASE z # zero
      <3> DEFINE first == IF "left" \in HandSides THEN "left" ELSE "right"
      <3>1. HandSides # {} /\ z = Relative(hand[first].z, head, start)
        BY <2>2 DEF ZeroFrom
      <3>2. first \in HandSides
        BY <3>1, ArmAssumption DEF HandSides
      <3> QED  BY <1>2, <1>3, <3>1, <3>2
    <2> QED  BY <2>1, <2>2
  <1>5. /\ \A height \in Int : Place(height) \in Int
        /\ \A height \in Int : Place(height) = Zeroed(Relative(height, head, start), z)
    BY <1>3, <1>4 DEF Zeroed
  <1>6. initial # None => start = initial
    OBVIOUS
  <1> HIDE DEF Place, z, start
  <1>7. \A s \in Sides, r \in Roles : filters[s][r] \in Int \cup {None} /\ goals[s][r] \in Int \cup {None}
    BY DEF PoseInv, Joint
  <1>8. "wrist" \in Roles /\ Limbs \subseteq Roles
    BY DEF Roles
  <1>9. \A s \in Sides : /\ wrist[s] \in Int \cup {None}
                         /\ s \in HandSides => wrist[s] \in Int
    BY <1>2, <1>5, <1>7, <1>8, BlendFacts
  <1>10. \A s \in HandSides : wrist[s] = Blend(filters[s]["wrist"], Place(hand[s].z))
    BY <1>2
  <1> HIDE DEF wrist
  <1>11. \A s \in Sides, r \in Roles : New(s, r) \in Int \cup {None}
    BY <1>2, <1>5, <1>7, <1>9, BlendFacts
  <1>12. \A s \in Sides, r \in Roles : ~Skips(s, r) => New(s, r) \in Int
    BY <1>2, <1>5, <1>7, <1>9, BlendFacts
  <1>13. \A s \in Sides, r \in Roles : Skips(s, r) => New(s, r) = filters[s][r]
    BY DEF wrist
  <1>14. \A s \in Sides : New(s, "wrist") = wrist[s]
    OBVIOUS
  <1> HIDE DEF New
  <1> DEFINE Bare(s, r) == Safe(r, New(s, r), wrist[s])
  <1>15. ASSUME NEW s \in Sides, NEW r \in Roles, ~Skips(s, r)
         PROVE  /\ Bare(s, r) \in Int
                /\ r = "wrist" => Bare(s, r) = wrist[s]
                /\ (r = "elbow" /\ wrist[s] # None) => Within(Bare(s, r), wrist[s], Reach) = Bare(s, r)
    <2>1. New(s, r) \in Int /\ wrist[s] \in Int \cup {None} /\ Reach \in Nat
      BY <1>9, <1>12, <1>15, ArmFacts
    <2>2. CASE r = "elbow" /\ wrist[s] # None
      <3>1. Bare(s, r) = Within(New(s, r), wrist[s], Reach) /\ wrist[s] \in Int
        BY <2>1, <2>2 DEF Safe
      <3>2. /\ Within(New(s, r), wrist[s], Reach) \in Int
            /\ Within(Within(New(s, r), wrist[s], Reach), wrist[s], Reach)
                 = Within(New(s, r), wrist[s], Reach)
        BY <2>1, <3>1, WithinFacts
      <3> QED  BY <2>2, <3>1, <3>2
    <2>3. CASE ~(r = "elbow" /\ wrist[s] # None)
      BY <1>14, <2>1, <2>3 DEF Safe
    <2> QED  BY <2>2, <2>3
  <1>16. \A s \in Sides, r \in Roles :
           /\ Skips(s, r) => Goal(s, r) = goals[s][r]
           /\ ~Skips(s, r) => Goal(s, r) = Bare(s, r) + Offset[s][r]
    OBVIOUS
  <1>17. \A s \in Sides, r \in Roles :
           /\ Goal(s, r) \in Int \cup {None}
           /\ Goal(s, r) = None <=> New(s, r) = None
    <2>1. ASSUME NEW s \in Sides, NEW r \in Roles
          PROVE  Goal(s, r) \in Int \cup {None} /\ (Goal(s, r) = None <=> New(s, r) = None)
      <3>1. CASE Skips(s, r)
        <4>1. Goal(s, r) = goals[s][r] /\ New(s, r) = filters[s][r]
          BY <1>13, <1>16, <3>1
        <4> QED  BY <1>7, <4>1 DEF PoseInv
      <3>2. CASE ~Skips(s, r)
        <4>1. Goal(s, r) = Bare(s, r) + Offset[s][r] /\ Bare(s, r) \in Int /\ Offset[s][r] \in Int
          BY <1>15, <1>16, <3>2, ArmFacts
        <4>2. New(s, r) \in Int
          BY <1>12, <3>2
        <4> HIDE DEF Goal, Bare
        <4> QED  BY <4>1, <4>2, ArmFacts
      <3> QED  BY <3>1, <3>2
    <2> QED  BY <2>1
  <1>18. \A s \in Sides : /\ Skips(s, "wrist") <=> s \notin HandSides
                          /\ "elbow" \in Limbs => (Skips(s, "elbow") <=> limbs[s] = None)
    OBVIOUS
  <1> HIDE DEF Goal, Bare, Skips
  <1>19. /\ goals' \in [Sides -> Joint] /\ filters' \in [Sides -> Joint]
         /\ \A s \in Sides, r \in Roles : goals'[s][r] = Goal(s, r) /\ filters'[s][r] = New(s, r)
    BY <1>1, <1>11, <1>17 DEF Joint
  <1>20. \A s \in Sides : filters'[s]["wrist"] # None
                          => goals'[s]["wrist"] = filters'[s]["wrist"] + Offset[s]["wrist"]
    <2>1. ASSUME NEW s \in Sides, filters'[s]["wrist"] # None
          PROVE  goals'[s]["wrist"] = filters'[s]["wrist"] + Offset[s]["wrist"]
      <3>1. CASE s \in HandSides
        BY <1>8, <1>15, <1>16, <1>19, <1>14, <1>18, <3>1
      <3>2. CASE s \notin HandSides
        BY <1>8, <1>13, <1>16, <1>19, <1>18, <2>1, <3>2 DEF PoseInv
      <3> QED  BY <3>1, <3>2
    <2> QED  BY <2>1
  <1>21. ASSUME NEW s \in Sides, elbowLast'[s], "elbow" \in Limbs
         PROVE  /\ goals'[s]["elbow"] \in Int
                /\ goals'[s]["wrist"] # None =>
                     LET w == goals'[s]["wrist"] - Offset[s]["wrist"]
                         e == goals'[s]["elbow"] - Offset[s]["elbow"]
                     IN Within(e, w, Reach) = e
    <2>0. "elbow" \in Roles /\ Offset[s]["elbow"] \in Int /\ Offset[s]["wrist"] \in Int
      BY <1>8, <1>21, ArmFacts
    <2>1. goals'[s]["elbow"] = Goal(s, "elbow") /\ goals'[s]["wrist"] = Goal(s, "wrist")
      BY <1>8, <1>19, <2>0
    <2>2. CASE limbs[s] # None
      <3>1. /\ Goal(s, "elbow") = Bare(s, "elbow") + Offset[s]["elbow"] /\ Bare(s, "elbow") \in Int
            /\ wrist[s] # None => Within(Bare(s, "elbow"), wrist[s], Reach) = Bare(s, "elbow")
        BY <1>15, <1>16, <1>21, <1>18, <2>0, <2>2
      <3>2. Goal(s, "elbow") \in Int /\ Goal(s, "elbow") - Offset[s]["elbow"] = Bare(s, "elbow")
        BY <2>0, <3>1
      <3>3. ASSUME goals'[s]["wrist"] # None
            PROVE  wrist[s] # None /\ goals'[s]["wrist"] - Offset[s]["wrist"] = wrist[s]
        <4>1. filters'[s]["wrist"] = wrist[s] /\ wrist[s] # None
          BY <1>8, <1>17, <1>19, <1>14, <2>1, <3>3
        <4>2. goals'[s]["wrist"] = wrist[s] + Offset[s]["wrist"] /\ wrist[s] \in Int
          BY <1>9, <1>20, <4>1
        <4> QED  BY <2>0, <4>1, <4>2
      <3> QED  BY <2>1, <3>1, <3>2, <3>3
    <2>3. CASE limbs[s] = None
      <3>1. elbowLast[s] /\ s \notin HandSides
        BY <1>1, <1>21, <2>3
      <3>2. goals'[s]["elbow"] = goals[s]["elbow"] /\ goals'[s]["wrist"] = goals[s]["wrist"]
        BY <1>8, <1>16, <1>21, <1>18, <2>0, <2>1, <2>3, <3>1
      <3> QED  BY <1>21, <3>1, <3>2 DEF PoseInv, ElbowNearWrist
    <2> QED  BY <2>2, <2>3
  <1>22. /\ turn' \in [Sides -> Int \cup {None}]
         /\ \A s \in Sides : turn[s] # None => turn'[s] - turn[s] \in -MaxTurn .. MaxTurn
    <2>1. \A s \in Sides : turn[s] \in Int \cup {None}
      BY DEF PoseInv
    <2>2. MaxTurn \in Nat
      BY ArmAssumption
    <2>3. ASSUME NEW s \in HandSides
          PROVE  /\ TurnOf(turn[s], hand[s].a) \in Int
                 /\ turn[s] # None => TurnOf(turn[s], hand[s].a) - turn[s] \in -MaxTurn .. MaxTurn
      <3>1. s \in Sides /\ hand[s].a \in Int /\ turn[s] \in Int \cup {None}
        BY <1>2, <2>1, <2>3
      <3> QED  BY <2>2, <3>1, BlendFacts, WithinFacts DEF TurnOf
    <2>4. \A x \in Int : x - x \in -MaxTurn .. MaxTurn
      BY <2>2
    <2> QED  BY <1>1, <2>1, <2>3, <2>4
  <1>23. initial' \in HeadHeights \cup {None} /\ zero' \in Int \cup {None}
    BY <1>1, <1>2, <1>4
  <1>24. \A s \in Sides, r \in Roles : goals'[s][r] = None <=> filters'[s][r] = None
    BY <1>17, <1>19
  <1>25. ASSUME NEW s \in Sides, rest'[s] # None
         PROVE  /\ rest'[s] \in Rests /\ rest'[s].low <= rest'[s].high
                /\ hand[s] # None /\ filters'[s]["wrist"] \in Int
                /\ Swept(s, rest[s].goal - Offset[s]["wrist"], rest[s])'
                /\ Swept(s, filters[s]["wrist"], rest[s])'
                /\ Target(s, rest[s].high)'
                     = Target(s, rest[s].low)' + Residual' * (rest'[s].high - rest'[s].low)
                /\ Target(s, rest[s].low)' \in Int /\ Residual' \in Int
    <2>1. s \in HandSides /\ rest'[s] = Anew(s)
      BY <1>1, <1>25
    <2> DEFINE T(x) == Zeroed(Relative(hand[s].z, x, start), z)
               off == Offset[s]["wrist"]
    <2>2. /\ wrist[s] \in Int /\ filters'[s]["wrist"] = wrist[s] /\ off \in Int
          /\ hand[s].z \in Int /\ hand[s] # None /\ Place(hand[s].z) = T(head)
      BY <1>2, <1>5, <1>8, <1>9, <1>19, <1>14, <2>1, ArmFacts DEF HandSides
    <2>3. Residual' = Residual /\ \A x : Target(s, x)' = T(x)
      BY <1>1 DEF Residual, Target, Relative, Lifted, Zeroed
    <2>4. \A l, x, h \in Int : l <= x /\ x <= h =>
            /\ T(x) \in Int /\ T(l) \in Int /\ T(h) \in Int
            /\ Residual >= 0 => T(l) <= T(x) /\ T(x) <= T(h)
            /\ Residual <= 0 => T(h) <= T(x) /\ T(x) <= T(l)
      BY <1>2, <1>4, <2>2, Sweep
    <2>7. rest'[s].low \in Int /\ rest'[s].high \in Int =>
            /\ Target(s, rest[s].high)'
                 = Target(s, rest[s].low)' + Residual' * (rest'[s].high - rest'[s].low)
            /\ Target(s, rest[s].low)' \in Int /\ Residual' \in Int
      <3>1. start \in Int /\ Residual \in Int
        BY <1>2, ArmFacts
      <3>2. \A x, y \in Int : T(x) \in Int /\ T(y) = T(x) + Residual * (y - x)
        BY <1>2, <1>4, <2>2, <2>3, <3>1, Linear
      <3>3. /\ Target(s, rest[s].low)' = T(rest'[s].low)
            /\ Target(s, rest[s].high)' = T(rest'[s].high)
        BY <2>3
      <3> HIDE DEF T
      <3> QED  BY <2>3, <3>1, <3>2, <3>3
    <2>5. CASE rest[s] # None /\ initial # None /\ z = zero
      <3>1. rest'[s] = Widened(rest[s], head)
        BY <2>1, <2>5
      <3>2. rest[s] \in Rests /\ rest[s].low <= rest[s].high /\ filters[s]["wrist"] \in Int
        BY <1>7, <1>8, <2>5 DEF PoseInv, RestInv
      <3> DEFINE low == IF head < rest[s].low THEN head ELSE rest[s].low
                 high == IF head > rest[s].high THEN head ELSE rest[s].high
      <3>3. rest'[s] = [rest[s] EXCEPT !.low = low, !.high = high]
        BY <3>1 DEF Widened
      <3>4. /\ rest[s].low \in Int /\ rest[s].high \in Int /\ low \in Int /\ high \in Int
            /\ low \in HeadHeights /\ high \in HeadHeights /\ rest[s].goal \in Int
            /\ low <= rest[s].low /\ rest[s].high <= high /\ low <= head /\ head <= high
        <4>1. rest[s].low \in HeadHeights /\ rest[s].high \in HeadHeights /\ rest[s].goal \in Int
          BY <3>2 DEF Rests
        <4>2. head \in Int /\ rest[s].low \in Int /\ rest[s].high \in Int
          BY <1>2, <4>1, ArmFacts
        <4>3. low \in {head, rest[s].low} /\ high \in {head, rest[s].high}
          OBVIOUS
        <4>4. low <= rest[s].low /\ rest[s].high <= high /\ low <= head /\ head <= high
          BY <4>2
        <4> HIDE DEF low, high
        <4> QED  BY <4>1, <4>2, <4>3, <4>4
      <3> HIDE DEF low, high
      <3>5. /\ rest'[s] \in Rests /\ rest'[s].low = low /\ rest'[s].high = high
            /\ rest'[s].goal = rest[s].goal
        BY <3>2, <3>3, <3>4 DEF Rests
      <3>6. \A x : Target(s, x) = T(x)
        BY <1>6, <2>5 DEF Target
      <3>7. /\ Swept(s, rest[s].goal - off, rest[s]) /\ Swept(s, filters[s]["wrist"], rest[s])
        BY <2>5 DEF PoseInv, RestInv
      <3> DEFINE past == filters[s]["wrist"]
                 to == T(head)
                 goal == rest[s].goal - off
                 l == T(rest[s].low)
                 h == T(rest[s].high)
                 L == T(low)
                 H == T(high)
      <3>8. /\ Residual >= 0 => l <= goal /\ goal <= h /\ l <= past /\ past <= h
            /\ Residual <= 0 => h <= goal /\ goal <= l /\ h <= past /\ past <= l
        BY <3>6, <3>7 DEF Swept
      <3>9. /\ Residual >= 0 => L <= l /\ h <= H /\ L <= to /\ to <= H
            /\ Residual <= 0 => H <= h /\ l <= L /\ H <= to /\ to <= L
            /\ l \in Int /\ h \in Int /\ L \in Int /\ H \in Int /\ to \in Int
        <4>1. rest[s].low <= high /\ low <= rest[s].high /\ head \in Int
          BY <1>2, <3>2, <3>4
        <4> HIDE DEF T
        <4>2. /\ T(rest[s].low) \in Int /\ T(low) \in Int /\ T(high) \in Int
              /\ Residual >= 0 => T(low) <= T(rest[s].low)
              /\ Residual <= 0 => T(rest[s].low) <= T(low)
          BY <2>4, <3>4, <4>1
        <4>3. /\ T(rest[s].high) \in Int
              /\ Residual >= 0 => T(rest[s].high) <= T(high)
              /\ Residual <= 0 => T(high) <= T(rest[s].high)
          BY <2>4, <3>4, <4>1
        <4>4. /\ T(head) \in Int
              /\ Residual >= 0 => T(low) <= T(head) /\ T(head) <= T(high)
              /\ Residual <= 0 => T(high) <= T(head) /\ T(head) <= T(low)
          BY <2>4, <3>4, <4>1
        <4> QED  BY <4>2, <4>3, <4>4
      <3>10. wrist[s] = Blend(past, to)
        BY <1>10, <2>1, <2>2
      <3>11. goal \in Int /\ past \in Int /\ Residual \in Int
        BY <2>2, <3>2, <3>4, ArmFacts
      <3>12. past # None
        BY <3>11, ArmFacts
      <3>13. /\ rest'[s].goal - off = goal /\ filters'[s]["wrist"] = wrist[s]
             /\ Target(s, rest[s].low)' = L /\ Target(s, rest[s].high)' = H
        BY <2>2, <2>3, <3>5
      <3> HIDE DEF past, to, goal, l, h, L, H
      <3>14. /\ past <= wrist[s] \/ to <= wrist[s]
             /\ wrist[s] <= past \/ wrist[s] <= to
        BY <3>9, <3>10, <3>11, <3>12, BlendFacts
      <3>15. /\ Residual >= 0 => L <= goal /\ goal <= H /\ L <= wrist[s] /\ wrist[s] <= H
             /\ Residual <= 0 => H <= goal /\ goal <= L /\ H <= wrist[s] /\ wrist[s] <= L
        BY <2>2, <3>8, <3>9, <3>11, <3>14
      <3>16. Swept(s, rest[s].goal - Offset[s]["wrist"], rest[s])' /\ Swept(s, filters[s]["wrist"], rest[s])'
        BY <2>3, <3>13, <3>15 DEF Swept
      <3>17. rest'[s].low <= rest'[s].high
        BY <3>2, <3>4, <3>5
      <3>18. rest'[s].low \in Int /\ rest'[s].high \in Int
        BY <3>4, <3>5
      <3> QED  BY <2>2, <2>7, <3>5, <3>16, <3>17, <3>18
    <2>6. CASE ~(rest[s] # None /\ initial # None /\ z = zero)
      <3>1. /\ wrist[s] = T(head)
            /\ rest'[s] = [goal |-> wrist[s] + off, low |-> head, high |-> head]
        BY <1>25, <2>1, <2>2, <2>6
      <3>2. /\ rest'[s] \in Rests /\ rest'[s].low = head /\ rest'[s].high = head
            /\ rest'[s].goal = wrist[s] + off
        BY <1>2, <2>2, <3>1 DEF Rests
      <3>3. /\ rest'[s].goal - off = wrist[s]
            /\ Target(s, rest[s].low)' = wrist[s] /\ Target(s, rest[s].high)' = wrist[s]
        BY <2>2, <2>3, <3>1, <3>2
      <3>4. Swept(s, rest[s].goal - Offset[s]["wrist"], rest[s])' /\ Swept(s, filters[s]["wrist"], rest[s])'
        BY <2>2, <3>3 DEF Swept
      <3> QED  BY <1>2, <2>2, <2>7, <3>2, <3>4
    <2> QED  BY <2>5, <2>6
  <1>26. rest' \in [Sides -> Rests \cup {None}]
    <2>1. \A s \in Sides : rest'[s] \in Rests \cup {None}
      BY <1>25
    <2> QED  BY <1>1, <2>1
  <1>27. RestInv'
    BY <1>1, <1>25, ArmFacts DEF RestInv
  <1>28. HeadMotionBounded'
    <2>1. ASSUME NEW s \in Sides, rest'[s] # None
          PROVE  LET moved == goals'[s]["wrist"] - rest'[s].goal
                     swing == Residual' * (rest'[s].high - rest'[s].low)
                 IN moved \in swing .. -swing \/ moved \in -swing .. swing
      <3> DEFINE off == Offset[s]["wrist"]
                 c == Residual'
                 L == Target(s, rest[s].low)'
                 H == Target(s, rest[s].high)'
                 g == rest'[s].goal - off
                 m == filters'[s]["wrist"]
      <3>1. /\ rest'[s] \in Rests /\ rest'[s].low <= rest'[s].high /\ m \in Int
            /\ Swept(s, rest[s].goal - off, rest[s])' /\ Swept(s, filters[s]["wrist"], rest[s])'
            /\ H = L + c * (rest'[s].high - rest'[s].low) /\ L \in Int /\ c \in Int
        BY <1>25, <2>1
      <3>2. /\ c >= 0 => L <= g /\ g <= H /\ L <= m /\ m <= H
            /\ c <= 0 => H <= g /\ g <= L /\ H <= m /\ m <= L
        BY <3>1 DEF Swept
      <3>3. /\ rest'[s].goal \in Int /\ off \in Int /\ g \in Int
            /\ rest'[s].low \in Int /\ rest'[s].high \in Int /\ rest'[s].high - rest'[s].low \in Nat
        BY <3>1, ArmFacts DEF Rests
      <3>4. goals'[s]["wrist"] = m + off
        BY <1>20, <3>1, ArmFacts
      <3>5. goals'[s]["wrist"] - rest'[s].goal = m - g
        BY <3>1, <3>3, <3>4
      <3> DEFINE swing == c * (rest'[s].high - rest'[s].low)
      <3>6. swing \in Int /\ (c >= 0 => swing >= 0) /\ (c <= 0 => swing <= 0) /\ H = L + swing
        BY <3>1, <3>3, Product
      <3> HIDE DEF swing, L, H, g, m, c
      <3>7. m - g \in swing .. -swing \/ m - g \in -swing .. swing
        BY <3>1, <3>2, <3>3, <3>6 DEF g
      <3> QED  BY <3>5, <3>7 DEF swing, c
    <2> QED  BY <2>1 DEF HeadMotionBounded, Swing
  <1>29. PoseInv'
    BY <1>1, <1>19, <1>20, <1>21, <1>22, <1>23, <1>24, <1>26, <1>27, <1>28 DEF PoseInv, ElbowNearWrist
  <1> QED  BY <1>22, <1>29


\* A step that leaves filters and goals alone, and forgets the reference of the head
\* or what rested.
LEMMA PoseAside ==
  ASSUME PoseInv, UNCHANGED <<flags, filters, turn, goals, elbowLast, zero>>,
         initial' \in {initial, None}, hand' \in [Sides -> HandPoses \cup {None}],
         rest' \in [Sides -> Rests \cup {None}],
         \A s \in Sides : rest'[s] # None => rest'[s] = rest[s] /\ hand'[s] = hand[s]
  PROVE  /\ PoseInv'
         /\ \A s \in Sides : turn[s] # None => turn'[s] - turn[s] \in -MaxTurn .. MaxTurn
  <1>1. Residual' = Residual
    BY DEF Residual
  <1>2. ASSUME NEW s \in Sides, rest'[s] # None, initial' # None
        PROVE  \A x : Target(s, x)' = Target(s, x)
    BY <1>2 DEF Target, Relative, Lifted, Zeroed
  <1>3. RestInv'
    <2>1. ASSUME NEW s \in Sides, rest'[s] # None
          PROVE  /\ hand'[s] # None /\ filters'[s]["wrist"] # None /\ rest'[s].low <= rest'[s].high
                 /\ initial' # None => /\ Swept(s, rest[s].goal - Offset[s]["wrist"], rest[s])'
                                       /\ Swept(s, filters[s]["wrist"], rest[s])'
      <3>1. rest'[s] = rest[s] /\ hand'[s] = hand[s] /\ (initial' # None => initial # None)
        BY <2>1
      <3>2. /\ hand[s] # None /\ filters[s]["wrist"] # None /\ rest[s].low <= rest[s].high
            /\ initial' # None => /\ Swept(s, rest[s].goal - Offset[s]["wrist"], rest[s])
                                  /\ Swept(s, filters[s]["wrist"], rest[s])
        BY <2>1, <3>1 DEF PoseInv, RestInv
      <3> QED  BY <1>1, <1>2, <2>1, <3>1, <3>2 DEF Swept
    <2> QED  BY <2>1 DEF RestInv
  <1>4. HeadMotionBounded'
    BY <1>1 DEF PoseInv, HeadMotionBounded, Swing
  <1>5. PoseInv'
    <2>1. initial' \in HeadHeights \cup {None}
      BY DEF PoseInv
    <2>2. ElbowNearWrist'
      BY DEF PoseInv, ElbowNearWrist
    <2> QED  BY <1>3, <1>4, <2>1, <2>2 DEF PoseInv
  <1>6. \A s \in Sides : turn[s] # None => turn[s] \in Int
    BY DEF PoseInv
  <1>7. \A x \in Int : x - x \in -MaxTurn .. MaxTurn
    BY ArmFacts
  <1> QED  BY <1>5, <1>6, <1>7

LEMMA PoseStep ==
  ASSUME PoseInv, [ArmNext]_poseVars
  PROVE  /\ PoseInv'
         /\ \A s \in Sides : turn[s] # None => turn'[s] - turn[s] \in -MaxTurn .. MaxTurn
  <1>1. CASE \E s \in Sides, pose \in HandPoses : ArmHandMove(s, pose)
    <2>1. PICK s \in Sides, pose \in HandPoses : ArmHandMove(s, pose)
      BY <1>1
    <2>2. /\ hand' \in [Sides -> HandPoses \cup {None}] /\ rest' \in [Sides -> Rests \cup {None}]
          /\ \A o \in Sides : o # s => hand'[o] = hand[o] /\ rest'[o] = rest[o]
          /\ rest'[s] = None
      BY <2>1 DEF ArmHandMove, PoseInv
    <2> QED  BY <2>1, <2>2, PoseAside DEF ArmHandMove
  <1>2. CASE ArmEnable
    BY <1>2, PoseAside DEF ArmEnable, PoseInv
  <1>3. CASE \E head \in HeadHeights, limbs \in [Sides -> LimbHeights \cup {None}] :
               ArmBodyMove(head, limbs)
    BY <1>3, PoseFrame
  <1>4. CASE UNCHANGED poseVars
    BY <1>4, PoseAside DEF poseVars, PoseInv
  <1> QED  BY <1>1, <1>2, <1>3, <1>4 DEF ArmNext

-----------------------------------------------------------------------------
(* XrDelta.                                                                *)

Kinds == {"measured", "commanded"}
Wrists == [kind : Kinds, receipt : Nat, stamp : Nat]
MaybePlaces == HandPlaces \cup {None}
Nodes ==
  [on : BOOLEAN, start : BOOLEAN, chord : {"none", "start", "stop"},
   seen : [Inputs -> 0 .. TrackLife + 1], stopped : 0 .. StopAges, wrist : Wrists \cup {None},
   arming : Nat \cup {None}, origin : MaybePlaces, hand : MaybePlaces, last : MaybePlaces,
   goal : Int, rated : BOOLEAN, told : BOOLEAN, anchor : Kinds \cup {None}, still : BOOLEAN]

\* A session has its hand, its origin and a measured anchor; Cyclo is told of it
\* after the arming; and until the hand moves the goal is the anchor.
InSession(x) ==
  /\ x.on => x.hand \in HandPlaces /\ x.origin \in HandPlaces /\ x.anchor = "measured"
  /\ ~x.on => x.arming = None /\ ~x.told /\ x.origin = None
  /\ x.told => x.arming = None
  /\ x.arming # None => x.goal = 0
  /\ (x.told /\ x.still) => x.hand = x.origin /\ x.goal = 0

\* What Cyclo commanded and is still recent was commanded no later than Cyclo
\* needs to follow the stop.
FromBefore(x, kind, age) ==
  (~x.told /\ kind = "commanded" /\ age <= PoseLife) => x.stopped - age <= Reaction

NodeInv(x) ==
  /\ x \in Nodes /\ InSession(x)
  /\ x.wrist # None => FromBefore(x, x.wrist.kind, x.wrist.stamp)

\* What a handler can make of the node, as far as the topics and Cyclo see it.
NodeKeeps(x, y) ==
  y.on = x.on /\ y.told = x.told /\ y.arming = x.arming /\ y.stopped = x.stopped /\ y.wrist = x.wrist
NodeStops(y) == ~y.on /\ y.stopped = 0 /\ y.wrist = None
NodeArms(x, y) ==
  ~x.on /\ y.on /\ y.arming = 0 /\ ~y.told /\ y.stopped = x.stopped /\ y.wrist = x.wrist
NodeActivates(x, y) == x.on /\ y.on /\ x.arming # None /\ x.arming >= Settling /\ y.told
NodeMoves(x, y) == NodeKeeps(x, y) \/ NodeStops(y) \/ NodeArms(x, y) \/ NodeActivates(x, y)

LEMMA XrFacts ==
  /\ None \notin Int /\ HandPlaces \subseteq Int /\ None \notin HandPlaces
  /\ SourceGap \in Nat /\ StopWait \in Nat /\ Settling \in Nat /\ PoseLife \in Nat
  /\ TrackLife \in Nat /\ Reaction \in Nat /\ GoalDelay \in Nat
  /\ Reaction < SourceGap /\ GoalDelay < Settling /\ StopAges \in Nat
  <1>1. {SourceGap, ReceiptGap, StopWait, Settling, PoseLife, TrackLife, HandJump} \subseteq Nat
    BY XrAssumption
  <1>2. SourceGap \in Nat /\ StopWait \in Nat /\ Settling \in Nat /\ PoseLife \in Nat
        /\ TrackLife \in Nat
    BY <1>1
  <1>3. Reaction \in Nat /\ GoalDelay \in Nat /\ HandPlaces \subseteq Int
        /\ Reaction < SourceGap /\ GoalDelay < Settling /\ None \notin Int
    BY XrAssumption
  <1>4. None \notin HandPlaces
    BY <1>3
  <1>5. StopAges \in Nat
    BY <1>2 DEF StopAges
  <1> QED  BY <1>2, <1>3, <1>4, <1>5

LEMMA StoppedFacts ==
  ASSUME NEW x, NodeInv(x), NEW y, y = Stopped(x)
  PROVE  NodeInv(y) /\ NodeStops(y) /\ y.seen = x.seen /\ y.start = x.start
  <1>1. y \in Nodes
    <2>1. /\ 0 \in 0 .. StopAges /\ None \in Wrists \cup {None} /\ None \in Nat \cup {None}
          /\ None \in MaybePlaces /\ 0 \in Int /\ None \in Kinds \cup {None}
      BY XrFacts DEF MaybePlaces
    <2> QED  BY <2>1 DEF NodeInv, Nodes, Stopped
  <1>2. /\ y.on = FALSE /\ y.arming = None /\ y.stopped = 0 /\ y.wrist = None /\ y.origin = None
        /\ y.told = FALSE /\ y.seen = x.seen /\ y.start = x.start
    BY DEF NodeInv, Nodes, Stopped
  <1> QED  BY <1>1, <1>2 DEF NodeInv, NodeStops, InSession

LEMMA ArmedFacts ==
  ASSUME NEW x, NodeInv(x), NEW p \in HandPlaces, NEW fine \in BOOLEAN,
         NEW y, y = Armed(x, p, fine)
  PROVE  NodeInv(y) /\ (NodeKeeps(x, y) \/ NodeArms(x, y)) /\ y.seen = x.seen
  <1>0. x \in Nodes
    BY DEF NodeInv
  <1>1. CASE x.on
    BY <1>1 DEF Armed, NodeKeeps
  <1>2. CASE ~x.on /\ ~CaptureSucceeds(x, fine)
    <2>1. y = [x EXCEPT !.told = FALSE]
      BY <1>2 DEF Armed
    <2>2. x.told = FALSE
      BY <1>0, <1>2 DEF NodeInv, InSession, Nodes
    <2>3. y = x
      BY <1>0, <2>1, <2>2 DEF Nodes
    <2> QED  BY <2>3 DEF NodeKeeps
  <1>3. CASE ~x.on /\ CaptureSucceeds(x, fine)
    <2>1. x.wrist \in Wrists
      BY <1>0, <1>3 DEF CaptureSucceeds, WristCounts, Nodes
    <2>2. x.wrist.kind = "measured"
      <3>1. x.wrist # None /\ x.stopped - x.wrist.stamp >= SourceGap /\ x.wrist.stamp <= PoseLife
        BY <1>3 DEF CaptureSucceeds, WristCounts
      <3>2. ~x.told /\ FromBefore(x, x.wrist.kind, x.wrist.stamp)
        BY <1>3, <3>1 DEF NodeInv, InSession
      <3>3. x.stopped - x.wrist.stamp \in Int
        BY <1>0, <2>1, XrFacts DEF Nodes, Wrists
      <3>4. x.wrist.kind # "commanded"
        BY <3>1, <3>2, <3>3, XrFacts DEF FromBefore
      <3> QED  BY <2>1, <3>4 DEF Wrists, Kinds
    <2>3. y = [x EXCEPT !.on = TRUE, !.arming = 0, !.origin = p, !.hand = p, !.last = p,
                        !.goal = 0, !.rated = FALSE, !.told = FALSE,
                        !.anchor = x.wrist.kind, !.still = FALSE]
      BY <1>3 DEF Armed
    <2>4. y \in Nodes
      <3>1. 0 \in Nat \cup {None} /\ p \in MaybePlaces /\ 0 \in Int
            /\ x.wrist.kind \in Kinds \cup {None}
        BY <2>2 DEF MaybePlaces, Kinds
      <3> QED  BY <1>0, <2>3, <3>1 DEF Nodes
    <2>5. /\ y.on = TRUE /\ y.arming = 0 /\ y.origin = p /\ y.hand = p /\ y.goal = 0
          /\ y.told = FALSE /\ y.anchor = "measured" /\ y.stopped = x.stopped /\ y.wrist = x.wrist
          /\ y.seen = x.seen
      BY <1>0, <2>2, <2>3 DEF Nodes
    <2>6. x.wrist # None => FromBefore(x, x.wrist.kind, x.wrist.stamp)
      BY DEF NodeInv
    <2>7. ~x.told
      BY <1>3 DEF NodeInv, InSession
    <2> QED  BY <1>3, <2>4, <2>5, <2>6, <2>7 DEF NodeInv, InSession, NodeArms, FromBefore
  <1> QED  BY <1>1, <1>2, <1>3

LEMMA PublishedFacts ==
  ASSUME NEW x, NodeInv(x), NEW fine \in BOOLEAN, NEW y, y = Published(x, fine)
  PROVE  /\ NodeInv(y)
         /\ NodeKeeps(x, y) \/ (x.on /\ NodeStops(y)) \/ NodeActivates(x, y)
  <1>0. x \in Nodes
    BY DEF NodeInv
  <1>1. CASE ~x.on \/ x.rated
    <2>1. y = x
      BY <1>1 DEF Published
    <2> QED  BY <2>1 DEF NodeKeeps
  <1>2. CASE x.on /\ ~x.rated /\ ~(fine /\ XrFresh(x))
    <2>1. y = Stopped(x)
      BY <1>2 DEF Published
    <2> QED  BY <1>2, <2>1, StoppedFacts
  <1>3. CASE x.on /\ ~x.rated /\ fine /\ XrFresh(x) /\ x.arming # None
    <2>1. y = [(IF Settled(x) THEN Activated(x) ELSE x) EXCEPT !.rated = TRUE]
      BY <1>3 DEF Published
    <2>2. x.goal = 0 /\ x.hand \in HandPlaces /\ x.on /\ x.anchor = "measured"
      BY <1>3 DEF NodeInv, InSession
    <2>3. CASE Settled(x)
      <3>1. y = [x EXCEPT !.arming = None, !.origin = x.hand, !.told = TRUE, !.still = TRUE,
                          !.rated = TRUE]
        BY <1>0, <2>1, <2>3 DEF Activated, Nodes
      <3>2. y \in Nodes
        BY <1>0, <3>1 DEF Nodes
      <3>3. /\ y.on = x.on /\ y.arming = None /\ y.origin = x.hand /\ y.hand = x.hand
            /\ y.told = TRUE /\ y.goal = 0 /\ y.anchor = "measured"
        BY <1>0, <2>2, <3>1 DEF Nodes
      <3> QED  BY <1>3, <2>2, <2>3, <3>2, <3>3
          DEF NodeInv, InSession, NodeActivates, Settled, FromBefore
    <2>4. CASE ~Settled(x)
      <3>1. y = [x EXCEPT !.rated = TRUE]
        BY <2>1, <2>4
      <3>2. y \in Nodes
        BY <1>0, <3>1 DEF Nodes
      <3>3. /\ y.on = x.on /\ y.arming = x.arming /\ y.origin = x.origin /\ y.hand = x.hand
            /\ y.told = x.told /\ y.goal = x.goal /\ y.anchor = x.anchor /\ y.still = x.still
            /\ y.stopped = x.stopped /\ y.wrist = x.wrist
        BY <1>0, <3>1 DEF Nodes
      <3> QED  BY <3>2, <3>3 DEF NodeInv, InSession, NodeKeeps, FromBefore
    <2> QED  BY <2>3, <2>4
  <1>4. CASE x.on /\ ~x.rated /\ fine /\ XrFresh(x) /\ x.arming = None
    <2> DEFINE step == OneStep(x.goal, x.hand - x.origin)
    <2>1. y = [x EXCEPT !.goal = step, !.last = x.hand, !.rated = TRUE]
      BY <1>4 DEF Published
    <2>2. x.hand \in Int /\ x.origin \in Int /\ x.goal \in Int
      BY <1>0, <1>4, XrFacts DEF NodeInv, InSession, Nodes
    <2>3. step \in Int /\ (x.hand = x.origin /\ x.goal = 0 => step = 0)
      BY <2>2 DEF OneStep
    <2> HIDE DEF step
    <2>4. y \in Nodes
      BY <1>0, <2>1, <2>3 DEF Nodes
    <2>5. /\ y.on = x.on /\ y.arming = x.arming /\ y.origin = x.origin /\ y.hand = x.hand
          /\ y.told = x.told /\ y.goal = step /\ y.anchor = x.anchor /\ y.still = x.still
          /\ y.stopped = x.stopped /\ y.wrist = x.wrist
      BY <1>0, <2>1 DEF Nodes
    <2> QED  BY <1>4, <2>3, <2>4, <2>5 DEF NodeInv, InSession, NodeKeeps, FromBefore
  <1> QED  BY <1>1, <1>2, <1>3, <1>4

LEMMA ActivationFacts ==
  ASSUME NEW x, NodeInv(x), NEW chord \in {"none", "start", "stop"}, NEW p \in HandPlaces,
         NEW fine \in BOOLEAN, NEW y, y = Activation(x, chord, p, fine)
  PROVE  /\ NodeInv(y)
         /\ NodeKeeps(x, y) \/ NodeStops(y) \/ (XrFresh(x) /\ NodeArms(x, y))
  <1> DEFINE fresh == XrFresh(x)
             ready == fresh /\ (chord = "none" \/ x.start)
             stops == (x.on /\ ~fresh) \/ (chord = "stop" /\ (x.chord # "stop" \/ x.on))
             starts == chord = "start" /\ ready /\ x.chord # "start"
             switched == IF starts THEN Armed(x, p, fine) ELSE StoppedIf(x, stops)
             start1 == ready /\ chord # "stop" /\ ~starts
  <1>1. y = [switched EXCEPT !.start = start1, !.chord = chord]
    BY DEF Activation
  <1>2. NodeInv(switched) /\ (NodeKeeps(x, switched) \/ NodeStops(switched)
                                \/ (XrFresh(x) /\ NodeArms(x, switched)))
    <2>1. CASE starts
      BY <2>1, ArmedFacts
    <2>2. CASE ~starts /\ stops
      BY <2>2, StoppedFacts DEF StoppedIf
    <2>3. CASE ~starts /\ ~stops
      BY <2>3 DEF StoppedIf, NodeKeeps
    <2> QED  BY <2>1, <2>2, <2>3
  <1>3. start1 \in BOOLEAN
    BY DEF NodeInv, Nodes, XrFresh
  <1> HIDE DEF switched, start1
  <1>4. y \in Nodes
    BY <1>1, <1>2, <1>3 DEF NodeInv, Nodes
  <1>5. /\ y.on = switched.on /\ y.arming = switched.arming /\ y.origin = switched.origin
        /\ y.hand = switched.hand /\ y.told = switched.told /\ y.goal = switched.goal
        /\ y.anchor = switched.anchor /\ y.still = switched.still
        /\ y.stopped = switched.stopped /\ y.wrist = switched.wrist
    BY <1>1, <1>2 DEF NodeInv, Nodes
  <1>6. NodeInv(y)
    BY <1>2, <1>4, <1>5 DEF NodeInv, InSession, FromBefore
  <1> QED  BY <1>2, <1>5, <1>6 DEF NodeKeeps, NodeStops, NodeArms

\* A tracking that is refused leaves nothing to start from.
LEMMA ReceivedFacts ==
  ASSUME NEW x, NodeInv(x), NEW good \in BOOLEAN, NEW p \in HandPlaces,
         NEW y, y = Received(x, good, p)
  PROVE  NodeInv(y) /\ (NodeKeeps(x, y) \/ (NodeStops(y) /\ ~XrFresh(y)))
  <1>0. x \in Nodes /\ TrackLife + 1 \in 0 .. TrackLife + 1 /\ 0 \in 0 .. TrackLife + 1
        /\ TrackLife \in Nat /\ "hands" \in Inputs
    BY XrFacts DEF NodeInv, Inputs
  <1>1. CASE good
    <2> DEFINE hand1 == IF x.on THEN p ELSE None
               still1 == x.still /\ p = x.hand
               seen1 == [x.seen EXCEPT !["hands"] = 0]
    <2>1. y = [x EXCEPT !.seen = seen1, !.hand = hand1, !.still = still1]
      BY <1>0, <1>1 DEF Received, Nodes
    <2>2. hand1 \in MaybePlaces /\ still1 \in BOOLEAN /\ seen1 \in [Inputs -> 0 .. TrackLife + 1]
      BY <1>0 DEF MaybePlaces, Nodes
    <2>3. x.on => hand1 = p
      OBVIOUS
    <2>4. still1 => x.still /\ p = x.hand
      OBVIOUS
    <2> HIDE DEF hand1, still1, seen1
    <2>5. y \in Nodes
      BY <1>0, <2>1, <2>2 DEF Nodes
    <2>6. /\ y.on = x.on /\ y.arming = x.arming /\ y.origin = x.origin /\ y.hand = hand1
          /\ y.told = x.told /\ y.goal = x.goal /\ y.anchor = x.anchor /\ y.still = still1
          /\ y.stopped = x.stopped /\ y.wrist = x.wrist
      BY <1>0, <2>1 DEF Nodes
    <2> QED  BY <2>3, <2>4, <2>5, <2>6 DEF NodeInv, InSession, NodeKeeps, FromBefore
  <1>2. CASE ~good
    <2> DEFINE seen1 == [x.seen EXCEPT !["hands"] = TrackLife + 1]
               x1 == [x EXCEPT !.seen = seen1]
    <2>1. y = StoppedIf(x1, x.on)
      BY <1>0, <1>2 DEF Received, Nodes
    <2>2. seen1 \in [Inputs -> 0 .. TrackLife + 1] /\ seen1["hands"] = TrackLife + 1
      BY <1>0 DEF Nodes
    <2> HIDE DEF seen1
    <2>3. x1 \in Nodes
      BY <1>0, <2>2 DEF Nodes
    <2>4. /\ x1.on = x.on /\ x1.arming = x.arming /\ x1.origin = x.origin /\ x1.hand = x.hand
          /\ x1.told = x.told /\ x1.goal = x.goal /\ x1.anchor = x.anchor /\ x1.still = x.still
          /\ x1.stopped = x.stopped /\ x1.wrist = x.wrist /\ x1.seen = seen1
      BY <1>0 DEF Nodes
    <2> HIDE DEF x1
    <2>5. NodeInv(x1) /\ NodeKeeps(x, x1)
      BY <2>3, <2>4 DEF NodeInv, InSession, NodeKeeps, FromBefore
    <2>6. CASE ~x.on
      BY <2>1, <2>5, <2>6 DEF StoppedIf
    <2>7. CASE x.on
      <3>1. y = Stopped(x1)
        BY <2>1, <2>7 DEF StoppedIf
      <3>2. NodeInv(y) /\ NodeStops(y) /\ y.seen = seen1
        BY <2>4, <2>5, <3>1, StoppedFacts
      <3> QED  BY <1>0, <2>2, <3>2 DEF XrFresh
    <2> QED  BY <2>6, <2>7
  <1> QED  BY <1>1, <1>2

\* The event of the controllers as a whole.
LEMMA ControllersFacts ==
  ASSUME NEW x, NodeInv(x), NEW good \in BOOLEAN, NEW p \in HandPlaces,
         NEW chord \in {"none", "start", "stop"}, NEW fine \in BOOLEAN,
         NEW y, y = Published(Activation(Received(x, good, p), chord, p, fine), fine)
  PROVE  NodeInv(y) /\ NodeMoves(x, y)
  <1> DEFINE x0 == Received(x, good, p)
             x1 == Activation(x0, chord, p, fine)
  <1>1. NodeInv(x0) /\ (NodeKeeps(x, x0) \/ (NodeStops(x0) /\ ~XrFresh(x0)))
    BY ReceivedFacts
  <1> HIDE DEF x0
  <1>2. NodeInv(x1) /\ (NodeKeeps(x0, x1) \/ NodeStops(x1) \/ (XrFresh(x0) /\ NodeArms(x0, x1)))
    BY <1>1, ActivationFacts
  <1> HIDE DEF x1
  <1>3. NodeInv(y) /\ (NodeKeeps(x1, y) \/ (x1.on /\ NodeStops(y)) \/ NodeActivates(x1, y))
    BY <1>2, PublishedFacts DEF x1, x0
  <1>4. NodeKeeps(x, x1) \/ NodeStops(x1) \/ NodeArms(x, x1)
    BY <1>1, <1>2 DEF NodeKeeps, NodeStops, NodeArms
  <1>5. ~(0 >= Settling)
    BY XrFacts
  <1>6. NodeMoves(x, y)
    <2>1. CASE NodeKeeps(x, x1)
      BY <1>3, <2>1 DEF NodeMoves, NodeKeeps, NodeActivates
    <2>2. CASE NodeStops(x1)
      BY <1>3, <2>2 DEF NodeMoves, NodeKeeps, NodeStops, NodeActivates
    <2>3. CASE NodeArms(x, x1)
      <3>1. ~NodeActivates(x1, y)
        BY <1>5, <2>3 DEF NodeArms, NodeActivates
      <3>2. NodeKeeps(x1, y) => NodeArms(x, y)
        BY <2>3 DEF NodeKeeps, NodeArms
      <3> QED  BY <1>3, <3>1, <3>2 DEF NodeMoves
    <2> QED  BY <1>4, <2>1, <2>2, <2>3
  <1> QED  BY <1>3, <1>6

-----------------------------------------------------------------------------
\* Cyclo has followed the stop after its reaction, and what it may still report
\* from before is older than that.
CycloInv ==
  /\ cyclo \in [active : BOOLEAN, lag : Nat, goals : {"old", "anchor"}, sent : Nat \cup {None}]
  /\ wristWire \in [kind : Kinds, age : Nat] \cup {None}
  /\ ~xr.told => /\ cyclo.lag > Reaction \/ cyclo.lag >= xr.stopped
                 /\ cyclo.active => cyclo.lag <= Reaction
  /\ wristWire # None => FromBefore(xr, wristWire.kind, wristWire.age)

\* Goals from before the arming are replaced before it ends.
GoalsInTime ==
  (xr.on /\ cyclo.goals = "old") =>
    /\ cyclo.sent # None /\ cyclo.sent <= GoalDelay
    /\ xr.arming # None /\ xr.arming <= cyclo.sent

XrInv == NodeInv(xr) /\ CycloInv /\ GoalsInTime

LEMMA XrStart == XrInit => XrInv
  <1> SUFFICES ASSUME XrInit PROVE XrInv
    OBVIOUS
  <1>1. /\ 0 \in 0 .. StopAges /\ None \in Wrists \cup {None} /\ None \in Nat \cup {None}
        /\ None \in MaybePlaces /\ 0 \in Int /\ None \in Kinds \cup {None}
        /\ TrackLife + 1 \in 0 .. TrackLife + 1 /\ 0 <= Reaction
    BY XrFacts DEF MaybePlaces
  <1>2. [i \in Inputs |-> TrackLife + 1] \in [Inputs -> 0 .. TrackLife + 1]
    BY <1>1
  <1>3. xr \in Nodes
    BY <1>1, <1>2 DEF XrInit, Nodes
  <1>4. /\ ~xr.on /\ xr.arming = None /\ ~xr.told /\ xr.origin = None /\ xr.wrist = None
        /\ xr.stopped = 0
    BY DEF XrInit
  <1>5. NodeInv(xr)
    BY <1>3, <1>4 DEF NodeInv, InSession
  <1>6. CycloInv
    BY <1>1, <1>4, XrFacts DEF XrInit, CycloInv
  <1> QED  BY <1>4, <1>5, <1>6 DEF XrInv, GoalsInTime

\* What a handler makes of the node keeps what Cyclo and the topics rely on.
LEMMA BecomesStep ==
  ASSUME XrInv, NodeInv(xr'), NodeMoves(xr, xr'), NodeBecomes(xr'), UNCHANGED wristWire
  PROVE  XrInv'
  <1> DEFINE begins == xr'.on /\ ~xr.on
             lag1 == IF xr'.told # xr.told THEN 0 ELSE cyclo.lag
             goals1 == IF begins THEN "old" ELSE cyclo.goals
             sent1 == IF begins THEN 0 ELSE cyclo.sent
  <1>1. cyclo' = [cyclo EXCEPT !.lag = lag1, !.goals = goals1, !.sent = sent1]
    BY DEF NodeBecomes
  <1>2. /\ cyclo \in [active : BOOLEAN, lag : Nat, goals : {"old", "anchor"}, sent : Nat \cup {None}]
        /\ lag1 \in Nat /\ goals1 \in {"old", "anchor"} /\ sent1 \in Nat \cup {None}
    BY DEF XrInv, CycloInv
  <1> HIDE DEF lag1, goals1, sent1
  <1>3. /\ cyclo' \in [active : BOOLEAN, lag : Nat, goals : {"old", "anchor"}, sent : Nat \cup {None}]
        /\ cyclo'.active = cyclo.active /\ cyclo'.lag = lag1 /\ cyclo'.goals = goals1
        /\ cyclo'.sent = sent1
    BY <1>1, <1>2
  <1>4. InSession(xr) /\ InSession(xr') /\ xr \in Nodes /\ xr' \in Nodes
    BY DEF XrInv, NodeInv
  <1>5. /\ xr.stopped \in Nat /\ xr'.stopped \in Nat /\ Reaction \in Nat
        /\ xr.on \in BOOLEAN /\ xr'.on \in BOOLEAN /\ xr.told \in BOOLEAN /\ xr'.told \in BOOLEAN
    BY <1>4, XrFacts DEF Nodes
  <1>6. ~xr'.told => /\ lag1 > Reaction \/ lag1 >= xr'.stopped
                     /\ cyclo.active => lag1 <= Reaction
    BY <1>2, <1>4, <1>5 DEF lag1, NodeMoves, NodeKeeps, NodeStops, NodeArms, NodeActivates,
       XrInv, CycloInv, InSession
  <1>7. wristWire # None => FromBefore(xr', wristWire.kind, wristWire.age)
    <2> SUFFICES ASSUME wristWire # None PROVE FromBefore(xr', wristWire.kind, wristWire.age)
      OBVIOUS
    <2>1. wristWire.age \in Nat /\ FromBefore(xr, wristWire.kind, wristWire.age)
      BY DEF XrInv, CycloInv
    <2> QED  BY <1>4, <1>5, <2>1 DEF FromBefore, NodeMoves, NodeKeeps, NodeStops, NodeArms,
          NodeActivates, InSession
  <1>8. CycloInv'
    BY <1>3, <1>6, <1>7 DEF XrInv, CycloInv, FromBefore
  <1>9. GoalsInTime'
    <2> SUFFICES ASSUME xr'.on, goals1 = "old"
                 PROVE  /\ sent1 # None /\ sent1 <= GoalDelay
                        /\ xr'.arming # None /\ xr'.arming <= sent1
      BY <1>3 DEF GoalsInTime
    <2>1. CASE NodeKeeps(xr, xr')
      BY <2>1 DEF NodeKeeps, goals1, sent1, XrInv, GoalsInTime
    <2>2. CASE NodeArms(xr, xr')
      BY <2>2, XrFacts DEF NodeArms, goals1, sent1
    <2>3. CASE NodeActivates(xr, xr')
      <3>1. cyclo.goals = "old" /\ xr.on
        BY <2>3 DEF NodeActivates, goals1
      <3>2. xr.arming \in Nat /\ cyclo.sent \in Nat /\ cyclo.sent <= GoalDelay
            /\ xr.arming <= cyclo.sent /\ xr.arming >= Settling
        BY <1>2, <1>4, <2>3, <3>1 DEF NodeActivates, XrInv, GoalsInTime, Nodes
      <3> QED  BY <3>2, XrFacts
    <2> QED  BY <2>1, <2>2, <2>3 DEF NodeMoves, NodeStops
  <1> QED  BY <1>8, <1>9 DEF XrInv

LEMMA AgedFacts ==
  /\ \A cap : Aged(None, cap) = None
  /\ \A age, cap \in Nat : Aged(age, cap) = IF age >= cap THEN age ELSE age + 1
  BY XrFacts DEF Aged

LEMMA XrTickStep == ASSUME XrInv, XrTick PROVE XrInv'
  <1> DEFINE seen1 == [i \in Inputs |-> Aged(xr.seen[i], TrackLife + 1)]
             stopped1 == Aged(xr.stopped, StopAges)
             arming1 == Aged(xr.arming, Settling)
             wrist1 == OlderWrist(xr.wrist)
             lag1 == Aged(cyclo.lag, Reaction + 1)
             sent1 == Aged(cyclo.sent, GoalDelay)
  <1>1. /\ cyclo.lag >= Reaction => cyclo.active = xr.told
        /\ cyclo.sent # None => cyclo.sent < GoalDelay
        /\ xr' = [xr EXCEPT !.seen = seen1, !.stopped = stopped1, !.arming = arming1,
                            !.rated = FALSE, !.wrist = wrist1]
        /\ cyclo' = [cyclo EXCEPT !.lag = lag1, !.sent = sent1]
        /\ wristWire' = IF wristWire = None THEN None
                        ELSE [wristWire EXCEPT !.age = Aged(wristWire.age, PoseLife + 1)]
    <2>1. /\ cyclo.lag >= Reaction => cyclo.active = xr.told
          /\ cyclo.sent # None => cyclo.sent < GoalDelay
      BY DEF XrTick
    <2>2. xr' = [xr EXCEPT !.seen = seen1, !.stopped = stopped1, !.arming = arming1,
                           !.rated = FALSE, !.wrist = wrist1]
      BY DEF XrTick
    <2>3. cyclo' = [cyclo EXCEPT !.lag = lag1, !.sent = sent1]
      BY DEF XrTick
    <2>4. wristWire' = IF wristWire = None THEN None
                       ELSE [wristWire EXCEPT !.age = Aged(wristWire.age, PoseLife + 1)]
      BY DEF XrTick
    <2> QED  BY <2>1, <2>2, <2>3, <2>4
  <1>2. xr \in Nodes /\ InSession(xr)
    BY DEF XrInv, NodeInv
  <1>3. /\ cyclo \in [active : BOOLEAN, lag : Nat, goals : {"old", "anchor"}, sent : Nat \cup {None}]
        /\ wristWire \in [kind : Kinds, age : Nat] \cup {None}
    BY DEF XrInv, CycloInv
  <1>4. seen1 \in [Inputs -> 0 .. TrackLife + 1]
    <2>1. \A i \in Inputs : xr.seen[i] \in 0 .. TrackLife + 1
      BY <1>2 DEF Nodes
    <2>2. \A i \in Inputs : Aged(xr.seen[i], TrackLife + 1) \in 0 .. TrackLife + 1
      <3>1. TrackLife + 1 \in Nat
        BY XrFacts
      <3>2. \A age \in 0 .. TrackLife + 1 : Aged(age, TrackLife + 1) \in 0 .. TrackLife + 1
        BY <3>1, AgedFacts
      <3> QED  BY <2>1, <3>2
    <2> QED  BY <2>2
  <1>5. /\ xr.stopped \in 0 .. StopAges /\ stopped1 \in 0 .. StopAges
        /\ stopped1 <= xr.stopped + 1 /\ stopped1 \in Nat /\ xr.stopped \in Nat
    <2>1. xr.stopped \in 0 .. StopAges /\ StopAges \in Nat
      BY <1>2, XrFacts DEF Nodes
    <2>2. stopped1 = IF xr.stopped >= StopAges THEN xr.stopped ELSE xr.stopped + 1
      BY <2>1, AgedFacts
    <2> HIDE DEF stopped1
    <2> QED  BY <2>1, <2>2
  <1>6. /\ arming1 \in Nat \cup {None} /\ (xr.arming = None <=> arming1 = None)
        /\ xr.arming # None => arming1 <= xr.arming + 1
    <2>1. xr.arming \in Nat \cup {None} /\ Settling \in Nat /\ None \notin Nat
      BY <1>2, XrFacts DEF Nodes
    <2>2. CASE xr.arming = None
      BY <2>2, AgedFacts
    <2>3. CASE xr.arming # None
      <3>1. arming1 = IF xr.arming >= Settling THEN xr.arming ELSE xr.arming + 1
        BY <2>1, <2>3, AgedFacts
      <3> HIDE DEF arming1
      <3> QED  BY <2>1, <2>3, <3>1
    <2> QED  BY <2>2, <2>3
  <1>7. /\ wrist1 \in Wrists \cup {None} /\ (xr.wrist = None => wrist1 = None)
        /\ xr.wrist # None => /\ wrist1.kind = xr.wrist.kind
                              /\ wrist1.stamp = Aged(xr.wrist.stamp, PoseLife + 1)
    <2>1. CASE xr.wrist = None
      BY <2>1 DEF OlderWrist
    <2>2. CASE xr.wrist # None
      <3>1. xr.wrist \in Wrists
        BY <1>2, <2>2 DEF Nodes
      <3>2. xr.wrist.receipt \in Nat /\ xr.wrist.stamp \in Nat
        BY <3>1 DEF Wrists
      <3>3. Aged(xr.wrist.receipt, PoseLife + 1) \in Nat /\ Aged(xr.wrist.stamp, PoseLife + 1) \in Nat
        <4>1. PoseLife + 1 \in Nat
          BY XrFacts
        <4> QED  BY <3>2, <4>1, AgedFacts
      <3> QED  BY <2>2, <3>1, <3>3 DEF Wrists, OlderWrist
    <2> QED  BY <2>1, <2>2
  <1>8. /\ cyclo.lag \in Nat /\ lag1 \in Nat /\ (cyclo.lag > Reaction => lag1 = cyclo.lag)
        /\ cyclo.lag <= Reaction => lag1 = cyclo.lag + 1
    BY <1>3, XrFacts, AgedFacts
  <1>9. /\ sent1 \in Nat \cup {None} /\ (cyclo.sent = None <=> sent1 = None)
        /\ cyclo.sent # None => sent1 = cyclo.sent + 1
    BY <1>1, <1>3, XrFacts, AgedFacts
  <1> HIDE DEF seen1, stopped1, arming1, wrist1, lag1, sent1
  <1>10. xr' \in Nodes
    BY <1>1, <1>2, <1>4, <1>5, <1>6, <1>7 DEF Nodes
  <1>11. /\ xr'.on = xr.on /\ xr'.arming = arming1 /\ xr'.origin = xr.origin /\ xr'.hand = xr.hand
         /\ xr'.told = xr.told /\ xr'.goal = xr.goal /\ xr'.anchor = xr.anchor
         /\ xr'.still = xr.still /\ xr'.stopped = stopped1 /\ xr'.wrist = wrist1
    BY <1>1, <1>2 DEF Nodes
  <1>12. ASSUME NEW kind, NEW age \in Nat, FromBefore(xr, kind, age)
         PROVE  FromBefore(xr', kind, Aged(age, PoseLife + 1))
    <2>1. Aged(age, PoseLife + 1) = IF age >= PoseLife + 1 THEN age ELSE age + 1
      <3>1. PoseLife + 1 \in Nat
        BY XrFacts
      <3> QED  BY <3>1, AgedFacts
    <2> QED  BY <1>5, <1>11, <1>12, <2>1, XrFacts DEF FromBefore
  <1>13. xr'.wrist # None => FromBefore(xr', xr'.wrist.kind, xr'.wrist.stamp)
    <2> SUFFICES ASSUME wrist1 # None PROVE FromBefore(xr', wrist1.kind, wrist1.stamp)
      BY <1>11
    <2>1. xr.wrist # None /\ xr.wrist \in Wrists
      BY <1>2, <1>7 DEF Nodes
    <2>2. xr.wrist.stamp \in Nat /\ FromBefore(xr, xr.wrist.kind, xr.wrist.stamp)
      BY <2>1 DEF XrInv, NodeInv, Wrists
    <2> QED  BY <1>7, <1>12, <2>1, <2>2
  <1>14. NodeInv(xr')
    <2>1. InSession(xr')
      BY <1>2, <1>6, <1>11 DEF InSession
    <2> QED  BY <1>10, <1>13, <2>1 DEF NodeInv
  <1>15. /\ cyclo' \in [active : BOOLEAN, lag : Nat, goals : {"old", "anchor"}, sent : Nat \cup {None}]
         /\ cyclo'.active = cyclo.active /\ cyclo'.lag = lag1 /\ cyclo'.goals = cyclo.goals
         /\ cyclo'.sent = sent1
    BY <1>1, <1>3, <1>8, <1>9
  <1>16. /\ wristWire' \in [kind : Kinds, age : Nat] \cup {None}
         /\ wristWire' # None => FromBefore(xr', wristWire'.kind, wristWire'.age)
    <2>1. CASE wristWire = None
      BY <1>1, <2>1
    <2>2. CASE wristWire # None
      <3>1. wristWire \in [kind : Kinds, age : Nat]
            /\ FromBefore(xr, wristWire.kind, wristWire.age)
        BY <1>3, <2>2 DEF XrInv, CycloInv
      <3>2. wristWire.age \in Nat /\ Aged(wristWire.age, PoseLife + 1) \in Nat
        <4>1. PoseLife + 1 \in Nat
          BY XrFacts
        <4> QED  BY <3>1, <4>1, AgedFacts
      <3>3. FromBefore(xr', wristWire.kind, Aged(wristWire.age, PoseLife + 1))
        BY <1>12, <3>1, <3>2
      <3>4. wristWire' = [wristWire EXCEPT !.age = Aged(wristWire.age, PoseLife + 1)]
        BY <1>1, <2>2
      <3>5. wristWire' \in [kind : Kinds, age : Nat]
            /\ wristWire'.kind = wristWire.kind /\ wristWire'.age = Aged(wristWire.age, PoseLife + 1)
        BY <3>1, <3>2, <3>4
      <3> QED  BY <3>3, <3>5
    <2> QED  BY <2>1, <2>2
  <1>17. ~xr'.told => /\ cyclo'.lag > Reaction \/ cyclo'.lag >= xr'.stopped
                      /\ cyclo'.active => cyclo'.lag <= Reaction
    <2> SUFFICES ASSUME ~xr.told
                 PROVE  /\ lag1 > Reaction \/ lag1 >= stopped1
                        /\ cyclo.active => lag1 <= Reaction
      BY <1>11, <1>15
    <2>1. /\ cyclo.lag > Reaction \/ cyclo.lag >= xr.stopped
          /\ cyclo.active => cyclo.lag <= Reaction
      BY DEF XrInv, CycloInv
    <2>2. cyclo.lag >= Reaction => ~cyclo.active
      BY <1>1, <1>2, <1>3 DEF Nodes
    <2> QED  BY <1>5, <1>8, <2>1, <2>2, XrFacts
  <1>18. CycloInv'
    BY <1>15, <1>16, <1>17 DEF CycloInv, FromBefore
  <1>19. GoalsInTime'
    BY <1>1, <1>2, <1>3, <1>6, <1>9, <1>11, <1>15, XrFacts DEF XrInv, GoalsInTime, Nodes
  <1> QED  BY <1>14, <1>18, <1>19 DEF XrInv

LEMMA WristFacts ==
  ASSUME NEW x, NodeInv(x), NEW w \in Wrists \cup {None}, NEW y, y = [x EXCEPT !.wrist = w],
         w # None => FromBefore(x, w.kind, w.stamp)
  PROVE  /\ NodeInv(y) /\ y.on = x.on /\ y.told = x.told /\ y.arming = x.arming
         /\ y.stopped = x.stopped
  <1>1. x \in Nodes
    BY DEF NodeInv
  <1>2. y \in Nodes
    BY <1>1 DEF Nodes
  <1>3. /\ y.on = x.on /\ y.arming = x.arming /\ y.origin = x.origin /\ y.hand = x.hand
        /\ y.told = x.told /\ y.goal = x.goal /\ y.anchor = x.anchor /\ y.still = x.still
        /\ y.stopped = x.stopped /\ y.wrist = w
    BY <1>1 DEF Nodes
  <1> QED  BY <1>2, <1>3 DEF NodeInv, InSession, FromBefore

\* A wrist arrives.
LEMMA RobotPoseStep == ASSUME XrInv, NEW sane \in BOOLEAN, RobotPose(sane) PROVE XrInv'
  <1> DEFINE wrist1 == IF sane /\ wristWire.age <= PoseLife
                       THEN [kind |-> wristWire.kind, receipt |-> 0, stamp |-> wristWire.age]
                       ELSE None
  <1>1. /\ wristWire # None /\ NodeBecomes([xr EXCEPT !.wrist = wrist1])
        /\ wristWire' = None
    BY DEF RobotPose
  <1>2. xr \in Nodes /\ InSession(xr)
    BY DEF XrInv, NodeInv
  <1>3. wristWire \in [kind : Kinds, age : Nat] /\ FromBefore(xr, wristWire.kind, wristWire.age)
    BY <1>1 DEF XrInv, CycloInv
  <1>4. /\ wrist1 \in Wrists \cup {None}
        /\ wrist1 # None => wrist1.kind = wristWire.kind /\ wrist1.stamp = wristWire.age
    BY <1>3 DEF Wrists
  <1> HIDE DEF wrist1
  <1>5. xr' = [xr EXCEPT !.wrist = wrist1]
    BY <1>1 DEF NodeBecomes
  <1>6. wrist1 # None => FromBefore(xr, wrist1.kind, wrist1.stamp)
    BY <1>3, <1>4
  <1>7. /\ NodeInv(xr') /\ xr'.on = xr.on /\ xr'.told = xr.told /\ xr'.arming = xr.arming
        /\ xr'.stopped = xr.stopped
    BY <1>4, <1>5, <1>6, WristFacts DEF XrInv
  <1>9. cyclo' = [cyclo EXCEPT !.lag = cyclo.lag, !.goals = cyclo.goals, !.sent = cyclo.sent]
    BY <1>1, <1>5, <1>7 DEF NodeBecomes
  <1>10. cyclo' = cyclo
    BY <1>9 DEF XrInv, CycloInv
  <1>11. CycloInv' /\ GoalsInTime'
    BY <1>1, <1>7, <1>10 DEF XrInv, CycloInv, GoalsInTime, FromBefore
  <1> QED  BY <1>7, <1>11 DEF XrInv

\* The other inputs only change what the node has seen.
LEMMA SeenFacts ==
  ASSUME NEW x, NodeInv(x), NEW i \in Inputs, NEW age \in {0, TrackLife + 1}, NEW y,
         y = [x EXCEPT !.seen[i] = age]
  PROVE  NodeInv(y) /\ NodeKeeps(x, y)
  <1>1. x \in Nodes /\ age \in 0 .. TrackLife + 1
    BY XrFacts DEF NodeInv
  <1>2. [x.seen EXCEPT ![i] = age] \in [Inputs -> 0 .. TrackLife + 1]
    BY <1>1 DEF Nodes
  <1>3. y \in Nodes
    BY <1>1, <1>2 DEF Nodes
  <1>4. /\ y.on = x.on /\ y.arming = x.arming /\ y.origin = x.origin /\ y.hand = x.hand
        /\ y.told = x.told /\ y.goal = x.goal /\ y.anchor = x.anchor /\ y.still = x.still
        /\ y.stopped = x.stopped /\ y.wrist = x.wrist
    BY <1>1 DEF Nodes
  <1> QED  BY <1>3, <1>4 DEF NodeInv, InSession, NodeKeeps, FromBefore

LEMMA XrStep == ASSUME XrInv, [XrNext]_xrVars PROVE XrInv'
  <1>1. ASSUME NEW chord \in {"none", "start", "stop"}, NEW sane \in BOOLEAN,
               NEW fine \in BOOLEAN, NEW p \in HandPlaces, ControllersMove(chord, sane, p, fine)
        PROVE  XrInv'
    <2> DEFINE good == sane /\ ~(xr.on /\ Far(p, xr.last, HandJump))
               y == Published(Activation(Received(xr, good, p), chord, p, fine), fine)
    <2>1. NodeBecomes(y) /\ UNCHANGED wristWire
      BY <1>1 DEF ControllersMove
    <2>2. xr' = y
      BY <2>1 DEF NodeBecomes
    <2>3. good \in BOOLEAN /\ NodeInv(xr)
      BY DEF XrInv
    <2> HIDE DEF good
    <2>4. NodeInv(y) /\ NodeMoves(xr, y)
      BY <2>3, ControllersFacts
    <2> HIDE DEF y
    <2> QED  BY <2>1, <2>2, <2>4, BecomesStep
  <1>2. ASSUME NEW sane \in BOOLEAN, HeadMoves(sane)
        PROVE  XrInv'
    <2> DEFINE x == [xr EXCEPT !.seen["head"] = IF sane THEN 0 ELSE TrackLife + 1]
               y == StoppedIf(x, ~sane /\ xr.on)
    <2>1. NodeBecomes(y) /\ UNCHANGED wristWire
      BY <1>2 DEF HeadMoves
    <2>2. xr' = y
      BY <2>1 DEF NodeBecomes
    <2>3. NodeInv(x) /\ NodeKeeps(xr, x)
      BY SeenFacts DEF XrInv, Inputs
    <2> HIDE DEF x
    <2>4. NodeInv(y) /\ NodeMoves(xr, y)
      BY <2>3, StoppedFacts DEF StoppedIf, NodeMoves
    <2> HIDE DEF y
    <2> QED  BY <2>1, <2>2, <2>4, BecomesStep
  <1>3. ASSUME NEW sane \in BOOLEAN, JointStates(sane)
        PROVE  XrInv'
    <2> DEFINE y == [xr EXCEPT !.seen["joints"] = IF sane THEN 0 ELSE TrackLife + 1]
    <2>1. NodeBecomes(y) /\ UNCHANGED wristWire
      BY <1>3 DEF JointStates
    <2>2. xr' = y
      BY <2>1 DEF NodeBecomes
    <2>3. NodeInv(y) /\ NodeKeeps(xr, y)
      BY SeenFacts DEF XrInv, Inputs
    <2> HIDE DEF y
    <2> QED  BY <2>1, <2>2, <2>3, BecomesStep DEF NodeMoves
  <1>4. ASSUME NEW fine \in BOOLEAN, XrTimeout(fine)
        PROVE  XrInv'
    <2> DEFINE fresh == XrFresh(xr)
               x0 == StoppedIf(xr, ~fresh /\ xr.on)
               start1 == x0.start /\ fresh
               x == [x0 EXCEPT !.start = start1]
               y == Published(x, fine)
    <2>1. NodeBecomes(y) /\ UNCHANGED wristWire
      BY <1>4 DEF XrTimeout
    <2>2. xr' = y
      BY <2>1 DEF NodeBecomes
    <2>3. NodeInv(x0) /\ (NodeKeeps(xr, x0) \/ NodeStops(x0))
      BY StoppedFacts DEF StoppedIf, NodeKeeps, XrInv
    <2>4. start1 \in BOOLEAN
      BY <2>3 DEF NodeInv, Nodes, XrFresh
    <2> HIDE DEF x0, start1
    <2>5. x \in Nodes
      BY <2>3, <2>4 DEF NodeInv, Nodes
    <2>6. /\ x.on = x0.on /\ x.arming = x0.arming /\ x.origin = x0.origin /\ x.hand = x0.hand
          /\ x.told = x0.told /\ x.goal = x0.goal /\ x.anchor = x0.anchor /\ x.still = x0.still
          /\ x.stopped = x0.stopped /\ x.wrist = x0.wrist
      BY <2>3 DEF NodeInv, Nodes
    <2> HIDE DEF x
    <2>7. NodeInv(x) /\ (NodeKeeps(xr, x) \/ NodeStops(x))
      BY <2>3, <2>5, <2>6 DEF NodeInv, InSession, NodeKeeps, NodeStops, FromBefore
    <2>8. NodeInv(y) /\ (NodeKeeps(x, y) \/ (x.on /\ NodeStops(y)) \/ NodeActivates(x, y))
      BY <2>7, PublishedFacts
    <2> HIDE DEF y
    <2>9. NodeMoves(xr, y)
      BY <2>7, <2>8 DEF NodeMoves, NodeKeeps, NodeStops, NodeActivates
    <2> QED  BY <2>1, <2>2, <2>8, <2>9, BecomesStep
  <1>5. CASE ReferenceFault
    <2>1. NodeBecomes(Stopped(xr)) /\ UNCHANGED wristWire /\ xr' = Stopped(xr)
      BY <1>5 DEF ReferenceFault, NodeBecomes
    <2>2. NodeInv(Stopped(xr)) /\ NodeStops(Stopped(xr))
      BY StoppedFacts DEF XrInv
    <2> QED  BY <2>1, <2>2, BecomesStep DEF NodeMoves
  <1>6. CASE CycloReports
    <2>1. /\ UNCHANGED <<xr, cyclo>>
          /\ wristWire' = [kind |-> IF cyclo.active THEN "commanded" ELSE "measured", age |-> 0]
      BY <1>6 DEF CycloReports
    <2>2. /\ wristWire' \in [kind : Kinds, age : Nat] /\ wristWire'.age = 0
          /\ wristWire'.kind = "commanded" => cyclo.active
      BY <2>1 DEF Kinds
    <2>3. xr.stopped \in Nat /\ cyclo.lag \in Nat
      BY XrFacts DEF XrInv, NodeInv, Nodes, CycloInv
    <2>4. FromBefore(xr, wristWire'.kind, 0)
      BY <2>2, <2>3, XrFacts DEF XrInv, CycloInv, FromBefore
    <2> QED  BY <2>1, <2>2, <2>4 DEF XrInv, CycloInv, GoalsInTime, NodeInv, FromBefore
  <1>7. CASE CycloSwitches \/ GoalsArrive
    <2>1. /\ UNCHANGED <<xr, wristWire>>
          /\ \/ cyclo.lag <= Reaction /\ cyclo' = [cyclo EXCEPT !.active = ~cyclo.active]
             \/ cyclo' = [cyclo EXCEPT !.goals = "anchor", !.sent = None]
      BY <1>7 DEF CycloSwitches, GoalsArrive
    <2>2. /\ cyclo' \in [active : BOOLEAN, lag : Nat, goals : {"old", "anchor"}, sent : Nat \cup {None}]
          /\ cyclo'.lag = cyclo.lag
          /\ cyclo'.active = cyclo.active \/ cyclo.lag <= Reaction
          /\ cyclo'.goals = "anchor" \/ (cyclo'.goals = cyclo.goals /\ cyclo'.sent = cyclo.sent)
      BY <2>1 DEF XrInv, CycloInv
    <2> QED  BY <2>1, <2>2 DEF XrInv, CycloInv, GoalsInTime, NodeInv, FromBefore
  <1>8. CASE UNCHANGED xrVars
    BY <1>8 DEF xrVars, XrInv, CycloInv, GoalsInTime, NodeInv, FromBefore
  <1> QED  BY <1>1, <1>2, <1>3, <1>4, <1>5, <1>6, <1>7, <1>8, XrTickStep, RobotPoseStep DEF XrNext

LEMMA XrInvImplies == XrInv => XrTypeOK /\ AnchorIsMeasured /\ CycloStartsAtAnchor /\ StillHandMovesNothing
  <1> SUFFICES ASSUME XrInv
               PROVE XrTypeOK /\ AnchorIsMeasured /\ CycloStartsAtAnchor /\ StillHandMovesNothing
    OBVIOUS
  <1>1. xr \in Nodes /\ InSession(xr)
    BY DEF XrInv, NodeInv
  <1>2. XrTypeOK
    BY <1>1, XrFacts DEF XrTypeOK, InSession, Nodes
  <1>3. CycloStartsAtAnchor
    BY <1>1 DEF CycloStartsAtAnchor, XrInv, GoalsInTime, InSession, CycloInv, Nodes
  <1> QED  BY <1>1, <1>2, <1>3 DEF AnchorIsMeasured, StillHandMovesNothing, InSession

\* What the arms and the lift are told stays near the operator and the robot, for
\* all places, scales, offsets, speeds and times of the launch: the lift never
\* jumps, the elbow is in reach of its wrist but for their offsets, a wrist turns
\* slowly, and the head moves the wrist of a resting hand by no more than the
\* uncompensated part of its range (vr_publisher_sh5.py), the XR session starts from
\* measured wrists that a resting hand does not leave (vr_publisher_sg2_xr.py), and
\* the simulation's relay holds one pose and follows no goal from before a stop
\* (sh5_sim_bridge.py).
THEOREM GoalsAlwaysNear == VrSpec /\ ArmSpec /\ XrSpec /\ SimSpec => GoalsStayNear
  <1>1. VrSpec => LiftNeverJumps
    <2>1. VrInit => VrInv /\ LiftInv
      BY VrStart DEF VrInit, LiftInv
    <2>2. VrInv /\ LiftInv /\ [VrNext(Heights, Places, Places)]_vrVars => VrInv' /\ LiftInv'
      BY VrStep, LiftStep
    <2>3. VrInv /\ LiftInv /\ [VrNext(Heights, Places, Places)]_vrVars =>
            [(lift # None) => \E s \in LiftSteps : Dist(lift, lift') <= s]_vrVars
      BY LiftStep
    <2> QED  BY <2>1, <2>2, <2>3, PTL DEF VrSpec, LiftNeverJumps
  <1>2. ArmSpec => []ElbowNearWrist /\ WristTurnsSlowly /\ []HeadMotionBounded
    <2>1. PoseInv /\ [ArmNext]_poseVars => PoseInv'
      BY PoseStep
    <2>2. PoseInv => ElbowNearWrist /\ HeadMotionBounded
      BY DEF PoseInv
    <2>3. PoseInv /\ [ArmNext]_poseVars =>
            [\A s \in Sides : turn[s] # None => turn'[s] - turn[s] \in -MaxTurn .. MaxTurn]_poseVars
      BY PoseStep
    <2> QED  BY PoseStart, <2>1, <2>2, <2>3, PTL DEF ArmSpec, WristTurnsSlowly
  <1>3. XrSpec => []AnchorIsMeasured /\ []CycloStartsAtAnchor /\ []StillHandMovesNothing
    BY XrStart, XrStep, XrInvImplies, PTL DEF XrSpec
  <1>4. SimSpec => HoldsOnePose /\ FollowsNoOldGoal
    <2>1. SimInit => RawInv
      BY DEF SimInit, RawInv
    <2>2. RawInv /\ [SimNext]_simVars => RawInv'
      BY SimStep
    <2>3. RawInv /\ [SimNext]_simVars =>
            [~was /\ ~was' => \A j \in SimJoints : simOut[j] \in {None, simOut'[j]}]_simVars
      BY SimStep
    <2>4. RawInv /\ [SimNext]_simVars =>
            [\A j \in SimJoints :
               was' /\ simOut[j] # None /\ simOut'[j] # simOut[j]
                 => raw'[j] # None /\ ~raw'[j].past]_simVars
      BY SimStep
    <2> QED  BY <2>1, <2>2, <2>3, <2>4, PTL DEF SimSpec, HoldsOnePose, FollowsNoOldGoal
  <1> QED  BY <1>1, <1>2, <1>3, <1>4 DEF GoalsStayNear

-----------------------------------------------------------------------------
(* ControllerHands at the PC.                                              *)

Keys == Buttons \cup {None}

TapType ==
  /\ taps \in [selected : Grips, previous : SUBSET Buttons, candidate : Keys, chord : BOOLEAN,
               pending : Keys, age : 0 .. Grace, blocked : 0 .. Grace]
  /\ armed \in BOOLEAN /\ trigger \in Levels
  /\ episode \subseteq Buttons \cup {"unknown"}
  /\ released \in Nat \cup {None}

\* A button that may become a tap is the only one seen since all were up.
CandidateAlone ==
  taps.candidate # None =>
    /\ ~taps.chord /\ taps.pending = None /\ released = None
    /\ taps.previous = {taps.candidate} /\ episode = {taps.candidate}

\* A tap waits for as long as all buttons have been up.
PendingAlone ==
  taps.pending # None =>
    /\ ~taps.chord /\ taps.previous = {}
    /\ episode = {taps.pending} /\ released = taps.age

\* With nothing under way either nothing was seen, or the buttons have been up
\* for what is missing of the block.
IdleRests ==
  (~taps.chord /\ taps.candidate = None /\ taps.pending = None) =>
    /\ taps.previous = {}
    /\ episode = {} \/ (released # None /\ taps.blocked + released >= Grace)

\* The history of the grip is the code's own.
GripKept == captured = grasp /\ HeldGripStays

TapInv == TapType /\ CandidateAlone /\ PendingAlone /\ IdleRests /\ GripKept

LEMMA HandsFacts ==
  /\ None \notin Buttons /\ None \notin Nat /\ Grace \in Nat /\ 0 \in 0 .. Grace /\ Grace \in 0 .. Grace
  /\ \A b \in Buttons : b = "X" \/ b = "Y" \/ b = "A" \/ b = "B"
  /\ \A b \in Buttons : PoseOf[b] \in Grips
  /\ None \notin Position /\ None \notin Preparations /\ None \notin ControlValues
  <1>1. {Grace, IntentLife, PrepTime, PrepLimit} \subseteq Nat
    BY ControllerHandsAssumption
  <1>2. Grace \in Nat
    BY <1>1
  <1>3. Buttons \subseteq {"X", "Y", "A", "B"}
        /\ None \notin {"X", "Y", "A", "B"} \cup Position \cup Preparations \cup ControlValues \cup Nat
    BY ControllerHandsAssumption
  <1>4. \A b \in Buttons : b = "X" \/ b = "Y" \/ b = "A" \/ b = "B"
    BY <1>3
  <1>5. \A b \in {"X", "Y", "A", "B"} : PoseOf[b] \in Grips
    BY DEF PoseOf, Grips
  <1>6. None \notin Buttons /\ None \notin Nat /\ None \notin Position
        /\ None \notin Preparations /\ None \notin ControlValues
    BY <1>3
  <1>7. \A b \in Buttons : PoseOf[b] \in Grips
    BY <1>3, <1>5
  <1>8. 0 \in 0 .. Grace /\ Grace \in 0 .. Grace
    BY <1>2
  <1> QED  BY <1>2, <1>4, <1>6, <1>7, <1>8

\* The buttons of a frame that are no chord are one button or none.
LEMMA OneButton ==
  ASSUME NEW pressed \in SUBSET Buttons, ~(Cardinality(pressed) > 1), pressed # {}
  PROVE  \E b \in pressed : pressed = {b}
  <1>1. IsFiniteSet({"X", "Y", "A", "B"})
    <2>1. IsFiniteSet({} \cup {"X"})
      BY FS_EmptySet, FS_AddElement
    <2>2. IsFiniteSet(({} \cup {"X"}) \cup {"Y"})
      BY <2>1, FS_AddElement
    <2>3. IsFiniteSet((({} \cup {"X"}) \cup {"Y"}) \cup {"A"})
      BY <2>2, FS_AddElement
    <2>4. IsFiniteSet(((({} \cup {"X"}) \cup {"Y"}) \cup {"A"}) \cup {"B"})
      BY <2>3, FS_AddElement
    <2>5. ((({} \cup {"X"}) \cup {"Y"}) \cup {"A"}) \cup {"B"} = {"X", "Y", "A", "B"}
      OBVIOUS
    <2> QED  BY <2>4, <2>5
  <1>2. IsFiniteSet(pressed)
    BY <1>1, FS_Subset, ControllerHandsAssumption
  <1>3. PICK b \in pressed : TRUE
    OBVIOUS
  <1>4. ASSUME NEW c \in pressed, c # b PROVE FALSE
    <2>1. IsFiniteSet({b, c}) /\ Cardinality({b, c}) = 2
      <3>1. IsFiniteSet({b}) /\ Cardinality({b}) = 1
        BY FS_Singleton
      <3>2. IsFiniteSet({b} \cup {c}) /\ Cardinality({b} \cup {c}) = 2
        BY <1>4, <3>1, FS_AddElement
      <3>3. {b} \cup {c} = {b, c}
        OBVIOUS
      <3> QED  BY <3>2, <3>3
    <2>2. Cardinality({b, c}) <= Cardinality(pressed)
      BY <1>2, <1>4, FS_Subset
    <2> QED  BY <1>2, <2>1, <2>2, FS_CardinalityType
  <1> QED  BY <1>3, <1>4

LEMMA TapStart == PcHandInit => TapInv
  <1> SUFFICES ASSUME PcHandInit PROVE TapInv
    OBVIOUS
  <1>1. TapType
    <2>1. "full_grip" \in Grips /\ {} \in SUBSET Buttons /\ None \in Keys /\ 0 \in 0 .. Grace
          /\ 0 \in Levels
      BY HandsFacts DEF Grips, Keys, Levels
    <2> QED  BY <2>1 DEF PcHandInit, TapType
  <1>2. CandidateAlone /\ PendingAlone /\ IdleRests
    BY HandsFacts DEF PcHandInit, CandidateAlone, PendingAlone, IdleRests
  <1>3. GripKept
    BY DEF PcHandInit, GripKept, HeldGripStays
  <1> QED  BY <1>1, <1>2, <1>3 DEF TapInv

\* Intents, triggers and the switch of the arms leave the taps alone.
LEMMA GripStep ==
  ASSUME TapInv,
         \/ \E fresh \in BOOLEAN : Intent(fresh)
         \/ \E to \in Levels : Pull(to)
         \/ ArmsSwitch
  PROVE  TapInv' /\ UNCHANGED taps
  <1>1. TapType' /\ UNCHANGED <<taps, episode, released>>
    <2>1. armed' \in BOOLEAN /\ trigger' \in Levels /\ UNCHANGED <<taps, episode, released>>
      BY DEF TapInv, TapType, Intent, Pull, ArmsSwitch
    <2> QED  BY <2>1 DEF TapInv, TapType
  <1>2. CandidateAlone' /\ PendingAlone' /\ IdleRests'
    BY <1>1 DEF TapInv, CandidateAlone, PendingAlone, IdleRests
  <1>3. CASE \E fresh \in BOOLEAN : Intent(fresh)
    <2>1. PICK fresh \in BOOLEAN : Intent(fresh)
      BY <1>3
    <2>2. captured = grasp /\ captured' = grasp'
      BY <2>1 DEF Intent, Kept, Captures, TapInv, GripKept
    <2>3. CASE armed /\ fresh
      <3>1. sent' = [trigger |-> trigger,
                     pose |-> IF captured' = None THEN taps.selected ELSE captured']
        BY <2>1, <2>3 DEF Intent
      <3> QED  BY <1>1, <1>2, <2>2, <3>1 DEF TapInv, GripKept, HeldGripStays
    <2>4. CASE ~(armed /\ fresh)
      <3>1. sent' = None
        BY <2>1, <2>4 DEF Intent
      <3> QED  BY <1>1, <1>2, <2>2, <3>1 DEF TapInv, GripKept, HeldGripStays
    <2> QED  BY <2>3, <2>4
  <1>4. CASE ArmsSwitch \/ \E to \in Levels : Pull(to)
    BY <1>1, <1>2, <1>4 DEF ArmsSwitch, Pull, TapInv, GripKept, HeldGripStays
  <1> QED  BY <1>3, <1>4

LEMMA TapTime == ASSUME TapInv, PcHandTick PROVE TapInv' /\ taps'.selected = taps.selected
  <1>1. /\ taps.age \in 0 .. Grace /\ taps.blocked \in 0 .. Grace /\ Grace \in Nat
        /\ released \in Nat \cup {None}
    BY HandsFacts DEF TapInv, TapType
  <1> DEFINE later == IF taps.pending = None \/ taps.age = Grace THEN taps.age ELSE taps.age + 1
             lifts == IF taps.blocked = 0 THEN 0 ELSE taps.blocked - 1
  <1>2. taps' = [taps EXCEPT !.age = later, !.blocked = lifts]
    BY DEF PcHandTick
  <1>3. later \in 0 .. Grace /\ lifts \in 0 .. Grace
    BY <1>1
  <1> HIDE DEF later, lifts
  <1>4. /\ taps'.selected = taps.selected /\ taps'.previous = taps.previous
        /\ taps'.candidate = taps.candidate /\ taps'.pending = taps.pending
        /\ taps'.chord = taps.chord /\ taps'.age = later /\ taps'.blocked = lifts
    BY <1>2 DEF TapInv, TapType
  <1>5. TapType'
    <2>1. released' \in Nat \cup {None}
      BY <1>1 DEF PcHandTick
    <2>2. taps' \in [selected : Grips, previous : SUBSET Buttons, candidate : Keys,
                     chord : BOOLEAN, pending : Keys, age : 0 .. Grace, blocked : 0 .. Grace]
      BY <1>2, <1>3 DEF TapInv, TapType
    <2> QED  BY <2>1, <2>2 DEF TapInv, TapType, PcHandTick
  <1>6. CandidateAlone'
    BY <1>4 DEF PcHandTick, TapInv, CandidateAlone
  <1>7. PendingAlone'
    <2> SUFFICES ASSUME taps'.pending # None
                 PROVE  /\ ~taps'.chord /\ taps'.previous = {} /\ episode' = {taps'.pending}
                        /\ released' = taps'.age
      BY DEF PendingAlone
    <2>1. /\ ~taps.chord /\ taps.previous = {} /\ episode = {taps.pending}
          /\ released = taps.age
      BY <1>4 DEF TapInv, PendingAlone
    <2>2. released' = later
      BY <1>1, <1>4, <2>1, HandsFacts DEF PcHandTick, later
    <2> QED  BY <1>4, <2>1, <2>2 DEF PcHandTick
  <1>8. IdleRests'
    <2>1. CASE released = None
      BY <1>4, <2>1 DEF PcHandTick, TapInv, IdleRests
    <2>2. CASE released # None
      <3>1. released' # None /\ (taps.blocked + released >= Grace => lifts + released' >= Grace)
        BY <1>1, <2>2, HandsFacts DEF PcHandTick, lifts
      <3> QED  BY <1>4, <2>2, <3>1 DEF PcHandTick, TapInv, IdleRests
    <2> QED  BY <2>1, <2>2
  <1>9. GripKept'
    BY DEF PcHandTick, TapInv, GripKept, HeldGripStays
  <1> QED  BY <1>4, <1>5, <1>6, <1>7, <1>8, <1>9 DEF TapInv

\* A chord is known as one, and leaves the selection.
LEMMA ChordStep ==
  ASSUME TapInv, NEW pressed \in SUBSET Buttons, taps' = Chorded(pressed),
         episode' \subseteq Buttons \cup {"unknown"}, released' \in Nat \cup {None},
         UNCHANGED <<captured, trigger, armed, sent, grasp>>
  PROVE  TapInv' /\ taps'.selected = taps.selected
  <1>1. taps' \in [selected : Grips, previous : SUBSET Buttons, candidate : Keys,
                   chord : BOOLEAN, pending : Keys, age : 0 .. Grace, blocked : 0 .. Grace]
    BY HandsFacts DEF Chorded, TapInv, TapType, Keys
  <1>2. taps'.chord /\ taps'.candidate = None /\ taps'.pending = None
        /\ taps'.selected = taps.selected
    BY DEF Chorded, TapInv, TapType
  <1>3. TapType'
    BY <1>1 DEF TapInv, TapType
  <1>4. GripKept'
    BY DEF TapInv, GripKept, HeldGripStays
  <1> QED  BY <1>2, <1>3, <1>4 DEF TapInv, CandidateAlone, PendingAlone, IdleRests

\* With all buttons up a tap is taken for one only when its button was alone.
LEMMA ReleaseStep ==
  ASSUME TapInv, ButtonFrame({}), ~Twisted({})
  PROVE  /\ TapInv'
         /\ taps'.selected # taps.selected =>
              \E b \in Buttons : episode = {b} /\ taps'.selected = PoseOf[b]
  <1> DEFINE fresh == taps.candidate # None /\ ~taps.chord
             waiting == IF fresh THEN taps.candidate ELSE taps.pending
             wait == IF fresh THEN 0 ELSE taps.age
             commits == waiting # None /\ wait >= Grace
             to == [selected |-> IF commits THEN PoseOf[waiting] ELSE taps.selected,
                    previous |-> {}, candidate |-> None, chord |-> FALSE,
                    pending |-> IF commits THEN None ELSE waiting,
                    age |-> IF fresh \/ commits THEN 0 ELSE taps.age,
                    blocked |-> IF taps.chord THEN Grace ELSE taps.blocked]
  <1>1. taps' = to
    BY DEF ButtonFrame, Tapped, Released
  <1>2. /\ episode' = IF Rested THEN {} ELSE episode
        /\ released' = IF released = None THEN 0 ELSE released
        /\ UNCHANGED <<captured, trigger, armed, sent, grasp>>
    BY DEF ButtonFrame
  <1>3. /\ taps.age \in 0 .. Grace /\ taps.blocked \in 0 .. Grace /\ taps.candidate \in Keys
        /\ taps.pending \in Keys /\ taps.chord \in BOOLEAN /\ taps.selected \in Grips
        /\ released \in Nat \cup {None} /\ episode \subseteq Buttons \cup {"unknown"}
    BY DEF TapInv, TapType
  <1>4. waiting # None => waiting \in Buttons /\ episode = {waiting} /\ ~taps.chord
    BY <1>3 DEF TapInv, CandidateAlone, PendingAlone, Keys
  <1>5. commits \in BOOLEAN /\ fresh \in BOOLEAN /\ wait \in 0 .. Grace
    BY <1>3, HandsFacts
  <1>6. waiting # None => IF fresh THEN released = None ELSE released = taps.age
    BY DEF TapInv, PendingAlone, CandidateAlone
  <1>7. released' \in Nat /\ (released # None => released' = released)
    BY <1>2, <1>3, HandsFacts
  <1>8. released' # None
    BY <1>7, HandsFacts
  <1>9. TapType'
    <2>1. (IF commits THEN PoseOf[waiting] ELSE taps.selected) \in Grips
      BY <1>3, <1>4, HandsFacts
    <2>2. (IF commits THEN None ELSE waiting) \in Keys
      BY <1>3 DEF Keys
    <2>3. (IF fresh \/ commits THEN 0 ELSE taps.age) \in 0 .. Grace
          /\ (IF taps.chord THEN Grace ELSE taps.blocked) \in 0 .. Grace
      BY <1>3, HandsFacts
    <2>4. taps' \in [selected : Grips, previous : SUBSET Buttons, candidate : Keys,
                     chord : BOOLEAN, pending : Keys, age : 0 .. Grace, blocked : 0 .. Grace]
      BY <1>1, <2>1, <2>2, <2>3 DEF Keys
    <2> QED  BY <1>2, <1>3, <1>7, <2>4 DEF TapInv, TapType
  <1>10. /\ taps'.candidate = None /\ taps'.chord = FALSE /\ taps'.previous = {}
         /\ taps'.pending = (IF commits THEN None ELSE waiting)
         /\ taps'.age = (IF fresh \/ commits THEN 0 ELSE taps.age)
         /\ taps'.blocked = (IF taps.chord THEN Grace ELSE taps.blocked)
         /\ taps'.selected = (IF commits THEN PoseOf[waiting] ELSE taps.selected)
    BY <1>1
  <1>11. PendingAlone'
    <2> SUFFICES ASSUME taps'.pending # None
                 PROVE  episode' = {taps'.pending} /\ released' = taps'.age
      BY <1>8, <1>10 DEF PendingAlone
    <2>1. ~commits /\ waiting # None /\ taps'.pending = waiting
      BY <1>10
    <2>2. wait < Grace
      BY <1>5, <2>1, HandsFacts
    <2>3. CASE fresh
      BY <1>2, <1>4, <1>6, <1>10, <2>1, <2>3 DEF Rested
    <2>4. CASE ~fresh
      <3>1. released = taps.age /\ taps.age < Grace /\ taps.age \in Nat /\ released # None
        BY <1>3, <1>6, <2>1, <2>2, <2>4, HandsFacts
      <3>2. ~Rested
        BY <3>1, HandsFacts DEF Rested
      <3> QED  BY <1>2, <1>4, <1>10, <2>1, <2>4, <3>1, <3>2
    <2> QED  BY <2>3, <2>4
  <1>12. IdleRests'
    <2> SUFFICES ASSUME taps'.pending = None
                 PROVE  episode' = {} \/ taps'.blocked + released' >= Grace
      BY <1>8, <1>10 DEF IdleRests
    <2>1. CASE waiting # None
      <3>1. commits
        BY <1>4, <1>10, <2>1, HandsFacts
      <3>2. released' >= Grace
        BY <1>3, <1>5, <1>6, <1>7, <2>1, <3>1, HandsFacts
      <3>3. taps'.blocked \in Nat
        BY <1>3, <1>10, HandsFacts
      <3> QED  BY <1>7, <3>2, <3>3, HandsFacts
    <2>2. CASE waiting = None
      <3>1. CASE taps.chord
        BY <1>7, <1>10, <3>1, HandsFacts
      <3>2. CASE ~taps.chord
        <4>1. episode = {} \/ (released # None /\ taps.blocked + released >= Grace)
          BY <2>2, <3>2 DEF TapInv, IdleRests
        <4> QED  BY <1>2, <1>7, <1>10, <3>2, <4>1
      <3> QED  BY <3>1, <3>2
    <2> QED  BY <2>1, <2>2
  <1>13. GripKept'
    BY <1>2 DEF TapInv, GripKept, HeldGripStays
  <1>14. CandidateAlone'
    BY <1>10 DEF CandidateAlone
  <1>15. taps'.selected # taps.selected =>
              \E b \in Buttons : episode = {b} /\ taps'.selected = PoseOf[b]
    BY <1>4, <1>10
  <1> QED  BY <1>9, <1>11, <1>12, <1>13, <1>14, <1>15 DEF TapInv

\* A button that is pressed alone, after a rest, may become a tap.
LEMMA PressStep ==
  ASSUME TapInv, NEW pressed \in SUBSET Buttons, ButtonFrame(pressed), ~Twisted(pressed),
         pressed # {}
  PROVE  TapInv' /\ taps'.selected = taps.selected
  <1>1. PICK b \in pressed : pressed = {b}
    BY OneButton DEF Twisted
  <1>2. /\ b \in Buttons /\ b # None
        /\ taps.blocked = 0 /\ taps.pending = None
        /\ taps.previous = {} \/ pressed = taps.previous
        /\ taps.chord \in BOOLEAN /\ taps.candidate \in Keys
    <2>1. ~(taps.blocked > 0) /\ taps.pending = None
          /\ (taps.previous = {} \/ pressed = taps.previous)
      BY DEF Twisted
    <2>2. taps.blocked \in 0 .. Grace /\ taps.chord \in BOOLEAN /\ taps.candidate \in Keys
      BY DEF TapInv, TapType
    <2>3. taps.blocked = 0
      BY <2>1, <2>2, HandsFacts
    <2> QED  BY <1>1, <2>1, <2>2, <2>3, HandsFacts
  <1>3. /\ episode' = pressed \cup (IF Rested THEN {} ELSE episode)
        /\ released' = None /\ UNCHANGED <<captured, trigger, armed, sent, grasp>>
    BY DEF ButtonFrame
  <1>4. CASE taps.previous = {} /\ ~taps.chord
    <2>1. (CHOOSE c \in pressed : TRUE) = b
      BY <1>1
    <2>2. taps' = [taps EXCEPT !.candidate = b, !.previous = pressed]
      BY <1>4, <2>1 DEF ButtonFrame, Tapped
    <2>3. taps.candidate = None
      BY <1>4 DEF TapInv, CandidateAlone
    <2>4. episode = {} \/ Rested
      <3>1. episode = {} \/ (released # None /\ taps.blocked + released >= Grace)
        BY <1>2, <1>4, <2>3 DEF TapInv, IdleRests
      <3>2. released # None => released \in Nat
        BY DEF TapInv, TapType
      <3> QED  BY <1>2, <3>1, <3>2, HandsFacts DEF Rested
    <2>5. episode' = {b}
      BY <1>1, <1>3, <2>4
    <2>6. taps' \in [selected : Grips, previous : SUBSET Buttons, candidate : Keys,
                     chord : BOOLEAN, pending : Keys, age : 0 .. Grace, blocked : 0 .. Grace]
      BY <1>2, <2>2 DEF TapInv, TapType, Keys
    <2>7. /\ taps'.candidate = b /\ taps'.previous = {b} /\ taps'.pending = None
          /\ ~taps'.chord /\ taps'.selected = taps.selected
      BY <1>1, <1>2, <1>4, <2>2 DEF TapInv, TapType
    <2>8. TapType'
      BY <1>2, <1>3, <2>5, <2>6 DEF TapInv, TapType
    <2>9. GripKept'
      BY <1>3 DEF TapInv, GripKept, HeldGripStays
    <2> QED  BY <1>2, <1>3, <2>5, <2>7, <2>8, <2>9
             DEF TapInv, CandidateAlone, PendingAlone, IdleRests
  <1>5. CASE ~(taps.previous = {} /\ ~taps.chord)
    <2>1. taps' = [taps EXCEPT !.previous = pressed]
      BY <1>5 DEF ButtonFrame, Tapped
    <2>2. taps' \in [selected : Grips, previous : SUBSET Buttons, candidate : Keys,
                     chord : BOOLEAN, pending : Keys, age : 0 .. Grace, blocked : 0 .. Grace]
      BY <2>1 DEF TapInv, TapType
    <2>3. /\ taps'.candidate = taps.candidate /\ taps'.previous = pressed
          /\ taps'.pending = None /\ taps'.chord = taps.chord
          /\ taps'.selected = taps.selected
      BY <1>2, <2>1 DEF TapInv, TapType
    <2>4. episode' \subseteq Buttons \cup {"unknown"}
      BY <1>3 DEF TapInv, TapType
    <2>5. TapType'
      BY <1>3, <2>2, <2>4 DEF TapInv, TapType
    <2>6. GripKept'
      BY <1>3 DEF TapInv, GripKept, HeldGripStays
    <2>7. CandidateAlone'
      BY <1>1, <1>2, <1>3, <2>3 DEF TapInv, CandidateAlone
    <2>8. IdleRests'
      BY <1>2, <1>5, <2>3 DEF TapInv, IdleRests
    <2>9. PendingAlone'
      BY <2>3 DEF PendingAlone
    <2> QED  BY <2>3, <2>5, <2>6, <2>7, <2>8, <2>9 DEF TapInv
  <1> QED  BY <1>4, <1>5

LEMMA TapStep ==
  ASSUME TapInv, [PcHandNext]_pcHandVars
  PROVE  /\ TapInv'
         /\ taps'.selected # taps.selected =>
              \E b \in Buttons : episode = {b} /\ taps'.selected = PoseOf[b]
  <1>1. CASE \E pressed \in SUBSET Buttons : ButtonFrame(pressed)
    <2>1. PICK pressed \in SUBSET Buttons : ButtonFrame(pressed)
      BY <1>1
    <2>2. CASE Twisted(pressed)
      <3>1. /\ taps' = Chorded(pressed) /\ episode' \subseteq Buttons \cup {"unknown"}
            /\ UNCHANGED <<captured, trigger, armed, sent, grasp>>
        BY <2>1, <2>2 DEF ButtonFrame, Tapped, TapInv, TapType
      <3>2. released' \in Nat \cup {None}
        BY <2>1 DEF ButtonFrame, TapInv, TapType
      <3> QED  BY <3>1, <3>2, ChordStep
    <2>3. CASE ~Twisted(pressed)
      BY <2>1, <2>3, ReleaseStep, PressStep
    <2> QED  BY <2>2, <2>3
  <1>2. CASE BadFrame
    <2>1. /\ {} \in SUBSET Buttons /\ taps' = Chorded({})
          /\ episode' \subseteq Buttons \cup {"unknown"} /\ released' \in Nat \cup {None}
          /\ UNCHANGED <<captured, trigger, armed, sent, grasp>>
      BY <1>2 DEF BadFrame, TapInv, TapType
    <2> QED  BY <2>1, ChordStep
  <1>3. CASE PcHandTick
    BY <1>3, TapTime
  <1>4. CASE ArmsSwitch \/ (\E fresh \in BOOLEAN : Intent(fresh)) \/ \E to \in Levels : Pull(to)
    BY <1>4, GripStep
  <1>5. CASE UNCHANGED pcHandVars
    BY <1>5 DEF pcHandVars, TapInv, TapType, CandidateAlone, PendingAlone, IdleRests, GripKept,
                HeldGripStays
  <1> QED  BY <1>1, <1>2, <1>3, <1>4, <1>5 DEF PcHandNext

\* Only a button that was pressed alone selects a grip (ControllerHandModes.buttons),
\* for every set of buttons and every grace period: the parts of a chord never do,
\* in whatever frames they come and go.
THEOREM TapsStayAlone == PcHandSpec => TapsAreAlone
  <1>1. TapInv /\ [PcHandNext]_pcHandVars =>
          [taps'.selected # taps.selected =>
             \E b \in Buttons : episode = {b} /\ taps'.selected = PoseOf[b]]_pcHandVars
    BY TapStep
  <1>2. TapInv /\ [PcHandNext]_pcHandVars => TapInv'
    BY TapStep
  <1> QED  BY <1>1, <1>2, TapStart, PTL DEF PcHandSpec, TapsAreAlone

-----------------------------------------------------------------------------
(* ControllerHands at the robot.                                           *)

Joints == {"thumb", "fingers"}
Controls == [values : ControlValues \cup {None}, age : Nat, latched : BOOLEAN]

\* An output that is active goes on from what was ordered; one that is not
\* remembers nothing.
OutputInv ==
  /\ controls \in Controls
  /\ ordered \in Position /\ measured \in Position
  /\ active \in BOOLEAN
  /\ prep \in Preparations \cup {None}
  /\ IF active THEN previous = ordered /\ filtered \in Position
     ELSE previous = None /\ filtered = None /\ prep = None

\* Until the thumb was at its place the fingers are held, and neither the filter
\* nor what was ordered goes further than the preparation noted.
ReachInv ==
  (prep # None /\ ~prep.placed) =>
    /\ ~prep.done /\ prep.held <= prep.reach
    /\ filtered.fingers <= prep.reach /\ ordered.fingers <= prep.reach

FingerInv == OutputInv /\ ReachInv

LEMMA PositionFacts ==
  ASSUME NEW x
  PROVE  x \in Position <=> /\ x = [j \in Joints |-> x[j]]
                            /\ x["thumb"] \in Levels /\ x["fingers"] \in Levels
  BY DEF Position, Joints

\* A step of slew_aux stays between where it comes from and where it goes to,
\* and is its own step.
LEMMA SlewFacts ==
  ASSUME NEW from \in Position, NEW to \in Position
  PROVE  /\ Slewed(from, to) \in Position
         /\ Slewed(from, to) = Slewed(from, Slewed(from, to))
         /\ Slewed(from, from) = from
         /\ \A k \in Levels : from.fingers <= k /\ to.fingers <= k
                                => Slewed(from, to).fingers <= k
  <1> DEFINE step(j, t) == from[j] + Most(-1, Least(1, t - from[j]))
  <1>1. \A j \in Joints : from[j] \in Levels /\ to[j] \in Levels
    BY DEF Position, Joints
  <1>2. \A j \in Joints : /\ step(j, to[j]) \in Levels
                          /\ step(j, step(j, to[j])) = step(j, to[j])
                          /\ step(j, from[j]) = from[j]
    BY <1>1 DEF Levels, Most, Least
  <1>3. \A t \in {to, from, Slewed(from, to)} : Slewed(from, t) = [j \in Joints |-> step(j, t[j])]
    BY DEF Slewed, Joints
  <1>4. Slewed(from, to) \in [Joints -> Levels]
    BY <1>2, <1>3
  <1>5. \A j \in Joints : Slewed(from, to)[j] = step(j, to[j])
    BY <1>3
  <1>6. [Joints -> Levels] = Position
    BY DEF Position, Joints
  <1>7. from = [j \in Joints |-> from[j]]
    BY <1>6
  <1>8. \A k \in Levels : from.fingers <= k /\ to.fingers <= k => step("fingers", to.fingers) <= k
    BY <1>1 DEF Levels, Most, Least, Joints
  <1> HIDE DEF step
  <1>9. Slewed(from, to) = Slewed(from, Slewed(from, to))
    BY <1>2, <1>3, <1>5
  <1>10. Slewed(from, from) = from
    BY <1>2, <1>3, <1>7
  <1> QED  BY <1>4, <1>5, <1>6, <1>8, <1>9, <1>10 DEF Joints

LEMMA TowardsFacts ==
  ASSUME NEW from \in Position, NEW to \in Position, NEW f \in Towards(from, to)
  PROVE  /\ f \in Position
         /\ \A k \in Levels : from.fingers <= k /\ to.fingers <= k => f.fingers <= k
  <1>1. f \in Position /\ f.fingers \in Least(from.fingers, to.fingers) .. Most(from.fingers, to.fingers)
    BY DEF Towards
  <1>2. from.fingers \in Levels /\ to.fingers \in Levels /\ f.fingers \in Levels
    BY <1>1 DEF Position
  <1> QED  BY <1>1, <1>2 DEF Levels, Least, Most

LEMMA FingerStart == RobotHandInit => FingerInv
  <1> SUFFICES ASSUME RobotHandInit PROVE FingerInv
    OBVIOUS
  <1>1. Open \in Position
    BY DEF Open, Position, Levels
  <1> QED  BY <1>1 DEF RobotHandInit, FingerInv, OutputInv, ReachInv, Controls

\* What a tick asks of the fingers is a position; a preparation under way holds
\* them, and begins from where they are.
LEMMA PrepareFacts ==
  ASSUME FingerInv, NEW c \in ControlValues
  PROVE  /\ Prepared(c) \in Preparations \cup {None}
         /\ Desired(c, Prepared(c)) \in Position
         /\ LET p == Prepared(c) IN
            (p # None /\ ~p.placed) =>
              /\ ~p.done /\ p.held <= p.reach
              /\ Desired(c, p).fingers = p.held
              /\ (IF filtered = None THEN measured ELSE filtered).fingers <= p.reach
              /\ (IF previous = None THEN measured ELSE previous).fingers <= p.reach
  <1> DEFINE from0 == IF active THEN previous.fingers ELSE measured.fingers
             going == IF filtered = None THEN from0 ELSE filtered.fingers
             started == [age |-> 0, done |-> FALSE, held |-> measured.fingers, placed |-> FALSE,
                         reach |-> Most(measured.fingers, Most(from0, going))]
             p0 == IF prep = None THEN started ELSE prep
             there == measured.thumb = Closed("thumb_out_grip").thumb
             done1 == p0.done \/ (there /\ p0.age >= PrepTime)
             placed1 == p0.placed \/ there
             p1 == [p0 EXCEPT !.done = done1, !.placed = placed1]
  <1>1. /\ measured.fingers \in Levels /\ from0 \in Levels /\ going \in Levels
    BY HandsFacts DEF FingerInv, OutputInv, Position
  <1>2. /\ started \in Preparations
        /\ measured.fingers <= started.reach /\ from0 <= started.reach /\ going <= started.reach
    BY <1>1 DEF Preparations, Levels, Most
  <1>3. p0 \in Preparations
    BY <1>2 DEF FingerInv, OutputInv
  <1>4. (~p0.placed) => /\ ~p0.done /\ p0.held <= p0.reach
                        /\ (IF filtered = None THEN measured ELSE filtered).fingers <= p0.reach
                        /\ (IF previous = None THEN measured ELSE previous).fingers <= p0.reach
    <2>1. CASE prep = None
      BY <1>1, <1>2, <2>1, HandsFacts DEF FingerInv, OutputInv, Levels
    <2>2. CASE prep # None
      BY <2>2, HandsFacts DEF FingerInv, OutputInv, ReachInv
    <2> QED  BY <2>1, <2>2
  <1>5. Prepared(c) = IF Prepares(c) THEN p1 ELSE None
    BY DEF Prepared, StartedPrep, ThumbReached
  <1>6. done1 \in BOOLEAN /\ placed1 \in BOOLEAN
    BY <1>3 DEF Preparations
  <1> HIDE DEF p0, started, there, from0, going
  <1>7. /\ p1 \in Preparations /\ p1.done = done1 /\ p1.placed = placed1
        /\ p1.held = p0.held /\ p1.reach = p0.reach
    BY <1>3, <1>6 DEF Preparations
  <1>8. Targets(c) \in Position /\ Closed("thumb_out_grip").thumb \in Levels
        /\ Targets(c).fingers \in Levels
    BY DEF Targets, Closed, Rest, Open, Position, Levels
  <1>9. Desired(c, Prepared(c)) \in Position
    BY <1>5, <1>7, <1>8 DEF Desired, Position, Preparations
  <1> HIDE DEF p1, done1, placed1
  <1>10. ~p1.placed => ~p1.done /\ ~p0.placed
    BY <1>4, <1>7 DEF done1, placed1
  <1> QED  BY <1>4, <1>5, <1>7, <1>9, <1>10 DEF Desired

\* A tick that moves the fingers.
LEMMA OutputStep ==
  ASSUME FingerInv, NEW c \in ControlValues,
         filtered' \in Towards(IF filtered = None THEN measured ELSE filtered,
                               Desired(c, Prepared(c))),
         ordered' = Slewed(IF previous = None THEN measured ELSE previous, filtered'),
         previous' = ordered', active' = TRUE, prep' = Waited(Prepared(c)),
         UNCHANGED measured, controls' \in Controls
  PROVE  /\ FingerInv'
         /\ ordered' = Slewed(IF active THEN ordered ELSE measured, ordered')
         /\ (prep' # None /\ ~prep'.placed) => ordered'.fingers <= prep'.reach
  <1> DEFINE to == Desired(c, Prepared(c))
             by == IF filtered = None THEN measured ELSE filtered
             from == IF previous = None THEN measured ELSE previous
             p == Prepared(c)
  <1>1. to \in Position /\ by \in Position /\ from \in Position
        /\ from = (IF active THEN ordered ELSE measured)
    BY PrepareFacts, HandsFacts DEF FingerInv, OutputInv
  <1>2. filtered' \in Position
        /\ \A k \in Levels : by.fingers <= k /\ to.fingers <= k => filtered'.fingers <= k
    BY <1>1, TowardsFacts
  <1>3. /\ ordered' \in Position /\ ordered' = Slewed(from, ordered')
        /\ \A k \in Levels : from.fingers <= k /\ filtered'.fingers <= k => ordered'.fingers <= k
    BY <1>1, <1>2, SlewFacts
  <1>4. /\ prep' \in Preparations \cup {None}
        /\ prep' # None => /\ p # None /\ prep'.placed = p.placed /\ prep'.reach = p.reach
                           /\ prep'.done = p.done /\ prep'.held = p.held
    <2>1. CASE p = None
      BY <2>1 DEF Waited
    <2>2. CASE p # None
      <3>1. p \in Preparations
        BY <2>2, PrepareFacts
      <3>2. prep' = [p EXCEPT !.age = IF p.done THEN p.age ELSE p.age + 1]
        BY <2>2 DEF Waited
      <3>3. (IF p.done THEN p.age ELSE p.age + 1) \in Nat
        BY <3>1 DEF Preparations
      <3> QED  BY <2>2, <3>1, <3>2, <3>3 DEF Preparations
    <2> QED  BY <2>1, <2>2
  <1>5. (p # None /\ ~p.placed) =>
          /\ ~p.done /\ p.held <= p.reach /\ to.fingers = p.held
          /\ by.fingers <= p.reach /\ from.fingers <= p.reach
    BY PrepareFacts
  <1>6. p # None => p.reach \in Levels /\ p.held \in Levels
    BY PrepareFacts DEF Preparations
  <1> HIDE DEF to, by, from, p
  <1>7. (prep' # None /\ ~prep'.placed) =>
          /\ ~prep'.done /\ prep'.held <= prep'.reach
          /\ filtered'.fingers <= prep'.reach /\ ordered'.fingers <= prep'.reach
    BY <1>2, <1>3, <1>4, <1>5, <1>6
  <1>8. OutputInv'
    BY <1>2, <1>3, <1>4, HandsFacts DEF FingerInv, OutputInv
  <1> QED  BY <1>1, <1>3, <1>7, <1>8 DEF FingerInv, ReachInv

LEMMA FingerStep ==
  ASSUME FingerInv, [RobotHandNext(ControlValues \cup {None})]_robotHandVars
  PROVE  /\ FingerInv'
         /\ active' => ordered' = Slewed(IF active THEN ordered ELSE measured, ordered')
         /\ (active' /\ prep' # None /\ ~prep'.placed) => ordered'.fingers <= prep'.reach
  <1> DEFINE Steady == UNCHANGED <<prep, filtered, previous, active, ordered>>
  <1>1. ASSUME Steady, measured' \in Position, controls' \in Controls
        PROVE  /\ FingerInv'
               /\ active' => ordered' = Slewed(IF active THEN ordered ELSE measured, ordered')
               /\ (active' /\ prep' # None /\ ~prep'.placed) => ordered'.fingers <= prep'.reach
    <2>1. FingerInv'
      BY <1>1 DEF FingerInv, OutputInv, ReachInv
    <2>2. Slewed(ordered, ordered) = ordered
      BY SlewFacts DEF FingerInv, OutputInv
    <2> QED  BY <1>1, <2>1, <2>2 DEF FingerInv, OutputInv, ReachInv
  <1>2. CASE \E c \in ControlValues \cup {None} : Receive(c)
    <2>1. PICK c \in ControlValues \cup {None} : Receive(c)
      BY <1>2
    <2>2. controls' = [controls EXCEPT !.values = c, !.age = 0]
      BY <2>1 DEF Receive
    <2>3. controls' \in Controls
      BY <2>2 DEF FingerInv, OutputInv, Controls
    <2> QED  BY <1>1, <2>1, <2>3 DEF Receive, FingerInv, OutputInv
  <1>3. CASE \E allowed, fresh \in BOOLEAN : HandTick(allowed, fresh)
    <2>1. PICK allowed \in BOOLEAN, fresh \in BOOLEAN : HandTick(allowed, fresh)
      BY <1>3
    <2> DEFINE c == controls.values
               ready == c # None /\ controls.age <= IntentLife
    <2>2. ASSUME HoldHand(fresh), UNCHANGED measured, controls' \in Controls
          PROVE  FingerInv' /\ ~active'
      BY <2>2 DEF HoldHand, Cleared, FingerInv, OutputInv, ReachInv
    <2> DEFINE older == Least(controls.age + 1, IntentLife + 1)
    <2>3. controls' \in Controls /\ UNCHANGED measured
      <3>1. older \in Nat
        BY ControllerHandsAssumption DEF Least, FingerInv, OutputInv, Controls
      <3>2. \/ controls' = [controls EXCEPT !.age = older]
            \/ controls' = [controls EXCEPT !.latched = TRUE]
        BY <2>1 DEF HandTick
      <3> HIDE DEF older
      <3>3. controls' \in Controls
        BY <3>1, <3>2 DEF FingerInv, OutputInv, Controls
      <3> QED  BY <2>1, <3>3 DEF HandTick
    <2>4. CASE ~allowed \/ controls.latched \/ ~ready \/ Stuck(Prepared(c))
      <3>1. HoldHand(fresh)
        BY <2>1, <2>4 DEF HandTick
      <3> QED  BY <2>2, <2>3, <3>1
    <2>5. CASE ~(~allowed \/ controls.latched \/ ~ready \/ Stuck(Prepared(c)))
      <3>1. c \in ControlValues
        BY <2>5 DEF FingerInv, OutputInv, Controls
      <3>2. /\ filtered' \in Towards(IF filtered = None THEN measured ELSE filtered,
                                     Desired(c, Prepared(c)))
            /\ ordered' = Slewed(IF previous = None THEN measured ELSE previous, filtered')
            /\ previous' = ordered' /\ active' = TRUE /\ prep' = Waited(Prepared(c))
        BY <2>1, <2>5 DEF HandTick
      <3> QED  BY <2>3, <3>1, <3>2, OutputStep
    <2> QED  BY <2>4, <2>5
  <1>4. CASE HandFollows
    <2>1. measured' \in Position
      BY <1>4, TowardsFacts DEF HandFollows, FingerInv, OutputInv
    <2> QED  BY <1>1, <1>4, <2>1 DEF HandFollows, FingerInv, OutputInv
  <1>5. CASE UNCHANGED robotHandVars
    BY <1>1, <1>5 DEF robotHandVars, FingerInv, OutputInv
  <1> QED  BY <1>2, <1>3, <1>4, <1>5 DEF RobotHandNext

\* A grip that is held stands at the PC (controller_hand_modes.py), and at the
\* robot (sh5_controller_hands.py) the fingers move in steps and, in the thumb-out
\* grip, after the thumb: for all that the PC may ask and all that is measured.
THEOREM GripsAlwaysStand == PcHandSpec /\ RobotHandSpec => GripsStand
  <1>1. TapInv => HeldGripStays
    BY DEF TapInv, GripKept
  <1>2. TapInv /\ [PcHandNext]_pcHandVars => TapInv'
    BY TapStep
  <1>3. PcHandSpec => []HeldGripStays
    BY <1>1, <1>2, TapStart, PTL DEF PcHandSpec
  <1>4. FingerInv /\ [RobotHandNext(ControlValues \cup {None})]_robotHandVars => FingerInv'
    BY FingerStep
  <1>5. FingerInv /\ [RobotHandNext(ControlValues \cup {None})]_robotHandVars =>
          [active' => ordered' = Slewed(IF active THEN ordered ELSE measured, ordered')]_robotHandVars
    BY FingerStep
  <1>6. FingerInv /\ [RobotHandNext(ControlValues \cup {None})]_robotHandVars =>
          [(active' /\ prep' # None /\ ~prep'.placed) => ordered'.fingers <= prep'.reach]_robotHandVars
    BY FingerStep
  <1>7. RobotHandSpec => HandNeverJumps /\ ThumbGoesFirst
    BY <1>4, <1>5, <1>6, FingerStart, PTL DEF RobotHandSpec, HandNeverJumps, ThumbGoesFirst
  <1> QED  BY <1>3, <1>7 DEF GripsStand

-----------------------------------------------------------------------------
(* TactTrigger.                                                            *)

\* A press that was reported as long is remembered while it lasts, and both
\* sides together until all are up.
TactInv ==
  /\ down \subseteq TactSides /\ lasted \cap down \subseteq long
  /\ (down # {} /\ joined) => both

LEMMA TactStep ==
  ASSUME TactInv, [TactNext]_tactVars
  PROVE  /\ TactInv'
         /\ down # down' => \A s \in TactSides : s \in events' => s \notin lasted /\ ~joined
         /\ (down # {} /\ down' = {} /\ joined) => events' = {"both"} \/ UNCHANGED tactVars
  <1>1. CASE \E pressed \in SUBSET TactSides : TactFrame(pressed)
    <2>1. PICK pressed \in SUBSET TactSides : TactFrame(pressed)
      BY <1>1
    <2> DEFINE age == [s \in TactSides |-> IF s \in pressed \ down THEN 0 ELSE since[s]]
               old == long \ (pressed \ down)
               longer == {s \in pressed \ old : age[s] >= LongPress}
               both1 == both \/ pressed = TactSides
               up == pressed = {} /\ down # {}
               shorts == IF up /\ ~both1 THEN {s \in down : down = {s} /\ s \notin old} ELSE {}
    <2>2. /\ events' = {LongEvent[s] : s \in longer} \cup shorts
                         \cup (IF up /\ both1 THEN {"both"} ELSE {})
          /\ down' = pressed
          /\ long' = (old \cup longer) \ (IF up THEN down ELSE {})
          /\ both' = (both1 /\ ~up)
          /\ lasted' = (lasted \ (pressed \ down)) \cup longer
          /\ joined' = ((joined /\ down # {}) \/ pressed = TactSides)
      BY <2>1 DEF TactFrame, StaysLong, EpisodeBoth
    <2>3. longer \subseteq pressed
      OBVIOUS
    <2> HIDE DEF longer
    <2>4. lasted' \cap down' \subseteq long'
      BY <2>2, <2>3 DEF TactInv
    <2>5. (down' # {} /\ joined') => both'
      BY <2>2 DEF TactInv
    <2>6. TactInv'
      BY <2>2, <2>4, <2>5 DEF TactInv
    <2>7. ASSUME down # down', NEW s \in TactSides, s \in events'
          PROVE  s \notin lasted /\ ~joined
      <3>1. \A t \in longer : LongEvent[t] # s
        <4>1. \A t \in longer : t = "left" \/ t = "right"
          BY <2>3 DEF TactSides
        <4>2. LongEvent["left"] = "left_long_time" /\ LongEvent["right"] = "right_long_time"
          BY DEF LongEvent
        <4>3. s = "left" \/ s = "right"
          BY DEF TactSides
        <4> QED  BY <4>1, <4>2, <4>3
      <3>2. s # "both"
        BY DEF TactSides
      <3>3. s \in shorts
        BY <2>2, <2>7, <3>1, <3>2
      <3> QED  BY <2>2, <3>3 DEF TactInv
    <2>8. (down # {} /\ down' = {} /\ joined) => events' = {"both"}
      BY <2>2, <2>3 DEF TactInv
    <2> QED  BY <2>6, <2>7, <2>8
  <1>2. CASE TactTick \/ UNCHANGED tactVars
    BY <1>2 DEF TactTick, tactVars, TactInv
  <1> QED  BY <1>1, <1>2 DEF TactNext

\* What the sticks report (TactTrigger.update) is a click only when it was a short
\* press of one side, and both sides are reported as both, for every duration of a
\* long press and in whatever frames the sides come and go.
THEOREM ClicksMeanOneThing == TactSpec => ClicksAreShort /\ BothIsSaid
  <1>1. TactInit => TactInv
    BY DEF TactInit, TactInv
  <1>2. TactInv /\ [TactNext]_tactVars => TactInv'
    BY TactStep
  <1>3. TactInv /\ [TactNext]_tactVars =>
          [\A s \in TactSides : (s \in events' /\ down # down') => s \notin lasted /\ ~joined]_tactVars
    BY TactStep
  <1>4. TactInv /\ [TactNext]_tactVars =>
          [(down # {} /\ down' = {} /\ joined) => events' = {"both"}]_tactVars
    BY TactStep
  <1> QED  BY <1>1, <1>2, <1>3, <1>4, PTL DEF TactSpec, ClicksAreShort, BothIsSaid

\* Buttons and sticks mean one thing each, at the hands' grips, the leader's tact
\* switches and the SG2's arms together.
THEOREM ButtonsAlwaysMeanOneThing == PcHandSpec /\ TactSpec /\ SgSpec => ButtonsMeanOneThing
  BY TapsStayAlone, ClicksMeanOneThing, ReleaseComesFirst DEF ButtonsMeanOneThing

-----------------------------------------------------------------------------
(* The types.                                                              *)

LEMMA HandTypes == TapInv /\ FingerInv => ControllerHandsTypeOK
  <1> SUFFICES ASSUME TapInv, FingerInv PROVE ControllerHandsTypeOK
    OBVIOUS
  <1>1. taps.selected \in Grips /\ taps.previous \subseteq Buttons /\ trigger \in Levels
        /\ taps.candidate \in Buttons \cup {None} /\ taps.pending \in Buttons \cup {None}
        /\ armed \in BOOLEAN
    BY DEF TapInv, TapType, Keys
  <1>2. taps.candidate # None => taps.previous = {taps.candidate} /\ taps.pending = None
    BY DEF TapInv, CandidateAlone
  <1>3. active \in BOOLEAN /\ ordered \in Position /\ measured \in Position
        /\ (active => previous = ordered)
    BY DEF FingerInv, OutputInv
  <1> QED  BY <1>1, <1>2, <1>3 DEF ControllerHandsTypeOK

LEMMA PoseTypes == PoseInv => ArmTypeOK
  BY DEF PoseInv, ArmTypeOK, Joint, Rests

\* The rest of the SG2's types.
SgRest ==
  /\ startArmed \in BOOLEAN /\ chords \in [a : BOOLEAN, b : BOOLEAN]
  /\ ages \in [Sources -> (0 .. Timeout + 2) \cup {None}]
  /\ armTold \in BOOLEAN \cup {None} /\ (armTold # None => armTold = armsOn)
  /\ clicks \subseteq Arms
  /\ twist \in -1 .. 1 /\ liftGoal \in Int \cup {None} /\ liftAt \in Int

LEMMA SgRestStart == SgInit => SgRest
  <1> SUFFICES ASSUME SgInit PROVE SgRest
    OBVIOUS
  <1>1. ages \in [Sources -> (0 .. Timeout + 2) \cup {None}]
    BY DEF SgInit
  <1>2. startArmed \in BOOLEAN /\ chords \in [a : BOOLEAN, b : BOOLEAN]
    BY DEF SgInit
  <1>3. armTold = None /\ clicks \subseteq Arms /\ twist \in -1 .. 1
        /\ liftGoal \in Int \cup {None} /\ liftAt \in Int
    BY DEF SgInit
  <1> QED  BY <1>1, <1>2, <1>3 DEF SgInit, SgRest

\* The sticks.
LEMMA SgRestSticks ==
  ASSUME SgInv, SgRest, NEW l \in Controllers, NEW r \in Controllers, Thumbsticks(l, r)
  PROVE  /\ clicks' \subseteq Arms /\ twist' \in -1 .. 1 /\ liftGoal' \in Int \cup {None}
         /\ UNCHANGED liftAt
  <1>1. Push(l) \in -1 .. 1 /\ Push(r) \in -1 .. 1
    BY DEF Push, Controllers
  <1>2. clicks' \subseteq Arms
    BY DEF Thumbsticks, Clicked
  <1>3. twist' \in -1 .. 1
    BY <1>1 DEF Thumbsticks, TwistAfter, SgRest
  <1>4. liftGoal' \in Int \cup {None}
    BY <1>1 DEF Thumbsticks, LiftAfter, SgRest
  <1> QED  BY <1>2, <1>3, <1>4 DEF Thumbsticks

LEMMA SgRestStep ==
  ASSUME SgInv, SgRest, [SgNext(Controllers)]_sgVars PROVE SgRest'
  <1>1. CASE SgTick
    <2>1. /\ ages' = [s \in Sources |-> IF ages[s] \in 0 .. Timeout + 1 THEN ages[s] + 1 ELSE ages[s]]
          /\ UNCHANGED <<armsOn, startArmed, chords, armTold, clicks, twist, liftGoal, liftAt>>
      BY <1>1 DEF SgTick
    <2>2. ages' \in [Sources -> (0 .. Timeout + 2) \cup {None}]
      BY <2>1, Sg2Assumption DEF SgRest
    <2> QED  BY <2>1, <2>2 DEF SgRest
  <1>2. CASE TrackingTimer
    <2>1. UNCHANGED <<chords, ages, clicks, twist, liftGoal, liftAt>>
      BY <1>2 DEF TrackingTimer, stickVars
    <2>2. CASE Fresh(ages)
      BY <1>2, <2>1, <2>2 DEF TrackingTimer, SgRest
    <2>3. CASE ~Fresh(ages)
      BY <1>2, <2>1, <2>3 DEF TrackingTimer, SgRest, ToldAfter, SgInv, SgType
    <2> QED  BY <2>2, <2>3
  <1>3. CASE \E l, r \in Controllers : ControllerMove(l, r)
    <2>1. PICK l \in Controllers, r \in Controllers : ControllerMove(l, r)
      BY <1>3
    <2> DEFINE at == AgesAfter(Seen(l, r))
               starts == Starts(l, r, at)
               stops == Stops(l, r, at)
    <2>2. /\ ages' = at /\ armsOn' = OnAfter(l, r, at) /\ Thumbsticks(l, r)
          /\ startArmed' = (MayStart(l, r, at) /\ ~BothB(l, r) /\ ~starts)
          /\ armTold' = ToldAfter(starts, stops)
          /\ chords' = [a |-> BothA(l, r), b |-> BothB(l, r)]
      BY <2>1 DEF ControllerMove
    <2>3. at \in [Sources -> (0 .. Timeout + 2) \cup {None}]
      BY Sg2Assumption DEF AgesAfter, SgRest
    <2> HIDE DEF at
    <2>4. BothA(l, r) \in BOOLEAN /\ BothB(l, r) \in BOOLEAN
      BY DEF BothA, BothB, Controllers
    <2>5. startArmed' \in BOOLEAN
      BY <2>2, <2>4 DEF MayStart
    <2>6. armTold' \in BOOLEAN \cup {None} /\ (armTold' # None => armTold' = armsOn')
      <3>1. armsOn' \in BOOLEAN /\ armsOn' = (starts \/ (armsOn /\ ~stops))
        BY <2>2 DEF OnAfter, SgInv, SgType
      <3>2. armTold' = IF starts THEN TRUE ELSE IF stops THEN FALSE ELSE armTold
        BY <2>2 DEF ToldAfter
      <3>3. armsOn \in BOOLEAN /\ armTold \in BOOLEAN \cup {None} /\ (armTold # None => armTold = armsOn)
        BY DEF SgInv, SgType, SgRest
      <3> HIDE DEF starts, stops
      <3>4. CASE starts
        BY <3>1, <3>2, <3>4
      <3>5. CASE ~starts /\ stops
        BY <3>1, <3>2, <3>5
      <3>6. CASE ~starts /\ ~stops
        BY <3>1, <3>2, <3>3, <3>6
      <3> QED  BY <3>4, <3>5, <3>6
    <2>7. /\ clicks' \subseteq Arms /\ twist' \in -1 .. 1 /\ liftGoal' \in Int \cup {None}
          /\ UNCHANGED liftAt
      BY <2>2, SgRestSticks
    <2> QED  BY <2>2, <2>3, <2>4, <2>5, <2>6, <2>7 DEF SgRest
  <1>4. CASE \E missing \in Lost : SgBodyMove(missing)
    <2>1. PICK missing \in Lost : SgBodyMove(missing)
      BY <1>4
    <2>2. /\ UNCHANGED <<armsOn, startArmed, chords, armTold, clicks, twist, liftGoal, liftAt>>
          /\ ages' = ages \/ ages' = AgesAfter({"body"})
      BY <2>1 DEF SgBodyMove, stickVars
    <2>3. ages' \in [Sources -> (0 .. Timeout + 2) \cup {None}]
      BY <2>2, Sg2Assumption DEF SgRest, AgesAfter
    <2> QED  BY <2>2, <2>3 DEF SgRest
  <1>5. CASE CheckPose \/ SendPose \/ UNCHANGED sgVars
    BY <1>5 DEF CheckPose, SendPose, sgVars, joyVars, stickVars, SgRest
  <1>6. CASE \E h \in LiftHeights : LiftMeasured(h)
    BY <1>6, Sg2Assumption DEF LiftMeasured, joyVars, SgRest
  <1> QED  BY <1>1, <1>2, <1>3, <1>4, <1>5, <1>6 DEF SgNext

LEMMA SgTypes == SgInv /\ SgRest => SgTypeOK
  BY DEF SgInv, SgType, SgRest, SgTypeOK, FrameInv, Both

\* The rest of the SH5's types: the lift's goals lie between heights that were asked.
LiftSpan == lift = None \/ \E a, b \in LiftRange : a <= lift /\ lift <= b
VrRest ==
  /\ params \in Params
  /\ odom \in Places \cup {None} /\ odomRef \in Places \cup {None}
  /\ gesture \in [hold : (0 .. HoldTicks) \cup {None}, latched : BOOLEAN]
  /\ cmdVel \in -BaseMaxSpeed .. BaseMaxSpeed

LEMMA GoalBetween ==
  ASSUME NEW past \in Int, NEW relative \in Int, NEW step \in Nat, NEW next,
         next = past + Clamp((3 * relative + 7 * past) \div 10 - past, step)
  PROVE  /\ next \in Int
         /\ (past <= next \/ relative <= next) /\ (next <= past \/ next <= relative)
  <1> DEFINE mean == (3 * relative + 7 * past) \div 10
  <1>1. /\ mean \in Int
        /\ (past <= mean \/ relative <= mean) /\ (mean <= past \/ mean <= relative)
    OBVIOUS
  <1>2. next = past + Clamp(mean - past, step)
    OBVIOUS
  <1> HIDE DEF mean
  <1> QED  BY <1>1, <1>2 DEF Clamp

LEMMA LiftSpanStep ==
  ASSUME VrInv, LiftInv, LiftSpan, [VrNext(Heights, Places, Places)]_vrVars
  PROVE  LiftSpan'
  <1>1. CASE UNCHANGED lift
    BY <1>1 DEF LiftSpan, LiftRange
  <1>2. CASE \E s \in LiftSteps : ProcessHands(s)
    <2>1. PICK s \in LiftSteps : ProcessHands(s)
      BY <1>2
    <2> DEFINE relative == body.height
    <2>2. relative \in LiftRange /\ relative \in Int /\ s \in Nat
      BY <2>1, VrFacts, VrAssumption DEF ProcessHands, VrInv, VrType
    <2>3. lift' = IF params.lift THEN LiftGoal(relative, s) ELSE lift
      BY <2>1 DEF ProcessHands
    <2> HIDE DEF relative
    <2>4. CASE lift' = lift
      BY <1>1, <2>4
    <2>5. CASE lift' # lift /\ lift = None
      BY <2>2, <2>3, <2>5 DEF LiftGoal, LiftSpan, LiftRange
    <2>6. CASE lift' # lift /\ lift # None
      <3>1. lift \in Int
        BY <2>6 DEF LiftInv
      <3>2. lift' = lift + Clamp((3 * relative + 7 * lift) \div 10 - lift, s)
        BY <2>3, <2>6 DEF LiftGoal
      <3>3. /\ lift' \in Int
            /\ (lift <= lift' \/ relative <= lift') /\ (lift' <= lift \/ lift' <= relative)
        BY <2>2, <3>1, <3>2, GoalBetween
      <3>4. PICK a \in LiftRange, b \in LiftRange : a <= lift /\ lift <= b
        BY <2>6 DEF LiftSpan
      <3>5. a \in Int /\ b \in Int
        BY VrFacts
      <3>6. \E c \in LiftRange : c <= lift'
        BY <2>2, <3>1, <3>3, <3>4, <3>5
      <3>7. \E c \in LiftRange : lift' <= c
        BY <2>2, <3>1, <3>3, <3>4, <3>5
      <3> QED  BY <3>6, <3>7 DEF LiftSpan, LiftRange
    <2> QED  BY <2>4, <2>5, <2>6
  <1> QED  BY <1>1, <1>2 DEF VrNext, SetSteps, ReadFlag, WriteFlag, TestFlag, ElseFlag, ResetHeight,
       ResetRest, PublishZero, Tell, OdomCallback, ReactivateCallback, GestureReleased, GestureHeld,
       GestureToggle, BodyEvent, BodyMove, BodySteps, CaptureHeight, CapturePlace, CaptureNothing,
       Relate, RelateFails, Drive, vrVars

LEMMA VrRestStart == VrInit => VrRest /\ LiftSpan
  <1> SUFFICES ASSUME VrInit PROVE VrRest /\ LiftSpan
    OBVIOUS
  <1>1. gesture \in [hold : (0 .. HoldTicks) \cup {None}, latched : BOOLEAN]
    BY DEF VrInit
  <1>2. cmdVel \in -BaseMaxSpeed .. BaseMaxSpeed
    BY VrAssumption DEF VrInit
  <1> QED  BY <1>1, <1>2 DEF VrInit, VrRest, LiftSpan

LEMMA VrRestStep ==
  ASSUME VrInv, VrRest, [VrNext(Heights, Places, Places)]_vrVars
  PROVE  VrRest'
  <1>1. CASE \E o \in Places : OdomCallback(o)
    BY <1>1 DEF OdomCallback, VrRest, refs
  <1>2. CASE (\E to \in BOOLEAN : ReactivateCallback(to)) \/ GestureToggle \/ BodyEvent(Heights, Places)
             \/ Relate \/ RelateFails \/ (\E s \in LiftSteps : ProcessHands(s))
    BY <1>2 DEF ReactivateCallback, GestureToggle, BodyEvent, BodyMove, Relate, RelateFails,
                ProcessHands, VrRest, refs
  <1>3. ASSUME NEW t \in Threads, SetSteps(t) PROVE VrRest'
    <2>1. CASE ReadFlag(t) \/ WriteFlag(t) \/ TestFlag(t) \/ ElseFlag(t) \/ ResetHeight(t) \/ ResetRest(t)
      BY <2>1 DEF ReadFlag, WriteFlag, TestFlag, ElseFlag, ResetHeight, ResetRest, VrRest, refs
    <2>2. CASE PublishZero(t)
      BY <2>2, VrAssumption DEF PublishZero, VrRest, refs
    <2>3. CASE Tell(t)
      BY <2>3 DEF Tell, VrRest, refs
    <2> QED  BY <1>3, <2>1, <2>2, <2>3 DEF SetSteps
  <1>4. CASE GestureReleased
    BY <1>4 DEF GestureReleased, VrRest, refs
  <1>5. CASE GestureHeld
    <2> DEFINE h == IF gesture.hold = None THEN 0 ELSE gesture.hold + 1
    <2>1. gesture' = [gesture EXCEPT !.hold = h] /\ gesture.hold # HoldTicks
      BY <1>5 DEF GestureHeld
    <2>2. h \in 0 .. HoldTicks
      BY <2>1, VrAssumption DEF VrRest
    <2> HIDE DEF h
    <2>3. gesture' \in [hold : (0 .. HoldTicks) \cup {None}, latched : BOOLEAN]
      BY <2>1, <2>2 DEF VrRest
    <2> QED  BY <1>5, <2>3 DEF GestureHeld, VrRest, refs
  <1>6. CASE CaptureHeight \/ CapturePlace \/ CaptureNothing
    BY <1>6 DEF CaptureHeight, CapturePlace, CaptureNothing, OdometryRef, VrRest
  <1>7. CASE Drive
    <2>1. /\ UNCHANGED <<params, odom, odomRef, gesture>> /\ body.at = "drive"
          /\ cmdVel' = IF params.base /\ camPlace # None /\ odomRef # None /\ odom # None
                       THEN VelFromError(body.place - (odom - odomRef)) ELSE cmdVel
      BY <1>7 DEF Drive, refs
    <2>2. cmdVel' \in -BaseMaxSpeed .. BaseMaxSpeed
      <3>1. CASE cmdVel' = cmdVel
        BY <3>1 DEF VrRest
      <3>2. CASE cmdVel' # cmdVel
        <4> DEFINE err == body.place - (odom - odomRef)
        <4>1. odomRef \in Int /\ odom \in Int /\ body.place \in Int
          BY <2>1, <3>2, VrFacts DEF VrRest, VrInv, VrType
        <4>2. err \in Int /\ cmdVel' = VelFromError(err)
          BY <2>1, <3>2, <4>1
        <4> HIDE DEF err
        <4> QED  BY <4>2, VrAssumption DEF VelFromError, Clamp
      <3> QED  BY <3>1, <3>2
    <2> QED  BY <2>1, <2>2 DEF VrRest
  <1>8. CASE UNCHANGED vrVars
    BY <1>8 DEF vrVars, VrRest
  <1> QED  BY <1>1, <1>2, <1>3, <1>4, <1>5, <1>6, <1>7, <1>8 DEF VrNext, BodySteps

LEMMA VrTypes == VrInv /\ VrRest /\ LiftSpan => VrTypeOK
  BY DEF VrInv, VrType, VrRest, LiftSpan, VrTypeOK, Calls, Points, Bodies, BodyStages

\* The publishers' states stay in their domains for all constants: the lift's goals
\* between heights that were asked of it, the base within its speed, each joint's
\* goal where its filter is, what the SG2 announced what it does, and a session of
\* the XR publisher with an origin.
THEOREM PublisherTypes ==
  VrSpec /\ ArmSpec /\ SgSpec /\ PcHandSpec /\ RobotHandSpec /\ XrSpec => []PublishersTypeOK
  <1>1. VrSpec => []VrTypeOK
    <2>1. VrInit => VrInv /\ LiftInv /\ VrRest /\ LiftSpan
      BY VrStart, VrRestStart DEF VrInit, LiftInv
    <2>2. /\ VrInv /\ LiftInv /\ VrRest /\ LiftSpan /\ [VrNext(Heights, Places, Places)]_vrVars
            => VrInv' /\ LiftInv' /\ VrRest' /\ LiftSpan'
      BY VrStep, LiftStep, VrRestStep, LiftSpanStep
    <2> QED  BY <2>1, <2>2, VrTypes, PTL DEF VrSpec
  <1>2. ArmSpec => []ArmTypeOK
    <2>1. PoseInv /\ [ArmNext]_poseVars => PoseInv'
      BY PoseStep
    <2> QED  BY PoseStart, <2>1, PoseTypes, PTL DEF ArmSpec
  <1>3. SgSpec => []SgTypeOK
    <2>1. SgInv /\ SgRest /\ [SgNext(Controllers)]_sgVars => SgInv' /\ SgRest'
      BY SgStep, SgRestStep
    <2> QED  BY SgStart, SgRestStart, <2>1, SgTypes, PTL DEF SgSpec
  <1>4. PcHandSpec /\ RobotHandSpec => []ControllerHandsTypeOK
    <2>1. TapInv /\ [PcHandNext]_pcHandVars => TapInv'
      BY TapStep
    <2>2. FingerInv /\ [RobotHandNext(ControlValues \cup {None})]_robotHandVars => FingerInv'
      BY FingerStep
    <2> QED  BY TapStart, FingerStart, <2>1, <2>2, HandTypes, PTL DEF PcHandSpec, RobotHandSpec
  <1>5. XrSpec => []XrTypeOK
    BY XrStart, XrStep, XrInvImplies, PTL DEF XrSpec
  <1>6. VrTypeOK /\ ArmTypeOK /\ SgTypeOK /\ ControllerHandsTypeOK /\ XrTypeOK => PublishersTypeOK
    BY DEF PublishersTypeOK
  <1> QED  BY <1>1, <1>2, <1>3, <1>4, <1>5, <1>6, PTL

=============================================================================
