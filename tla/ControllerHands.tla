-------------------------- MODULE ControllerHands --------------------------
(***************************************************************************)
(* SH5 hands driven by the headset's controllers in hand mode 2.            *)
(* At the PC (ControllerHandModes, the controller branch of _extra_intent): *)
(* a tap of X, Y, A or B selects a grip, chords are reserved for starting    *)
(* and stopping the arms, and a pulled trigger keeps the grip it was pulled  *)
(* with.  At the robot (SH5HandOutput): the fingers follow at a limited      *)
(* speed, and the thumb-out grip moves the thumb before the other fingers.   *)
(* One hand of the two, which share the buttons only; the thumb and the      *)
(* other fingers are one position each.                                    *)
(***************************************************************************)
EXTENDS Integers, FiniteSets, PyNone

CONSTANTS
  Buttons,     \* a subset of X, Y, A, B
  Grace,       \* BUTTON_RELEASE_GRACE (.15 s)
  IntentLife,  \* life of the PC's controls at the robot (.3 s)
  PrepTime,    \* the least (.12 s) ...
  PrepLimit    \* ... and the longest (3 s) the thumb gets to be placed

Levels == 0 .. 2
PoseOf == [X |-> "full_grip", Y |-> "angled_grip", B |-> "point", A |-> "thumb_out_grip"]
Grips == {"full_grip", "angled_grip", "point", "thumb_out_grip"}

\* positions of the hand, and what is kept of a preparation of the thumb
Position == [thumb : Levels, fingers : Levels]
Preparations == [age : Nat, done : BOOLEAN, held : Levels, placed : BOOLEAN, reach : Levels]
\* what a PC may ask for, if anything
ControlValues == [trigger : Levels, grip : BOOLEAN, pose : Grips]

ASSUME ControllerHandsAssumption ==
  /\ Buttons \subseteq {"X", "Y", "A", "B"}
  /\ {Grace, IntentLife, PrepTime, PrepLimit} \subseteq Nat
  /\ PrepTime < PrepLimit
  /\ None \notin {"X", "Y", "A", "B"} \cup Position \cup Preparations \cup ControlValues \cup Nat

VARIABLES
  taps,      \* ControllerHandModes: selected, previous, candidate, chord,
             \* pending with its age, time to blocked_until
  captured,  \* the grip the trigger was pulled with
  trigger,   \* open (<= .02), touched or pulled (> .05)
  armed,     \* arm_control_enabled, ACTIVE and no fault
  sent,      \* controller_hands of the last intent
  episode,   \* history: buttons seen since all were up for Grace
  released,  \* history: all buttons seen up for so long
  grasp      \* history: the grip the trigger was pulled with
pcHandVars == <<taps, captured, trigger, armed, sent, episode, released, grasp>>

VARIABLES
  controls,  \* SH5HandOutput.controls, the age of rx, and a latched fault
  prep,      \* preparing: age, done, held, and (history) the fingers' reach
  filtered, previous, active,  \* SH5HandOutput
  ordered,      \* positions last published
  measured   \* measured positions
robotHandVars == <<controls, prep, filtered, previous, active, ordered, measured>>

PcHandInit ==
  /\ taps = [selected |-> "full_grip", previous |-> {}, candidate |-> None, chord |-> FALSE,
             pending |-> None, age |-> 0, blocked |-> 0]
  /\ captured = None /\ trigger = 0 /\ armed = FALSE /\ sent = None
  /\ episode = {} /\ released = None /\ grasp = None

-----------------------------------------------------------------------------
(* ControllerHandModes.buttons.                                            *)

MutantTwisted(pressed) ==
  \/ Cardinality(pressed) > 1
  \/ pressed # {} /\ (taps.blocked > 0 \/ (taps.previous # {} /\ pressed # taps.previous))

\* buttons of one chord come and go in different frames
Twisted(pressed) ==
  \/ Cardinality(pressed) > 1
  \/ pressed # {} /\ (taps.blocked > 0 \/ taps.pending # None
                      \/ (taps.previous # {} /\ pressed # taps.previous))

\* a frame without buttons: the tap waits, and is committed when the wait is over
Released ==
  LET fresh == taps.candidate # None /\ ~taps.chord
      waiting == IF fresh THEN taps.candidate ELSE taps.pending
      commits == waiting # None /\ (IF fresh THEN 0 ELSE taps.age) >= Grace
  IN  [selected |-> IF commits THEN PoseOf[waiting] ELSE taps.selected,
       previous |-> {}, candidate |-> None, chord |-> FALSE,
       pending |-> IF commits THEN None ELSE waiting,
       age |-> IF fresh \/ commits THEN 0 ELSE taps.age,
       blocked |-> IF taps.chord THEN Grace ELSE taps.blocked]

MutantChorded(pressed) ==
  [taps EXCEPT !.chord = TRUE, !.pending = None, !.age = 0, !.previous = pressed]
Chorded(pressed) ==
  [taps EXCEPT !.chord = TRUE, !.candidate = None, !.pending = None, !.age = 0, !.previous = pressed]

Tapped(pressed) ==
  IF Twisted(pressed) THEN Chorded(pressed)
  ELSE IF pressed = {} THEN Released
  ELSE IF taps.previous = {} /\ ~taps.chord
    THEN [taps EXCEPT !.candidate = CHOOSE b \in pressed : TRUE, !.previous = pressed]
    ELSE [taps EXCEPT !.previous = pressed]

Rested == released # None /\ released >= Grace

\* on_controller_move
ButtonFrame(pressed) ==
  /\ taps' = Tapped(pressed)
  /\ episode' = IF pressed = {} THEN (IF Rested THEN {} ELSE episode)
                ELSE pressed \cup (IF Rested THEN {} ELSE episode)
  /\ released' = IF pressed # {} THEN None ELSE IF released = None THEN 0 ELSE released
  /\ UNCHANGED <<captured, trigger, armed, sent, grasp>>

\* on_controller_move with something else: reset_buttons
BadFrame ==
  /\ taps' = Chorded({})
  /\ episode' = episode \cup {"unknown"} /\ released' = None
  /\ UNCHANGED <<captured, trigger, armed, sent, grasp>>

-----------------------------------------------------------------------------
(* _extra_intent in controller mode.                                       *)

Captures(old) ==
  IF trigger = 0 THEN None
  ELSE IF trigger = 2 /\ old = None THEN taps.selected ELSE old

MutantKept(fresh) == IF armed /\ fresh THEN captured ELSE None
\* reset_grasps, unless the arms are active: a gap in the tracking keeps the grip
Kept(fresh) == IF armed THEN captured ELSE None

\* fresh: the controllers' frames and the tracking are
Intent(fresh) ==
  LET kept == Kept(fresh)
      grip == Captures(kept)
  IN  /\ captured' = IF armed /\ fresh THEN grip ELSE kept
      /\ sent' = IF ~armed \/ ~fresh THEN None
                 ELSE [trigger |-> trigger, pose |-> IF grip = None THEN taps.selected ELSE grip]
      /\ grasp' = IF ~armed \/ (fresh /\ trigger = 0) THEN None
                  ELSE IF fresh /\ trigger = 2 /\ grasp = None THEN taps.selected
                  ELSE grasp
      /\ UNCHANGED <<taps, trigger, armed, episode, released>>

Pull(to) ==
  /\ trigger' = to
  /\ UNCHANGED <<taps, captured, armed, sent, episode, released, grasp>>

ArmsSwitch ==
  /\ armed' = ~armed
  /\ UNCHANGED <<taps, captured, trigger, sent, episode, released, grasp>>

PcHandTick ==
  /\ taps' = [taps EXCEPT !.age = IF taps.pending = None \/ @ = Grace THEN @ ELSE @ + 1,
                          !.blocked = IF @ = 0 THEN 0 ELSE @ - 1]
  /\ released' = IF released = None \/ released = Grace THEN released ELSE released + 1
  /\ UNCHANGED <<captured, trigger, armed, sent, episode, grasp>>

PcHandNext ==
  \/ \E pressed \in SUBSET Buttons : ButtonFrame(pressed)
  \/ BadFrame \/ ArmsSwitch \/ PcHandTick
  \/ \E fresh \in BOOLEAN : Intent(fresh)
  \/ \E to \in Levels : Pull(to)
PcHandSpec == PcHandInit /\ [][PcHandNext]_pcHandVars

-----------------------------------------------------------------------------
(* SH5HandOutput.                                                          *)

Open == [thumb |-> 0, fingers |-> 0]
Least(a, b) == IF a < b THEN a ELSE b
Most(a, b) == IF a > b THEN a ELSE b

\* hx5_controller_poses.json: the thumb-out grip has a place of its own for it
Closed(pose) ==
  CASE pose = "thumb_out_grip" -> [thumb |-> 2, fingers |-> 2]
    [] pose = "pinch" -> [thumb |-> 1, fingers |-> 1]
    [] OTHER -> [thumb |-> 1, fingers |-> 2]

RobotHandInit ==
  /\ controls = [values |-> None, age |-> 0, latched |-> FALSE]
  /\ prep = None /\ filtered = None /\ previous = None /\ active = FALSE
  /\ measured \in {Open} /\ ordered = measured

\* the angled grip closes from a rest pose of its own
Rest(pose) == IF pose = "angled_grip" THEN [thumb |-> 1, fingers |-> 0] ELSE Open

\* targets: the grip key pinches whatever the trigger does
Targets(c) ==
  IF c.grip THEN Closed("pinch") ELSE IF c.trigger < 2 THEN Rest(c.pose) ELSE Closed(c.pose)

\* receive
Receive(c) ==
  /\ controls' = [controls EXCEPT !.values = c, !.age = 0]
  /\ UNCHANGED <<prep, filtered, previous, active, ordered, measured>>

MutantCleared == previous
\* hold() forgets what the fingers were ordered
Cleared == None

\* hold; fresh: the measurement is
HoldHand(fresh) ==
  /\ ordered' = IF active /\ fresh THEN measured ELSE ordered
  /\ active' = FALSE /\ previous' = Cleared /\ filtered' = None /\ prep' = None

Prepares(c) == c.pose = "thumb_out_grip" /\ c.trigger > 0 /\ ~c.grip

StartedPrep ==
  LET from0 == IF active THEN previous.fingers ELSE measured.fingers
      going == IF filtered = None THEN from0 ELSE filtered.fingers
  IN  [age |-> 0, done |-> FALSE, held |-> measured.fingers, placed |-> FALSE,
       reach |-> Most(measured.fingers, Most(from0, going))]

MutantThumbReached(p) == p.age >= PrepTime
\* prepare_targets: reached, and for long enough
ThumbReached(p) == measured.thumb = Closed("thumb_out_grip").thumb /\ p.age >= PrepTime

Prepared(c) ==
  IF ~Prepares(c) THEN None
  ELSE LET p == IF prep = None THEN StartedPrep ELSE prep
       IN  [p EXCEPT !.done = @ \/ ThumbReached(p),
                     !.placed = @ \/ measured.thumb = Closed("thumb_out_grip").thumb]

\* the thumb at its place whatever the depth; the fingers wait for it
Desired(c, p) ==
  IF p = None THEN Targets(c)
  ELSE [thumb |-> Closed("thumb_out_grip").thumb,
        fingers |-> IF p.done THEN Targets(c).fingers ELSE p.held]

\* the low-pass filter gets anywhere on the way
Towards(from, to) ==
  {f \in Position : /\ f.thumb \in Least(from.thumb, to.thumb) .. Most(from.thumb, to.thumb)
                    /\ f.fingers \in Least(from.fingers, to.fingers) .. Most(from.fingers, to.fingers)}

\* slew_aux
Slewed(from, to) ==
  [j \in {"thumb", "fingers"} |-> from[j] + Most(-1, Least(1, to[j] - from[j]))]

\* prepare_targets raises, and the gate latches
Stuck(p) == p # None /\ ~p.done /\ p.age > PrepLimit

Waited(p) == IF p = None THEN None ELSE [p EXCEPT !.age = IF p.done THEN @ ELSE @ + 1]

\* tick; allowed: the gate forwards the arms
HandTick(allowed, fresh) ==
  LET c == controls.values
      ready == c # None /\ controls.age <= IntentLife
      p == Prepared(c)
  IN  /\ IF ~allowed \/ controls.latched \/ ~ready
           THEN HoldHand(fresh) /\ controls' = [controls EXCEPT !.age = Least(@ + 1, IntentLife + 1)]
         ELSE IF Stuck(p)
           THEN HoldHand(fresh) /\ controls' = [controls EXCEPT !.latched = TRUE]
         ELSE /\ filtered' \in Towards(IF filtered = None THEN measured ELSE filtered, Desired(c, p))
              /\ ordered' = Slewed(IF previous = None THEN measured ELSE previous, filtered')
              /\ previous' = ordered' /\ active' = TRUE
              /\ prep' = Waited(p)
              /\ controls' = [controls EXCEPT !.age = Least(@ + 1, IntentLife + 1)]
      /\ UNCHANGED measured

\* the hand follows, as far and as fast as it can; left alone it may be moved
HandFollows ==
  /\ measured' \in Towards(measured, ordered) \cup
       (IF active THEN {} ELSE {m \in Position : m = Slewed(measured, m)})
  /\ UNCHANGED <<controls, prep, filtered, previous, active, ordered>>

RobotHandNext(inputs) ==
  \/ \E c \in inputs : Receive(c)
  \/ \E allowed, fresh \in BOOLEAN : HandTick(allowed, fresh)
  \/ HandFollows
RobotHandSpec == RobotHandInit /\ [][RobotHandNext(ControlValues \cup {None})]_robotHandVars

-----------------------------------------------------------------------------
ControllerHandsTypeOK ==
  /\ taps.selected \in Grips /\ taps.previous \subseteq Buttons
  /\ {taps.candidate, taps.pending} \subseteq Buttons \cup {None}
  /\ taps.candidate # None => taps.previous = {taps.candidate} /\ taps.pending = None
  /\ trigger \in Levels /\ {armed, active} \subseteq BOOLEAN
  /\ {ordered, measured} \subseteq Position
  /\ active => previous = ordered

\* A grip is selected by a button that was pressed alone: none of the buttons
\* of a chord, in whatever order and frames they come and go, selects one.
TapsAreAlone ==
  [][taps'.selected # taps.selected => \E b \in Buttons : episode = {b} /\ taps'.selected = PoseOf[b]]_pcHandVars

\* A trigger that is not let go keeps the grip it was pulled with, whatever is
\* tapped and however the tracking comes and goes, as long as the arms stay
\* active; hands that hold something never change how they hold it.
HeldGripStays == (sent # None /\ grasp # None) => sent.pose = grasp

\* What the hand is ordered is one step from what it was ordered before, or from
\* where it is when the output begins (again).
HandNeverJumps ==
  [][active' => ordered' = Slewed(IF active THEN ordered ELSE measured, ordered')]_robotHandVars

\* In the thumb-out grip the fingers close no further than they were going to
\* until the thumb has been measured at its place.
ThumbGoesFirst ==
  [][(active' /\ prep' # None /\ ~prep'.placed) => ordered'.fingers <= prep'.reach]_robotHandVars
=============================================================================
