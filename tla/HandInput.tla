----------------------------- MODULE HandInput -----------------------------
(***************************************************************************)
(* SH5HandsHardwarePublisher with optical hands: what starts and stops the   *)
(* arms (the messages of LoopKeyboard, the service /sh5_teleop/enable, the   *)
(* pinch-and-squeeze gesture) and what the keys move meanwhile.  Every       *)
(* handler runs under _xr_lock, so each of them is one action.  The arming   *)
(* itself is PcArming's; here it is off, starting or active.                 *)
(***************************************************************************)
EXTENDS LoopKeyboard, PyNone, Integers

CONSTANTS
  KeyTtl,     \* life of a key message (.3 s)
  RestTime,      \* rest of the base before a reanchoring (.1 s)
  GateTtl,    \* life of a gate status (.5 s)
  HoldTime,   \* the gesture (3 s)
  TrackTtl,   \* arm_tracking_timeout_sec
  GapTtl      \* TRACKING_GRACE_SECONDS

ASSUME HandInputAssumption ==
  /\ {KeyTtl, RestTime, GateTtl, HoldTime, TrackTtl, GapTtl} \subseteq Nat \ {0}
  /\ TrackTtl <= GapTtl /\ RestTime <= KeyTtl
  /\ None \notin Nat

VARIABLES
  arms,       \* off, starting (armed, not yet ACTIVE) or active
  startOk,    \* arm_start_armed
  latch,      \* _controller_fault_latched
  resetting,  \* a fault reset is under way and will arm
  opKeys,     \* _operator_keys
  opAge,      \* age of _operator_rx
  dirty,      \* _base_profile_dirty
  baseAge,    \* age of _base_last_input
  manual,     \* keys in the last intent's manual_aux
  gateSaw,    \* the last gate status: manual_active, enabled and its age
  gest,       \* _gesture_since (as an age), _gesture_ready, _gesture_latched
  frameAge,   \* age of _last_hand_event
  handAge,    \* age of last_controller_pose_sec
  bodyAge,    \* age of last_body_pose_sec
  past,       \* _hand_previous: none, of this session, of an earlier one or of both
  together,   \* history: armed arms and base keys in the intent for so long
  combo,      \* history: the combination has been seen without a break for so long
  spent       \* history: that combination has already switched the arms

authority == <<arms, startOk, latch, resetting>>
opVars == <<opKeys, opAge, dirty, baseAge>>
gestVars == <<gest, frameAge, past, combo, spent>>
hiVars == <<authority, opVars, manual, gateSaw, gestVars, handAge, bodyAge, together>>

NoGesture == [since |-> None, ready |-> FALSE, latched |-> FALSE]
BaseItems == {"w"}

HandInit ==
  /\ arms = "off" /\ startOk = FALSE /\ latch = FALSE /\ resetting = FALSE
  /\ opKeys = {} /\ opAge = KeyTtl + 1 /\ dirty = FALSE /\ baseAge = RestTime
  /\ manual = {} /\ gateSaw = [manual |-> FALSE, enabled |-> FALSE, age |-> GateTtl + 1]
  /\ gest = NoGesture /\ frameAge = None /\ handAge = GapTtl + 1 /\ bodyAge = GapTtl + 1
  /\ past = "none" /\ together = 0 /\ combo = None /\ spent = FALSE

-----------------------------------------------------------------------------
(* Tracking and the arming.                                                *)

\* _arm_tracking_is_fresh: the grace is for an active session only
TrackingFresh(hand, body) ==
  LET limit == IF arms = "active" THEN GapTtl ELSE TrackTtl
  IN  hand <= limit /\ body <= limit

\* _set_arm_control_enabled(False, ...)
Off ==
  /\ arms' = "off" /\ startOk' = FALSE /\ resetting' = FALSE
  /\ UNCHANGED latch

MutantOn ==
  \/ arms # "off" /\ UNCHANGED <<arms, resetting, latch>>
  \/ arms = "off" /\ arms' \in {"starting", "off"} /\ UNCHANGED <<resetting, latch>>

\* _set_arm_control_enabled(True, ...): a latched fault is asked to be reset,
\* and the capture may refuse
On ==
  \/ arms # "off" /\ UNCHANGED <<arms, resetting, latch>>
  \/ arms = "off" /\ latch /\ resetting' \in {TRUE, resetting} /\ UNCHANGED <<arms, latch>>
  \/ arms = "off" /\ ~latch /\ arms' \in {"starting", "off"} /\ UNCHANGED <<resetting, latch>>

\* each arming is counted by itself
Separately == together' = IF arms = "off" THEN 0 ELSE together

Aged(to) == IF to = "off" /\ past = "this" THEN "earlier" ELSE past

MutantResetHandInput ==
  /\ gest' = NoGesture /\ frameAge' = None /\ combo' = None
  /\ UNCHANGED <<past, spent>>

\* _reset_hand_input
ResetHandInput ==
  /\ gest' = NoGesture /\ frameAge' = None /\ past' = "none" /\ combo' = None
  /\ UNCHANGED spent

\* a dirty base profile is reanchored only from a base at rest
MayReanchor(last) ==
  /\ last >= RestTime /\ gateSaw.age <= GateTtl
  /\ ~gateSaw.enabled /\ ~gateSaw.manual

\* _enable_service; the refusals leave everything as it is.  joints: the joint
\* states are fresh
EnableService(data, last, joints) ==
  IF data /\ ((dirty /\ ~MayReanchor(last)) \/ ~joints \/ ~TrackingFresh(handAge, bodyAge))
    THEN UNCHANGED <<authority, gestVars, dirty>>
    ELSE /\ IF data THEN On /\ startOk' = (startOk /\ (arms' # "off" \/ latch)) ELSE Off
         /\ ResetHandInput
         /\ dirty' = (dirty /\ ~(data /\ arms' # "off"))

-----------------------------------------------------------------------------
(* The keyboard of Loop.                                                   *)

Moves(m) == IF m.focused THEN m.keys ELSE {}

MutantBaseHolds(m) == FALSE
BaseHolds(m) == Moves(m) \cap BaseItems # {}

\* _operator_input
OperatorInput(m) ==
  LET base == Moves(m) \cap BaseItems # {}
      last == IF base THEN 0 ELSE baseAge
  IN  /\ opAge' = 0 /\ baseAge' = last
      /\ CASE m.stop ->
                /\ opKeys' = {} /\ dirty' = (dirty \/ base)
                /\ Off /\ ResetHandInput
           [] ~m.stop /\ m.toggle /\ m.focused ->
                /\ opKeys' = {}
                /\ \E joints \in BOOLEAN : EnableService(arms = "off", last, joints)
           [] OTHER ->
                /\ opKeys' = Moves(m) /\ dirty' = (dirty \/ base)
                /\ IF BaseHolds(m) /\ arms # "off"
                     THEN Off /\ past' = Aged("off")
                     ELSE UNCHANGED <<authority, past>>
                /\ UNCHANGED <<gest, frameAge, combo, spent>>
      /\ Separately
      /\ UNCHANGED <<manual, gateSaw, handAge, bodyAge>>

\* _operator_input: except clause
MalformedInput ==
  /\ opKeys' = {} /\ opAge' = KeyTtl + 1
  /\ UNCHANGED <<authority, dirty, baseAge, manual, gateSaw, gestVars, handAge, bodyAge, together>>

Service(data) ==
  /\ \E joints \in BOOLEAN : EnableService(data, baseAge, joints)
  /\ Separately
  /\ UNCHANGED <<opKeys, opAge, baseAge, manual, gateSaw, handAge, bodyAge>>

MutantCarries(age) == opKeys
\* _extra_intent: the keys that reach the intent
Carries(age) == IF age <= KeyTtl /\ ~latch THEN opKeys ELSE {}

\* _heartbeat; joints that are not fresh or a limit that is missing empty it
Heartbeat ==
  /\ manual' \in {Carries(opAge), {}}
  /\ UNCHANGED <<authority, opVars, gateSaw, gestVars, handAge, bodyAge, together>>

-----------------------------------------------------------------------------
(* Optical hands.                                                          *)

Older(age, cap) == IF age < cap THEN age + 1 ELSE cap

\* _gesture_buttons of a frame with or without the combination
Gesture(g, combined) ==
  IF ~combined THEN [since |-> None, ready |-> TRUE, latched |-> FALSE]
  ELSE IF ~g.ready \/ g.latched THEN g
  ELSE IF g.since = None THEN [g EXCEPT !.since = 0]
  ELSE IF g.since >= HoldTime THEN [g EXCEPT !.latched = TRUE] ELSE g

MutantInvalidFrame == gest
\* an invalid frame refreshes nothing and breaks the gesture
BrokenGesture == NoGesture
InvalidFrame ==
  /\ gest' = BrokenGesture /\ past' = "none" /\ combo' = None
  /\ UNCHANGED <<frameAge, spent, authority, opVars, manual, gateSaw, handAge, bodyAge, together>>

\* on_hand_move with both hands: gesture, activation, fingers
HandFrame(combined, jumped, joints) ==
  LET gap == frameAge # None /\ frameAge > TrackTtl
      g0 == IF gap THEN NoGesture ELSE gest
      bodyFresh == bodyAge <= TrackTtl
      g1 == Gesture(g0, combined)
      pulse == bodyFresh /\ g1.latched /\ ~g0.latched
      start == pulse /\ arms = "off" /\ ~dirty
      stop == pulse /\ arms # "off"
      fresh == ~jumped /\ joints /\ TrackingFresh(0, bodyAge)
      before == IF gap \/ ~bodyFresh THEN "none" ELSE past
  IN  /\ jumped => arms # "off"
      /\ gest' = IF bodyFresh THEN g1 ELSE NoGesture
      /\ frameAge' = IF bodyFresh THEN 0 ELSE None
      /\ handAge' = IF jumped THEN GapTtl + 1 ELSE 0
      /\ IF stop \/ (arms # "off" /\ ~fresh)
           THEN Off
           ELSE IF start /\ fresh /\ startOk
                  THEN On /\ startOk' = FALSE
                  ELSE /\ startOk' = (fresh /\ (startOk \/ ~start))
                       /\ UNCHANGED <<arms, resetting, latch>>
      /\ past' = IF arms' # "active" \/ ~joints \/ ~bodyFresh THEN "none"
                 ELSE IF before \in {"earlier", "mixed"} THEN "mixed" ELSE "this"
      /\ combo' = IF ~combined \/ ~bodyFresh THEN None
                  ELSE IF combo = None \/ gap THEN 0 ELSE combo
      /\ spent' = (pulse \/ (spent /\ combined))
      /\ UNCHANGED <<opVars, manual, gateSaw, bodyAge, together>>

\* on_hand_move: the fingers of an active session cannot be retargeted
HandFrameRaises ==
  /\ arms = "active" /\ TrackingFresh(0, bodyAge)
  /\ Off /\ ResetHandInput /\ handAge' = GapTtl + 1
  /\ UNCHANGED <<opVars, manual, gateSaw, bodyAge, together>>

BodyFrame ==
  /\ bodyAge' = 0
  /\ UNCHANGED <<authority, opVars, manual, gateSaw, gestVars, handAge, together>>

-----------------------------------------------------------------------------
(* The rest of the session and time.                                       *)

Started ==
  /\ arms = "starting" /\ arms' = "active"
  /\ UNCHANGED <<startOk, latch, resetting, opVars, manual, gateSaw, gestVars, handAge, bodyAge, together>>

\* a fault latches; a refused tracking or graph check only stops
Stopped(fault) ==
  /\ arms' = "off" /\ startOk' = FALSE /\ resetting' = FALSE /\ latch' = (latch \/ fault)
  /\ past' = Aged("off")
  /\ UNCHANGED <<opVars, manual, gateSaw, gest, frameAge, combo, spent, handAge, bodyAge, together>>

\* _gate_status: the reset is confirmed and arms
ResetConfirmed ==
  /\ resetting /\ latch' = FALSE /\ resetting' = FALSE
  /\ arms' \in {"starting", "off"}
  /\ Separately
  /\ UNCHANGED <<startOk, opVars, manual, gateSaw, gestVars, handAge, bodyAge>>

GateReports ==
  /\ gateSaw' \in [manual : {manual # {}}, enabled : {arms = "active", FALSE}, age : {0}]
  /\ UNCHANGED <<authority, opVars, manual, gestVars, handAge, bodyAge, together>>

\* 10 ms heartbeats come at least as often as the clock ticks
HiTick ==
  /\ opAge' = Older(opAge, KeyTtl + 1) /\ baseAge' = Older(baseAge, RestTime)
  /\ handAge' = Older(handAge, GapTtl + 1) /\ bodyAge' = Older(bodyAge, GapTtl + 1)
  /\ gateSaw' = [gateSaw EXCEPT !.age = Older(@, GateTtl + 1)]
  /\ frameAge' = IF frameAge = None THEN None ELSE Older(frameAge, TrackTtl + 1)
  /\ gest' = IF gest.since = None THEN gest ELSE [gest EXCEPT !.since = Older(@, HoldTime)]
  /\ combo' = IF combo = None THEN None ELSE Older(combo, HoldTime)
  /\ manual' = Carries(opAge')
  /\ together' = IF arms # "off" /\ manual' \cap BaseItems # {} THEN Older(together, KeyTtl + 1) ELSE 0
  /\ UNCHANGED <<authority, opKeys, dirty, past, spent>>

Deliver ==
  /\ wire # <<>> /\ OperatorInput(Head(wire)) /\ wire' = Tail(wire)
  /\ UNCHANGED <<held, loopApp, bridge, seen, discard, loopC, stale>>

\* frames without a gesture
Tracked ==
  /\ handAge' = 0 /\ bodyAge' = 0
  /\ UNCHANGED <<authority, opVars, manual, gateSaw, gestVars, together>>

HiStep ==
  \/ \E data \in BOOLEAN : Service(data)
  \/ MalformedInput \/ Heartbeat \/ InvalidFrame \/ HandFrameRaises \/ BodyFrame
  \/ \E combined, jumped, joints \in BOOLEAN : HandFrame(combined, jumped, joints)
  \/ Started \/ ResetConfirmed \/ GateReports \/ HiTick
  \/ \E fault \in BOOLEAN : Stopped(fault)

HandNext ==
  \/ LoopStep /\ UNCHANGED hiVars
  \/ Deliver
  \/ HiStep /\ UNCHANGED keyVars

HandFairness ==
  /\ WF_<<keyVars, hiVars>>(HiTick /\ UNCHANGED keyVars)
  /\ WF_<<keyVars, hiVars>>(Deliver)
  /\ WF_<<keyVars, hiVars>>((Poll \/ PollFails) /\ UNCHANGED hiVars)

HandSpec == LoopInit /\ HandInit /\ [][HandNext]_<<keyVars, hiVars>> /\ HandFairness

-----------------------------------------------------------------------------
HandTypeOK ==
  /\ arms \in {"off", "starting", "active"}
  /\ {startOk, latch, resetting, dirty, spent} \subseteq BOOLEAN
  /\ opKeys \subseteq MotionItems /\ manual \subseteq MotionItems
  /\ past \in {"none", "this", "earlier", "mixed"}
  /\ latch => arms = "off"

\* Base keys and armed arms exclude each other, although both are asked for by
\* messages that cross: what is left of an overlap ends with the next message
\* or with the life of the last one.
BaseWithArmsIsBrief == together <= KeyTtl

Watched == loopApp = "active" /\ bridge = "running"
\* Without Loop in front, or without the process that watches it, nothing is
\* moved by keys.
UnattendedStops == ~Watched ~> (manual = {} \/ Watched)

\* The gesture switches the arms only when the combination was seen in every
\* frame for the whole time, and once for each time it is made.
GestureIsDeliberate ==
  [][(gest'.latched /\ ~gest.latched) =>
        combo # None /\ combo >= HoldTime /\ ~spent]_hiVars

\* The finger filter never continues from a pose of an earlier session.
FingersStartAfresh == past # "mixed"
=============================================================================
