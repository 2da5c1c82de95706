---------------------------- MODULE LoopKeyboard ----------------------------
(***************************************************************************)
(* loop_operator.py: the process that watches the keyboard for the Loop     *)
(* window.  Every 30 ms it looks at the X server (which keys are down, which *)
(* window is active) and tells the headset publisher what the operator asks  *)
(* for: motion keys, V as toggle, C as stop.  C is passed on to Loop, which  *)
(* believes it down until it is sent the key up.                            *)
(*                                                                         *)
(* "w" stands for the keys that move the base and "u" for those that move    *)
(* head and lift; "shift" for any modifier.                                 *)
(***************************************************************************)
EXTENDS Naturals, Sequences, FiniteSets

CONSTANTS
  KeyItems,  \* keys the operator may press
  MaxHeld,   \* how many of them at a time
  MaxWire    \* messages under way

MotionItems == {"w", "u"}
ASSUME LoopKeyboardAssumption ==
  /\ KeyItems \subseteq MotionItems \cup {"c", "v", "shift"}
  /\ MaxHeld \in Nat /\ MaxWire \in Nat \ {0}

VARIABLES
  held,     \* keys down at the keyboard
  loopApp,  \* Loop: no window, several, one in the background, one active
  bridge,   \* the process: running, ended by itself or by a signal, killed, or
            \* cut: ended by a signal before it has recorded the C it sent
  seen,     \* window found, focused, armed, toggle_down of LoopKeyboard
  discard,  \* discard_down; "lost" when the window that was sent C is gone
  loopC,    \* Loop believes C down
  wire,     \* messages on /xr_hardware/operator_keys
  stale     \* history: keys down since before the last interruption

keyVars == <<held, loopApp, bridge, seen, discard, loopC, wire, stale>>

Message(focused, keys, stop, toggle) ==
  [focused |-> focused, keys |-> keys, stop |-> stop, toggle |-> toggle]
StopMessage == Message(FALSE, {}, TRUE, FALSE)

LoopInit ==
  /\ held = {} /\ loopApp \in {"background", "active"} /\ bridge = "running"
  /\ seen = [window |-> FALSE, focused |-> FALSE, armed |-> FALSE, toggle |-> FALSE]
  /\ discard = "up" /\ loopC = FALSE
  /\ wire = <<>> /\ stale = {}

-----------------------------------------------------------------------------
(* The operator and the X server.                                          *)

PressKey(k) ==
  /\ k \notin held /\ Cardinality(held) < MaxHeld
  /\ held' = held \cup {k}
  /\ UNCHANGED <<loopApp, bridge, seen, discard, loopC, wire, stale>>
ReleaseKey(k) ==
  /\ held' = held \ {k} /\ stale' = stale \ {k}
  /\ UNCHANGED <<loopApp, bridge, seen, discard, loopC, wire>>

\* a window that closes forgets its keys
LoopChanges(to) ==
  /\ loopApp # to
  /\ loopApp' = to
  /\ IF to = "closed"
       THEN /\ loopC' = FALSE
            /\ discard' = IF discard = "down" THEN "lost" ELSE discard
       ELSE UNCHANGED <<loopC, discard>>
  /\ UNCHANGED <<held, bridge, seen, wire, stale>>

-----------------------------------------------------------------------------
(* poll and main.                                                          *)

Found == loopApp \in {"background", "active"}
Focused == loopApp = "active"
MutantKeys == held \ {"shift"}
Keys == IF Focused THEN held \ {"shift"} ELSE {}
Shifted == "shift" \in held

Toggles == "v" \in Keys /\ ~seen.toggle /\ seen.focused /\ ~Shifted
Discards == ~Shifted /\ "c" \in Keys
Halts == Discards /\ discard = "up"

\* C goes up in a window that is gone, or another operator holds the grabs
PollRaises(grabbed) == (discard = "lost" /\ ~Discards) \/ (Found /\ ~seen.window /\ ~grabbed)

Interrupted == ~Focused \/ ~seen.focused \/ Halts \/ Toggles \/ Shifted
MutantMotionCounts == (seen.armed /\ ~(~Focused \/ ~seen.focused \/ Halts \/ Shifted)) \/ (Focused /\ Keys = {})

\* motion keys count once all keys have been seen up since the interruption
MotionCounts == (seen.armed /\ ~Interrupted) \/ (Focused /\ Keys = {})

\* one turn of main's loop: poll and send
Poll ==
  /\ bridge = "running" /\ Len(wire) < MaxWire
  /\ \E grabbed \in BOOLEAN : ~PollRaises(grabbed)
  /\ seen' = [window |-> Found, focused |-> Focused, armed |-> MotionCounts, toggle |-> "v" \in Keys]
  /\ discard' = IF Discards = (discard # "up") THEN discard ELSE IF Discards THEN "down" ELSE "up"
  /\ loopC' = IF Discards = (discard # "up") THEN loopC ELSE Discards
  /\ wire' = Append(wire, Message(Focused, IF MotionCounts THEN Keys \cap MotionItems ELSE {}, Halts, Toggles))
  /\ stale' = IF Interrupted THEN held \cap MotionItems ELSE stale
  /\ UNCHANGED <<held, loopApp, bridge>>

MutantReleasedC == loopC
ReleasedC == FALSE

\* main's finally clause: a last stop, which may not leave the process any
\* more, and close(), which sends the key up that is owed
LastStop == wire' \in {wire} \cup (IF Len(wire) < MaxWire THEN {Append(wire, StopMessage)} ELSE {})
Finally ==
  /\ bridge' = "ended" /\ LastStop
  /\ loopC' = IF discard = "down" THEN ReleasedC ELSE loopC
  /\ UNCHANGED <<held, loopApp, seen, discard, stale>>

PollFails == bridge = "running" /\ (\E grabbed \in BOOLEAN : PollRaises(grabbed)) /\ Finally
Terminate == bridge = "running" /\ Finally

\* a signal between the C that poll sends and discard_down: close() owes nothing
TerminateInPoll ==
  /\ bridge = "running" /\ Halts
  /\ bridge' = "cut" /\ loopC' = TRUE /\ LastStop
  /\ UNCHANGED <<held, loopApp, seen, discard, stale>>
Kill ==
  /\ bridge = "running" /\ bridge' = "killed"
  /\ UNCHANGED <<held, loopApp, seen, discard, loopC, wire, stale>>

LoopStep ==
  \/ \E k \in KeyItems : PressKey(k) \/ ReleaseKey(k)
  \/ \E to \in {"closed", "many", "background", "active"} : LoopChanges(to)
  \/ Poll \/ PollFails \/ Terminate \/ TerminateInPoll \/ Kill

-----------------------------------------------------------------------------
KeyTypeOK ==
  /\ held \subseteq KeyItems /\ stale \subseteq held
  /\ discard \in {"up", "down", "lost"} /\ loopC \in BOOLEAN
  /\ \A i \in 1 .. Len(wire) :
       /\ wire[i] \in [focused : BOOLEAN, keys : SUBSET MotionItems, stop : BOOLEAN, toggle : BOOLEAN]
       /\ (wire[i].toggle \/ wire[i].keys # {}) => wire[i].focused
  /\ Len(wire) <= MaxWire

\* A key that is still down from before Loop got the focus, from before V, C
\* or a modifier moves nothing: motion starts with a press.
PressStartsMotion ==
  [][Len(wire') > Len(wire) => wire'[Len(wire')].keys \cap stale' = {}]_keyVars

\* Loop is never left with C down by a process that knows of it and can send: it
\* holds a recording as discarded for as long as it believes C down.  Not so for
\* a process that is killed, or that a signal meets before the C is recorded.
LoopCReleased ==
  loopC => (bridge \in {"killed", "cut"} \/ (bridge = "running" /\ discard = "down"))
=============================================================================
