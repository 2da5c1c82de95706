---------------------------- MODULE OperatorKeys ----------------------------
(***************************************************************************)
(* The keyboard half of the operator console: run() of operator_console.py  *)
(* with its KeyboardDevices, and the key delivery of loop_keys.py.  Events  *)
(* come from evdev whatever window is active; the console acts on them only *)
(* while its terminal has the focus, and passes A, B and C on to the window *)
(* of Loop, which believes a key down until it is sent the key up.          *)
(*                                                                         *)
(* An item is a key of a device: "pedal" is the A of a Loop foot switch.    *)
(* One action is one turn of the loop, which handles at most one event.     *)
(***************************************************************************)
EXTENDS PyNone, Naturals

CONSTANTS
  Items,       \* keys the operator may press
  MaxWindows   \* Loop windows opened one after the other

AllItems == {"u", "w", "a", "pedal", "shift", "ctrl", "space"}
ASSUME KeysAssumption == Items \subseteq AllItems /\ MaxWindows \in Nat

VARIABLES
  physical,  \* items down at the devices
  active,    \* the terminal is the active window
  focused,   \* what the loop saw of that in its last turn
  loopWin,   \* the one Loop window, None when there is none
  loopDown,  \* keys Loop believes down, as <<window, key>>
  pressed,   \* pressed: items the console knows to be down
  routes,    \* routes: item -> [to, win]
  allowed,   \* manual_allowed() of the node
  pausing,   \* pause_context: paused, resuming or a pause pending
  moves,     \* the motion items the last tick acted on
  lapsed,    \* history: those it did not act on although their routes stayed
  toggles,   \* U was handed to the node in the last turn
  running    \* run() has not returned

kvars == <<physical, active, focused, loopWin, loopDown, pressed, routes, allowed, pausing,
           moves, lapsed, toggles, running>>
world == <<physical, active, loopWin, allowed, pausing>>

KInit ==
  /\ physical = {} /\ active = TRUE /\ focused = TRUE
  /\ loopWin = None /\ loopDown = {}
  /\ pressed = {} /\ routes = <<>>
  /\ allowed = FALSE /\ pausing = FALSE
  /\ moves = {} /\ lapsed = {} /\ toggles = FALSE /\ running = TRUE

-----------------------------------------------------------------------------
(* The surroundings.                                                       *)

FocusMoves ==
  /\ active' = ~active
  /\ UNCHANGED <<physical, focused, loopWin, loopDown, pressed, routes, allowed, pausing, moves,
                 lapsed, toggles, running>>

\* Loop opens, or closes and forgets its keys; a window id is not used again
LoopOpens(w) ==
  /\ loopWin = None /\ \A d \in loopDown : d[1] # w
  /\ \A i \in DOMAIN routes : routes[i].win # w
  /\ loopWin' = w
  /\ UNCHANGED <<physical, active, focused, loopDown, pressed, routes, allowed, pausing, moves,
                 lapsed, toggles, running>>
LoopCloses ==
  /\ loopWin # None
  /\ loopWin' = None /\ loopDown' = {}
  /\ UNCHANGED <<physical, active, focused, pressed, routes, allowed, pausing, moves, lapsed,
                 toggles, running>>

NodeChanges ==
  /\ allowed' \in BOOLEAN /\ pausing' \in BOOLEAN
  /\ allowed' => pausing'
  /\ UNCHANGED <<physical, active, focused, loopWin, loopDown, pressed, routes, moves, lapsed,
                 toggles, running>>

-----------------------------------------------------------------------------
(* Delivery and routing.                                                   *)

Key(item) == IF item = "pedal" THEN "a" ELSE item

\* x11.send(target, key, FALSE) for these routes: a vanished window raises
KeyUps(down, gone) == down \ {<<routes[i].win, Key(i)>> : i \in gone}
LoopRoutes == {i \in DOMAIN routes : routes[i].to = "loop"}

\* key_route
KeyRoute(item, down) ==
  CASE item = "u" -> "toggle"
    [] Key(item) = "a" /\ (item = "pedal" \/ ~pausing \/ "shift" \in down) -> "loop"
    [] pausing /\ item \in {"w", "a"} -> "motion"
    [] OTHER -> "ignore"

Modified(down) == "ctrl" \in down
Mapped(item) == item \in {"u", "w", "a", "pedal"}

Only(keep) == [i \in DOMAIN routes \cap keep |-> routes[i]]
MutantWith(r, item, to, win) ==
  [i \in DOMAIN r \cup {item} |-> IF i = item THEN [to |-> to, win |-> None] ELSE r[i]]
With(r, item, to, win) ==
  [i \in DOMAIN r \cup {item} |-> IF i = item THEN [to |-> to, win |-> win] ELSE r[i]]

Motions(r) == {i \in DOMAIN r : r[i].to = "motion"}

MutantFinish(r) ==
  routes' = r /\ moves' = (IF allowed THEN Motions(r) ELSE {}) /\ lapsed' = {}

\* the end of a turn: node.keys from the routes, motion routes dropped when
\* manual motion is not allowed, then the tick, which asks again: the status
\* may have expired in between
Finish(r) ==
  /\ routes' = IF allowed THEN r ELSE [i \in DOMAIN r \ Motions(r) |-> r[i]]
  /\ \/ allowed /\ moves' = Motions(r) /\ lapsed' = {}
     \/ moves' = {} /\ lapsed' = IF allowed THEN Motions(r) ELSE {}

MutantReleased == loopDown

\* release_all: key ups, nothing pressed, no routes, motion stopped
Released == KeyUps(loopDown, LoopRoutes)

\* a turn whose focus check found the terminal as before
Awake == running /\ ~(focused /\ ~active)

-----------------------------------------------------------------------------
(* The turns of run().                                                     *)

MutantLoseFocus ==
  /\ running /\ focused /\ ~active
  /\ focused' = FALSE
  /\ loopDown' = Released /\ pressed' = {}
  /\ Finish(routes)
  /\ toggles' = FALSE
  /\ UNCHANGED <<world, running>>

\* the focus went away: release everything; events of this turn are ignored
LoseFocus ==
  /\ running /\ focused /\ ~active
  /\ focused' = FALSE
  /\ loopDown' = Released /\ pressed' = {}
  /\ Finish(<<>>)
  /\ toggles' = FALSE
  /\ UNCHANGED <<world, running>>

\* a turn without an event
Idle ==
  /\ Awake
  /\ focused' = active
  /\ Finish(routes)
  /\ toggles' = FALSE
  /\ UNCHANGED <<world, loopDown, pressed, running>>

\* a key event while another window has the focus
IgnoreKey(item) ==
  /\ Awake /\ ~active
  /\ physical' = IF item \in physical THEN physical \ {item} ELSE physical \cup {item}
  /\ focused' = FALSE
  /\ Finish(routes)
  /\ toggles' = FALSE
  /\ UNCHANGED <<active, loopWin, allowed, pausing, loopDown, pressed, running>>

KeyUp(item) ==
  /\ Awake /\ active
  /\ item \in physical
  /\ physical' = physical \ {item}
  /\ focused' = TRUE
  /\ pressed' = pressed \ {item}
  /\ loopDown' = KeyUps(loopDown, {item} \cap LoopRoutes)
  /\ Finish(Only(Items \ {item}))
  /\ toggles' = FALSE
  /\ UNCHANGED <<active, loopWin, allowed, pausing, running>>

\* a key down, possibly repeated by the driver while the key stays down
KeyDown(item) ==
  /\ Awake /\ active
  /\ physical' = physical \cup {item}
  /\ focused' = TRUE
  /\ UNCHANGED <<active, loopWin, allowed, pausing, running>>
  /\ LET down == pressed \cup {item}
         route == KeyRoute(item, down)
         sent == route = "loop" /\ loopWin # None
     IN CASE item \in pressed ->
               /\ Finish(routes) /\ toggles' = FALSE
               /\ UNCHANGED <<loopDown, pressed>>
          [] item \notin pressed /\ item = "space" ->
               /\ loopDown' = Released /\ pressed' = {}
               /\ Finish(<<>>) /\ toggles' = FALSE
          [] item \notin pressed /\ item # "space" /\ (Modified(down) \/ ~Mapped(item)) ->
               /\ pressed' = down /\ Finish(routes) /\ toggles' = FALSE
               /\ UNCHANGED loopDown
          [] item = "u" /\ item \notin pressed /\ ~Modified(down) ->
               /\ loopDown' = Released /\ pressed' = {item}
               /\ Finish(With(<<>>, item, "toggle", None)) /\ toggles' = TRUE
          [] OTHER ->
               /\ pressed' = down /\ toggles' = FALSE
               /\ loopDown' = IF sent THEN loopDown \cup {<<loopWin, Key(item)>>} ELSE loopDown
               /\ Finish(With(routes, item,
                              IF route = "loop" /\ ~sent THEN "ignore" ELSE route,
                              IF sent THEN loopWin ELSE None))

\* a device is gone or dropped events: require new physical presses
InputLost ==
  /\ Awake
  /\ focused' = active
  /\ loopDown' = Released /\ pressed' = {}
  /\ Finish(<<>>)
  /\ toggles' = FALSE
  /\ UNCHANGED <<world, running>>

\* Esc: run() returns through release_all
Escape ==
  /\ Awake /\ active
  /\ running' = FALSE
  /\ focused' = TRUE
  /\ loopDown' = Released /\ pressed' = {}
  /\ routes' = <<>> /\ moves' = {} /\ lapsed' = {} /\ toggles' = FALSE
  /\ UNCHANGED world

KNext ==
  \/ FocusMoves \/ LoopCloses \/ NodeChanges
  \/ \E w \in 1 .. MaxWindows : LoopOpens(w)
  \/ LoseFocus \/ Idle \/ InputLost \/ Escape
  \/ \E item \in Items : IgnoreKey(item) \/ KeyUp(item) \/ KeyDown(item)

KSpec == KInit /\ [][KNext]_kvars

-----------------------------------------------------------------------------
Routes == [to : {"toggle", "loop", "motion", "ignore"}, win : (1 .. MaxWindows) \cup {None}]

KTypeOK ==
  /\ physical \subseteq Items /\ pressed \subseteq Items
  /\ DOMAIN routes \subseteq Items /\ \A i \in DOMAIN routes : routes[i] \in Routes
  /\ \A i \in DOMAIN routes : routes[i].to = "loop" <=> routes[i].win # None
  /\ loopWin \in (1 .. MaxWindows) \cup {None}
  /\ moves \subseteq Items /\ lapsed \subseteq Items

\* Loop never keeps a key that the console no longer follows: every key Loop
\* believes down has a live route, in the window it was sent to, so focus
\* changes, lost devices, U, Space and the exit leave no key stuck.
NoStuckLoopKey ==
  \A d \in loopDown : \E i \in LoopRoutes : <<routes[i].win, Key(i)>> = d

\* A key moves the robot only after a press that found manual motion allowed:
\* once a hold was interrupted, the key has to be pressed again.  One path is
\* left out: a status that expires between the two questions of a turn stops the
\* motion and keeps the route, and motion goes on with the next status.
FreshPressMoves ==
  [][\A i \in moves' : i \in moves \cup lapsed \/ i \notin pressed]_kvars

\* Without the focus the console neither moves the robot nor keeps Loop keys.
UnfocusedIsSilent ==
  (running /\ ~focused) => (moves = {} /\ loopDown = {})
=============================================================================
