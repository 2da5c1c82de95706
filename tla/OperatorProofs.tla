--------------------------- MODULE OperatorProofs ---------------------------
(***************************************************************************)
(* The operator console stops: its node over lossy topics (Operator), and    *)
(* its keyboard (OperatorKeys), which share no variable.                     *)
(***************************************************************************)
EXTENDS MCOperator, OperatorPauseProofs, SequenceTheorems, TLAPS

-----------------------------------------------------------------------------
(* OperatorKeys.                                                            *)

\* Every key followed in a route is one the console knows to be down, what moves
\* the robot is what the routes say but for a lapse, and without focus there are none.
KInv ==
  /\ DOMAIN routes \subseteq pressed \cap Items
  /\ NoStuckLoopKey
  /\ moves \cup lapsed = Motions(routes)
  /\ (running /\ ~focused) => DOMAIN routes = {}

LEMMA NoRoutes == DOMAIN <<>> = {}
  BY EmptySeq

LEMMA KStart == KInit => KInv
  BY NoRoutes DEF KInit, KInv, NoStuckLoopKey, Motions

\* release_all reaches all that Loop believes down.
LEMMA AllReleased == NoStuckLoopKey => Released = {}
  BY DEF NoStuckLoopKey, Released, KeyUps

\* The end of a turn: routes of Loop stay, those of motion only while allowed.
LEMMA FinishFacts ==
  ASSUME NEW r, Finish(r)
  PROVE  /\ DOMAIN routes' \subseteq DOMAIN r
         /\ moves' \cup lapsed' = Motions(routes')
         /\ \A i \in DOMAIN r : r[i].to = "loop" => i \in DOMAIN routes' /\ routes'[i] = r[i]
         /\ moves' \cup lapsed' \subseteq Motions(r)
  <1>1. CASE allowed
    BY <1>1 DEF Finish, Motions
  <1>2. CASE ~allowed
    BY <1>2 DEF Finish, Motions
  <1> QED  BY <1>1, <1>2

\* A key Loop believes down keeps its route when the routes of Loop stay.
LEMMA KeepsDown ==
  ASSUME NEW r, Finish(r), NEW down,
         \A d \in down : \E i \in DOMAIN r : r[i].to = "loop" /\ <<r[i].win, Key(i)>> = d,
         loopDown' = down
  PROVE  NoStuckLoopKey'
  BY FinishFacts DEF NoStuckLoopKey, LoopRoutes

Follows == \A i \in moves' : i \in moves \cup lapsed \/ i \notin pressed

\* A turn that releases everything.
LEMMA ReleasingTurn ==
  ASSUME KInv, Finish(<<>>), loopDown' = Released, pressed' = {}
  PROVE  KInv' /\ Follows
  <1>1. DOMAIN routes' = {} /\ moves' = {} /\ lapsed' = {}
    BY NoRoutes, FinishFacts DEF Motions
  <1>2. loopDown' = {}
    BY AllReleased DEF KInv
  <1>3. moves' \cup lapsed' = Motions(routes')
    BY FinishFacts
  <1> QED  BY <1>1, <1>2, <1>3 DEF KInv, NoStuckLoopKey, Follows

\* A turn that leaves the routes.
LEMMA PlainTurn ==
  ASSUME KInv, Finish(routes), loopDown' = loopDown,
         pressed \subseteq pressed', (running' /\ ~focused') => (running /\ ~focused)
  PROVE  KInv' /\ Follows
  <1>1. DOMAIN routes' \subseteq DOMAIN routes /\ moves' \cup lapsed' = Motions(routes')
        /\ moves' \cup lapsed' \subseteq Motions(routes)
    BY FinishFacts
  <1>2. NoStuckLoopKey'
    BY KeepsDown DEF KInv, NoStuckLoopKey, LoopRoutes
  <1> QED  BY <1>1, <1>2 DEF KInv, Follows

LEMMA KeyUpTurn ==
  ASSUME KInv, NEW item \in Items, KeyUp(item)
  PROVE  KInv' /\ Follows
  <1> DEFINE r == Only(Items \ {item})
  <1>1. /\ DOMAIN r = DOMAIN routes \ {item}
        /\ \A i \in DOMAIN r : r[i] = routes[i]
    BY DEF Only, KInv
  <1>2. Finish(r) /\ pressed' = pressed \ {item} /\ focused' = TRUE
        /\ loopDown' = KeyUps(loopDown, {item} \cap LoopRoutes)
    BY DEF KeyUp
  <1> HIDE DEF r
  <1>3. DOMAIN routes' \subseteq DOMAIN r /\ moves' \cup lapsed' = Motions(routes') /\ moves' \cup lapsed' \subseteq Motions(r)
    BY <1>2, FinishFacts
  <1>4. \A d \in loopDown' : \E i \in DOMAIN r : r[i].to = "loop" /\ <<r[i].win, Key(i)>> = d
    <2> TAKE d \in loopDown'
    <2>1. PICK i \in LoopRoutes : <<routes[i].win, Key(i)>> = d
      BY <1>2 DEF KeyUps, KInv, NoStuckLoopKey
    <2>2. i # item
      BY <1>2, <2>1 DEF KeyUps
    <2> QED  BY <1>1, <2>1, <2>2 DEF LoopRoutes
  <1>5. NoStuckLoopKey'
    BY <1>2, <1>4, KeepsDown
  <1>6. Follows
    BY <1>1, <1>3 DEF KInv, Motions, Follows
  <1> QED  BY <1>1, <1>2, <1>3, <1>5, <1>6 DEF KInv

LEMMA KeyDownTurn ==
  ASSUME KInv, NEW item \in Items, KeyDown(item)
  PROVE  KInv' /\ Follows
  <1> DEFINE down == pressed \cup {item}
             route == KeyRoute(item, down)
             sent == route = "loop" /\ loopWin # None
             toward == IF route = "loop" /\ ~sent THEN "ignore" ELSE route
             window == IF sent THEN loopWin ELSE None
  <1>0. focused' = TRUE /\ running' = running
    BY DEF KeyDown
  <1>1. CASE item \in pressed
    <2>1. Finish(routes) /\ UNCHANGED <<loopDown, pressed>>
      BY <1>1 DEF KeyDown
    <2> QED  BY <1>0, <2>1, PlainTurn
  <1>2. CASE item \notin pressed /\ item = "space"
    <2>1. Finish(<<>>) /\ loopDown' = Released /\ pressed' = {}
      BY <1>2 DEF KeyDown
    <2> QED  BY <2>1, ReleasingTurn
  <1>3. CASE item \notin pressed /\ item # "space" /\ (Modified(down) \/ ~Mapped(item))
    <2>1. Finish(routes) /\ loopDown' = loopDown /\ pressed' = down
      BY <1>3 DEF KeyDown, Mapped
    <2> QED  BY <1>0, <2>1, PlainTurn
  <1>4. CASE item = "u" /\ item \notin pressed /\ ~Modified(down)
    <2> DEFINE r == With(<<>>, item, "toggle", None)
    <2>1. Finish(r) /\ loopDown' = Released /\ pressed' = {item}
      BY <1>4 DEF KeyDown, Mapped
    <2>2. DOMAIN r = {item} /\ r[item].to = "toggle"
      BY NoRoutes DEF With
    <2> HIDE DEF r
    <2>3. DOMAIN routes' \subseteq DOMAIN r /\ moves' \cup lapsed' = Motions(routes')
          /\ moves' \cup lapsed' \subseteq Motions(r)
      BY <2>1, FinishFacts
    <2>4. loopDown' = {} /\ moves' = {}
      BY <2>1, <2>2, <2>3, AllReleased DEF KInv, Motions
    <2> QED  BY <1>0, <2>1, <2>2, <2>3, <2>4 DEF KInv, NoStuckLoopKey, Follows
  <1>5. CASE /\ item \notin pressed /\ item # "space" /\ item # "u"
             /\ ~Modified(down) /\ Mapped(item)
    <2> DEFINE r == With(routes, item, toward, window)
    <2>1. /\ Finish(r) /\ pressed' = down
          /\ loopDown' = IF sent THEN loopDown \cup {<<loopWin, Key(item)>>} ELSE loopDown
      BY <1>5 DEF KeyDown
    <2>2. /\ DOMAIN r = DOMAIN routes \cup {item}
          /\ r[item] = [to |-> toward, win |-> window]
          /\ \A i \in DOMAIN routes \ {item} : r[i] = routes[i]
      <3> HIDE DEF toward, window
      <3> QED  BY DEF With
    <2>3. item \notin DOMAIN routes
      BY <1>5 DEF KInv
    <2>4. sent => r[item].to = "loop" /\ r[item].win = loopWin
      BY <2>2
    <2> HIDE DEF r, sent
    <2>5. DOMAIN routes' \subseteq DOMAIN r /\ moves' \cup lapsed' = Motions(routes')
          /\ moves' \cup lapsed' \subseteq Motions(r)
      BY <2>1, FinishFacts
    <2>6. \A d \in loopDown' : \E i \in DOMAIN r : r[i].to = "loop" /\ <<r[i].win, Key(i)>> = d
      <3> TAKE d \in loopDown'
      <3>1. CASE d \in loopDown
        <4>1. PICK i \in LoopRoutes : <<routes[i].win, Key(i)>> = d
          BY <3>1 DEF KInv, NoStuckLoopKey
        <4> QED  BY <2>2, <2>3, <4>1 DEF LoopRoutes
      <3>2. CASE sent /\ d = <<loopWin, Key(item)>>
        BY <2>2, <2>4, <3>2
      <3> QED  BY <2>1, <3>1, <3>2
    <2>7. NoStuckLoopKey'
      BY <2>1, <2>6, KeepsDown
    <2>8. Follows
      BY <1>5, <2>2, <2>3, <2>5 DEF KInv, Motions, Follows
    <2> QED  BY <1>0, <2>1, <2>2, <2>5, <2>7, <2>8 DEF KInv
  <1> QED  BY <1>1, <1>2, <1>3, <1>4, <1>5

LEMMA KStep == KInv /\ [KNext]_kvars => KInv' /\ (UNCHANGED kvars \/ Follows)
  <1> SUFFICES ASSUME KInv, [KNext]_kvars PROVE KInv' /\ (UNCHANGED kvars \/ Follows)
    OBVIOUS
  <1>1. CASE FocusMoves \/ NodeChanges \/ UNCHANGED kvars
    BY <1>1 DEF FocusMoves, NodeChanges, kvars, KInv, NoStuckLoopKey, LoopRoutes, Follows
  <1>2. CASE LoopCloses
    BY <1>2 DEF LoopCloses, KInv, NoStuckLoopKey, Follows
  <1>3. ASSUME NEW w, LoopOpens(w) PROVE KInv' /\ Follows
    BY <1>3 DEF LoopOpens, KInv, NoStuckLoopKey, LoopRoutes, Follows
  <1>4. CASE LoseFocus
    BY <1>4, ReleasingTurn DEF LoseFocus
  <1>5. CASE Idle
    BY <1>5, PlainTurn DEF Idle, Awake
  <1>6. CASE InputLost
    BY <1>6, ReleasingTurn DEF InputLost
  <1>7. CASE Escape
    BY <1>7, NoRoutes, AllReleased DEF Escape, KInv, NoStuckLoopKey, Motions, Follows
  <1>8. ASSUME NEW item \in Items, IgnoreKey(item) PROVE KInv' /\ Follows
    BY <1>8, PlainTurn DEF IgnoreKey, Awake
  <1> QED  BY <1>1, <1>2, <1>3, <1>4, <1>5, <1>6, <1>7, <1>8, KeyUpTurn, KeyDownTurn DEF KNext

LEMMA KeysInductive == KSpec => []KInv
  BY KStart, KStep, PTL DEF KSpec

LEMMA KeysStop == KInv => NoStuckLoopKey /\ UnfocusedIsSilent
  <1>1. KInv /\ running /\ ~focused => loopDown = {} /\ moves = {}
    BY DEF KInv, NoStuckLoopKey, LoopRoutes, Motions
  <1> QED  BY <1>1 DEF KInv, UnfocusedIsSilent

\* A key moves base, head or lift only after a press that found manual motion
\* allowed (run() of operator_console.py drops the motion routes of a turn in
\* which it is not): an interrupted hold has to be pressed again, but for one that a
\* status interrupts which expires within the turn.
THEOREM HoldsDoNotResume == KSpec => FreshPressMoves
  <1>1. KInv /\ [KNext]_kvars => [\A i \in moves' : i \in moves \cup lapsed \/ i \notin pressed]_kvars
    BY KStep DEF Follows
  <1> QED  BY <1>1, KeysInductive, PTL DEF KSpec, FreshPressMoves

\* Routes have the fields of Routes, and lead to a window exactly to Loop.
RoutesFit ==
  /\ \A i \in DOMAIN routes : routes[i] \in Routes
  /\ \A i \in DOMAIN routes : routes[i].to = "loop" <=> routes[i].win # None

KTypes ==
  /\ physical \subseteq Items /\ pressed \subseteq Items
  /\ RoutesFit /\ loopWin \in (1 .. MaxWindows) \cup {None}

LEMMA RouteFacts ==
  ASSUME NEW item, NEW down PROVE KeyRoute(item, down) \in {"toggle", "loop", "motion", "ignore"}
  BY DEF KeyRoute

\* The routes left by a turn are among those it was given.
LEMMA FinishFits ==
  ASSUME NEW r, Finish(r), \A i \in DOMAIN r : r[i] \in Routes,
         \A i \in DOMAIN r : r[i].to = "loop" <=> r[i].win # None
  PROVE  RoutesFit'
  <1>1. CASE allowed
    BY <1>1 DEF Finish, RoutesFit
  <1>2. CASE ~allowed
    BY <1>2 DEF Finish, RoutesFit
  <1> QED  BY <1>1, <1>2

LEMMA KTypesStep == KInv /\ KTypes /\ [KNext]_kvars => KTypes'
  <1> SUFFICES ASSUME KInv, KTypes, [KNext]_kvars PROVE KTypes'
    OBVIOUS
  <1>1. Finish(routes) \/ Finish(<<>>) => RoutesFit'
    BY FinishFits, NoRoutes DEF KTypes, RoutesFit
  <1>2. CASE FocusMoves \/ NodeChanges \/ LoopCloses \/ UNCHANGED kvars
    BY <1>2 DEF FocusMoves, NodeChanges, LoopCloses, kvars, KTypes, RoutesFit
  <1>3. ASSUME NEW w \in 1 .. MaxWindows, LoopOpens(w) PROVE KTypes'
    BY <1>3 DEF LoopOpens, KTypes, RoutesFit
  <1>4. CASE LoseFocus \/ Idle \/ InputLost
    BY <1>1, <1>4 DEF LoseFocus, Idle, InputLost, KTypes, world
  <1>5. CASE Escape
    BY <1>5, NoRoutes DEF Escape, KTypes, RoutesFit, world
  <1>6. ASSUME NEW item \in Items, IgnoreKey(item) PROVE KTypes'
    BY <1>1, <1>6 DEF IgnoreKey, KTypes
  <1>7. ASSUME NEW item \in Items, KeyUp(item) PROVE KTypes'
    <2> DEFINE r == Only(Items \ {item})
    <2>1. \A i \in DOMAIN r : i \in DOMAIN routes /\ r[i] = routes[i]
      BY DEF Only
    <2>2. Finish(r) /\ physical' = physical \ {item} /\ pressed' = pressed \ {item}
          /\ loopWin' = loopWin
      BY <1>7 DEF KeyUp
    <2> HIDE DEF r
    <2>3. RoutesFit'
      BY <2>1, <2>2, FinishFits DEF KTypes, RoutesFit
    <2> QED  BY <2>2, <2>3 DEF KTypes
  <1>8. ASSUME NEW item \in Items, KeyDown(item) PROVE KTypes'
    <2> DEFINE down == pressed \cup {item}
               route == KeyRoute(item, down)
               sent == route = "loop" /\ loopWin # None
               to == IF route = "loop" /\ ~sent THEN "ignore" ELSE route
               win == IF sent THEN loopWin ELSE None
    <2>1. physical' = physical \cup {item} /\ loopWin' = loopWin
          /\ pressed' \subseteq pressed \cup {item}
      BY <1>8 DEF KeyDown
    <2>2. to \in {"toggle", "loop", "motion", "ignore"} /\ (to = "loop" <=> win # None)
          /\ win \in (1 .. MaxWindows) \cup {None}
      BY RouteFacts DEF KTypes
    <2>3. [to |-> to, win |-> win] \in Routes /\ [to |-> "toggle", win |-> None] \in Routes
      <3> HIDE DEF to, win
      <3> QED  BY <2>2 DEF Routes
    <2>4. \/ Finish(routes) \/ Finish(<<>>) \/ Finish(With(<<>>, item, "toggle", None))
          \/ Finish(With(routes, item, to, win))
      BY <1>8 DEF KeyDown
    <2> HIDE DEF to, win
    <2>5. Finish(With(<<>>, item, "toggle", None)) => RoutesFit'
      <3> DEFINE r == With(<<>>, item, "toggle", None)
      <3>1. DOMAIN r = {item} /\ r[item] = [to |-> "toggle", win |-> None]
        BY NoRoutes DEF With
      <3> HIDE DEF r
      <3>2. Finish(r) => RoutesFit'
        BY <2>3, <3>1, FinishFits
      <3> QED  BY <3>2 DEF r
    <2>6. Finish(With(routes, item, to, win)) => RoutesFit'
      <3> DEFINE r == With(routes, item, to, win)
      <3>1. /\ DOMAIN r = DOMAIN routes \cup {item} /\ r[item] = [to |-> to, win |-> win]
            /\ \A i \in DOMAIN routes \ {item} : r[i] = routes[i]
        BY DEF With
      <3> HIDE DEF r
      <3>2. Finish(r) => RoutesFit'
        BY <2>2, <2>3, <3>1, FinishFits DEF KTypes, RoutesFit
      <3> QED  BY <3>2 DEF r
    <2> QED  BY <1>1, <2>1, <2>4, <2>5, <2>6 DEF KTypes
  <1> QED  BY <1>2, <1>3, <1>4, <1>5, <1>6, <1>7, <1>8 DEF KNext

LEMMA KTypesStart == KInit => KTypes
  BY NoRoutes DEF KInit, KTypes, RoutesFit

\* What the console and Loop know of keys and windows; moves and routes are of
\* keys that are down.
LEMMA KeyTypes == KSpec => []KTypeOK
  <1>1. KInv /\ KTypes => KTypeOK
    BY DEF KInv, KTypes, KTypeOK, RoutesFit, Motions
  <1> QED  BY <1>1, KTypesStart, KTypesStep, KeysInductive, PTL DEF KSpec

-----------------------------------------------------------------------------
(* The console's node.                                                      *)

Status == [paused : BOOLEAN, resuming : BOOLEAN, id : Ids \cup {None}]
Asked == [id : Ids, command : {"pause", "resume"}]
Consoles ==
  [status : Status \cup {None}, statusAge : Nat, requestId : Ids \cup {None}, requestAge : Nat,
   pending : {"pause", "resume", None}, baseMoving : BOOLEAN, moving : BOOLEAN,
   target : (LimitLow .. LimitHigh) \cup {None}, joint : Measurements \cup {None}, jointAge : Nat]

Moves(c) == c.baseMoving \/ c.moving

LEMMA ConsoleFacts ==
  /\ StatusTtl \in Nat /\ SettleTicks \in Nat /\ JointTtl \in Nat /\ MaxDelay \in Nat
  /\ RequestTimeout \in Nat /\ ~(0 >= RequestTimeout)
  /\ Measurements \subseteq Int /\ LimitLow \in Int /\ LimitHigh \in Int /\ LimitLow <= LimitHigh
  /\ Lead \in Nat /\ Step \in Nat
  /\ None \notin Ids /\ None # "pause" /\ None # "resume"
  BY ConsoleAssumption, IdsAssumption

LEMMA InitFacts ==
  /\ C!ConInit \in Consoles /\ ~Moves(C!ConInit)
  /\ C!ConInit.pending = None /\ C!ConInit.requestId = None /\ C!ConInit.status = None
  BY ConsoleFacts DEF C!ConInit, Consoles, Moves

LEMMA BoundFacts ==
  ASSUME NEW m \in Int, NEW t \in Int, NEW d \in Int
  PROVE  C!BoundedStep(m, t, d) \in LimitLow .. LimitHigh
  <1> DEFINE x == C!Between(m - Lead, t + d * Step, m + Lead)
  <1>1. m - Lead \in Int /\ m + Lead \in Int /\ t + d * Step \in Int
    BY ConsoleFacts
  <1>2. x \in Int
    BY <1>1 DEF C!Between
  <1>3. C!BoundedStep(m, t, d) = C!Between(LimitLow, x, LimitHigh)
    BY DEF C!BoundedStep
  <1> HIDE DEF x
  <1> QED  BY <1>2, <1>3, ConsoleFacts DEF C!Between

\* An unanswered request is given up with the status it was based on.
LEMMA RetryFacts ==
  ASSUME NEW c \in Consoles
  PROVE  LET r == C!Retry(c)
         IN  /\ r \in Consoles
             /\ r.requestId = c.requestId /\ r.statusAge = c.statusAge
             /\ r.requestAge = c.requestAge
             /\ r.pending # None => r.pending = c.pending /\ r.status = c.status
             /\ c.pending = None => r.pending = None /\ r.status = c.status
             /\ (c.pending # None /\ ~(c.requestAge >= RequestTimeout)) => r = c
             /\ (c.pending # None /\ r.pending = None) => r.status = None
  <1>1. CASE c.pending # None /\ c.requestAge >= RequestTimeout
    <2> DEFINE r == [c EXCEPT !.pending = None, !.status = None]
    <2>1. /\ r \in Consoles /\ r.pending = None /\ r.status = None
          /\ r.requestId = c.requestId /\ r.statusAge = c.statusAge /\ r.requestAge = c.requestAge
      BY DEF Consoles
    <2>2. C!Retry(c) = r
      BY <1>1 DEF C!Retry
    <2> HIDE DEF r
    <2> QED  BY <1>1, <2>1, <2>2
  <1>2. CASE ~(c.pending # None /\ c.requestAge >= RequestTimeout)
    <2>1. C!Retry(c) = c
      BY <1>2 DEF C!Retry
    <2> QED  BY <1>2, <2>1
  <1> QED  BY <1>1, <1>2

\* The joint group moves by a bounded step from its measurement, or stops.
LEMMA GroupFacts ==
  ASSUME NEW c \in Consoles, NEW keys
  PROVE  LET n == C!GroupTick(c, keys)
         IN  /\ n \in Consoles
             /\ n.status = c.status /\ n.statusAge = c.statusAge /\ n.requestId = c.requestId
             /\ n.pending = c.pending /\ n.requestAge = c.requestAge
             /\ n.baseMoving = c.baseMoving
             /\ n.moving => C!Direction(keys) # 0
  <1> DEFINE m == C!Measured(c)
             d == C!Direction(keys)
             from == IF c.target = None THEN m ELSE c.target
             t == C!BoundedStep(m, from, d)
  <1>1. CASE m # None /\ d # 0
    <2>1. m \in Int
      BY <1>1, ConsoleFacts DEF C!Measured, Consoles
    <2>2. from \in Int /\ d \in Int
      BY <2>1, ConsoleFacts DEF Consoles, C!Direction
    <2>3. C!GroupTick(c, keys) = [c EXCEPT !.moving = TRUE, !.target = t]
      BY <1>1 DEF C!GroupTick
    <2> HIDE DEF m, d, from
    <2>4. t \in LimitLow .. LimitHigh
      BY <2>1, <2>2, BoundFacts
    <2> HIDE DEF t
    <2> QED  BY <1>1, <2>3, <2>4 DEF Consoles, d
  <1>2. CASE ~(m # None /\ d # 0)
    <2>1. C!GroupTick(c, keys) = [c EXCEPT !.moving = FALSE, !.target = None]
      BY <1>2 DEF C!GroupTick
    <2> QED  BY <2>1 DEF Consoles
  <1> QED  BY <1>1, <1>2

LEMMA NoKeysNoMotion == C!Direction({}) = 0 /\ "base" \notin {}
  BY DEF C!Direction

\* What a tick leaves: it moves only while manual motion is allowed.
LEMMA TickFacts ==
  ASSUME NEW c \in Consoles, NEW keys
  PROVE  LET n == C!Tick(c, keys)
             r == C!Retry(c)
         IN  /\ n \in Consoles
             /\ n.status = r.status /\ n.statusAge = c.statusAge /\ n.requestId = c.requestId
             /\ n.pending = r.pending /\ n.requestAge = c.requestAge
             /\ Moves(n) => C!ManualAllowed(r) /\ keys # {}
  <1> DEFINE r == C!Retry(c)
             held == IF C!ManualAllowed(r) THEN keys ELSE {}
             base == "base" \in held
             b == [r EXCEPT !.baseMoving = base]
             n == C!GroupTick(b, held)
  <1>1. r \in Consoles /\ r.statusAge = c.statusAge /\ r.requestId = c.requestId
        /\ r.requestAge = c.requestAge
    BY RetryFacts
  <1>2. C!Tick(c, keys) = n
    BY DEF C!Tick
  <1> HIDE DEF r, held
  <1>3. /\ b \in Consoles /\ b.status = r.status /\ b.statusAge = r.statusAge
        /\ b.requestId = r.requestId /\ b.pending = r.pending /\ b.requestAge = r.requestAge
        /\ b.baseMoving = base
    <2>1. base \in BOOLEAN
      OBVIOUS
    <2> HIDE DEF base
    <2> QED  BY <1>1, <2>1 DEF Consoles
  <1> HIDE DEF b
  <1>4. /\ n \in Consoles
        /\ n.status = b.status /\ n.statusAge = b.statusAge /\ n.requestId = b.requestId
        /\ n.pending = b.pending /\ n.requestAge = b.requestAge
        /\ n.baseMoving = b.baseMoving
        /\ n.moving => C!Direction(held) # 0
    BY <1>3, GroupFacts
  <1> HIDE DEF n
  <1>5. Moves(n) => held # {}
    BY <1>3, <1>4, NoKeysNoMotion DEF Moves
  <1>6. held # {} => C!ManualAllowed(r) /\ keys # {}
    BY DEF held
  <1> QED  BY <1>1, <1>2, <1>3, <1>4, <1>5, <1>6 DEF r

LEMMA ReceiveFacts ==
  ASSUME NEW c \in Consoles, NEW s \in Status
  PROVE  LET n == C!ReceiveStatus(c, s)
         IN  /\ n \in Consoles
             /\ n.status = s /\ n.statusAge = 0 /\ n.requestId = c.requestId
             /\ n.pending = (IF c.requestId = s.id THEN None ELSE c.pending)
             /\ Moves(n) = Moves(c)
  BY DEF C!ReceiveStatus, Consoles, Moves

LEMMA JointFacts ==
  ASSUME NEW c \in Consoles, NEW value \in Measurements
  PROVE  LET n == C!ReceiveJoints(c, value)
         IN  /\ n \in Consoles
             /\ n.status = c.status /\ n.statusAge = c.statusAge /\ n.requestId = c.requestId
             /\ n.pending = c.pending /\ Moves(n) = Moves(c)
  BY DEF C!ReceiveJoints, Consoles, Moves

LEMMA AgeFacts ==
  ASSUME NEW c \in Consoles
  PROVE  LET n == C!ConAge(c)
         IN  /\ n \in Consoles
             /\ n.status = c.status /\ n.requestId = c.requestId
             /\ n.pending = c.pending /\ Moves(n) = Moves(c)
             /\ n.statusAge = IF c.statusAge <= StatusTtl + 1 THEN c.statusAge + 1 ELSE c.statusAge
  <1> DEFINE status == C!Grow(c.statusAge, StatusTtl + 1)
             request == C!Grow(c.requestAge, RequestTimeout)
             joint == C!Grow(c.jointAge, JointTtl)
             n == [c EXCEPT !.statusAge = status, !.requestAge = request, !.jointAge = joint]
  <1>1. C!ConAge(c) = n
    BY DEF C!ConAge
  <1>2. /\ status \in Nat /\ request \in Nat /\ joint \in Nat
        /\ status = IF c.statusAge <= StatusTtl + 1 THEN c.statusAge + 1 ELSE c.statusAge
    BY ConsoleFacts DEF C!Grow, Consoles
  <1> HIDE DEF status, request, joint
  <1> QED  BY <1>1, <1>2 DEF Consoles, Moves

\* U: nothing moves, and a new request is pending.
LEMMA ToggleFacts ==
  ASSUME NEW c \in Consoles, NEW id \in Ids, C!MayToggle(c)
  PROVE  LET t == C!Toggle(C!StopMotion(c), id)
             n == C!Tick(t, {})
         IN  /\ t \in Consoles /\ n \in Consoles /\ ~Moves(n)
             /\ Pending(t) \in Asked /\ Pending(t).id = id
             /\ n.requestId = id /\ n.pending \in {"pause", "resume"}
             /\ n.status = c.status /\ n.statusAge = c.statusAge
  <1> DEFINE stopped == C!StopMotion(c)
             t == C!Toggle(stopped, id)
             n == C!Tick(t, {})
  <1>1. /\ stopped \in Consoles /\ stopped.status = c.status /\ stopped.statusAge = c.statusAge
        /\ stopped.pending = None
    <2>1. c.pending = None
      BY DEF C!MayToggle
    <2> QED  BY <2>1, TickFacts, RetryFacts DEF C!StopMotion
  <1> HIDE DEF stopped
  <1>2. /\ t \in Consoles /\ t.pending \in {"pause", "resume"} /\ t.requestId = id
        /\ t.requestAge = 0 /\ t.status = stopped.status /\ t.statusAge = stopped.statusAge
    <2> DEFINE command == IF stopped.status.paused THEN "resume" ELSE "pause"
    <2>1. t = [stopped EXCEPT !.requestId = id, !.pending = command, !.requestAge = 0]
      BY DEF C!Toggle, C!Request
    <2>2. command \in {"pause", "resume"}
      OBVIOUS
    <2> HIDE DEF command, t
    <2> QED  BY <1>1, <2>1, <2>2 DEF Consoles
  <1> HIDE DEF t
  <1>3. C!Retry(t) = t
    BY <1>2, RetryFacts, ConsoleFacts
  <1>4. /\ n \in Consoles /\ n.status = t.status /\ n.statusAge = t.statusAge
        /\ n.requestId = id /\ n.pending = t.pending /\ ~Moves(n)
    BY <1>2, <1>3, TickFacts
  <1>5. Pending(t) \in Asked /\ Pending(t).id = id
    BY <1>2, <1>3 DEF Pending, Asked
  <1> QED  BY <1>1, <1>2, <1>4, <1>5 DEF t, stopped

-----------------------------------------------------------------------------
(* The topics: requests stay in order, and the latest is sent last.          *)

Trails(q, id) == \A i, j \in 1 .. Len(q) : (i < j /\ q[i].id = id) => q[j].id = id
OnlyAsks(q, id) == \A i \in 1 .. Len(q) : q[i].id = id

LEMMA SendFacts ==
  ASSUME NEW q \in Seq(Asked), NEW m \in Asked
  PROVE  LET n == Send(q, m)
         IN  /\ n \in Seq(Asked)
             /\ \A i \in 1 .. Len(n) : \/ i \in 1 .. Len(q) /\ n[i] = q[i]
                                       \/ i = Len(n) /\ n[i] = m
  <1>1. Len(q) \in Nat
    BY LenProperties
  <1>2. CASE q # <<>> /\ q[Len(q)] = m
    BY <1>1, <1>2 DEF Send
  <1>3. CASE ~(q # <<>> /\ q[Len(q)] = m)
    BY <1>1, <1>3, AppendProperties DEF Send
  <1> QED  BY <1>2, <1>3

LEMMA SendKeeps ==
  ASSUME NEW q \in Seq(Asked), NEW m \in Asked
  PROVE  /\ Trails(q, m.id) => Trails(Send(q, m), m.id)
         /\ OnlyAsks(q, m.id) => OnlyAsks(Send(q, m), m.id)
         /\ (\A i \in 1 .. Len(q) : q[i].id # m.id) => Trails(Send(q, m), m.id)
  <1> DEFINE n == Send(q, m)
  <1>1. /\ n \in Seq(Asked) /\ Len(n) \in Nat /\ Len(q) \in Nat
        /\ \A i \in 1 .. Len(n) : \/ i \in 1 .. Len(q) /\ n[i] = q[i]
                                  \/ i = Len(n) /\ n[i] = m
    BY SendFacts, LenProperties
  <1> HIDE DEF n
  <1>2. Trails(q, m.id) => Trails(n, m.id)
    BY <1>1 DEF Trails
  <1>3. OnlyAsks(q, m.id) => OnlyAsks(n, m.id)
    BY <1>1 DEF OnlyAsks
  <1>4. (\A i \in 1 .. Len(q) : q[i].id # m.id) => Trails(n, m.id)
    BY <1>1 DEF Trails
  <1> QED  BY <1>2, <1>3, <1>4 DEF n

LEMMA TailKeeps ==
  ASSUME NEW q \in Seq(Asked), q # <<>>, NEW id
  PROVE  /\ Tail(q) \in Seq(Asked) /\ Head(q) \in Asked
         /\ Trails(q, id) => Trails(Tail(q), id)
         /\ OnlyAsks(q, id) => OnlyAsks(Tail(q), id) /\ Head(q).id = id
         /\ (Trails(q, id) /\ Head(q).id = id) => OnlyAsks(q, id)
  <1>1. /\ Tail(q) \in Seq(Asked) /\ Head(q) \in Asked
        /\ Len(q) \in Nat /\ Len(q) # 0 /\ Len(Tail(q)) = Len(q) - 1
        /\ \A i \in 1 .. Len(Tail(q)) : Tail(q)[i] = q[i + 1]
        /\ Head(q) = q[1]
    BY HeadTailProperties, LenProperties, EmptySeq
  <1>2. Trails(q, id) => Trails(Tail(q), id)
    <2> SUFFICES ASSUME Trails(q, id), NEW i \in 1 .. Len(Tail(q)), NEW j \in 1 .. Len(Tail(q)),
                        i < j, Tail(q)[i].id = id
                 PROVE  Tail(q)[j].id = id
      BY DEF Trails
    <2>1. i + 1 \in 1 .. Len(q) /\ j + 1 \in 1 .. Len(q) /\ i + 1 < j + 1
      BY <1>1
    <2> QED  BY <1>1, <2>1 DEF Trails
  <1>3. OnlyAsks(q, id) => OnlyAsks(Tail(q), id) /\ Head(q).id = id
    <2> SUFFICES ASSUME OnlyAsks(q, id) PROVE OnlyAsks(Tail(q), id) /\ Head(q).id = id
      OBVIOUS
    <2>1. \A i \in 1 .. Len(Tail(q)) : i + 1 \in 1 .. Len(q)
      BY <1>1
    <2>2. 1 \in 1 .. Len(q)
      BY <1>1
    <2> QED  BY <1>1, <2>1, <2>2 DEF OnlyAsks
  <1>4. (Trails(q, id) /\ Head(q).id = id) => OnlyAsks(q, id)
    BY <1>1 DEF Trails, OnlyAsks
  <1> QED  BY <1>1, <1>2, <1>3, <1>4

-----------------------------------------------------------------------------
(* Console and publisher.                                                   *)

OType ==
  /\ paused \in BOOLEAN /\ resuming \in BOOLEAN /\ requestId \in Ids \cup {None}
  /\ con # None => con \in Consoles
  /\ looped \in BOOLEAN /\ gaveUp \in BOOLEAN
  /\ requests \in Seq(Asked) /\ statuses \in {<<>>} \cup {<<s>> : s \in Status}
  /\ delays \in [request : Nat, status : 0 .. MaxDelay]
  /\ released \in 0 .. Blind

\* What is under way after the console's latest request is that request.
Latest ==
  con # None =>
    /\ con.pending # None => con.requestId \in Ids /\ ~Moves(con)
    /\ con.requestId = None => requests = <<>>
    /\ Trails(requests, con.requestId)
    /\ requestId = con.requestId => OnlyAsks(requests, con.requestId)

\* A status that answers it tells what the publisher does now.
Answers ==
  (con # None /\ statuses # <<>> /\ con.requestId # None /\ statuses[1].id = con.requestId) =>
    requestId = con.requestId /\ statuses[1].paused = paused

\* With every request answered, nothing under way changes the publisher, and
\* what the console knows is true.
Settled ==
  (con # None /\ ~gaveUp /\ con.pending = None) =>
    /\ OnlyAsks(requests, requestId)
    /\ statuses # <<>> => statuses[1].paused = paused
    /\ con.status # None => con.status.paused = paused
    /\ Moves(con) => paused

\* Otherwise its knowledge is old, but not older than its messages can be.
Late ==
  /\ (statuses # <<>> /\ statuses[1].paused /\ ~paused) => released <= delays.status
  /\ (con # None /\ con.status # None /\ con.status.paused /\ ~paused) =>
       released <= con.statusAge + MaxDelay

Slack == StatusTtl + (IF looped THEN 0 ELSE 1)
Ends ==
  (con # None /\ Moves(con)) =>
    /\ con.statusAge <= Slack
    /\ ~paused => released <= MaxDelay + Slack

OInv == OType /\ Latest /\ Answers /\ Settled /\ Late /\ Ends

LEMMA BlindFacts == Blind \in Nat /\ Blind = MaxDelay + StatusTtl + 2
  BY ConsoleFacts DEF Blind

LEMMA EmptyAsks == \A id : Trails(<<>>, id) /\ OnlyAsks(<<>>, id)
  <1>1. Len(<<>>) = 0
    BY EmptySeq
  <1> QED  BY <1>1 DEF Trails, OnlyAsks

LEMMA OStart == OInit => OInv
  <1> SUFFICES ASSUME OInit PROVE OInv
    OBVIOUS
  <1>1. /\ paused = FALSE /\ resuming = FALSE /\ requestId = None /\ con = None /\ looped = FALSE
        /\ requests = <<>> /\ statuses = <<>> /\ gaveUp = FALSE /\ released = Blind
        /\ delays = [request |-> 0, status |-> 0]
    BY DEF OInit, PauseInit
  <1>2. delays \in [request : Nat, status : 0 .. MaxDelay]
    BY <1>1, ConsoleFacts
  <1>3. OType
    <2>1. requests \in Seq(Asked) /\ statuses \in {<<>>} \cup {<<s>> : s \in Status}
      BY <1>1, EmptySeq
    <2>2. released \in 0 .. Blind
      BY <1>1, BlindFacts
    <2> QED  BY <1>1, <1>2, <2>1, <2>2 DEF OType
  <1> QED  BY <1>1, <1>3 DEF OInv, Latest, Answers, Settled, Late, Ends

\* While the statuses stand, they are read as one or none.
LEMMA StatusFacts ==
  ASSUME OType
  PROVE  statuses # <<>> => statuses[1] \in Status /\ Head(statuses) = statuses[1]
  BY DEF OType

LEMMA StartConsoleStep ==
  ASSUME OInv, StartConsole PROVE OInv'
  <1>1. /\ requests = <<>> /\ statuses = <<>> /\ con' = C!ConInit /\ looped' = TRUE
        /\ gaveUp' = FALSE
        /\ UNCHANGED <<paused, resuming, requestId, requests, statuses, delays, released>>
    BY DEF StartConsole, pauseVars
  <1>2. OType'
    BY <1>1, InitFacts DEF OInv, OType
  <1> QED  BY <1>1, <1>2, InitFacts, EmptyAsks
           DEF OInv, Latest, Answers, Settled, Late, Ends

LEMMA TurnStep ==
  ASSUME OInv, NEW keys, Turn(keys) PROVE OInv'
  <1> USE DEF OInv
  <1> DEFINE r == C!Retry(con)
  <1>1. /\ con # None /\ con \in Consoles /\ con' = C!Tick(con, keys)
        /\ requests' = IF C!Sends(con) THEN Send(requests, Pending(con)) ELSE requests
        /\ gaveUp' = (gaveUp \/ (con.pending # None /\ ~C!Sends(con)))
        /\ looped' = TRUE
        /\ UNCHANGED <<paused, resuming, requestId, statuses, delays, released>>
        /\ C!Sends(con) <=> r.pending # None
    BY DEF Turn, OType, pauseVars, C!Sends
  <1>2. /\ con' \in Consoles /\ con'.status = r.status /\ con'.statusAge = con.statusAge
        /\ con'.requestId = con.requestId /\ con'.pending = r.pending
        /\ Moves(con') => C!ManualAllowed(r)
    BY <1>1, TickFacts
  <1>3. /\ r \in Consoles /\ r.requestId = con.requestId /\ r.statusAge = con.statusAge
        /\ r.pending # None => r.pending = con.pending /\ r.status = con.status
        /\ con.pending = None => r.pending = None /\ r.status = con.status
        /\ (con.pending # None /\ r.pending = None) => r.status = None
    BY <1>1, RetryFacts
  <1>4. r.pending # None => Pending(con) \in Asked /\ Pending(con).id = con.requestId
    BY <1>1, <1>3 DEF Pending, Asked, Latest, Consoles
  <1>5. Moves(con') => /\ r.status # None /\ r.statusAge <= StatusTtl /\ r.status.paused
                       /\ r.pending = None
    BY <1>2 DEF C!ManualAllowed, C!FreshStatus
  <1>6. Moves(con') => con.pending = None
    BY <1>3, <1>5
  <1> HIDE DEF r
  <1>7. requests' \in Seq(Asked)
    BY <1>1, <1>4, SendFacts DEF OType
  <1>8. OType'
    BY <1>1, <1>2, <1>7 DEF OType
  <1>9. Latest'
    <2>1. CASE r.pending # None
      <3>1. Pending(con) \in Asked /\ Pending(con).id = con.requestId
            /\ requests' = Send(requests, Pending(con))
        BY <1>1, <1>4, <2>1
      <3>2. con.requestId \in Ids /\ con.requestId # None
        BY <1>1, <1>3, <2>1, ConsoleFacts DEF Latest
      <3>3. Trails(requests', con.requestId)
            /\ (OnlyAsks(requests, con.requestId) => OnlyAsks(requests', con.requestId))
        BY <1>1, <3>1, SendKeeps DEF OType, Latest
      <3> QED  BY <1>1, <1>2, <1>5, <2>1, <3>2, <3>3 DEF Latest
    <2>2. CASE r.pending = None
      BY <1>1, <1>2, <1>3, <2>2 DEF Latest
    <2> QED  BY <2>1, <2>2
  <1>10. Answers'
    BY <1>1, <1>2 DEF Answers
  <1>11. Settled'
    <2> SUFFICES ASSUME ~gaveUp', con'.pending = None
                 PROVE  /\ OnlyAsks(requests', requestId)
                        /\ statuses # <<>> => statuses[1].paused = paused
                        /\ con'.status # None => con'.status.paused = paused
                        /\ Moves(con') => paused
      BY <1>1 DEF Settled
    <2>1. ~gaveUp /\ con.pending = None /\ r.pending = None
      BY <1>1, <1>2
    <2> QED  BY <1>1, <1>2, <1>3, <1>5, <2>1 DEF Settled
  <1>12. Late'
    BY <1>1, <1>2, <1>3 DEF Late
  <1>13. Ends'
    <2> SUFFICES ASSUME Moves(con')
                 PROVE  con'.statusAge <= Slack' /\ (~paused => released <= MaxDelay + Slack')
      BY <1>1 DEF Ends
    <2>1. con.status = r.status /\ con.status # None /\ con.status.paused
          /\ con.statusAge <= StatusTtl
      BY <1>3, <1>5, <1>6
    <2>2. ~paused => released <= con.statusAge + MaxDelay
      BY <1>1, <2>1 DEF Late
    <2>3. Slack' = StatusTtl
      BY <1>1, ConsoleFacts DEF Slack
    <2>4. released \in Int /\ con.statusAge \in Int
      BY <1>1, BlindFacts DEF OType, Consoles
    <2> QED  BY <1>2, <2>1, <2>2, <2>3, <2>4, ConsoleFacts
  <1> QED  BY <1>8, <1>9, <1>10, <1>11, <1>12, <1>13

LEMMA ToggleStep ==
  ASSUME OInv, PressToggle PROVE OInv'
  <1> USE DEF OInv
  <1>1. /\ con # None /\ con \in Consoles /\ C!MayToggle(con) /\ looped' = TRUE
        /\ UNCHANGED <<paused, resuming, requestId, statuses, delays, gaveUp, released>>
    BY DEF PressToggle, OType, pauseVars
  <1>2. PICK id \in FreshIds :
          LET c == C!Toggle(C!StopMotion(con), id)
          IN  con' = C!Tick(c, {}) /\ requests' = Send(requests, Pending(c))
    BY DEF PressToggle
  <1> DEFINE m == Pending(C!Toggle(C!StopMotion(con), id))
  <1>3. /\ id \in Ids /\ id # requestId
        /\ \A i \in 1 .. Len(requests) : requests[i].id # id
        /\ statuses # <<>> => statuses[1].id # id
    <2>1. DOMAIN requests = 1 .. Len(requests)
      BY LenProperties DEF OType
    <2>2. statuses # <<>> => 1 \in DOMAIN statuses
      BY DEF OType
    <2> QED  BY <2>1, <2>2 DEF FreshIds, UsedIds
  <1>4. /\ con' \in Consoles /\ ~Moves(con') /\ m \in Asked /\ m.id = id
        /\ con'.requestId = id /\ con'.pending \in {"pause", "resume"}
        /\ con'.status = con.status /\ con'.statusAge = con.statusAge
    BY <1>1, <1>2, <1>3, ToggleFacts
  <1>5. requests' = Send(requests, m)
    BY <1>2
  <1> HIDE DEF m
  <1>6. requests' \in Seq(Asked) /\ Trails(requests', id)
    BY <1>3, <1>4, <1>5, SendFacts, SendKeeps DEF OType
  <1>7. con'.pending # None /\ con'.requestId # None
    BY <1>3, <1>4, ConsoleFacts
  <1>8. OType'
    BY <1>1, <1>4, <1>6 DEF OType
  <1>9. Latest' /\ Answers' /\ Settled'
    BY <1>1, <1>3, <1>4, <1>6, <1>7 DEF Latest, Answers, Settled
  <1>10. Late' /\ Ends'
    BY <1>1, <1>4 DEF Late, Ends
  <1> QED  BY <1>8, <1>9, <1>10

LEMMA ExitStep ==
  ASSUME OInv, ExitConsole PROVE OInv'
  <1> USE DEF OInv
  <1>1. /\ con' = None
        /\ UNCHANGED <<paused, resuming, requestId, looped, statuses, delays, gaveUp, released>>
    BY DEF ExitConsole, pauseVars
  <1>2. PICK id \in FreshIds : requests' = Send(requests, [id |-> id, command |-> "pause"])
    BY DEF ExitConsole
  <1>3. [id |-> id, command |-> "pause"] \in Asked
    BY DEF FreshIds, Asked
  <1>4. requests' \in Seq(Asked)
    BY <1>2, <1>3, SendFacts DEF OType
  <1>5. OType'
    BY <1>1, <1>4 DEF OType
  <1> QED  BY <1>1, <1>5 DEF Latest, Answers, Settled, Late, Ends

LEMMA JointsStep ==
  ASSUME OInv, NEW value \in Measurements, SpinJoints(value) PROVE OInv'
  <1> USE DEF OInv
  <1>1. /\ con # None /\ con \in Consoles /\ con' = C!ReceiveJoints(con, value)
        /\ UNCHANGED <<paused, resuming, requestId, looped, requests, statuses, delays, gaveUp,
                       released>>
    BY DEF SpinJoints, OType, pauseVars
  <1>2. /\ con' \in Consoles /\ con'.status = con.status /\ con'.statusAge = con.statusAge
        /\ con'.requestId = con.requestId /\ con'.pending = con.pending
        /\ Moves(con') = Moves(con)
    BY <1>1, JointFacts
  <1>3. OType'
    BY <1>1, <1>2 DEF OType
  <1>4. Latest' /\ Answers' /\ Settled'
    BY <1>1, <1>2 DEF Latest, Answers, Settled
  <1>5. Late' /\ Ends'
    BY <1>1, <1>2 DEF Late, Ends, Slack
  <1> QED  BY <1>3, <1>4, <1>5

LEMMA DeliverRequestStep ==
  ASSUME OInv, DeliverRequest PROVE OInv'
  <1> USE DEF OInv
  <1> DEFINE r == Head(requests)
  <1>1. /\ requests # <<>> /\ requests' = Tail(requests)
        /\ delays' = [delays EXCEPT !.request = 0]
        /\ released' = IF paused /\ ~paused' THEN 0 ELSE released
        /\ UNCHANGED <<con, looped, statuses, gaveUp>>
        /\ IF r.id = requestId THEN UNCHANGED pauseVars
           ELSE IF r.command = "pause" THEN Pause(r.id) ELSE Resume(r.id)
    BY DEF DeliverRequest
  <1>2. /\ requests' \in Seq(Asked) /\ r \in Asked
        /\ \A id : /\ Trails(requests, id) => Trails(requests', id)
                   /\ OnlyAsks(requests, id) => OnlyAsks(requests', id) /\ r.id = id
                   /\ (Trails(requests, id) /\ r.id = id) => OnlyAsks(requests, id)
    BY <1>1, TailKeeps DEF OType
  <1> HIDE DEF r
  <1>3. /\ requestId' = r.id /\ r.id \in Ids
        /\ paused' \in BOOLEAN /\ resuming' \in BOOLEAN
        /\ r.id = requestId => paused' = paused
    BY <1>1, <1>2 DEF Pause, Resume, pauseVars, OType, Asked
  <1>4. /\ delays' \in [request : Nat, status : 0 .. MaxDelay] /\ delays'.status = delays.status
        /\ released' \in 0 .. Blind
        /\ (~paused /\ ~paused') => released' = released
        /\ (paused /\ ~paused') => released' = 0
    BY <1>1, BlindFacts DEF OType
  <1>5. OType'
    BY <1>1, <1>2, <1>3, <1>4 DEF OType
  <1>6. Latest'
    BY <1>1, <1>2, <1>3 DEF Latest
  <1>7. Answers'
    BY <1>1, <1>2, <1>3 DEF Answers, Latest
  <1>8. Settled'
    BY <1>1, <1>2, <1>3 DEF Settled
  <1>9. con # None => con.statusAge \in Nat
    BY DEF OType, Consoles
  <1>10. delays.status \in Nat /\ MaxDelay \in Nat /\ Slack \in Nat /\ Slack' = Slack
    BY <1>1, ConsoleFacts DEF OType, Slack
  <1>11. Late' /\ Ends'
    <2>1. CASE ~paused
      BY <1>1, <1>3, <1>4, <1>10, <2>1 DEF Late, Ends
    <2>2. CASE paused /\ ~paused'
      BY <1>1, <1>4, <1>9, <1>10, <2>2 DEF Late, Ends
    <2>3. CASE paused'
      BY <1>1, <1>10, <2>3 DEF Late, Ends
    <2> QED  BY <2>1, <2>2, <2>3
  <1> QED  BY <1>5, <1>6, <1>7, <1>8, <1>11

LEMMA LoseRequestStep ==
  ASSUME OInv, LoseRequest PROVE OInv'
  <1> USE DEF OInv
  <1>1. /\ requests # <<>> /\ requests' = Tail(requests)
        /\ delays' = [delays EXCEPT !.request = 0]
        /\ UNCHANGED <<paused, resuming, requestId, con, looped, statuses, gaveUp, released>>
    BY DEF LoseRequest, pauseVars
  <1>2. /\ requests' \in Seq(Asked)
        /\ \A id : /\ Trails(requests, id) => Trails(requests', id)
                   /\ OnlyAsks(requests, id) => OnlyAsks(requests', id)
    BY <1>1, TailKeeps DEF OType
  <1>3. delays' \in [request : Nat, status : 0 .. MaxDelay] /\ delays'.status = delays.status
    BY <1>1 DEF OType
  <1>4. OType'
    BY <1>1, <1>2, <1>3 DEF OType
  <1>5. Latest' /\ Answers' /\ Settled'
    BY <1>1, <1>2 DEF Latest, Answers, Settled
  <1>6. Late' /\ Ends'
    BY <1>1, <1>3 DEF Late, Ends, Slack
  <1> QED  BY <1>4, <1>5, <1>6

LEMMA SendStatusStep ==
  ASSUME OInv, SendStatus PROVE OInv'
  <1> USE DEF OInv
  <1> DEFINE s == [paused |-> paused, resuming |-> resuming, id |-> requestId]
  <1>1. /\ statuses = <<>> /\ statuses' = <<s>> /\ delays' = [delays EXCEPT !.status = 0]
        /\ UNCHANGED <<paused, resuming, requestId, con, looped, requests, gaveUp, released>>
    BY DEF SendStatus, pauseVars
  <1>2. s \in Status /\ s.paused = paused /\ s.id = requestId
    BY DEF OType, Status
  <1> HIDE DEF s
  <1>3. statuses'[1] = s /\ statuses' \in {<<t>> : t \in Status}
    BY <1>1, <1>2
  <1>4. delays' \in [request : Nat, status : 0 .. MaxDelay]
    BY <1>1, ConsoleFacts DEF OType
  <1>5. OType'
    BY <1>1, <1>3, <1>4 DEF OType
  <1>6. Latest' /\ Answers' /\ Settled'
    BY <1>1, <1>2, <1>3 DEF Latest, Answers, Settled
  <1>7. Late' /\ Ends'
    BY <1>1, <1>2, <1>3 DEF Late, Ends, Slack
  <1> QED  BY <1>5, <1>6, <1>7

LEMMA LoseStatusStep ==
  ASSUME OInv, LoseStatus PROVE OInv'
  <1> USE DEF OInv
  <1>1. /\ statuses' = <<>> /\ delays' = [delays EXCEPT !.status = 0]
        /\ UNCHANGED <<paused, resuming, requestId, con, looped, requests, gaveUp, released>>
    BY DEF LoseStatus, pauseVars
  <1>2. delays' \in [request : Nat, status : 0 .. MaxDelay]
    BY <1>1, ConsoleFacts DEF OType
  <1>3. OType'
    BY <1>1, <1>2 DEF OType
  <1> QED  BY <1>1, <1>3 DEF Latest, Answers, Settled, Late, Ends, Slack

\* A status arrives: if it ends a request, that request was obeyed.
LEMMA DeliverStatusStep ==
  ASSUME OInv, DeliverStatus PROVE OInv'
  <1> USE DEF OInv
  <1> DEFINE s == statuses[1]
  <1>1. /\ statuses # <<>> /\ statuses' = <<>> /\ delays' = [delays EXCEPT !.status = 0]
        /\ con' = (IF con = None THEN None ELSE C!ReceiveStatus(con, s)) /\ s \in Status
        /\ gaveUp' = (gaveUp /\ ~(con # None /\ con.pending # None /\ con'.pending = None))
        /\ UNCHANGED <<paused, resuming, requestId, looped, requests, released>>
    BY StatusFacts DEF DeliverStatus, pauseVars
  <1>2. delays' \in [request : Nat, status : 0 .. MaxDelay] /\ delays.status \in 0 .. MaxDelay
        /\ gaveUp' \in BOOLEAN
    BY <1>1, ConsoleFacts DEF OType
  <1> HIDE DEF s
  <1>3. CASE con = None
    <2>1. con' = None
      BY <1>1, <1>3
    <2>2. OType'
      BY <1>1, <1>2, <2>1 DEF OType
    <2> QED  BY <1>1, <2>1, <2>2 DEF Latest, Answers, Settled, Late, Ends
  <1>4. CASE con # None
    <2>1. /\ con \in Consoles /\ con' \in Consoles
          /\ con'.status = s /\ con'.statusAge = 0 /\ con'.requestId = con.requestId
          /\ con'.pending = (IF con.requestId = s.id THEN None ELSE con.pending)
          /\ Moves(con') = Moves(con)
      BY <1>1, <1>4, ReceiveFacts DEF OType
    <2>2. OType'
      BY <1>1, <1>2, <2>1 DEF OType
    <2>3. Latest' /\ Answers'
      BY <1>1, <1>4, <2>1 DEF Latest, Answers
    <2>4. Settled'
      <3> SUFFICES ASSUME ~gaveUp', con'.pending = None
                   PROVE  /\ OnlyAsks(requests, requestId) /\ s.paused = paused
                          /\ Moves(con) => paused
        BY <1>1, <2>1 DEF Settled
      <3>1. CASE con.pending = None
        BY <1>1, <1>4, <3>1 DEF Settled, s
      <3>2. CASE con.pending # None
        <4>1. s.id = con.requestId /\ con.requestId \in Ids /\ con.requestId # None
              /\ ~Moves(con)
          BY <1>4, <2>1, <3>2, ConsoleFacts DEF Latest
        <4>2. requestId = con.requestId /\ s.paused = paused
          BY <1>1, <1>4, <4>1 DEF Answers, s
        <4> QED  BY <1>4, <4>1, <4>2 DEF Latest
      <3> QED  BY <3>1, <3>2
    <2>5. Late'
      <3>1. (s.paused /\ ~paused) => released <= delays.status
        BY <1>1 DEF Late, s
      <3>2. released \in Int /\ delays.status \in Int /\ MaxDelay \in Int
            /\ delays.status <= MaxDelay
        BY <1>2, BlindFacts, ConsoleFacts DEF OType
      <3>3. (s.paused /\ ~paused) => released <= 0 + MaxDelay
        BY <3>1, <3>2
      <3> QED  BY <1>1, <2>1, <3>3 DEF Late
    <2>6. Ends'
      <3>1. Slack \in Nat /\ Slack' = Slack
        BY <1>1, ConsoleFacts DEF Slack, OType
      <3> QED  BY <1>1, <1>4, <2>1, <3>1 DEF Ends
    <2> QED  BY <2>2, <2>3, <2>4, <2>5, <2>6
  <1> QED  BY <1>3, <1>4

LEMMA ClockStep ==
  ASSUME OInv, Clock PROVE OInv'
  <1> USE DEF OInv
  <1>1. /\ statuses # <<>> => delays.status < MaxDelay
        /\ con # None => looped
        /\ con' = (IF con = None THEN None ELSE C!ConAge(con)) /\ looped' = FALSE
        /\ delays' = [request |-> IF requests = <<>> THEN 0 ELSE delays.request + 1,
                      status |-> IF statuses = <<>> THEN 0 ELSE delays.status + 1]
        /\ released' = IF released < Blind THEN released + 1 ELSE released
        /\ UNCHANGED <<paused, resuming, requestId, requests, statuses, gaveUp>>
    BY DEF Clock, pauseVars
  <1>2. /\ delays.request \in Nat /\ delays.status \in 0 .. MaxDelay /\ released \in 0 .. Blind
        /\ MaxDelay \in Nat /\ Blind \in Nat /\ StatusTtl \in Nat
        /\ Blind = MaxDelay + StatusTtl + 2
    BY ConsoleFacts, BlindFacts DEF OType
  <1>3. /\ delays' \in [request : Nat, status : 0 .. MaxDelay]
        /\ statuses # <<>> => delays'.status = delays.status + 1
        /\ released' \in 0 .. Blind /\ released' <= released + 1
    <2>1. /\ (IF requests = <<>> THEN 0 ELSE delays.request + 1) \in Nat
          /\ (IF statuses = <<>> THEN 0 ELSE delays.status + 1) \in 0 .. MaxDelay
      BY <1>1, <1>2
    <2> QED  BY <1>1, <1>2, <2>1
  <1>4. (statuses # <<>> /\ statuses[1].paused /\ ~paused) => released' <= delays'.status
    BY <1>1, <1>2, <1>3 DEF Late
  <1>5. CASE con = None
    <2>1. con' = None
      BY <1>1, <1>5
    <2>2. OType'
      BY <1>1, <1>3, <2>1 DEF OType
    <2> QED  BY <1>1, <1>4, <2>1, <2>2 DEF Latest, Answers, Settled, Late, Ends
  <1>6. CASE con # None
    <2>1. /\ con \in Consoles /\ con' \in Consoles /\ looped
          /\ con'.status = con.status /\ con'.requestId = con.requestId
          /\ con'.pending = con.pending /\ Moves(con') = Moves(con)
          /\ con'.statusAge = IF con.statusAge <= StatusTtl + 1 THEN con.statusAge + 1
                              ELSE con.statusAge
          /\ con.statusAge \in Nat
      BY <1>1, <1>6, AgeFacts DEF OType, Consoles
    <2>2. OType'
      BY <1>1, <1>3, <2>1 DEF OType
    <2>3. Latest' /\ Answers' /\ Settled'
      BY <1>1, <1>6, <2>1 DEF Latest, Answers, Settled
    <2>4. (con.status # None /\ con.status.paused /\ ~paused) =>
            released' <= con'.statusAge + MaxDelay
      BY <1>2, <1>3, <1>6, <2>1 DEF Late
    <2>5. Late'
      BY <1>1, <1>4, <2>1, <2>4 DEF Late
    <2>6. Ends'
      <3>1. Slack = StatusTtl /\ Slack' = StatusTtl + 1
        BY <1>1, <1>2, <2>1 DEF Slack
      <3>2. SUFFICES ASSUME Moves(con)
                     PROVE  con'.statusAge <= Slack' /\ (~paused => released' <= MaxDelay + Slack')
        BY <1>1, <2>1 DEF Ends
      <3>3. con.statusAge <= StatusTtl /\ (~paused => released <= MaxDelay + StatusTtl)
        BY <1>6, <3>1, <3>2 DEF Ends
      <3> QED  BY <1>2, <1>3, <2>1, <3>1, <3>3
    <2> QED  BY <2>2, <2>3, <2>5, <2>6
  <1> QED  BY <1>5, <1>6

LEMMA CompleteStep ==
  ASSUME OInv, CompleteResume \/ UNCHANGED ovars PROVE OInv'
  <1> USE DEF OInv
  <1>1. /\ resuming' \in BOOLEAN
        /\ UNCHANGED <<paused, requestId, con, looped, requests, statuses, delays, gaveUp, released>>
    BY DEF CompleteResume, Complete, nvars, ovars, pauseVars, OType
  <1>2. OType'
    BY <1>1 DEF OType
  <1> QED  BY <1>1, <1>2 DEF Latest, Answers, Settled, Late, Ends, Slack

LEMMA OStep == OInv /\ [ONext]_ovars => OInv'
  BY StartConsoleStep, TurnStep, ToggleStep, ExitStep, JointsStep, DeliverRequestStep,
     LoseRequestStep, SendStatusStep, LoseStatusStep, DeliverStatusStep, ClockStep, CompleteStep
  DEF ONext

LEMMA NodeInductive == OSpec => []OInv
  BY OStart, OStep, PTL DEF OSpec

LEMMA NodeStops == OInv => ManualOnlyPaused /\ SilenceStopsMotion
  <1> SUFFICES ASSUME OInv, Moving PROVE (paused \/ (gaveUp /\ released < Blind))
                                          /\ con.statusAge <= StatusTtl + 1
    BY DEF ManualOnlyPaused, SilenceStopsMotion
  <1>1. con # None /\ Moves(con) /\ con \in Consoles /\ con.pending = None
    BY DEF Moving, Moves, OInv, OType, Latest
  <1>2. Slack \in Nat /\ Slack <= StatusTtl + 1 /\ con.statusAge \in Nat /\ MaxDelay \in Nat
        /\ StatusTtl \in Nat /\ Blind = MaxDelay + StatusTtl + 2 /\ released \in 0 .. Blind
        /\ Blind \in Nat
    BY <1>1, ConsoleFacts, BlindFacts DEF Slack, OInv, OType, Consoles
  <1>3. con.statusAge <= StatusTtl + 1
    BY <1>1, <1>2 DEF OInv, Ends
  <1>4. ~paused => gaveUp
    BY <1>1 DEF OInv, Settled
  <1>5. ~paused => released < Blind
    BY <1>1, <1>2 DEF OInv, Ends
  <1> QED  BY <1>3, <1>4, <1>5

\* The types of the console's node, and that its joint targets stay within LIMITS.
THEOREM NodeTypes == OSpec => []OTypeOK
  <1>1. OInv => OTypeOK
    <2> SUFFICES ASSUME OInv PROVE OTypeOK
      OBVIOUS
    <2>1. Len(statuses) <= 1
      <3>1. CASE statuses = <<>>
        BY <3>1, EmptySeq
      <3>2. CASE statuses \in {<<s>> : s \in Status}
        <4>1. PICK s \in Status : statuses = <<s>>
          BY <3>2
        <4> QED  BY <4>1
      <3> QED  BY <3>1, <3>2 DEF OInv, OType
    <2>2. con # None => /\ con.status \in C!Statuses(Ids) \cup {None}
                        /\ con.pending \in {"pause", "resume", None}
                        /\ con.target \in (LimitLow .. LimitHigh) \cup {None}
      BY DEF OInv, OType, Consoles, Status, C!Statuses
    <2> QED  BY <2>1, <2>2 DEF OInv, OType, OTypeOK
  <1> QED  BY <1>1, NodeInductive, PTL

\* The types of the console's node, of the publisher under it and of the
\* keyboard: the joint targets stay within LIMITS, the filtered arms between the
\* places they have been in, and a route leads to a window exactly to Loop.
THEOREM OperatorTypes == OSpec /\ PSpec /\ KSpec => []OperatorTypeOK
  <1>1. OTypeOK /\ PTypeOK /\ KTypeOK => OperatorTypeOK
    BY DEF OperatorTypeOK
  <1> QED  BY <1>1, NodeTypes, PauseTypes, KeyTypes, PTL

\* What the console cannot see, or is not looked at, moves nothing (tick and run of
\* operator_console.py): keys move the robot only while the publisher really is
\* paused, or, after a request that was given up and obeyed after all, no longer
\* than a message and a status live; motion ends with the status; no key stays
\* down in Loop; without the focus nothing moves and Loop holds no key.
THEOREM ConsoleAlwaysStops == OSpec /\ KSpec => []ConsoleStops
  <1>1. ManualOnlyPaused /\ SilenceStopsMotion /\ NoStuckLoopKey /\ UnfocusedIsSilent
          => ConsoleStops
    BY DEF ConsoleStops
  <1> QED  BY <1>1, NodeInductive, NodeStops, KeysInductive, KeysStop, PTL

\* The protocol the console relies on is the one the publisher promises: every
\* step of the pair is a step of PauseProtocol or leaves the pause alone.
THEOREM PairKeepsProtocol == OSpec => PauseSpec
  <1>1. OInit => PauseInit
    BY DEF OInit
  <1>2. OInv /\ [ONext]_ovars => [PauseNext]_pauseVars
    <2> SUFFICES ASSUME OInv, [ONext]_ovars PROVE [PauseNext]_pauseVars
      OBVIOUS
    <2>1. CASE DeliverRequest
      <3>1. Head(requests).id \in Ids
        BY <2>1, TailKeeps DEF DeliverRequest, OInv, OType, Asked
      <3> QED  BY <2>1, <3>1 DEF DeliverRequest, PauseNext
    <2>2. CASE ~DeliverRequest
      BY <2>2 DEF ONext, StartConsole, Turn, PressToggle, ExitConsole, SpinJoints, LoseRequest,
         SendStatus, DeliverStatus, LoseStatus, Clock, CompleteResume, PauseNext, ovars, pauseVars
    <2> QED  BY <2>1, <2>2
  <1> QED  BY <1>1, <1>2, NodeInductive, PTL DEF OSpec, PauseSpec
=============================================================================
