---------------------------- MODULE TactTrigger ----------------------------
(***************************************************************************)
(* tact_trigger.py: clicks of the two sticks as the leader's tact switches,  *)
(* sampled at controller frames.  "left" cancels an episode and "right"      *)
(* starts or saves one; both together only switch the sticks' mode.          *)
(***************************************************************************)
EXTENDS Naturals

CONSTANT LongPress  \* long_press_duration (2 s)
ASSUME TactAssumption == LongPress \in Nat \ {0}

TactSides == {"left", "right"}
LongEvent == [left |-> "left_long_time", right |-> "right_long_time"]

VARIABLES
  down,    \* prev_left, prev_right: the sides pressed in the last frame
  since,   \* time since left_start, right_start
  long,    \* sides whose long press was reported: left_long, right_long
  both,    \* both_pressed
  events,  \* what the last frame reported
  lasted,  \* history: the sides whose last press was reported as long
  joined   \* history: frames since all were up have shown both pressed
tactVars == <<down, since, long, both, events, lasted, joined>>

TactInit ==
  /\ down = {} /\ since = [s \in TactSides |-> 0] /\ long = {} /\ both = FALSE
  /\ events = {} /\ lasted = {} /\ joined = FALSE

MutantStaysLong(pressed) == long \cap pressed
\* a press that was long is remembered until the side is pressed again, or
\* until the last of the sides goes up
StaysLong(pressed) == long \ (pressed \ down)

MutantEpisodeBoth(pressed) == pressed = TactSides
EpisodeBoth(pressed) == both \/ pressed = TactSides

\* update, and _process_tact_buttons, which keeps "both" to itself
TactFrame(pressed) ==
  LET age == [s \in TactSides |-> IF s \in pressed \ down THEN 0 ELSE since[s]]
      old == StaysLong(pressed)
      longer == {s \in pressed \ old : age[s] >= LongPress}
      both1 == EpisodeBoth(pressed)
      up == pressed = {} /\ down # {}
      shorts == IF up /\ ~both1 THEN {s \in down : down = {s} /\ s \notin old} ELSE {}
  IN  /\ events' = {LongEvent[s] : s \in longer} \cup shorts \cup (IF up /\ both1 THEN {"both"} ELSE {})
      /\ since' = age /\ down' = pressed
      /\ long' = (old \cup longer) \ (IF up THEN down ELSE {})
      /\ both' = (both1 /\ ~up)
      /\ lasted' = (lasted \ (pressed \ down)) \cup longer
      /\ joined' = ((joined /\ down # {}) \/ pressed = TactSides)

TactTick ==
  /\ since' = [s \in TactSides |-> IF since[s] = LongPress THEN LongPress ELSE since[s] + 1]
  /\ UNCHANGED <<down, long, both, events, lasted, joined>>

TactNext == TactTick \/ \E pressed \in SUBSET TactSides : TactFrame(pressed)
TactSpec == TactInit /\ [][TactNext]_tactVars

-----------------------------------------------------------------------------
\* A click cancels or saves an episode only when it was short and the other
\* side was not pressed with it: what ends a long press, or the two sides let go
\* one after the other, is not a click.
ClicksAreShort ==
  [][\A s \in TactSides : (s \in events' /\ down # down') =>
       s \notin lasted /\ ~joined]_tactVars

\* Both sides are reported as both once all are up, whatever went up first.
BothIsSaid ==
  [][(down # {} /\ down' = {} /\ joined) => events' = {"both"}]_tactVars
=============================================================================
