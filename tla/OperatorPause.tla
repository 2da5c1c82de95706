--------------------------- MODULE OperatorPause ---------------------------
(***************************************************************************)
(* The SH5 publisher under the operator console: OperatorPauseMixin of      *)
(* operator_hand.py over the neck publisher of vr_publisher_hand_neck.py or *)
(* over the original one.  One re-entrant lock makes every handler of the   *)
(* mixin atomic, so a handler is one action here.  A body event gathers the *)
(* arm goals into a batch; on a resume the batch is released only when the  *)
(* guard finds it fresh, near the held pose and still.                      *)
(*                                                                         *)
(* Places are one-dimensional.  A complete batch has the six arm poses; an  *)
(* incomplete one lacks a joint whose matrix was degenerate.                *)
(***************************************************************************)
EXTENDS PauseProtocol, Integers

CONSTANTS
  Modes,        \* subset of {"neck", "original"}: the --mode of the launch
  Places,       \* where the operator's arms can be
  FreshTicks,   \* .25 s: age up to which hands count
  JumpLimit, ReturnLimit, StillLimit, StableTicks

ASSUME OperatorAssumption ==
  /\ Modes \subseteq {"neck", "original"}
  /\ Places \subseteq Int /\ FreshTicks \in Nat /\ StableTicks \in Nat
  /\ JumpLimit \in Nat /\ ReturnLimit \in Nat /\ StillLimit \in Nat
  /\ ReturnLimit <= JumpLimit   \* .05 m of .08 m, 15 degrees of 20
  /\ None \notin Int /\ None \notin [raw : Int, goal : Int]

G == INSTANCE TrackingGuard

VARIABLES
  mode,        \* which publisher the mixin wraps
  enabled,     \* vr_publishing_enabled
  guard,       \* operator_guard
  track,       \* tracking_guard of the neck publisher
  hands,       \* age of the older of operator_hands / hand_received
  body,        \* neck: age of body_received
  filter,      \* pose_filters
  goal,        \* the last arm goals published
  told,        \* the last Bool on /reactivate
  apart        \* history: "partial", an incomplete batch was published after the last
               \* complete one; "strayed", the neck guard followed a discarded batch

armVars == <<mode, enabled, guard, track, hands, body, filter, goal, told, apart>>
pvars == <<pauseVars, armVars>>

PInit ==
  /\ mode \in Modes
  /\ PauseInit
  /\ enabled = FALSE
  /\ guard = G!Start /\ track = G!Start
  /\ hands = None /\ body = None
  /\ filter = None /\ goal = None
  /\ told = None
  /\ apart = "no"

Later(age) == IF age \in 0 .. FreshTicks THEN age + 1 ELSE age

\* Time passes for the stamps the handlers compare with.
PAge ==
  /\ hands' = Later(hands) /\ body' = Later(body)
  /\ guard' = G!Age(guard) /\ track' = G!Age(track)
  /\ UNCHANGED <<mode, enabled, paused, resuming, requestId, filter, goal, told, apart>>

HandsFresh == hands \in 0 .. FreshTicks

-----------------------------------------------------------------------------
(* The rclpy thread.                                                       *)

\* operator_request with a new id
PauseRequest(id) ==
  /\ Pause(id)
  /\ guard' = G!Hold(guard)
  /\ told' = FALSE
  /\ UNCHANGED <<mode, enabled, track, hands, body, filter, goal, apart>>

\* operator_request ends in operator_status, which repeats the disable
ResumeRequest(id) ==
  /\ Resume(id)
  /\ paused => resuming' = enabled
  /\ told' = IF resuming' THEN FALSE ELSE told
  /\ UNCHANGED <<mode, enabled, guard, track, hands, body, filter, goal, apart>>

\* operator_status, ten times a second: the disable is repeated while held
RepeatDisable ==
  /\ paused \/ resuming
  /\ told' = FALSE
  /\ UNCHANGED <<mode, enabled, paused, resuming, requestId, guard, track, hands, body, filter, goal,
                 apart>>

MutantOverride(to) ==
  /\ enabled' = to /\ told' = to
  /\ UNCHANGED <<mode, paused, resuming, requestId, guard, track, hands, body, filter, goal, apart>>
MutantEndHold(to) ==
  /\ enabled' = to /\ told' = to
  /\ paused' = FALSE /\ resuming' = FALSE
  /\ UNCHANGED <<mode, requestId, guard, track, hands, body, filter, goal, apart>>

\* reactivate_callback: an enable is ignored while the operator holds
Override(to) ==
  /\ ~((paused \/ resuming) /\ to)
  /\ enabled' = to /\ told' = to
  /\ UNCHANGED <<mode, paused, resuming, requestId, guard, track, hands, body, filter, goal, apart>>

\* check_tracking of the neck publisher
CheckTracking ==
  /\ mode = "neck" /\ enabled /\ ~(HandsFresh /\ body \in 0 .. FreshTicks)
  /\ track' = G!Hold(track)
  /\ UNCHANGED <<mode, enabled, paused, resuming, requestId, guard, hands, body, filter, goal, told,
                 apart>>

-----------------------------------------------------------------------------
(* The vuer thread.                                                        *)

\* on_hand_move: both stamps, and the neck guard on invalid hands
HandMove(valid) ==
  /\ hands' = IF valid THEN 0 ELSE None
  /\ track' = IF mode = "neck" /\ ~valid THEN G!Hold(track) ELSE track
  /\ UNCHANGED <<mode, enabled, paused, resuming, requestId, guard, body, filter, goal, told, apart>>

MutantGestureToggle ==
  /\ ~paused /\ ~resuming
  /\ enabled' = ~enabled
  /\ UNCHANGED <<mode, paused, resuming, requestId, guard, track, hands, body, filter, goal, told,
                 apart>>

\* _update_gesture_toggle: a completed hold, unless the operator holds
GestureToggle ==
  /\ ~paused /\ ~resuming
  /\ enabled' = ~enabled /\ told' = ~enabled
  /\ UNCHANGED <<mode, paused, resuming, requestId, guard, track, hands, body, filter, goal, apart>>

Filtered(p) == IF filter = None THEN p ELSE (filter + p) \div 2
Batch(p) == [raw |-> p, goal |-> Filtered(p)]

\* what operator_guard is given: the mixin keeps no raw poses of a neck publisher
Seen(p) == [raw |-> IF mode = "neck" THEN Filtered(p) ELSE p, goal |-> Filtered(p)]

MutantNeckPasses(p, complete) == complete /\ HandsFresh

\* neck: the batch reaches the mixin only when the tracking guard accepts it
NeckPasses(p, complete) == complete /\ HandsFresh /\ G!Accepts(track, Batch(p))
Passes(p, complete) == IF mode = "neck" THEN NeckPasses(p, complete) ELSE TRUE

NeckTrack(p, complete) ==
  IF mode # "neck" THEN track
  ELSE IF ~complete \/ ~HandsFresh THEN G!Hold(track)
  ELSE G!Offer(track, Batch(p))

Publish(p, complete) ==
  /\ filter' = Filtered(p) /\ goal' = Filtered(p)
  /\ apart' = IF complete THEN "no" ELSE "partial"

MutantRemembered(p, complete) == guard
Remembered(p, complete) == IF complete THEN [guard EXCEPT !.last = Seen(p)] ELSE guard

BodySeen == IF mode = "neck" THEN 0 ELSE body
Discard == UNCHANGED <<filter, goal, apart>>

\* a body event while the session is off: the neck guard holds
BodyDisabled ==
  /\ ~paused /\ ~enabled
  /\ track' = IF mode = "neck" THEN G!Hold(track) ELSE track
  /\ body' = BodySeen
  /\ Discard
  /\ UNCHANGED <<mode, enabled, paused, resuming, requestId, guard, hands, told>>

\* a body event while teleoperating
BodyMove(p, complete) ==
  /\ ~paused /\ ~resuming /\ enabled
  /\ track' = NeckTrack(p, complete) /\ body' = BodySeen
  /\ IF Passes(p, complete)
     THEN /\ Publish(p, complete)
          /\ guard' = Remembered(p, complete)
     ELSE Discard /\ UNCHANGED guard
  /\ UNCHANGED <<mode, enabled, paused, resuming, requestId, hands, told>>

\* a body event on a resume: old hands, then an incomplete or refused batch,
\* leave everything as it was; an accepted one is published and re-arms
BodyResume(p, complete) ==
  /\ ~paused /\ resuming /\ enabled /\ HandsFresh
  /\ track' = NeckTrack(p, complete) /\ body' = BodySeen
  /\ LET whole == complete /\ Passes(p, complete)
         released == whole /\ G!Accepts(guard, Seen(p))
     IN /\ guard' = IF whole THEN G!Offer(guard, Seen(p)) ELSE guard
        /\ resuming' = ~released
        /\ told' = IF released THEN TRUE ELSE told
        /\ IF released THEN Publish(p, TRUE)
           ELSE /\ UNCHANGED <<filter, goal>>
                /\ apart' = IF whole /\ mode = "neck" THEN "strayed" ELSE apart
  /\ UNCHANGED <<mode, enabled, paused, requestId, hands>>

-----------------------------------------------------------------------------
HandEvent == \E valid \in BOOLEAN : HandMove(valid)
BodyEvent == BodyDisabled \/ \E p \in Places, complete \in BOOLEAN :
                                BodyMove(p, complete) \/ BodyResume(p, complete)

\* with the request identifiers that may still come
PNext(ids) ==
  \/ \E id \in ids : PauseRequest(id) \/ ResumeRequest(id)
  \/ RepeatDisable
  \/ \E to \in BOOLEAN : Override(to)
  \/ CheckTracking \/ GestureToggle
  \/ HandEvent \/ BodyEvent
  \/ PAge

PSpec == PInit /\ [][PNext(Ids)]_pvars

-----------------------------------------------------------------------------
\* the filter may stop anywhere between two places, never beyond them
Reach == {x \in Int : \E low, high \in Places : low <= x /\ x <= high}

PTypeOK ==
  /\ mode \in Modes
  /\ enabled \in BOOLEAN /\ paused \in BOOLEAN /\ resuming \in BOOLEAN
  /\ requestId \in Ids \cup {None}
  /\ guard \in G!Guards(Reach) /\ track \in G!Guards(Reach)
  /\ \A g \in {guard, track} : g.candidate = None <=> g.stable = None
  /\ {hands, body} \subseteq (0 .. FreshTicks + 1) \cup {None}
  /\ filter \in Reach \cup {None} /\ goal \in Reach \cup {None}
  /\ told \in BOOLEAN \cup {None} /\ apart \in {"no", "partial", "strayed"}

\* While the operator holds or waits to resume, the robot is never told to
\* arm: no gesture, override or body event re-arms it before the guard agrees.
HeldMeansDisarmed == (paused \/ resuming) => told # TRUE

\* Outside a hold the robot is told what the publisher does.
ToldFollows == (~paused /\ ~resuming /\ told # None) => told = enabled

\* A resume continues where the arms were left: the first goals published
\* after a hold are within the return limit of the last ones, unless those
\* came from an incomplete batch, which the guard does not remember.
ResumeNear ==
  [][(resuming /\ ~resuming' /\ enabled' /\ told' = TRUE /\ goal # None /\ apart # "partial")
       => G!Near(goal, goal', ReturnLimit)]_pvars

\* The neck publisher never moves its goals by more than the jump limit,
\* whatever tracking does in between and however often the session is toggled.
\* One path is left out: while a resume waits, the neck guard goes on following
\* the batches the mixin discards, and when the console pauses again and the
\* session is switched off and resumed by gesture, the next batch is compared
\* with a discarded one.
NeckNeverJumps ==
  [][(mode = "neck" /\ goal # None /\ apart # "strayed") => G!Near(goal, goal', JumpLimit)]_pvars

\* The guard remembers the arms' true last goals, up to incomplete batches.
GuardRemembers ==
  (guard.last # None /\ apart # "partial") => guard.last.goal = goal

\* A pause holds: the arms stay disarmed, the subscribers of the state are
\* told, and the guards remember the last pose that was sent.
PauseHolds == HeldMeansDisarmed /\ ToldFollows /\ GuardRemembers
=============================================================================
