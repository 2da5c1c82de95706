-------------------------- MODULE OperatorConsole --------------------------
(***************************************************************************)
(* OperatorConsole of operator_console.py: the node that asks the publisher *)
(* to pause or resume and, while it is paused, moves base, head and lift.   *)
(* The record `con` has the node's fields; one group of joints stands for   *)
(* head and lift.  An operator X(c, ...) is the method X on the fields c.   *)
(* node.keys is computed anew in each turn: the argument `keys`.  Times are *)
(* ages in ticks.                                                          *)
(***************************************************************************)
LOCAL INSTANCE Integers

CONSTANTS
  StatusTtl,       \* .5 s: a status is fresh up to this age
  SettleTicks,     \* .2 s after a request before manual motion
  RequestTimeout,  \* 2 s without an acknowledgement
  JointTtl,        \* .5 s: a joint measurement counts up to this age
  Measurements,    \* joint positions that may be measured
  LimitLow, LimitHigh,  \* LIMITS
  Lead,            \* how far a target may be ahead of the measurement
  Step,            \* speed * dt of one tick
  MotionKeys,      \* the keys the operator may hold
  None

Statuses(ids) == [paused : BOOLEAN, resuming : BOOLEAN, id : ids \cup {None}]

ConInit == [status |-> None, statusAge |-> 0, requestId |-> None, requestAge |-> RequestTimeout,
            pending |-> None, baseMoving |-> FALSE, moving |-> FALSE,
            target |-> None, joint |-> None, jointAge |-> 0]

Grow(age, bound) == IF age <= bound THEN age + 1 ELSE age

ConAge(c) == [c EXCEPT !.statusAge = Grow(@, StatusTtl + 1),
                       !.requestAge = Grow(@, RequestTimeout),
                       !.jointAge = Grow(@, JointTtl)]

\* receive_status: an acknowledgement of the current id ends the request
ReceiveStatus(c, s) ==
  [c EXCEPT !.status = s, !.statusAge = 0,
            !.pending = IF c.requestId = s.id THEN None ELSE @]

ReceiveJoints(c, value) == [c EXCEPT !.joint = value, !.jointAge = 0]

\* request: _send_request is left to the tick that ends the same loop turn
Request(c, id, command) ==
  [c EXCEPT !.requestId = id, !.pending = command, !.requestAge = 0]

FreshStatus(c) == c.status # None /\ c.statusAge <= StatusTtl

\* toggle: refused without a fresh status or behind a pending request
MayToggle(c) == FreshStatus(c) /\ c.pending = None
Toggle(c, id) == Request(c, id, IF c.status.paused THEN "resume" ELSE "pause")

MutantAnyTime(c) == FreshStatus(c) /\ c.status.paused
MutantOldStatus(c) ==
  c.status # None /\ c.status.paused /\ c.pending = None /\ c.requestAge >= SettleTicks

ManualAllowed(c) ==
  /\ FreshStatus(c) /\ c.status.paused
  /\ c.pending = None /\ c.requestAge >= SettleTicks

Measured(c) == IF c.jointAge <= JointTtl THEN c.joint ELSE None

\* bounded_step
Between(low, x, high) == IF x < low THEN low ELSE IF x > high THEN high ELSE x
MutantBoundedStep(measured, target, direction) == target + direction * Step
BoundedStep(measured, target, direction) ==
  Between(LimitLow, Between(measured - Lead, target + direction * Step, measured + Lead),
          LimitHigh)

MutantRetry(c) == c

\* what a tick does with an unanswered request
Retry(c) ==
  IF c.pending # None /\ c.requestAge >= RequestTimeout
  THEN [c EXCEPT !.pending = None, !.status = None] ELSE c

Direction(keys) == (IF "plus" \in keys THEN 1 ELSE 0) - (IF "minus" \in keys THEN 1 ELSE 0)

\* the joint group: no feedback, a step, the stop at the measurement
GroupTick(c, keys) ==
  LET m == Measured(c)
      d == Direction(keys)
  IN IF m # None /\ d # 0
     THEN [c EXCEPT !.moving = TRUE,
                    !.target = BoundedStep(m, IF @ = None THEN m ELSE @, d)]
     ELSE [c EXCEPT !.moving = FALSE, !.target = None]

\* tick: keys fall when manual motion is not allowed; the base follows the keys
Tick(c, keys) ==
  LET asked == Retry(c)
      held == IF ManualAllowed(asked) THEN keys ELSE {}
  IN GroupTick([asked EXCEPT !.baseMoving = "base" \in held], held)

\* a request is (re)sent by every tick in which it is pending
Sends(c) == Retry(c).pending # None

StopMotion(c) == Tick(c, {})
=============================================================================
