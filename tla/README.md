# A TLA+ model of the AI Worker VR teleoperation

An operator with a Quest headset moves the arms of an AI Worker robot. Hand
poses travel through a chain of processes, and each of them may stop the motion:

```
 Quest ──WebSocket──> PC process ──wrist goals──> Cyclo controller (robot)
                      HardwareXRPublisher              │ arm setpoints
                        │ intent 10 Hz, reset          v
                        └────────────────────> command gate ──> follower arms,
                          gate_status <──────  HardwareCommandGate  fingers, base
                                                       │ status, intent
 Loop window, keyboard ──keys──> PC process            v
                                                recorder of demonstrations
 host terminal ──ssh, lease──> robot_session, pc_session: start, watch and stop
                               the processes, release the fingers
```

Beside this gated path the repository has publishers that command Cyclo directly
(`vr_publisher_sh5`, `vr_publisher_sg2` and what is built on them) and an
operator console that pauses one of them.

The gate is the last process before the follower, so it was modelled first and
proved about. Then came the PC process, which decides when the arms are armed,
the coordinators, which decide what runs at all, and the publishers, the
console, the recorder and the small programs around them.

## Inventory

Everything below is under `src/`; `rv` stands for `robotis_vuer/robotis_vuer`.

| component | state it keeps | operations | talks to |
|---|---|---|---|
| **Robot command gate** `hardware/command_gate.py` (with `xr_contract.py`, `aux_controls.py`, `controller_hand_modes.py`) | receipt times, the PC session and its lease, arming, the two Cyclo setpoints, last output, fault latch, keyboard lease, auxiliary motion | one callback per topic, `tick` at 50/100 Hz, `reset_fault`, the hold at shutdown | reads intent, joint and motor states, Cyclo setpoints; writes the follower topics and `gate_status` |
| **PC arming session** `rv/vr_publisher_ai_worker_hardware.py` on top of five layers (`vr_publisher_sg2`, `_xr`, `_xr_resume`, `_xr_extension`, `_xr_overhead`) | phase, arming, calibration, receipt times, resume bridge, fault latch, reset in flight | controller and body events (Vuer thread); timer, status, joint, command and future callbacks (rclpy thread) | Quest events in; wrist goals and `reactivate` to Cyclo; intent and the reset service to the gate |
| **PC intent heartbeat** (same file, 271-300) | sequence number | 10 Hz timer and on-change heartbeat | both threads; the gate's lease |
| **PC profile verification** (same file, 185-227, 302-410) | announced and retired gates, manifest, verdict, pending replies | status filter, request, retry, late reply | parameter services of the gate and Cyclo |
| **Loop recording** `hardware/loop_vr_contract.py`, `loop_clock.py`, `loop_vr_streamer.py` | last status of the gate, last intent, anchor of the PC's clock | callbacks, stream tick | Loop's server |
| **SH5 hands publisher** `rv/vr_publisher_sh5_hands_hardware.py`, `hardware/keyboard_controls.py` | key lease, rest of the base, gesture, finger frames | key message, enable service, hand and body frames, tick | the PC arming session, Cyclo, the gate |
| **Loop keyboard** `rv/loop_operator.py` | keys seen, focus, what Loop believes pressed | a poll each 30 ms, close, signals | X server, the hands publisher |
| **Controller hands** `hardware/controller_hand_modes.py`, `sh5_controller_hands.py` | taps, captured grip; per hand target, preparation, hold | frames and packets; ticks | PC to robot: intent extension; robot: finger topics |
| **Tact trigger** `rv/tact_trigger.py` | press times of two sticks | one update per frame | episode events of the recorder |
| **SH5 publisher** `rv/vr_publisher_sh5.py` | session flag, height, planar and head references, lift goal, stored hands, filters | gesture, override, odometry (rclpy thread), body and hand events (Vuer thread) | Cyclo, base, lift, head |
| **SG2 publisher** `rv/vr_publisher_sg2.py` | arm latch, times of three sources, stick mode, lift goal | controller and body events (Vuer thread), tracking timer (rclpy thread) | Cyclo, base, lift, head |
| **Operator console** `rv/operator_console.py`, `loop_keys.py` | request in flight, status, targets; devices and key routes | key turns, tick, status | the paused publisher, Loop |
| **Paused publisher** `rv/operator_hand.py`, `vr_publisher_hand_neck.py`, `arm_tracking_guard.py` | pause, request, batch, the guard's held pose | request, gesture, body event, override | console, arms |
| **Robot session lifecycle** `hardware/robot_session.py`, `session_processes.py`, `host_lease.py`, `hand_shutdown.py` | lists of children and services, reused follower, lease | start, watch, ordered stop, signals, release of the fingers | processes, the host's stdin, serial port |
| **PC session** `hardware/pc_session.py` | list of processes, lease | the same for Vuer and the Loop keyboard | processes, the robot's router |
| **Ready pose** `hardware/ready_pose.py`, `ready_pose_precheck.py` | goal handles, deadlines; health of the motor bus | send, wait, cancel; samples | action servers of the follower |
| **XR delta publisher** `rv/vr_publisher_sg2_xr.py` as an executable | captured wrists, anchors, activation, receipt times | controllers, head, joint states, tracking timer | Cyclo of the simulated SG2 |
| **Simulation relay** `sim/sh5_sim_bridge.py` | measured and commanded joints, last output, receipt times | joints, status, commands, tick | Cyclo and the simulated SH5 |
| geometry, other executables, Isaac Sim bridge, build and model tools | - | - | not modelled, see the end |

What is hard in each, and what makes it correct:

- **Gate.** Its eight inputs age independently; three limits (.5 s, 5 s, 50 s)
  and two authorities (armed PC, held key) decide together what may move, and
  several paths clear part of the outputs. Correct means: everything that moves
  has an owner at that moment; nothing received before an arming is forwarded
  after it; the slew limiter starts from what the follower holds; a short gap
  costs nothing, a lost PC stops everything; a fault is cleared only while
  disarmed; a second PC and another motor tuple never take over.
- **PC process.** Two threads, one lock that covers only part of the rclpy
  callbacks, a service answer that is handled later than it arrives, and six
  classes overriding the same methods. Correct means: Y+B stands; an arming finds
  the robot at rest; hands move only after a startup that Cyclo has answered;
  Cyclo is active only in the session that activated it; a fault stops; a gap
  inside the grace only waits; a reset request ends. What it knows of the gate
  is never that of an earlier gate, and what it tells the gate is heard.
- **Recorder.** It hears two processes that may restart, over topics that lose,
  repeat and delay, and has to date what it records with a third computer's
  clock. Correct means: no frame is marked a demonstration that was not one when
  its marks were sent.
- **Input.** Keys, buttons, pinches and frames come from windows, watchers and
  cameras that lose them. Correct means: nothing starts that was not asked for
  by itself, nothing goes on that nobody holds, no key stays down elsewhere.
- **Publishers.** Two threads switch sessions under each other; poses of several
  sources are combined. Correct means: references belong together, goals do not
  jump, lost tracking stops.
- **Console.** It sees the publisher by a lossy status only. Correct means: keys
  move the robot only while the publisher is known to be paused, a pause holds, a
  resume is gentle.
- **Coordinators.** Any process may die at any time, a signal may interrupt any
  statement, and what was started must be stopped in the right order. Correct
  means: nothing is left running unreported, the arms lose their commander
  before their follower, the fingers are limp after a clean end, the end of
  the host ends the session, and an arm that was sent off is taken back.

`PROJECT.json` lists every hazard with its line and the properties that would
catch it going wrong.

## Modules

| module | of | |
|---|---|---|
| `ArmedRelay` | abstract | what the gate promises about arm motion: drive only while armed and fault free, a fault disarms, clearing needs a disarmed gate |
| `CommandGate` | `command_gate.py` | the whole gate; refines `ArmedRelay` |
| `PcArming` | the publisher and its layers | the arming session with both threads |
| `IntentRace` | heartbeats, `CommandGate`'s filter | two threads sharing a sequence number, up to the gate's acceptance |
| `GateLink` | status filter and parameter queries | the PC's knowledge of the gate, across restarts |
| `LoopRecording` | `RecordingStatus`, `PCRecordingClock` | the recorder's marks and dates |
| `LoopKeyboard`, `HandInput` | `loop_operator.py`, the hands publisher | the keys at the PC, and how keys, service and gesture start, stop and move |
| `ControllerHands` | both halves of the controller hands | buttons to grips, grips to fingers |
| `TactTrigger` | `tact_trigger.py` | short, long and joint presses |
| `VrPublisher`, `ArmPoses` | `vr_publisher_sh5.py` | the SH5 session with both threads; wrist, elbow and shoulder goals |
| `Sg2Publisher` | `vr_publisher_sg2.py` | the SG2 latch, its timer, the six poses of a frame, the sticks |
| `PauseProtocol` | abstract | what the console relies on |
| `TrackingGuard`, `OperatorPause` | `arm_tracking_guard.py`, `operator_hand.py`, neck publisher | the paused publisher; refines `PauseProtocol` |
| `OperatorConsole`, `Operator` | `operator_console.py` | the console's node, and its composition with `PauseProtocol` over lossy topics |
| `OperatorKeys` | `run()` and `loop_keys.py` | the keyboard shared with Loop |
| `RobotSession`, `PcSession` | the two coordinators | |
| `ReadyPose`, `MotorPrecheck` | the two programs | the mover with two action servers; the health of the bus before it |
| `XrDelta` | `vr_publisher_sg2_xr.py` | the executable with Cyclo as its environment |
| `SimRelay` | `sh5_sim_bridge.py` | the relay, which follows or holds |
| `PyNone` | Python's `None` | |
| `CommandGateProofs`, `PcArmingProofs`, `PcProcessProofs`, `RobotSessionProofs`, `StationProofs`, `PublisherProofs`, `OperatorProofs`, `OperatorPauseProofs` | | the theorems, see below |
| `MCCommandGate`, `MCGateLiveness`, `MCPcArming`, `MCPcProcess`, `MCPublishers`, `MCOperator`, `MCRobotSession`, `MCStation` | | constants, symmetry and views for TLC |

In all of them a wrong variant of a definition, named `Mutant...`, stands before
the definition it could replace. It is a plausible bug, and each property of
each passing run is shown to notice one of them.

**Views.** Components that do not interact, or interact through something that
is kept abstract on both sides, share a run: the MC module has a variable `view`
that says which of them moves, and the others stay in their first state. A
view's states add up instead of multiplying, each component is checked with all
its interleavings, and a property of such a run is the conjunction of the
properties of its parts, which keep their names in their modules and are
explained there.

### CommandGate

The rclpy executor of the gate has one thread: a callback is one action, and
`Tick` is the timer with all its branches (`TickFault`, `TickStill`,
`TickManual`, `TickManualExpired`, `TickWaiting`, `TickForward`,
`TickHandFault`, in the order in which `tick` tries them). `Hold` and `Latch`
are the methods of those names and are used by every action that calls them.

Receipt times become *ages*. `Elapse` makes all of them one unit older, and an
age saturates at `MaxAge`, one unit past `Wait`, the longest limit the code
compares with; nothing the code does can tell saturated ages apart. The limits
(`HandLease` .. `Wait`) are constants, ordered as in the code and nothing more.

The contents of setpoints are classes: `previous` is empty, the pose measured at
arming or an earlier output; a joint sample is inside the limits, outside, or
moved a frozen joint; a motor state is bad, read, or read with torque. A
rejected or repeated message is a stutter. `follower_goal`, `base_moving` and
`output_active` are what a listener on the follower topics has seen last.

### PcArming

`vuer` and `ros` are the program counters of the two threads. The Vuer thread
takes `_xr_lock` for a whole event, so it has two places: idle, and before the
publication with which a controller event ends. The rclpy thread runs its gate
callbacks without the lock; where such a callback makes a second unlocked step,
the counter names the statement that comes next: `stop`/`tail` (the locked part
of `_set_arm_control_enabled(False)` and what the hardware class appends to it),
`answered`/`accepted`/`refused` (a reset answer taken by the executor, then its
done callback), `unlatch`/`phase`/`enable`/`seed` (the statements of a confirmed
reset), `timer`/`expiry`.

`Preempt` says whether a Vuer event may run between two such statements. With
FALSE the callbacks of the two threads do not overlap, which is what the code
mostly relies on; with TRUE they do, which is what CPython allows. `StopStands`
fails under `Preempt` (a finding below). X+A between the two unlocked statements
of a confirmed reset (`vr_publisher_ai_worker_hardware.py:210`) starts a session
that skips the stationary startup, so `HandsMoveAfterStartup` fails there too.

Six classes override the same methods; an action is the method that actually
runs, with each `super()` call in its place, and `map` names the file of each
part. The frame a publication sends is only "moved" (it follows the hands) or
not. `world_ok` is the verdict of everything that is not an age: the writers in
the ROS graph, the verified profile, TF, and the poses. The gate is present as
the reports it may send.

### IntentRace, GateLink, LoopRecording

`IntentRace` splits `_heartbeat` at the statements between which the other
thread can come (take a number, read the flag, read the number, send), and ends
in the comparison by which the gate accepts an intent. It covers one life of the
PC and of the gate. Two overlapping heartbeats can leave the gate armed for up
to one 100 ms heartbeat after a stop (`:285-291`): the property is therefore
about a heartbeat nobody overtook, and `StopReachesGate` about what follows. The
SH5 hands publisher takes `_xr_lock` around its heartbeats.

`GateLink` numbers the gates in the order of their start. What it shows is
narrow: after a restart with another manifest `verified` stays TRUE until the
first status of the new gate; a PC that starts during a restart may hear the new
gate first and then a late status of the old one, and then retires the new gate
for good.

`LoopRecording` has messages that are lost, repeated and late, and the PC's
clock as the numbers it sends. The gate reports only "forwarding" in the run,
since what else it can report removes the mark by itself. After the PC's clock
was stepped, the recorder marks nothing until it is restarted.

### LoopKeyboard, HandInput, ControllerHands, TactTrigger

`LoopKeyboard` is one poll per action, with the X server and the Loop window as
environment, except that a signal may come between the C it sends to Loop and
`discard_down` (`TerminateInPoll`): `close()` then owes nothing, and Loop keeps C
down, the exception in `LoopCReleased`. `stale` is history: the keys that have been
down since before the last interruption. Its messages arrive in `HandInput` (`Deliver`), where every
handler holds `_xr_lock` and is one action. The arming is `PcArming`'s and here
only off, starting or active. `ControllerHands` has the PC's half (taps, chords,
grips) and the robot's half (targets, thumb-first preparation, hold), which meet
in the packets of the intent; taps shorter than the 30 ms sample are unseen.
Hand mode 1 and the native hand messages are left out.

### VrPublisher, ArmPoses, Sg2Publisher, XrDelta, SimRelay

`VrPublisher` has a program counter per thread, and every read or write of
something the other thread uses is a step: the flag of
`_set_vr_publishing_enabled` alone is read, written, tested and tested again in
four steps (649, 651, 654, 681). Statements are merged only when nothing the other
thread does between them can be told apart; the capture of a missing odometry
reference (1411-1417) is taken to end the capture of the camera's, with which it
shares nothing. Nothing locks the two threads, and this is what overlap does in
the code and in the model:

- A body event that captures references between the two blocks of the override's
  reset (659 and 660-663) has its place reference erased. The height stays, so no
  later event captures anything, and each one fails in the subtraction at 1421
  (`RelateFails`) until the next reset.
- A body event that begins or is under way between the override's write of the
  flag and the end of its reset relates to the references from before the pause.
- A body event that was under way when the override disabled sends one Twist after
  the explicit zero, and the base goes on until somebody else stops it.
- When both threads switch at once, the reset may be skipped, and the controller
  may be told the opposite of what the publisher does.

`SwitchIsWhole` does not exclude these overlaps. It says what holds under all
of them (`RefsOfOneFrame`, the first half of `BaseStands`), that each failure has
the cause named here and no other (`TornByCapture`, `OldRefsWhileRising`,
`ToldTruth`), and that an enabling which overlaps with nothing ends it
(`FreshStart`). No document or comment promises more, so none is a violation run.
`history` records which overlap there was; no guard reads it.

`ArmPoses` counts goals in parts of a unit, so that the scale 1.4 is an integer
(`VrScale` to `Unit`; 3 to 2 in the run, 7 to 5 in the code, any two naturals in
the proofs). `publish_relative_pose` scales what is relative to the head
and adds the head's own height unscaled (925-935): with the coupling a resting
hand's wrist goal follows the head by .4 of its motion, in the opposite sense, and without it by 1.4.
`HeadMotionBounded` bounds the motion by just that, over the whole range
of the head's heights since the goal had arrived, however often the filter ran.
The offsets of the joints are added after the clamp (969-971), so the published
elbow may be farther from its wrist than `max_elbow_wrist_distance` by the
difference of the two; `ElbowNearWrist` is about the goals without them.

`Sg2Publisher` splits a frame into its six poses, each of which looks at the
latch again before it is sent. An unusable elbow tears the frame
(`vr_publisher_sg2.py:1285-1303`): what was sent before it stays sent. Whether a
role's rate limit is over when a frame asks is left open (`CheckPose`). The grip
and squeeze commands, which are sent also while the arms are off (1318-1378),
the coupling of the lift into the poses and the head's stick goals are left out;
the lift's goal integrates without bound (1021-1028), so the model cuts it.
While disabled, a body event of the SH5 still publishes zero finger trajectories
(`vr_publisher_sh5.py:1353-1355`).

`SimRelay`: commands that Cyclo sends after a stop fill the buffer again and may
be followed at the next enabling while they are younger than
`COMMAND_MAX_AGE`; `FollowsNoOldGoal` says no more than that.

### OperatorPause, PauseProtocol, OperatorConsole, Operator, OperatorKeys

One re-entrant lock makes each handler of the mixin atomic. `PauseProtocol` is
what the console may rely on; `OperatorPause` implements it with its guards, and
`Operator` composes it with the console over two lossy, delayed FIFO topics. A
request that was given up and is obeyed after all may mislead the console for as
long as a message and a status live: `ManualOnlyPaused` says how long, and
no longer. A hold with a stale measurement publishes nothing. An arm that
strayed while the neck publisher held is taken up where it is: the exception in
`NeckNeverJumps`. The mixin keeps the raw poses of the original publisher only
(107-113), so its guard of a neck publisher compares the goals (`Seen`). The path
`invalid_pose` of `ArmTrackingGuard.accept` is left out: it holds, as `hold` does.

A turn of `OperatorKeys` asks `manual_allowed` twice (336, and 159 in `tick`). A
status that expires in between stops the motion and keeps the route, so motion goes
on with the next status without a new press: `lapsed`, the exception in
`FreshPressMoves`.

### RobotSession, PcSession, ReadyPose, MotorPrecheck

`stage` is the place in `main`. A start has two steps, as in the code: `Start`
runs the process and `Record` puts it in its list. `alive` holds the process
trees by owner token, `"existing"` being a follower launch that was there
before. Any process may exit at any time; `stop()` ends with the tree gone, or
raises because it outlived SIGKILL (`survivors`), which the coordinator prints
and then goes on. `Interrupt` is the SIGTERM of the host lease:
KeyboardInterrupt in the `try` block, ignored in the cleanup. `Preempt` says
whether it may arrive between a start and its record, or before the cleanup has
ignored signals. What `start` and its callers do may raise (`TryStart`).
`pc_session.py:68-70` has the same window; in `PcSession` a
start and its record are one step.

`ReadyPose` keeps what the mover knows of a goal apart from what the action
server does, and the answer to a request (`RequestReply`) apart from its done
callback `remember_handle` (`RememberHandle`), which the executor runs as a later
task. `cancel_moves` waits for the answers only (198): when the last one ends the
wait and the callback of an accepted goal has not run, that arm finishes its
goal. `AbortStopsArms` excepts just this arm; no document promises otherwise, so it
is a hazard and not a finding. Ctrl+C and SIGTERM shut the ROS context down before the
cancellations are sent, and then `AbortStopsArms` says nothing; the session stops
the follower next. `MotorPrecheck` judges by `good_since`, against `calm`, the
time since something was last seen to be wrong.

## Runs

| run | views | asks | distinct states |
|---|---|---|---|
| `gate_arms` | - | the arm relay without keyboard through every gap length, `Wait` = 2 units, `Fresh` = 1, so that fresh, waiting and expired are three different ages | 781 842 |
| `gate_auxiliary` | - | arms, base, auxiliary joints and fingers with the keyboard, two PC sessions and two motor tuples competing under `strict_torque`, all sample kinds; refinement of `ArmedRelay` | 727 312 |
| `gate_liveness` | gate, heartbeats | a stop at the PC reaches the gate, and the arms and the base stop after the PC is gone | 129 666 |
| `gate_slew_manual` | - | violation, see findings | |
| `pc_session` | - | resets, faults and refusals, one side, every limit 0 (an age is fresh or expired) | 302 356 |
| `pc_gaps` | - | both sides, all five gate reports, three kinds of age, a startup with nonzero delay and hold; no resets | 1 067 586 |
| `pc_threads` | arming, link, intent, record | the arming with the Vuer thread preempting; the gate's restarts, late replies, overlapping heartbeats and the recorder | 1 289 554 |
| `pc_stop_race` | - | violation, see findings | |
| `publishers` | lift, base, poses, arms, sticks, taps, fingers, tact, xr, relay | switching, loss, goals, buttons and grips of the headset publishers | 1 601 728 |
| `operator` | link, arms, keys | console, pause, resume, shared keyboard | 224 766 |
| `session` | session, pc, keys, moves, gesture, precheck, pose | every command line (12 sets of options), every failure; input to motion; ready pose | 475 673 |
| `session_leak` | - | violation, see findings | |

Each takes at most three minutes with two workers. Properties with parts:

| property | parts |
|---|---|
| `StopReachesGate` | `StopIsHeard` (IntentRace), `LostLeaseStopsMotion` (the arms' and the base's end) |
| `LinkIsCurrent` | `ManifestIsCurrent`, `VerifiedMatches`, `QuietBeatTells`, `DemonstrationWasMoved`, `DemonstrationHasPcTime` |
| `SwitchIsWhole` | `RefsOfOneFrame`, `TornByCapture`, `OldRefsWhileRising`, `FreshStart`, `BaseStands`, `ToldTruth` |
| `LossStopsArms` | `LossDisarms`, `OneLatePose`, `FramesAreNew`, `HeadModeStandsBase` |
| `GoalsStayNear` | `LiftNeverJumps`, `ElbowNearWrist`, `WristTurnsSlowly`, `HeadMotionBounded`, `AnchorIsMeasured`, `CycloStartsAtAnchor`, `StillHandMovesNothing`, `HoldsOnePose`, `FollowsNoOldGoal` |
| `ButtonsMeanOneThing` | `TapsAreAlone`, `ClicksAreShort`, `BothIsSaid`, `StartAfterRelease` |
| `GripsStand` | `HeldGripStays`, `HandNeverJumps`, `ThumbGoesFirst` |
| `ConsoleStops` | `ManualOnlyPaused`, `SilenceStopsMotion`, `NoStuckLoopKey`, `UnfocusedIsSilent` |
| `ResumesGently` | `ToggleRecovers`, `ResumeNear`, `NeckNeverJumps`, `FreshPressMoves` |
| `PoseIsWhole` | `PassIsSteady`, `AbortStopsArms`, `ReadyIsBoth` |
| `MotionIsAsked` | `OperatorInputSafe` (`LoopCReleased`, `BaseWithArmsIsBrief`, `FingersStartAfresh`), `PressStartsMotion`, `GestureIsDeliberate` |
| `EveryStopArrives` | `HostGoneEndsSession`, `PcSessionEnds`, `UnattendedStops`, `MoverEnds`, one per view |

Each part was broken by a mutant of its own; those that are kept stand in the
modules. The parts of `SwitchIsWhole` break when the publisher does not ask the flag
before a body event, forgets a reference in the reset or in the capture, leaves out the
zero, or announces the former state.

**Bounds.** Ages have two to four values: the code compares an age with its
limits and never with another number, and ages advance together, so one unit
between two limits lets every order of expiry occur. Two sides are enough for
"one arm only"; runs where the side does not matter take one. Two sessions are
the smallest number with a takeover, and since the gate remembers only the last
one, a third behaves like the first again. The phases of `PcArming` need
`Startup` = 2 in `pc_gaps`, so that an answer before the activation delay and
one after it both happen. `MaxGate` = 2 has one restart; `MaxQueries` = 2 a
retry beside a late reply. `MaxWire` bounds messages on the way, `MaxRun` the
restarts of the PC, `MaxHeld` the keys held at once, `MaxWindows` the windows of Loop,
`MaxDelay` the delay of a console topic. Two heights and two places of the headset
are a frame from before a pause and one from after it; the robot stands in the run, for no
property of it reads the odometry's value, only whether there is one. Places are few and one-dimensional:
four places with limits of one step have near, far, returning and strayed arms.
`Ids` = 3 requests have one under way, one obeyed and one given up.

**Symmetry** of sides is used in `gate_arms` and `pc_gaps`, where no liveness is
checked. `CHECK_DEADLOCK FALSE` is set for the gate and the coordinator, which
end; the other runs check for deadlock.

**Fairness.**
- Gate: weak fairness of `Tick` and `Elapse` while the node spins, because an
  rclpy timer is served and the clock runs. Nothing is assumed of the PC, of
  Cyclo or of feedback.
- `IntentRace`: weak fairness of the timer and of a heartbeat that has begun.
- `PcArming`: weak fairness of `VuerPublish` (an event that has begun ends) and
  strong fairness of `RosStep`, `TimerCheck` and `Elapse`: the Vuer thread
  releases `_xr_lock` between events, so the rclpy thread is enabled again and
  again, not continuously. It is *not* assumed that the gate answers a reset.
- `RobotSession`, `PcSession`: weak fairness of `main` and of the handling of a
  pending signal, since every wait of the cleanup has a time limit. It is not
  assumed that a process exits: without the signal a session may run for ever.
- `HandInput`: weak fairness of its clock, of delivery and of the poll.
  `ReadyPose`: of the mover's own steps, not of the servers.
- `Operator`: the clock, the console's turn, the publisher's status; a request
  is delivered or lost; of statuses sent again and again one arrives (strong
  fairness of `DeliverStatus`).
- The publishers have only safety properties and no fairness.

## Findings

Each is the single property of a violation run; TLC's trace is the story.

- **`gate_slew_manual`**. After a keyboard lease has expired, `tick` holds (the
  follower gets the measured pose) and goes on in the arm branch with the arming
  and `previous` untouched; when Cyclo refills the commands, the slew limiter steps from an
  output the follower no longer holds. Only profiles with keyboard control are affected:
  without it `SetpointContinuity` is checked in `gate_arms` and proved.
- **`pc_stop_race`**. Y+B between the executor taking a reset answer and the
  done callback does not cancel the restart.
- **`session_leak`**. SIGTERM between the start of the controller and its
  `append` leaves the controller running after the session.

With keyboard control a gap shorter than `Wait` may also latch a startup fault:
the expired keyboard lease clears the commands, and more than 10 s after the
arming incomplete commands are a fault. It has the same cause as
`gate_slew_manual`; `GapOnlyHolds` is therefore checked and proved for profiles
without keyboard.

Documents that lag behind the code, found on the way: `hardware/README.md:60-64`
and `:312` and the message at `vr_publisher_ai_worker_hardware.py:509` speak of
a wait of 5 s and a hold from .5 s on, while `hardware/README.md:628`,
`xr_contract.py` and the publisher use 50 s and 5 s. The models use the code's.
The comment above `_hardware_gate_fault` wants an immediate stop on the fault
Bool; after the first accepted reset `_fault_status_only` stays set and the Bool
is no longer heeded (the detailed status stops the session instead).

## Theorems

The theorems hold for every value of the constants that the named assumptions of
the modules allow. These say no more than the code: limits and durations are
naturals, in the order of the code's numbers where their order matters
(`ThresholdAssumption`, `DurationAssumption`, `HandInputAssumption`; in
`OperatorAssumption` `ReturnLimit <= JumpLimit`, from .05 m and 15 degrees against .08 m
and 20 degrees); sets of inputs are subsets of what the model knows; and
`None` is none of the numbers, strings and records it is compared with, as in
Python. Two are about Cyclo and not about this code, in `XrAssumption`: it
follows `/reactivate` sooner than the least gap the node takes for a missing source
(`Reaction < SourceGap`) and goals arrive before the settling time is over
(`GoalDelay < Settling`). The node waits by the clock and asks nothing back, so
without them it cannot tell a wrist from before a stop from one after it. Where a theorem has the hypothesis `Preempt = FALSE`, it fails without it
and the findings show how. Theorems about several components that share no
variable read `SpecA /\ SpecB => [](...)`: each component by itself, which is
also what a run with views checks. `OperatorTypes` joins two that do share some:
`OSpec` and `PSpec` have the pause variables in common, so a request arrives in both.

| module | theorem | states |
|---|---|---|
| `CommandGateProofs` | `TypeCorrect`, `OutputAuthority`, `BaseAuthority`, `HandsAuthority`, `FreshCommands` | the five invariants of the gate |
| | `MotorIdentity`, `SessionChange` | the two action properties |
| | `Refinement` | `Spec => RelaySpec` |
| | `SlewContinuity`, `GapTolerance` | for profiles without keyboard |
| `PcArmingProofs` | `TypeCorrect`, `FaultStops`, `SeedsInactive`, `GapsOnlyWait` | under either scheduling of the threads |
| | `StopsStand`, `CycloFollows`, `HandsMoveAfter`, `ArmingsAtRest`, `FollowsFresh` | for callbacks that run whole |
| `PcProcessProofs` | `ManifestStaysCurrent`, `BeatTells`, `DemonstrationsAreFresh`, `LinkStaysCurrent` | `LinkIsCurrent` and its parts |
| `RobotSessionProofs` | `TypeCorrect`, `CleanEnd` | wherever a signal arrives |
| | `NothingRuns`, `CommandsStop` | no signal between a start and its record |
| `StationProofs` | `PoseStaysWhole`, `MotionStaysAsked`, `StationTypes` | `PoseIsWhole`, `MotionIsAsked`, `StationTypeOK` |
| `PublisherProofs` | `LossStops`, `SwitchStaysWhole` | `LossStopsArms`, `SwitchIsWhole` |
| | `GoalsAlwaysNear` | `GoalsStayNear`: lift, arm goals, XR session and relay |
| | `TapsStayAlone`, `ClicksMeanOneThing`, `ReleaseComesFirst`, `ButtonsAlwaysMeanOneThing` | `ButtonsMeanOneThing` and its parts |
| | `GripsAlwaysStand`, `PublisherTypes` | `GripsStand`, `PublishersTypeOK` |
| `OperatorPauseProofs` | `PauseStands`, `KeepsProtocol`, `ResumesNear`, `NeckSteady`, `PauseTypes` | `PauseHolds`; `OperatorPause` implements `PauseProtocol`; the guarded resume; `PTypeOK` |
| `OperatorProofs` | `ConsoleAlwaysStops`, `PairKeepsProtocol`, `HoldsDoNotResume`, `NodeTypes`, `OperatorTypes` | `ConsoleStops`; `Operator` implements `PauseProtocol`; `OperatorTypeOK` |

### The inductive invariants

None of the properties is inductive as it stands. What each proof adds, and why:

- **Gate.** `IInv == TypeOK /\ OutputHasAuthority /\ BaseHasAuthority /\
  HandsFollowArms /\ CommandsSinceArming`. The conjuncts need one another. A
  repeated fault leaves all outputs as they are, which is harmless only because
  a faulted gate is not driving (`OutputHasAuthority`) and its base is at rest
  (`BaseHasAuthority`). A refused or foreign intent disarms without holding when
  nothing was driven, which is right only because what drives is armed; and the
  fingers stop with the arms only if they were not moving alone before
  (`HandsFollowArms`). `CommandsSinceArming` needs the types: ages keep their
  order when they grow and saturate (`OlderFacts`). `SlewContinuity` and
  `GapTolerance` follow the follower's goal from the arming on (`ArmedStep`).
- **PcArming.** `ResetInv`: a callback in the middle of its statements has the
  state its first statements left (`CallbacksWhole`), a request, its answer and
  the barrier exclude one another (`ResetProtocol`), and a stop has ended all of
  them (`StopEndsReset`). Only with these does Y+B stand. `StartupInv` orders the startup:
  a phase tells which of the two answers were heard, and Cyclo is active only
  from the activation on.
- **GateLink.** A query that is still live was sent to the announced gate
  (`OneLive`), what was answered was served by a gate that had run by then
  (`FromServing`), and a reply of the announced gate is later than its
  announcement (`RepliesLater`).
- **IntentRace.** Two heartbeats under way know of each other (`Meet`); one that
  met none has read what is still true (`Unmet`).
- **LoopRecording.** What was accepted last is the latest of what was sent by
  that run (`LatestFollows`), and the clock is between what the PC's messages
  allow (`ClockFollows`), which bounds the effect of delays.
- **RobotSession.** `Core` (the lists have no duplicates and say where their
  processes were started), `StoppedSoFar` (which parts of the ordered stop are
  behind a stage), `Accounted` (everything alive is listed, was just started, or is
  reported) and `Released` (what a clean end knows of the fingers).
- **Station.** `MotorPrecheck`: `good_since` is never older than `calm`.
  `ReadyPose`: what the mover has heard of a server the server has done (`Heard`),
  and each phase has the handles it needs (`Phases`). Keyboard: while armed no key
  is stale (`KeyInv`). `HandInput`: base keys and arms overlap no longer than the
  keys have been there, and a base that has not come to rest blocks the start
  by a hand (`Brief`); fingers are from this session (`Fresh`); a held gesture was
  seen without a gap (`Deliberate`).
- **Publishers.** SG2: nothing is too old between the timer's run and the end of
  its period (`TimerInTime`), a pose that passed its checks is the only one that
  can still be sent (`LateInv`), and a frame consists of pending poses
  (`FrameInv`). SH5: which steps a thread's former reads allow (`Turns`), and what is announced so
  far (`Announced`). References are, in whatever step the two threads are, those of
  the frame that captured last (`OneFrame`), torn only behind a capture inside a
  reset (`TornRefs`), old only during a rise (`OldRefs`) and new after one that
  nothing overlapped (`FreshRefs`). When the flag is off, either a zero is still to
  come, or the event under way may send the one Twist, or the base stands (`Stands`). `StartAfterRelease` needs that an armed start has seen both
  buttons up and no source too old since (`Waits`).
- **Arm goals and lift.** The elbow's goal is next to the wrist's only because
  the wrist's goal is the filter's with its offset and both sides have the same
  joints filtered (`PoseInv`). The wrist of a resting hand stays in the sweep of its
  targets because each target is in it and the filter halves the way to it
  (`RestInv`, lemmas `Sweep` and `Linear`). The lift is somewhere between two heights that were asked of it, not
  at one of them (`LiftSpan`).
- **Controller hands and tact.** At the PC a candidate for a tap is the only button
  of its episode, and a chord's parts are never candidates (`TapInv`); the grip the
  trigger was pulled with is the code's own memory of it (`GripKept`). At the
  robot an inactive output remembers nothing (`OutputInv`), and until the thumb is
  placed neither the filter nor the order of the other fingers is beyond the
  preparation's `reach` (`ReachInv`): the order alone is not inductive, for the
  filter runs ahead of it. A long press is remembered while it lasts (`TactInv`).
- **XR delta publisher.** What a session has at which step (`InSession`); that what
  Cyclo commanded recently is no older than Cyclo's reaction to the stop
  (`FromBefore`, of the node and of the topic), which holds through `CycloInv`: the
  lag of Cyclo grows with the time since the stop; and that goals from before the
  arming are gone before settling ends (`GoalsInTime`).
- **Relay.** No goal outlives a stop (`RawInv`).
- **OperatorPause.** What the guards remember is what was published while they
  hold (`Held`, `GuardKnows`, `TrackKnows`); the neck publisher's flags agree
  (`NeckWhole`). The types need that the low-pass filter stays between the places
  the arms have been in (`Reach`, `ReachFacts`) and that a guard measures stillness
  exactly while it has a candidate (`Paired`).
- **Operator.** The topics are FIFO, so the latest request trails
  (`Latest`), a status answers what was obeyed before it (`Answers`), a pair in
  agreement stays so (`Settled`), a request obeyed late was given up before
  (`Late`), and motion ends with the age of the status (`Ends`).
- **OperatorKeys.** Whatever is routed is pressed, and what moves or has lapsed is
  the routes to the robot (`KInv`).

Each proof of a step has one lemma per action or group of actions; what a group
leaves alone is stated once (`...Frame`) and cited.

### Only model-checked

- Liveness: `StopReachesGate`, `EveryStopArrives`, `ResetSettles`, and
  `ToggleRecovers` inside `ResumesGently`. It needs ENABLED and is out of the
  prover's reach. The other three parts of `ResumesGently` are theorems.

Every safety invariant and every action property of the passing runs is a theorem.

No module declares a RECURSIVE operator; nothing here needs induction over data.

## Plan

Done: the gate, the PC process, the recorder, the input devices, the publishers,
the console, the coordinators and the ready pose, with their runs; proofs as
listed. Left:

1. A tick of the gate that is split at its emissions, each of which may raise.
2. Hand mode 1 and the native hand messages; the register writes of the hand
   release, board by board.

## Not modelled

- The **geometry** (wrist frames, workspace projection, calibration
  overlays): real-valued; its verdicts are inputs (`world_ok`, refused frames).
- **Other publishers** (`vr_publisher_hx5`, `_sh5_sim`, pose observation and
  preparation): separate executables outside the paths above.
- The **DDS bridge inside Isaac Sim** (`sg2_dds_bringup.py`) and the logger. In the
  bridge a message with a gripper only refreshes its side's stamp, so older arm
  goals are followed again.
- **Tactile and torque evidence**: readers of telemetry; torque is the health of a
  motor report in `CommandGate`.
- **Build, certificate, network and model tools**: sequential programs run before a session.
- In the gate: reason strings and the contents of `gate_status`, the arithmetic
  of the slew limits, and a publisher that raises in the middle of an emission.
- In the PC process: WAIT_START (never entered with `REZERO_ON_READY`), the stick and
  trigger outputs of the hardware publisher, and time passing inside a callback.
- In the coordinators: what runs before the `try` block, repeated Ctrl+C, SIGKILL of the
  coordinator, the escalation of signals in `stop()`, and log and PID files.
