---------------------------- MODULE RobotSession ----------------------------
(***************************************************************************)
(* hardware.robot_session, the coordinator on the robot: it brings up or   *)
(* takes over the follower, moves the arms to the ready pose, runs the     *)
(* controller with the command gate, watches its processes, and on any end *)
(* stops motion first, then the follower, and releases the finger torque.  *)
(*                                                                         *)
(* The only signal is the SIGTERM of watch_host, which ends the session    *)
(* when the host's terminal or connection is gone.  Python runs its        *)
(* handler between two bytecodes of the main thread: Preempt says whether  *)
(* that may be between the start of a process and the statement that       *)
(* records it, or in the finally clause before signals are ignored.        *)
(*                                                                         *)
(* The SIGKILL of the coordinator itself, which no code can answer, is     *)
(* left out.                                                               *)
(***************************************************************************)
EXTENDS SequencesExt

CONSTANTS
  OptionSets,    \* the command lines: sets of options
  Preempt        \* a signal may arrive inside a start or before SIG_IGN

Options == {"bringup", "ready_pose", "loop", "camera"}

ASSUME OptionAssumption ==
  OptionSets \subseteq SUBSET Options /\ Preempt \in BOOLEAN

Services == {"router", "follower"}
Children == {"guard", "mover", "loader", "controller", "streamer"}
Owned == Services \cup Children

\* What commands the follower, and what owns the serial port of the fingers.
Movers == {"controller", "mover"}
PortOwners == {"follower", "existing"}

Startup == {"router", "router_wait", "guard", "follower", "follower_start",
            "ready", "pose", "pose_wait", "loader", "controller", "streamer",
            "watch"}
Cleanup == {"close", "hush", "children", "follower_stop", "reused_stop",
            "release", "services_stop"}
Ended == {"done", "aborted"}

VARIABLES
  option,            \* the command line
  stage,             \* where main is
  launched,          \* a process that was started and is not yet recorded
  children,          \* the list of that name
  services,          \* the set of those in the list of that name
  alive,             \* trees with a live process; "existing" is another's
  outer_router,      \* port 7447 is served by another's router
  found,             \* main has found a follower running
  follower_started, reused_follower,
  survivors,         \* stop() has raised: processes outlived SIGKILL
  mover_failed,
  fingers,           \* torque of the finger motors
  release_error,
  failed,            \* the session ends with an exception
  lease, signalled   \* the host is there; watch_host has sent SIGTERM

listVars    == <<launched, children, services>>
followerVars == <<found, follower_started, reused_follower>>
worldVars   == <<option, outer_router>>
robotVars   == <<alive, survivors, mover_failed, fingers>>
leaseVars   == <<lease, signalled>>
endVars     == <<release_error, failed>>
vars == <<stage, listVars, followerVars, worldVars, robotVars, leaseVars,
          endVars>>

TypeOK ==
  /\ option \in OptionSets
  /\ stage \in Startup \cup Cleanup \cup Ended
  /\ launched \in Owned \cup {"none"}
  /\ children \in Seq(Children) /\ IsInjective(children)
  /\ services \subseteq Services
  /\ alive \subseteq Owned \cup {"existing"} /\ survivors \subseteq Owned
  /\ {outer_router, found, follower_started, reused_follower, mover_failed,
      release_error, failed, lease, signalled} \subseteq BOOLEAN
  /\ fingers \in {"on", "off"}

Init ==
  /\ option \in OptionSets /\ outer_router \in BOOLEAN
  /\ stage = "router" /\ launched = "none"
  /\ children = <<>> /\ services = {}
  /\ alive \in {{}, {"existing"}}
  /\ fingers \in {"on", "off"}
  /\ found = FALSE /\ follower_started = FALSE /\ reused_follower = FALSE
  /\ survivors = {} /\ mover_failed = FALSE
  /\ release_error = FALSE /\ failed = FALSE
  /\ lease = TRUE /\ signalled = FALSE

-----------------------------------------------------------------------------
(* Startup. *)

Recorded == services \cup ToSet(children)

At(here) == stage = here /\ launched = "none"

\* start(): the process runs; the caller has not yet put it in its list.
Start(name) ==
  /\ launched' = name
  /\ alive' = alive \cup {name}
  /\ UNCHANGED <<stage, children, services, followerVars, worldVars, survivors,
                 mover_failed, fingers, leaseVars, endVars>>

After == [router |-> "router_wait", guard |-> "follower", follower |-> "ready",
          mover |-> "pose_wait", loader |-> "controller",
          controller |-> "streamer", streamer |-> "watch"]

MutantIsService == launched = "router"
IsService == launched \in Services

Record ==
  /\ launched # "none" /\ launched' = "none"
  /\ stage' = After[launched]
  /\ IF IsService
     THEN services' = services \cup {launched} /\ UNCHANGED children
     ELSE children' = Append(children, launched) /\ UNCHANGED services
  /\ UNCHANGED <<followerVars, worldVars, robotVars, leaseVars, endVars>>

Goto(there) ==
  /\ stage' = there
  /\ UNCHANGED <<listVars, worldVars, robotVars, leaseVars>>

\* RuntimeError inside the try block.
Fail == Goto("close") /\ failed' = TRUE /\ UNCHANGED <<followerVars, release_error>>

\* start(), or what its caller prepares for it, may raise
TryStart(name) == Start(name) \/ Fail

Proceed(there) == Goto(there) /\ UNCHANGED <<followerVars, endVars>>

Router ==
  /\ At("router")
  /\ \/ outer_router /\ Proceed("guard")
     \/ ~outer_router /\ "bringup" \notin option /\ Fail
     \/ ~outer_router /\ "bringup" \in option /\ TryStart("router")

RouterWait ==
  /\ At("router_wait")
  /\ ("router" \in alive /\ Proceed("guard")) \/ Fail

\* A follower that another launch owns is taken over if the launch is unique; one
\* of the session's own needs --bringup and a description that can be made.
Follower ==
  /\ At("follower")
  /\ \/ "existing" \in alive
        /\ \/ /\ Goto("ready") /\ found' = TRUE
              /\ UNCHANGED <<follower_started, reused_follower, endVars>>
           \/ Fail
     \/ /\ "existing" \notin alive /\ "bringup" \in option
        /\ Goto("follower_start") /\ follower_started' = TRUE
        /\ UNCHANGED <<found, reused_follower, endVars>>
     \/ "existing" \notin alive /\ Fail

\* ready() returns on stable feedback and raises when a process of the session
\* has exited or when 120 s are over; a physical leader that runs is found out
\* after the follower has been taken over.
Ready ==
  /\ At("ready")
  /\ \/ /\ alive \cap PortOwners # {}
        /\ reused_follower' = found
        /\ \/ Goto("pose") /\ UNCHANGED failed
           \/ Goto("close") /\ failed' = TRUE
        /\ UNCHANGED <<found, follower_started, release_error>>
     \/ Fail

Pose ==
  /\ At("pose")
  /\ IF ~found \/ "ready_pose" \in option
     THEN TryStart("mover") ELSE Proceed("loader")

MutantMoverDone == ~mover_failed
MoverDone == "mover" \notin alive /\ ~mover_failed

\* mover.poll(): it ends the wait, or the exit of another process does.
PoseWait ==
  /\ At("pose_wait")
  /\ \/ /\ MoverDone
        /\ stage' = "loader" /\ children' = RemoveFirst(children, "mover")
        /\ UNCHANGED <<launched, services, followerVars, worldVars, robotVars,
                       leaseVars, endVars>>
     \/ "mover" \notin alive /\ mover_failed /\ Fail
     \/ "mover" \in alive /\ ~(Recorded \subseteq alive) /\ Fail

\* The camera's nodes may be running already.
Loader ==
  /\ At("loader")
  /\ \/ {"loop", "camera"} \subseteq option /\ TryStart("loader")
     \/ Proceed("controller")

Streamer ==
  /\ At("streamer")
  /\ IF "loop" \in option THEN TryStart("streamer") ELSE Proceed("watch")

\* wait(): the loader may exit, the exit of any other process ends the session.
Watch == At("watch") /\ ~(Recorded \ {"loader"} \subseteq alive) /\ Fail

StartupStep ==
  \/ Record \/ Router \/ RouterWait \/ Follower \/ Ready \/ Pose \/ PoseWait
  \/ Loader \/ Streamer \/ Watch
  \/ At("guard") /\ TryStart("guard")
  \/ At("follower_start") /\ TryStart("follower")
  \/ At("controller") /\ TryStart("controller")

-----------------------------------------------------------------------------
(* Cleanup: the finally clause. *)

Close == stage = "close" /\ Proceed("hush")

\* SIGINT to the command producers before anything waits.
Hush ==
  /\ stage = "hush" /\ stage' = "children"
  /\ \E exiting \in SUBSET (Movers \cap ToSet(children)) : alive' = alive \ exiting
  /\ UNCHANGED <<listVars, followerVars, worldVars, survivors, mover_failed,
                 fingers, leaseVars, endVars>>

\* stop(): every process with the owner's token is gone, or RuntimeError, which
\* the coordinator prints.
Stop(name) ==
  /\ \/ alive' = alive \ {name} /\ UNCHANGED survivors
     \/ name \in alive /\ survivors' = survivors \cup {name} /\ UNCHANGED alive
  /\ UNCHANGED <<launched, followerVars, worldVars, mover_failed, fingers,
                 leaseVars, endVars>>

MutantToStop == SelectSeq(children, LAMBDA name : name # "streamer")
ToStop == children

StopChildren ==
  /\ stage = "children"
  /\ \/ ToStop = <<>> /\ Proceed("follower_stop")
     \/ /\ ToStop # <<>>
        /\ Stop(Last(ToStop)) /\ children' = Front(ToStop)
        /\ UNCHANGED <<stage, services>>

StopFollower ==
  /\ stage = "follower_stop" /\ stage' = "reused_stop"
  /\ \/ /\ "follower" \in services /\ Stop("follower")
        /\ services' = services \ {"follower"} /\ UNCHANGED children
     \/ /\ "follower" \notin services
        /\ UNCHANGED <<listVars, followerVars, worldVars, robotVars, leaseVars,
                       endVars>>

\* stop_follower_launch: it does not look at the nodes of a launch that has
\* exited, and gives a live one 10 s.
StopReused ==
  /\ stage = "reused_stop" /\ stage' = "release"
  /\ IF reused_follower THEN alive' \in {alive, alive \ {"existing"}}
                        ELSE UNCHANGED alive
  /\ UNCHANGED <<listVars, followerVars, worldVars, survivors, mover_failed,
                 fingers, leaseVars, endVars>>

\* hand_shutdown: refused on a port in use; any motor may fail to answer.
MutantIdle == "follower" \notin alive
Idle == alive \cap PortOwners = {}

Release ==
  /\ stage = "release" /\ stage' = "services_stop"
  /\ \/ /\ ~follower_started /\ ~reused_follower
        /\ UNCHANGED <<fingers, release_error>>
     \/ /\ follower_started \/ reused_follower
        /\ \/ Idle /\ fingers' = "off" /\ UNCHANGED release_error
           \/ release_error' = TRUE /\ UNCHANGED fingers
  /\ UNCHANGED <<listVars, followerVars, worldVars, alive, survivors,
                 mover_failed, leaseVars, failed>>

StopServices ==
  /\ stage = "services_stop" /\ stage' = "done"
  /\ \/ /\ "router" \in services /\ Stop("router")
        /\ services' = {} /\ UNCHANGED children
     \/ /\ "router" \notin services
        /\ UNCHANGED <<listVars, followerVars, worldVars, robotVars, leaseVars,
                       endVars>>

CleanupStep ==
  \/ Close \/ Hush \/ StopChildren \/ StopFollower \/ StopReused \/ Release
  \/ StopServices

-----------------------------------------------------------------------------
(* The host, the signal, the processes. *)

HostGone ==
  /\ stage \notin Ended /\ lease /\ lease' = FALSE
  /\ UNCHANGED <<stage, listVars, followerVars, worldVars, robotVars, signalled,
                 endVars>>

MutantInterruptible == stage = "watch"
Interruptible == stage \in Startup /\ (launched = "none" \/ Preempt)

\* SIGTERM: KeyboardInterrupt in the try block, ignored in the cleanup.
Interrupt ==
  /\ ~lease /\ ~signalled /\ signalled' = TRUE
  /\ \/ /\ Interruptible
        /\ stage' = "close" /\ launched' = "none" /\ UNCHANGED failed
     \/ /\ stage = "close" /\ Preempt
        /\ stage' = "aborted" /\ failed' = TRUE /\ UNCHANGED launched
     \/ /\ stage \in Cleanup \ {"close"}
        /\ UNCHANGED <<stage, launched, failed>>
  /\ UNCHANGED <<children, services, followerVars, worldVars, robotVars, lease,
                 release_error>>

ProcessExit(name) ==
  /\ stage \notin Ended
  /\ name \in alive /\ alive' = alive \ {name}
  /\ mover_failed' \in IF name = "mover" THEN BOOLEAN ELSE {mover_failed}
  /\ UNCHANGED <<stage, listVars, followerVars, worldVars, survivors, fingers,
                 leaseVars, endVars>>

\* The driver of a running follower enables torque.
DriverEnables ==
  /\ stage \notin Ended
  /\ alive \cap PortOwners # {} /\ fingers = "off" /\ fingers' = "on"
  /\ UNCHANGED <<stage, listVars, followerVars, worldVars, alive, survivors,
                 mover_failed, leaseVars, endVars>>

MainStep == StartupStep \/ CleanupStep

Next ==
  \/ MainStep \/ HostGone \/ Interrupt \/ DriverEnables
  \/ \E name \in Owned \cup {"existing"} : ProcessExit(name)

\* main runs, and a pending signal is handled; every wait of the cleanup has
\* a time limit.  Nothing is assumed of the processes or of the host.
Spec == Init /\ [][Next]_vars /\ WF_vars(MainStep) /\ WF_vars(Interrupt)

-----------------------------------------------------------------------------
(* Properties. *)

\* "The foreground session owns the VR controller": when the session is over,
\* whatever it started is gone, or its stop has been reported as incomplete.
NothingLeftRunning == stage \in Ended => alive \cap Owned \subseteq survivors

\* "On Ctrl+C or terminal closure first stops command production": the arms
\* have no commander left when their follower is taken away.
CommandsStopFirst ==
  stage \in {"follower_stop", "reused_stop", "release", "services_stop"}
    => alive \cap Movers \subseteq survivors

\* A session that ends without an error after it has started or taken over a
\* follower has released the fingers, and nothing is left to power them again.
CleanEndReleasesFingers ==
  stage = "done" /\ ~failed /\ ~release_error
    /\ (follower_started \/ reused_follower)
  => fingers = "off" /\ alive \cap PortOwners = {}

\* Closing the host's terminal ends the session, wherever its startup is.
HostGoneEndsSession == ~lease ~> stage \in Ended
=============================================================================
