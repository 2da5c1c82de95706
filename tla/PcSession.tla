----------------------------- MODULE PcSession -----------------------------
(***************************************************************************)
(* hardware.pc_session: the session at the PC waits for the robot's router,  *)
(* starts the Loop keys (if asked for) and Vuer, and ends with either of     *)
(* them, with Ctrl+C or with its host.  What a signal does between a start    *)
(* and the append that records it, or before the finally clause ignores      *)
(* signals, is shown in RobotSession; here each of the two is one step.      *)
(***************************************************************************)
EXTENDS SequencesExt

PcNames == {"keys", "vuer"}

VARIABLES
  pcStage,      \* where main is
  pcLoop,       \* --loop vr with --input hands
  robotRouter,  \* port 7447 of the robot answers
  pcProcesses,  \* the list processes
  pcAlive,      \* process trees
  pcSurvivors,  \* stop() has raised
  pcHost, pcSignalled  \* the host is there; its SIGTERM has been handled
pcVars == <<pcStage, pcLoop, robotRouter, pcProcesses, pcAlive, pcSurvivors, pcHost, pcSignalled>>

PcSessionInit ==
  /\ pcStage = "router" /\ pcLoop \in BOOLEAN /\ robotRouter \in BOOLEAN
  /\ pcProcesses = <<>> /\ pcAlive = {} /\ pcSurvivors = {}
  /\ pcHost = TRUE /\ pcSignalled = FALSE

PcGoes(there) ==
  /\ pcStage' = there
  /\ UNCHANGED <<pcLoop, robotRouter, pcProcesses, pcAlive, pcSurvivors, pcHost, pcSignalled>>

\* wait_for_router: the port answers, or 120 s are over
RouterAnswers == pcStage = "router" /\ robotRouter /\ PcGoes(IF pcLoop THEN "keys" ELSE "vuer")
RouterMissing == pcStage = "router" /\ ~robotRouter /\ PcGoes("stopping")

\* start() and append, or an exception of start()
PcStart(name) ==
  /\ pcStage = name
  /\ \/ /\ pcStage' = IF name = "keys" THEN "vuer" ELSE "watch"
        /\ pcProcesses' = Append(pcProcesses, name) /\ pcAlive' = pcAlive \cup {name}
        /\ UNCHANGED <<pcLoop, robotRouter, pcSurvivors, pcHost, pcSignalled>>
     \/ PcGoes("stopping")

\* wait(): one of them has exited
OneExited == ~(ToSet(pcProcesses) \subseteq pcAlive)
PcWatch == pcStage = "watch" /\ OneExited /\ PcGoes("stopping")

\* a host that is gone takes the stops with it
MutantToStopAtPc == SelectSeq(pcProcesses, LAMBDA name : name \in pcAlive /\ pcHost)
ToStopAtPc == pcProcesses

\* the finally clause, the last started first; stop() may raise, and is printed
PcStop ==
  /\ pcStage = "stopping" /\ ToStopAtPc # <<>>
  /\ LET name == Last(ToStopAtPc)
     IN  /\ pcProcesses' = Remove(pcProcesses, name)
         /\ \/ pcAlive' = pcAlive \ {name} /\ UNCHANGED pcSurvivors
            \/ name \in pcAlive /\ pcSurvivors' = pcSurvivors \cup {name} /\ UNCHANGED pcAlive
  /\ UNCHANGED <<pcStage, pcLoop, robotRouter, pcHost, pcSignalled>>
PcEnd == pcStage = "stopping" /\ ToStopAtPc = <<>> /\ PcGoes("ended")

PcMain == RouterAnswers \/ RouterMissing \/ (\E name \in PcNames : PcStart(name)) \/ PcWatch \/ PcStop \/ PcEnd

\* KeyboardInterrupt in the try block, ignored in the finally clause
PcInterrupted == IF pcStage \in {"stopping", "ended"} THEN pcStage ELSE "stopping"
PcCtrlC == PcInterrupted # pcStage /\ PcGoes(PcInterrupted)
PcSigterm ==
  /\ ~pcHost /\ ~pcSignalled /\ pcSignalled' = TRUE
  /\ pcStage' = PcInterrupted
  /\ UNCHANGED <<pcLoop, robotRouter, pcProcesses, pcAlive, pcSurvivors, pcHost>>

PcHostGone ==
  /\ pcHost /\ pcHost' = FALSE
  /\ UNCHANGED <<pcStage, pcLoop, robotRouter, pcProcesses, pcAlive, pcSurvivors, pcSignalled>>
PcProcessExits(name) ==
  /\ name \in pcAlive /\ pcAlive' = pcAlive \ {name}
  /\ UNCHANGED <<pcStage, pcLoop, robotRouter, pcProcesses, pcSurvivors, pcHost, pcSignalled>>
RouterChanges ==
  /\ robotRouter' = ~robotRouter
  /\ UNCHANGED <<pcStage, pcLoop, pcProcesses, pcAlive, pcSurvivors, pcHost, pcSignalled>>

PcSessionNext ==
  \/ PcMain \/ PcCtrlC \/ PcSigterm \/ PcHostGone \/ RouterChanges
  \/ \E name \in PcNames : PcProcessExits(name)

\* every wait of main has a time limit, and a pending signal is handled
PcSessionSpec ==
  PcSessionInit /\ [][PcSessionNext]_pcVars /\ WF_pcVars(PcMain) /\ WF_pcVars(PcSigterm)

-----------------------------------------------------------------------------
PcStopDue == ~pcHost \/ pcStage = "stopping" \/ (pcStage = "watch" /\ OneExited)
PcStopped == pcStage = "ended" /\ pcAlive \subseteq pcSurvivors
\* Once its host is gone or one of its processes has ended, the session at the
\* PC ends, and everything it started has been stopped or reported.
PcSessionEnds == PcStopDue ~> PcStopped
=============================================================================
