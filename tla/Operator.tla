------------------------------ MODULE Operator ------------------------------
(***************************************************************************)
(* The operator console and the paused publisher, joined by the two ROS     *)
(* topics /vr/operator/request and /vr/operator/status.  A topic keeps      *)
(* order; a message arrives within MaxDelay ticks or is lost (discovery).   *)
(***************************************************************************)
EXTENDS PauseProtocol, Integers, Sequences

CONSTANTS
  StatusTtl, SettleTicks, RequestTimeout, JointTtl,
  Measurements, LimitLow, LimitHigh, Lead, Step, MotionKeys,
  MaxDelay   \* ticks a message is under way at most

ASSUME ConsoleAssumption ==
  /\ StatusTtl \in Nat /\ SettleTicks \in Nat /\ JointTtl \in Nat
  /\ RequestTimeout \in Nat \ {0}
  /\ Measurements \subseteq Int
  /\ LimitLow \in Int /\ LimitHigh \in Int /\ LimitLow <= LimitHigh
  /\ Lead \in Nat /\ Step \in Nat
  /\ MotionKeys \subseteq {"base", "plus", "minus"}
  /\ MaxDelay \in Nat
  /\ None \notin {"pause", "resume"}

C == INSTANCE OperatorConsole

VARIABLES
  con,       \* the console's node, or None while no console runs
  looped,    \* the console's loop has turned since the last tick
  requests,  \* requests under way
  statuses,  \* status under way: <<>> or one message
  delays,    \* how long the head of each topic has been under way
  gaveUp,    \* history: a request was given up and none was answered since
  released   \* history: ticks since the publisher left its pause

nvars == <<con, looped, requests, statuses, delays, gaveUp, released>>
ovars == <<pauseVars, nvars>>

\* how long the console may go on believing in a pause that has ended
Blind == MaxDelay + StatusTtl + 2

OInit ==
  /\ PauseInit
  /\ con = None /\ looped = FALSE
  /\ requests = <<>> /\ statuses = <<>>
  /\ delays = [request |-> 0, status |-> 0]
  /\ gaveUp = FALSE /\ released = Blind

\* a repeat of the message last sent is that message
Send(queue, m) ==
  IF queue # <<>> /\ queue[Len(queue)] = m THEN queue ELSE Append(queue, m)

Pending(c) == [id |-> c.requestId, command |-> C!Retry(c).pending]
UsedIds == {requestId} \cup {requests[i].id : i \in DOMAIN requests}
           \cup {statuses[i].id : i \in DOMAIN statuses}
           \cup (IF con = None THEN {} ELSE {con.requestId})
FreshIds == Ids \ UsedIds   \* uuid4

-----------------------------------------------------------------------------
\* starting a process takes longer than a message is under way
StartConsole ==
  /\ con = None /\ requests = <<>> /\ statuses = <<>>
  /\ con' = C!ConInit /\ looped' = TRUE /\ gaveUp' = FALSE
  /\ UNCHANGED <<pauseVars, requests, statuses, delays, released>>

\* one turn of run(): the keys held on motion routes, then tick
Turn(keys) ==
  /\ con # None
  /\ con' = C!Tick(con, keys)
  /\ requests' = IF C!Sends(con) THEN Send(requests, Pending(con)) ELSE requests
  /\ gaveUp' = (gaveUp \/ (con.pending # None /\ ~C!Sends(con)))
  /\ looped' = TRUE
  /\ UNCHANGED <<pauseVars, statuses, delays, released>>

\* U: release_all, toggle, tick
PressToggle ==
  /\ con # None /\ C!MayToggle(con)
  /\ \E id \in FreshIds :
       LET c == C!Toggle(C!StopMotion(con), id)
       IN con' = C!Tick(c, {}) /\ requests' = Send(requests, Pending(c))
  /\ looped' = TRUE
  /\ UNCHANGED <<pauseVars, statuses, delays, gaveUp, released>>

\* Esc or Ctrl+C: release_all, a last pause request, stop_motion
ExitConsole ==
  /\ con # None
  /\ \E id \in FreshIds :
       requests' = Send(requests, [id |-> id, command |-> "pause"])
  /\ con' = None
  /\ UNCHANGED <<pauseVars, looped, statuses, delays, gaveUp, released>>

SpinJoints(value) ==
  /\ con # None
  /\ con' = C!ReceiveJoints(con, value)
  /\ UNCHANGED <<pauseVars, looped, requests, statuses, delays, gaveUp, released>>

-----------------------------------------------------------------------------
\* operator_request; a known id or a lost message changes nothing
DeliverRequest ==
  /\ requests # <<>>
  /\ LET r == Head(requests)
     IN IF r.id = requestId THEN UNCHANGED pauseVars
        ELSE IF r.command = "pause" THEN Pause(r.id) ELSE Resume(r.id)
  /\ requests' = Tail(requests) /\ delays' = [delays EXCEPT !.request = 0]
  /\ released' = IF paused /\ ~paused' THEN 0 ELSE released
  /\ UNCHANGED <<con, looped, statuses, gaveUp>>

LoseRequest ==
  /\ requests # <<>>
  /\ requests' = Tail(requests) /\ delays' = [delays EXCEPT !.request = 0]
  /\ UNCHANGED <<pauseVars, con, looped, statuses, gaveUp, released>>

\* operator_status on its timer
SendStatus ==
  /\ statuses = <<>>
  /\ statuses' = <<[paused |-> paused, resuming |-> resuming, id |-> requestId]>>
  /\ delays' = [delays EXCEPT !.status = 0]
  /\ UNCHANGED <<pauseVars, con, looped, requests, gaveUp, released>>

DeliverStatus ==
  /\ statuses # <<>>
  /\ con' = IF con = None THEN None ELSE C!ReceiveStatus(con, Head(statuses))
  /\ gaveUp' = (gaveUp /\ ~(con # None /\ con.pending # None /\ con'.pending = None))
  /\ statuses' = <<>> /\ delays' = [delays EXCEPT !.status = 0]
  /\ UNCHANGED <<pauseVars, looped, requests, released>>

LoseStatus ==
  /\ statuses # <<>>
  /\ statuses' = <<>> /\ delays' = [delays EXCEPT !.status = 0]
  /\ UNCHANGED <<pauseVars, con, looped, requests, gaveUp, released>>

\* time: no message outstays MaxDelay, and the console's loop keeps turning
Clock ==
  /\ requests # <<>> => delays.request < MaxDelay
  /\ statuses # <<>> => delays.status < MaxDelay
  /\ con # None => looped
  /\ con' = IF con = None THEN None ELSE C!ConAge(con)
  /\ looped' = FALSE
  /\ delays' = [request |-> IF requests = <<>> THEN 0 ELSE delays.request + 1,
                status |-> IF statuses = <<>> THEN 0 ELSE delays.status + 1]
  /\ released' = IF released < Blind THEN released + 1 ELSE released
  /\ UNCHANGED <<pauseVars, requests, statuses, gaveUp>>

CompleteResume == Complete /\ UNCHANGED nvars

ONext ==
  \/ StartConsole \/ ExitConsole \/ PressToggle
  \/ \E keys \in SUBSET MotionKeys : Turn(keys)
  \/ \E value \in Measurements : SpinJoints(value)
  \/ DeliverRequest \/ LoseRequest \/ SendStatus \/ DeliverStatus \/ LoseStatus
  \/ Clock
  \/ CompleteResume

\* The loop, the clock and the status timer go on; a request arrives or is
\* lost, and a status topic that keeps being used delivers.
OFairness ==
  /\ WF_ovars(Clock)
  /\ WF_ovars(DeliverRequest \/ LoseRequest)
  /\ WF_ovars(\E keys \in SUBSET MotionKeys : Turn(keys))
  /\ WF_ovars(SendStatus)
  /\ SF_ovars(DeliverStatus)

OSpec == OInit /\ [][ONext]_ovars /\ OFairness

-----------------------------------------------------------------------------
OTypeOK ==
  /\ paused \in BOOLEAN /\ resuming \in BOOLEAN /\ requestId \in Ids \cup {None}
  /\ con # None =>
       /\ con.status \in C!Statuses(Ids) \cup {None}
       /\ con.pending \in {"pause", "resume", None}
       /\ con.target \in (LimitLow .. LimitHigh) \cup {None}
  /\ looped \in BOOLEAN
  /\ Len(statuses) <= 1

Moving == con # None /\ (con.baseMoving \/ con.moving)

\* Keys move base, head and lift only while the publisher really is paused,
\* although the console knows it from older messages.  The exception is a
\* request that was given up and obeyed after all: then a status sent before
\* may mislead the console, but no longer than it stays fresh.
ManualOnlyPaused == Moving => (paused \/ (gaveUp /\ released < Blind))

\* A publisher that falls silent stops manual motion: whatever the keys do,
\* motion does not outlive the last status by more than its lifetime.
SilenceStopsMotion == Moving => con.statusAge <= StatusTtl + 1

\* The console never waits for ever: a request is answered or given up, and
\* after that a fresh status makes U usable again.
ToggleRecovers == (con # None) ~> (con = None \/ C!MayToggle(con))

=============================================================================
