--------------------------- MODULE LoopRecording ---------------------------
(***************************************************************************)
(* The recorder of demonstrations on the robot (loop_vr_streamer with        *)
(* RecordingStatus and PCRecordingClock).  It never stops: every frame is    *)
(* sent, with marks that say whether it is a demonstration, and with the     *)
(* PC's time.  Both it knows only from the gate's statuses and the PC's      *)
(* intents, which arrive late, twice, out of order or from a process that    *)
(* has ended.  The PC's clock is its distance from the robot's monotonic     *)
(* time, in the unit of the ages.  The freshness of each recorded channel,   *)
(* by which a frame is valid channel by channel, is left out.                *)
(***************************************************************************)
EXTENDS PyNone, Integers, SequencesExt

CONSTANTS
  MarkFresh,   \* freshness of RecordingStatus.values
  WireDelay,   \* bound: how long a message may be on its way
  StepLimit,   \* a clock step that is not followed
  Drift,       \* the correction of the anchor by one intent
  Clocks,      \* what the PC's clock can be set to
  GateDoings,  \* what a gate can say of itself
  Restarting,  \* which of the two is started anew
  MaxRun, MaxWire  \* bounds: its processes, messages on their way

ASSUME RecordingAssumption ==
  /\ {MarkFresh, WireDelay, Drift, MaxRun, MaxWire} \subseteq Nat /\ StepLimit \in Nat \ {0}
  /\ Clocks \subseteq Int /\ Restarting \subseteq {"gate", "intent"}
  /\ GateDoings \subseteq SUBSET {"forwarding", "waiting", "manual", "fault"}
  /\ None \notin Int
  /\ None \notin [run : Nat, does : SUBSET {"forwarding", "waiting", "manual", "fault", "active"},
                  clock : Int, age : Nat]

Kinds == {"gate", "intent"}
\* of an intent: enabled, ACTIVE, with fresh tracking and robot feedback
Doings == [gate |-> GateDoings, intent |-> {{}, {"active"}}]

VARIABLES
  run,      \* which gate and which PC process it is
  wire,     \* messages on their way, as they were sent; one is old if its
            \* number is not above that of the last accepted one of its run
  latest,   \* RecordingStatus.gate, .intent, and how long ago they were sent
  heard,    \* the ages of gate_rx, intent_rx
  anchor    \* PCRecordingClock.anchor
recordVars == <<run, wire, latest, heard, anchor>>

RecordInit ==
  /\ run = [k \in Kinds |-> 1] /\ wire = <<>> /\ anchor = None
  /\ latest = [k \in Kinds |-> None] /\ heard = [k \in Kinds |-> None]

-----------------------------------------------------------------------------
(* The gate, the PC, the network.                                          *)

\* the PC's clock may be another with every intent; the gate sends none
ClocksOf(kind) == IF kind = "intent" THEN Clocks ELSE {0}
SendStatus(kind, does, clock) ==
  /\ Len(wire) < MaxWire
  /\ wire' = Append(wire, [kind |-> kind, run |-> run[kind], does |-> does, clock |-> clock, age |-> 0, old |-> FALSE])
  /\ UNCHANGED <<run, latest, heard, anchor>>

StartAnew(kind) ==
  /\ kind \in Restarting /\ run[kind] < MaxRun
  /\ run' = [run EXCEPT ![kind] = @ + 1]
  /\ UNCHANGED <<wire, latest, heard, anchor>>

LoseStatus(i) ==
  /\ wire' = RemoveAt(wire, i)
  /\ UNCHANGED <<run, latest, heard, anchor>>

RecordTick ==
  /\ \A i \in DOMAIN wire : wire[i].age < WireDelay
  /\ wire' = [i \in DOMAIN wire |-> [wire[i] EXCEPT !.age = @ + 1]]
  /\ heard' = [k \in Kinds |-> IF heard[k] \in 0 .. MarkFresh THEN heard[k] + 1 ELSE heard[k]]
  /\ latest' = [k \in Kinds |-> IF latest[k] = None \/ latest[k].age > MarkFresh + WireDelay THEN latest[k]
                                ELSE [latest[k] EXCEPT !.age = @ + 1]]
  /\ UNCHANGED <<run, anchor>>

-----------------------------------------------------------------------------
(* receive_status.                                                         *)

Accepted(m) == latest[m.kind] # None /\ latest[m.kind].run = m.run => ~m.old

\* the clock as it looks at the receipt, the way included
Candidate(m) == m.clock - m.age
ClockFits(m) == anchor # None => Candidate(m) - anchor \in 1 - StepLimit .. StepLimit - 1
Followed(m) ==
  IF anchor = None \/ Candidate(m) - anchor \in -Drift .. Drift THEN Candidate(m)
  ELSE IF Candidate(m) > anchor THEN anchor + Drift ELSE anchor - Drift

MutantReceipt(m) == 0
\* a clock that stepped leaves the intent without a receipt
Receipt(m) == IF m.kind = "intent" /\ ~ClockFits(m) THEN None ELSE 0

\* the numbers are compared with that of wire[i] from now on
Renumbered(i) ==
  [j \in DOMAIN wire |-> IF wire[j].kind = wire[i].kind /\ wire[j].run = wire[i].run
                           THEN [wire[j] EXCEPT !.old = j <= i] ELSE wire[j]]

ReceiveStatusOf(i) ==
  LET m == wire[i]
      left == IF Accepted(m) THEN Renumbered(i) ELSE wire
  IN  /\ wire' \in {left, RemoveAt(left, i)}
      /\ IF ~Accepted(m) THEN UNCHANGED <<latest, heard, anchor>>
         ELSE /\ latest' = [latest EXCEPT ![m.kind] = [run |-> m.run, does |-> m.does, clock |-> m.clock, age |-> m.age]]
              /\ heard' = [heard EXCEPT ![m.kind] = Receipt(m)]
              /\ anchor' = IF m.kind = "intent" /\ ClockFits(m) THEN Followed(m) ELSE anchor
      /\ UNCHANGED run

\* a status that cannot be read, or of another model
MalformedStatus(kind) ==
  /\ heard' = [heard EXCEPT ![kind] = None]
  /\ UNCHANGED <<run, wire, latest, anchor>>

RecordNext ==
  \/ RecordTick
  \/ \E kind \in Kinds :
       \/ StartAnew(kind) \/ MalformedStatus(kind)
       \/ \E does \in Doings[kind], clock \in ClocksOf(kind) : SendStatus(kind, does, clock)
  \/ \E i \in DOMAIN wire : LoseStatus(i) \/ ReceiveStatusOf(i)

RecordSpec == RecordInit /\ [][RecordNext]_recordVars

-----------------------------------------------------------------------------
(* A frame, as _stream_tick would send it now.                             *)

MutantRecent(kind) == heard[kind] # None
Recent(kind) == heard[kind] # None /\ heard[kind] <= MarkFresh

Says(kind, what) == latest[kind] # None /\ what \in latest[kind].does
Health == Recent("gate") /\ Recent("intent")
FaultMark == Recent("gate") /\ Says("gate", "fault")
ActiveMark ==
  /\ Health /\ ~FaultMark
  /\ Says("intent", "active") /\ Says("gate", "forwarding") /\ ~Says("gate", "waiting")
\* before the first intent there is no time, and no frame
FrameSent == anchor # None

-----------------------------------------------------------------------------
\* A frame that is marked as a demonstration is taken at most MarkFresh after
\* the receipt of what the gate and the PC said, however late that arrived: "a
\* held or stale command is not relabeled as a fresh demonstration" (VR_LOOP.md).
DemonstrationWasMoved ==
  FrameSent /\ ActiveMark => \A k \in Kinds : latest[k].age <= MarkFresh + WireDelay

\* A frame that is marked so carries the PC's time: a PC clock that was set
\* meanwhile takes the mark away, not the time.
DemonstrationHasPcTime ==
  FrameSent /\ ActiveMark =>
    anchor - latest["intent"].clock \in 1 - StepLimit - WireDelay .. StepLimit + WireDelay - 1
=============================================================================
