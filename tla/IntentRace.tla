----------------------------- MODULE IntentRace -----------------------------
(***************************************************************************)
(* The PC's intents are numbered, and the gate drops what is not newer than *)
(* the last.  HardwareXRPublisher sends them from two threads without a    *)
(* lock: from the timer, the stops and the confirmed reset of the rclpy    *)
(* thread, and from the operator's buttons on the Vuer thread.  Between its *)
(* statements and the calls in them a heartbeat is overtaken by another    *)
(* (the publisher of the SH5 hands takes the XR lock for its heartbeats).  *)
(* Numbers are counted from the last the gate has accepted, older ones     *)
(* are 0.                                                                  *)
(***************************************************************************)
EXTENDS Integers

Senders == {"ros", "vuer"}

VARIABLES
  pcArmed,   \* arm_control_enabled, and what else makes an intent enabled
  count,     \* _intent_sequence
  beat,      \* each thread's _heartbeat: what it has read
  gateArmed, \* CommandGate.intent_enabled as the last accepted intent has set it
  alone      \* history: the last heartbeat to end had met no other and no switch
intentVars == <<pcArmed, count, beat, gateArmed, alone>>

NoBeat == [at |-> "idle", on |-> FALSE, number |-> 0, met |-> FALSE]
Resting(t) == beat[t].at = "idle"

IntentInit ==
  /\ pcArmed = FALSE /\ count = 0 /\ beat = [t \in Senders |-> NoBeat]
  /\ gateArmed = FALSE /\ alone = FALSE

\* every heartbeat under way is met by what happens now
MeetAll(changed) == [t \in Senders |-> IF Resting(t) THEN changed[t] ELSE [changed[t] EXCEPT !.met = TRUE]]

BeginBeat(t) ==
  LET others == \E o \in Senders : ~Resting(o)
  IN  beat' = MeetAll([beat EXCEPT ![t] = [NoBeat EXCEPT !.at = "count", !.met = others]])

MutantIntentTimer == pcArmed /\ Resting("ros") /\ BeginBeat("ros") /\ UNCHANGED <<pcArmed, count, gateArmed, alone>>
\* the timer of the intents
IntentTimer ==
  /\ Resting("ros") /\ BeginBeat("ros")
  /\ UNCHANGED <<pcArmed, count, gateArmed, alone>>

MutantAfterSwitch(t) == beat' = beat
\* _set_arm_control_enabled ends with a heartbeat
AfterSwitch(t) == BeginBeat(t)
SetArms(t, to) ==
  /\ Resting(t)
  /\ pcArmed' = to /\ AfterSwitch(t)
  /\ UNCHANGED <<count, gateArmed, alone>>

TakeNumber(t) ==
  /\ beat[t].at = "count"
  /\ count' = count + 1 /\ beat' = [beat EXCEPT ![t].at = "enabled"]
  /\ UNCHANGED <<pcArmed, gateArmed, alone>>
ReadEnabled(t) ==
  /\ beat[t].at = "enabled"
  /\ beat' = [beat EXCEPT ![t].at = "number", ![t].on = pcArmed]
  /\ UNCHANGED <<pcArmed, count, gateArmed, alone>>
ReadNumber(t) ==
  /\ beat[t].at = "number"
  /\ beat' = [beat EXCEPT ![t].at = "send", ![t].number = count]
  /\ UNCHANGED <<pcArmed, count, gateArmed, alone>>

\* intent_pub.publish and CommandGate.intent: one writer, so in this order
Tell(t) ==
  /\ beat[t].at = "send" /\ alone' = ~beat[t].met
  /\ LET n == beat[t].number
         over == [beat EXCEPT ![t] = NoBeat]
     IN IF n <= 0
          THEN beat' = over /\ UNCHANGED <<count, gateArmed>>
        ELSE /\ gateArmed' = beat[t].on /\ count' = count - n
             /\ beat' = [o \in Senders |->
                  [over[o] EXCEPT !.number = IF @ > n THEN @ - n ELSE 0]]
  /\ UNCHANGED pcArmed

Beats(t) == TakeNumber(t) \/ ReadEnabled(t) \/ ReadNumber(t) \/ Tell(t)
IntentNext ==
  \/ IntentTimer
  \/ \E t \in Senders : Beats(t) \/ \E to \in BOOLEAN : SetArms(t, to)

IntentFairness == WF_intentVars(IntentTimer) /\ \A t \in Senders : WF_intentVars(Beats(t))
IntentSpec == IntentInit /\ [][IntentNext]_intentVars /\ IntentFairness

-----------------------------------------------------------------------------
\* A heartbeat that meets no other is always accepted: when it ends, the gate is
\* armed as the PC wants it.  What overlapping heartbeats leave behind - an
\* enabled flag that was read before a stop under the number of the stop - is
\* corrected by the next one.
QuietBeatTells == (\A t \in Senders : Resting(t)) /\ alone => gateArmed = pcArmed

\* A stop arrives: once the PC stays off, so does the gate.
StopIsHeard == <>[](~pcArmed) => <>[](~gateArmed)
=============================================================================
