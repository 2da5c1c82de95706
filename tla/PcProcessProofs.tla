-------------------------- MODULE PcProcessProofs --------------------------
(***************************************************************************)
(* Theorems about what the PC, the gate and the recorder know of each       *)
(* other: IntentRace, GateLink and LoopRecording, for every number of gates *)
(* and messages, every profile and every choice of the delays.              *)
(***************************************************************************)
EXTENDS MCPcProcess, SequenceTheorems, TLAPS

-----------------------------------------------------------------------------
(* IntentRace.                                                             *)

Steps == {"idle", "count", "enabled", "number", "send"}

BeatRecords == [at : Steps, on : BOOLEAN, number : Int, met : BOOLEAN]

IntentType ==
  /\ pcArmed \in BOOLEAN /\ gateArmed \in BOOLEAN /\ alone \in BOOLEAN
  /\ count \in Nat
  /\ beat \in [Senders -> BeatRecords]
  /\ \A t \in Senders : beat[t].number \in 0 .. count

\* Two heartbeats under way have met each other.
Meet ==
  \A t, o \in Senders : (t # o /\ ~Resting(t) /\ ~Resting(o)) => (beat[t].met /\ beat[o].met)

\* A heartbeat that met nothing carries what the PC wants and a new number.
Unmet ==
  \A t \in Senders : (~Resting(t) /\ ~beat[t].met) =>
    /\ beat[t].at # "count" => count > 0
    /\ beat[t].at \in {"number", "send"} => beat[t].on = pcArmed
    /\ beat[t].at = "send" => beat[t].number = count

IntentInv == IntentType /\ Meet /\ Unmet /\ QuietBeatTells

LEMMA TwoSenders == \A t \in Senders : t = "ros" \/ t = "vuer"
  BY DEF Senders

LEMMA NoBeatFacts ==
  /\ NoBeat \in BeatRecords /\ NoBeat.at = "idle" /\ NoBeat.number = 0
  /\ NoBeat.met = FALSE
  BY DEF NoBeat, BeatRecords, Steps

LEMMA FieldFacts ==
  ASSUME NEW b \in BeatRecords
  PROVE  b.at \in Steps /\ b.on \in BOOLEAN /\ b.number \in Int /\ b.met \in BOOLEAN
  BY DEF BeatRecords

LEMMA MetFacts ==
  ASSUME NEW b \in BeatRecords, NEW c, c = [b EXCEPT !.met = TRUE]
  PROVE  /\ c \in BeatRecords
         /\ c.at = b.at /\ c.on = b.on /\ c.number = b.number /\ c.met = TRUE
  BY DEF BeatRecords

LEMMA NumberFacts ==
  ASSUME NEW b \in BeatRecords, NEW k \in Int, NEW c, c = [b EXCEPT !.number = k]
  PROVE  /\ c \in BeatRecords
         /\ c.at = b.at /\ c.on = b.on /\ c.number = k /\ c.met = b.met
  BY DEF BeatRecords

LEMMA NewFacts ==
  ASSUME NEW m \in BOOLEAN, NEW c, c = [NoBeat EXCEPT !.at = "count", !.met = m]
  PROVE  c \in BeatRecords /\ c.at = "count" /\ c.number = 0 /\ c.met = m
  <1>1. ASSUME NEW b \in BeatRecords, c = [b EXCEPT !.at = "count", !.met = m]
        PROVE  c \in BeatRecords /\ c.at = "count" /\ c.number = b.number /\ c.met = m
    BY <1>1 DEF BeatRecords, Steps
  <1> QED  BY <1>1, NoBeatFacts

LEMMA SendFacts ==
  ASSUME NEW b \in BeatRecords, NEW k \in Int, NEW c, c = [b EXCEPT !.at = "send", !.number = k]
  PROVE  /\ c \in BeatRecords
         /\ c.at = "send" /\ c.on = b.on /\ c.number = k /\ c.met = b.met
  BY DEF BeatRecords, Steps

LEMMA BeatTypes ==
  ASSUME IntentInv, NEW t \in Senders
  PROVE  /\ beat[t] \in BeatRecords
         /\ beat[t].at \in Steps /\ beat[t].on \in BOOLEAN /\ beat[t].met \in BOOLEAN
         /\ beat[t].number \in 0 .. count /\ count \in Nat
  BY FieldFacts DEF IntentInv, IntentType

LEMMA IntentStart == IntentInit => IntentInv
  <1> SUFFICES ASSUME IntentInit PROVE IntentInv
    OBVIOUS
  <1>1. /\ pcArmed = FALSE /\ count = 0 /\ gateArmed = FALSE /\ alone = FALSE
        /\ beat \in [Senders -> BeatRecords] /\ \A t \in Senders : beat[t] = NoBeat
    BY NoBeatFacts DEF IntentInit
  <1>2. \A t \in Senders : Resting(t) /\ beat[t].number = 0
    BY <1>1, NoBeatFacts DEF Resting
  <1>3. IntentType
    <2>1. pcArmed \in BOOLEAN /\ gateArmed \in BOOLEAN /\ alone \in BOOLEAN
      BY <1>1
    <2>2. count \in Nat /\ \A t \in Senders : beat[t].number \in 0 .. count
      BY <1>1, <1>2
    <2> QED  BY <1>1, <2>1, <2>2 DEF IntentType
  <1>4. Meet /\ Unmet /\ QuietBeatTells
    BY <1>1, <1>2 DEF Meet, Unmet, QuietBeatTells
  <1> QED  BY <1>3, <1>4 DEF IntentInv

\* A heartbeat begins: it and those under way have met.
LEMMA BeginEffect ==
  ASSUME IntentInv, NEW t \in Senders, Resting(t), BeginBeat(t)
  PROVE  /\ beat' \in [Senders -> BeatRecords]
         /\ beat'[t].at = "count" /\ beat'[t].number = 0
         /\ ~beat'[t].met => \A o \in Senders : Resting(o)
         /\ \A o \in Senders \ {t} :
              /\ beat'[o].at = beat[o].at /\ beat'[o].number = beat[o].number
              /\ Resting(o) \/ beat'[o].met
  <1> DEFINE others == \E o \in Senders : ~Resting(o)
             new == [NoBeat EXCEPT !.at = "count", !.met = others]
             changed == [beat EXCEPT ![t] = new]
  <1>1. beat \in [Senders -> BeatRecords]
    BY DEF IntentInv, IntentType
  <1>2. /\ new \in BeatRecords /\ new.at = "count" /\ new.number = 0
        /\ new.met = others
    <2>1. others \in BOOLEAN
      OBVIOUS
    <2> HIDE DEF others
    <2> QED  BY <2>1, NewFacts
  <1>3. /\ changed \in [Senders -> BeatRecords] /\ changed[t] = new
        /\ \A o \in Senders \ {t} : changed[o] = beat[o]
    <2> HIDE DEF new
    <2> QED  BY <1>1, <1>2
  <1>4. beat' = [o \in Senders |->
          IF Resting(o) THEN changed[o] ELSE [changed[o] EXCEPT !.met = TRUE]]
    BY DEF BeginBeat, MeetAll
  <1> HIDE DEF others, new, changed
  <1>5. /\ beat' \in [Senders -> BeatRecords] /\ beat'[t] = new
        /\ \A o \in Senders \ {t} :
             beat'[o] = IF Resting(o) THEN beat[o] ELSE [beat[o] EXCEPT !.met = TRUE]
    <2>1. \A o \in Senders : [changed[o] EXCEPT !.met = TRUE] \in BeatRecords
      BY <1>1, <1>3, MetFacts
    <2> QED  BY <1>1, <1>3, <1>4, <2>1
  <1>6. \A o \in Senders \ {t} :
          /\ beat'[o].at = beat[o].at /\ beat'[o].number = beat[o].number
          /\ Resting(o) \/ beat'[o].met
    <2> TAKE o \in Senders \ {t}
    <2>1. CASE Resting(o)
      BY <1>5, <2>1
    <2>2. CASE ~Resting(o)
      BY <1>1, <1>5, <2>2, MetFacts
    <2> QED  BY <2>1, <2>2
  <1>7. ~beat'[t].met => \A o \in Senders : Resting(o)
    BY <1>2, <1>5 DEF others
  <1> QED  BY <1>2, <1>5, <1>6, <1>7

LEMMA BeginKeeps ==
  ASSUME IntentInv, NEW t \in Senders, Resting(t), BeginBeat(t),
         pcArmed' \in BOOLEAN, UNCHANGED <<count, gateArmed, alone>>
  PROVE  IntentInv'
  <1>1. IntentType'
    <2>1. \A o \in Senders : beat'[o].number \in 0 .. count
      BY BeginEffect DEF IntentInv, IntentType
    <2> QED  BY <2>1, BeginEffect DEF IntentInv, IntentType
  <1>2. \A o \in Senders \ {t} : (~Resting(o))' => beat'[o].met
    BY BeginEffect DEF Resting
  <1>3. ~beat'[t].met => \A o \in Senders \ {t} : Resting(o)'
    BY BeginEffect DEF Resting
  <1>4. Meet'
    BY <1>2, <1>3 DEF Meet
  <1>5. Unmet'
    BY <1>2, BeginEffect DEF Unmet
  <1>6. QuietBeatTells'
    BY BeginEffect DEF QuietBeatTells, Resting
  <1> QED  BY <1>1, <1>4, <1>5, <1>6 DEF IntentInv

\* A heartbeat goes on; the other one is not touched.
LEMMA ReadStep ==
  ASSUME IntentInv, NEW t \in Senders, TakeNumber(t) \/ ReadEnabled(t) \/ ReadNumber(t)
  PROVE  IntentInv'
  <1> USE DEF IntentInv
  <1>1. CASE TakeNumber(t)
    <2>1. /\ beat[t].at = "count" /\ count' = count + 1
          /\ beat' = [beat EXCEPT ![t].at = "enabled"]
          /\ UNCHANGED <<pcArmed, gateArmed, alone>>
      BY <1>1 DEF TakeNumber
    <2>2. IntentType'
      <3>1. beat' \in [Senders -> BeatRecords]
        BY <2>1 DEF IntentType, BeatRecords, Steps
      <3>2. \A o \in Senders : beat'[o].number \in 0 .. count'
        BY <2>1, BeatTypes DEF IntentType
      <3> QED  BY <2>1, <3>1, <3>2 DEF IntentType
    <2>3. Meet' /\ Unmet'
      BY <2>1 DEF IntentType, Meet, Unmet, Resting, Steps
    <2>4. QuietBeatTells'
      BY <2>1 DEF IntentType, QuietBeatTells, Resting
    <2> QED  BY <2>2, <2>3, <2>4
  <1>2. CASE ReadEnabled(t)
    <2>1. /\ beat[t].at = "enabled"
          /\ beat' = [beat EXCEPT ![t].at = "number", ![t].on = pcArmed]
          /\ UNCHANGED <<pcArmed, count, gateArmed, alone>>
      BY <1>2 DEF ReadEnabled
    <2>2. IntentType'
      <3>1. beat' \in [Senders -> BeatRecords]
        BY <2>1 DEF IntentType, BeatRecords, Steps
      <3>2. \A o \in Senders : beat'[o].number \in 0 .. count'
        BY <2>1, BeatTypes DEF IntentType
      <3> QED  BY <2>1, <3>1, <3>2 DEF IntentType
    <2>3. Meet' /\ Unmet'
      BY <2>1 DEF IntentType, Meet, Unmet, Resting, Steps
    <2>4. QuietBeatTells'
      BY <2>1 DEF IntentType, QuietBeatTells, Resting
    <2> QED  BY <2>2, <2>3, <2>4
  <1>3. CASE ReadNumber(t)
    <2>1. /\ beat[t].at = "number"
          /\ beat' = [beat EXCEPT ![t].at = "send", ![t].number = count]
          /\ UNCHANGED <<pcArmed, count, gateArmed, alone>>
      BY <1>3 DEF ReadNumber
    <2>2. IntentType'
      <3>1. beat' \in [Senders -> BeatRecords]
        <4>1. beat[t] \in BeatRecords /\ count \in Int
          BY BeatTypes
        <4>2. [beat[t] EXCEPT !.at = "send", !.number = count] \in BeatRecords
          BY <4>1, SendFacts
        <4> QED  BY <2>1, <4>2 DEF IntentType
      <3>2. \A o \in Senders : beat'[o].number \in 0 .. count'
        BY <2>1, BeatTypes DEF IntentType
      <3> QED  BY <2>1, <3>1, <3>2 DEF IntentType
    <2>3. Meet' /\ Unmet'
      BY <2>1 DEF IntentType, Meet, Unmet, Resting, Steps
    <2>4. QuietBeatTells'
      BY <2>1 DEF IntentType, QuietBeatTells, Resting
    <2> QED  BY <2>2, <2>3, <2>4
  <1> QED  BY <1>1, <1>2, <1>3

\* A heartbeat arrives at the gate, and the numbers are counted from it.
LEMMA TellStep ==
  ASSUME IntentInv, NEW t \in Senders, Tell(t)
  PROVE  IntentInv'
  <1> DEFINE n == beat[t].number
             over == [beat EXCEPT ![t] = NoBeat]
  <1>1. /\ beat[t].at = "send" /\ alone' = ~beat[t].met /\ pcArmed' = pcArmed
    BY DEF Tell
  <1>t. n \in 0 .. count /\ count \in Nat
    BY BeatTypes
  <1>o. /\ over \in [Senders -> BeatRecords]
        /\ over[t] = NoBeat /\ \A o \in Senders \ {t} : over[o] = beat[o]
    BY NoBeatFacts DEF IntentInv, IntentType
  <1>2. CASE n <= 0
    <2>1. beat' = over /\ UNCHANGED <<count, gateArmed>>
      BY <1>2 DEF Tell
    <2>2. ~alone'
      <3>1. ~Resting(t)
        BY <1>1 DEF Resting
      <3>2. ~beat[t].met => n = count /\ count > 0
        BY <1>1, <3>1 DEF IntentInv, Unmet
      <3>3. beat[t].met
        BY <1>2, <1>t, <3>2
      <3> QED  BY <1>1, <3>3
    <2>3. IntentType'
      BY <1>1, <1>t, <1>o, <2>1 DEF IntentInv, IntentType, NoBeat
    <2>4. Meet' /\ Unmet'
      BY <1>1, <1>t, <1>o, <2>1 DEF IntentInv, Meet, Unmet, Resting, NoBeat
    <2> QED  BY <2>2, <2>3, <2>4 DEF IntentInv, QuietBeatTells
  <1>3. CASE n > 0
    <2>1. /\ gateArmed' = beat[t].on /\ count' = count - n
          /\ beat' = [o \in Senders |->
               [over[o] EXCEPT !.number = IF @ > n THEN @ - n ELSE 0]]
      BY <1>1, <1>t, <1>o, <1>3 DEF Tell
    <2>2. \A o \in Senders :
            /\ beat'[o].at = over[o].at /\ beat'[o].on = over[o].on
            /\ beat'[o].met = over[o].met
            /\ beat'[o].number = IF over[o].number > n THEN over[o].number - n ELSE 0
            /\ beat'[o] \in BeatRecords
      <3> HIDE DEF over, n
      <3>1. \A o \in Senders :
              over[o] \in BeatRecords
                /\ (IF over[o].number > n THEN over[o].number - n ELSE 0) \in Int
        BY <1>t, <1>o, FieldFacts
      <3>2. \A o \in Senders :
              beat'[o] = [over[o] EXCEPT !.number = IF over[o].number > n
                                                    THEN over[o].number - n ELSE 0]
        BY <2>1
      <3>3. ASSUME NEW o \in Senders, NEW k \in Int, beat'[o] = [over[o] EXCEPT !.number = k]
            PROVE  /\ beat'[o].at = over[o].at /\ beat'[o].on = over[o].on
                   /\ beat'[o].met = over[o].met /\ beat'[o].number = k
                   /\ beat'[o] \in BeatRecords
        BY <3>1, <3>3, NumberFacts
      <3> TAKE o \in Senders
      <3> DEFINE k == IF over[o].number > n THEN over[o].number - n ELSE 0
      <3>4. k \in Int /\ beat'[o] = [over[o] EXCEPT !.number = k]
        BY <3>1, <3>2
      <3> HIDE DEF k
      <3>5. /\ beat'[o].at = over[o].at /\ beat'[o].on = over[o].on
            /\ beat'[o].met = over[o].met /\ beat'[o].number = k
            /\ beat'[o] \in BeatRecords
        BY <3>3, <3>4
      <3> QED  BY <3>5 DEF k
    <2>3. IntentType'
      <3>1. gateArmed' \in BOOLEAN /\ alone' \in BOOLEAN /\ pcArmed' \in BOOLEAN
        BY <1>1, <2>1, BeatTypes DEF IntentInv, IntentType
      <3>2. count' \in Nat /\ \A o \in Senders : beat'[o].number \in 0 .. count'
        <4>1. \A o \in Senders : over[o].number \in 0 .. count
          BY <1>o, <1>t, NoBeatFacts, BeatTypes
        <4> QED  BY <1>t, <1>3, <2>1, <2>2, <4>1
      <3>3. beat' \in [Senders -> BeatRecords]
        <4> HIDE DEF over, n
        <4> QED  BY <2>1, <2>2
      <3> QED  BY <3>1, <3>2, <3>3 DEF IntentType
    <2>4. Meet'
      BY <1>1, <1>t, <1>o, <2>2 DEF IntentInv, Meet, Resting, NoBeat
    <2>5. Unmet'
      BY <1>1, <1>t, <1>o, <2>2 DEF IntentInv, Meet, Unmet, Resting, NoBeat
    <2>6. QuietBeatTells'
      BY <1>1, <1>t, <1>o, <1>3, <2>1 DEF IntentInv, Unmet, Resting, QuietBeatTells
    <2> QED  BY <2>3, <2>4, <2>5, <2>6 DEF IntentInv
  <1> QED  BY <1>1, <1>t, <1>o, <1>2, <1>3

LEMMA IntentStep ==
  ASSUME IntentInv, [IntentNext]_intentVars PROVE IntentInv'
  <1>1. CASE UNCHANGED intentVars
    BY <1>1 DEF intentVars, IntentInv, IntentType, Meet, Unmet, QuietBeatTells, Resting
  <1>2. CASE IntentTimer
    BY <1>2, BeginKeeps DEF IntentTimer, Senders, IntentInv, IntentType
  <1>3. ASSUME NEW t \in Senders, NEW to \in BOOLEAN, SetArms(t, to)
        PROVE  IntentInv'
    BY <1>3, BeginKeeps DEF SetArms, AfterSwitch
  <1>4. CASE \E t \in Senders : Beats(t)
    BY <1>4, ReadStep, TellStep DEF Beats
  <1> QED  BY <1>1, <1>2, <1>3, <1>4 DEF IntentNext

\* When a heartbeat ends that was not overtaken, the gate is armed as the PC
\* wants it: the counter, the flag and the number a heartbeat reads in three
\* statements belong together as long as no other thread comes between them.
THEOREM BeatTells == IntentSpec => []QuietBeatTells
  <1>1. IntentInv => QuietBeatTells
    BY DEF IntentInv
  <1> QED  BY <1>1, IntentStart, IntentStep, PTL DEF IntentSpec

-----------------------------------------------------------------------------
(* LoopRecording.                                                          *)

Words == {"forwarding", "waiting", "manual", "fault", "active"}
Messages == [kind : Kinds, run : Nat, does : SUBSET Words, clock : Int, age : 0 .. WireDelay,
             old : BOOLEAN]
Stated == [run : Nat, does : SUBSET Words, clock : Int, age : Nat]

RecordType ==
  /\ run \in [Kinds -> Nat] /\ wire \in Seq(Messages)
  /\ latest \in [Kinds -> Stated \cup {None}]
  /\ heard \in [Kinds -> (0 .. MarkFresh + 1) \cup {None}]
  /\ anchor \in Int \cup {None}

\* Who was heard has said something, no longer ago than it was heard and was on
\* its way.
LatestFollows ==
  \A k \in Kinds : heard[k] \in 0 .. MarkFresh + 1 =>
    /\ latest[k] \in Stated
    /\ heard[k] <= MarkFresh => latest[k].age <= heard[k] + WireDelay

\* While the PC is heard, the anchor is near its last clock.
ClockFollows ==
  heard["intent"] \in 0 .. MarkFresh + 1 =>
    /\ anchor \in Int
    /\ anchor - latest["intent"].clock \in 1 - StepLimit - WireDelay .. StepLimit + WireDelay - 1

RecordInv == RecordType /\ LatestFollows /\ ClockFollows

LEMMA KindFacts == Kinds = {"gate", "intent"} /\ "intent" \in Kinds
  BY DEF Kinds

LEMMA RecordingFacts ==
  /\ MarkFresh \in Nat /\ WireDelay \in Nat /\ Drift \in Nat /\ StepLimit \in Nat \ {0}
  /\ None \notin Int /\ None \notin Stated
  BY RecordingAssumption DEF Stated, Words

LEMMA RecordStart == RecordInit => RecordInv
  <1> SUFFICES ASSUME RecordInit PROVE RecordInv
    OBVIOUS
  <1>1. /\ run \in [Kinds -> Nat] /\ latest \in [Kinds -> Stated \cup {None}]
        /\ heard \in [Kinds -> (0 .. MarkFresh + 1) \cup {None}]
        /\ anchor \in Int \cup {None} /\ wire \in Seq(Messages)
    BY DEF RecordInit
  <1>2. \A k \in Kinds : heard[k] \notin 0 .. MarkFresh + 1
    BY RecordingFacts DEF RecordInit
  <1> QED  BY <1>1, <1>2, KindFacts DEF RecordInv, RecordType, LatestFollows, ClockFollows

LEMMA RemoveAtFacts ==
  ASSUME NEW S, NEW s \in Seq(S), NEW i \in DOMAIN s
  PROVE  RemoveAt(s, i) \in Seq(S)
  <1>1. i \in 1 .. Len(s)
    OBVIOUS
  <1>2. SubSeq(s, 1, i - 1) \in Seq(S) /\ SubSeq(s, i + 1, Len(s)) \in Seq(S)
    BY <1>1, SubSeqProperties
  <1> QED  BY <1>2, ConcatProperties DEF RemoveAt

\* Sending, losing and starting anew change nothing that was heard.
LEMMA WireStep ==
  ASSUME RecordInv,
         \/ \E kind \in Kinds : StartAnew(kind)
         \/ \E kind \in Kinds : \E does \in Doings[kind], clock \in ClocksOf(kind) :
              SendStatus(kind, does, clock)
         \/ \E i \in DOMAIN wire : LoseStatus(i)
  PROVE  RecordInv'
  <1>1. UNCHANGED <<latest, heard, anchor>>
    BY DEF StartAnew, SendStatus, LoseStatus
  <1>2. LatestFollows' /\ ClockFollows'
    BY <1>1 DEF RecordInv, LatestFollows, ClockFollows
  <1>3. CASE \E kind \in Kinds : StartAnew(kind)
    BY <1>1, <1>2, <1>3 DEF RecordInv, RecordType, StartAnew
  <1>4. ASSUME NEW kind \in Kinds, NEW does \in Doings[kind], NEW clock \in ClocksOf(kind),
               SendStatus(kind, does, clock)
        PROVE  RecordInv'
    <2>1. does \in SUBSET Words
      <3>1. CASE kind = "gate"
        <4>1. GateDoings \subseteq SUBSET Words
          BY RecordingAssumption DEF Words
        <4> QED  BY <3>1, <4>1 DEF Doings
      <3>2. CASE kind = "intent"
        BY <3>2 DEF Doings, Words
      <3> QED  BY <3>1, <3>2 DEF Kinds
    <2>2. clock \in Int
      BY RecordingAssumption DEF ClocksOf
    <2> DEFINE m == [kind |-> kind, run |-> run[kind], does |-> does, clock |-> clock,
                     age |-> 0, old |-> FALSE]
    <2>3. m \in Messages
      BY <2>1, <2>2, RecordingFacts DEF Messages, RecordInv, RecordType
    <2>4. wire' = Append(wire, m) /\ run' = run
      BY <1>4 DEF SendStatus
    <2>5. wire' \in Seq(Messages)
      <3> HIDE DEF m
      <3> QED  BY <2>3, <2>4, AppendProperties DEF RecordInv, RecordType
    <2> QED  BY <1>1, <1>2, <2>4, <2>5 DEF RecordInv, RecordType
  <1>5. ASSUME NEW i \in DOMAIN wire, LoseStatus(i) PROVE RecordInv'
    BY <1>1, <1>2, <1>5, RemoveAtFacts DEF RecordInv, RecordType, LoseStatus
  <1> QED  BY <1>3, <1>4, <1>5

LEMMA MalformedStep ==
  ASSUME RecordInv, NEW kind \in Kinds, MalformedStatus(kind)
  PROVE  RecordInv'
  <1>1. /\ heard' = [heard EXCEPT ![kind] = None]
        /\ UNCHANGED <<run, wire, latest, anchor>>
    BY DEF MalformedStatus
  <1>2. /\ heard' \in [Kinds -> (0 .. MarkFresh + 1) \cup {None}]
        /\ \A k \in Kinds : heard'[k] \in 0 .. MarkFresh + 1 => heard'[k] = heard[k]
    BY <1>1, RecordingFacts DEF RecordInv, RecordType
  <1>3. RecordType' /\ LatestFollows'
    BY <1>1, <1>2 DEF RecordInv, RecordType, LatestFollows
  <1>4. ClockFollows'
    BY <1>1, <1>2, KindFacts DEF RecordInv, ClockFollows
  <1> QED  BY <1>3, <1>4 DEF RecordInv

\* Time passes for what was heard as for what was said.
LEMMA RecordTickStep ==
  ASSUME RecordInv, RecordTick
  PROVE  RecordInv'
  <1>1. /\ wire \in Seq(Messages) /\ \A i \in DOMAIN wire : wire[i].age < WireDelay
        /\ wire' = [i \in DOMAIN wire |-> [wire[i] EXCEPT !.age = @ + 1]]
    BY DEF RecordTick, RecordInv, RecordType
  <1>2. wire' \in Seq(Messages)
    <2>1. \A i \in 1 .. Len(wire) : [wire[i] EXCEPT !.age = @ + 1] \in Messages
      <3> TAKE i \in 1 .. Len(wire)
      <3>1. wire[i] \in Messages /\ wire[i].age < WireDelay
        BY <1>1
      <3> QED  BY <3>1, RecordingFacts DEF Messages
    <2>2. wire' = [i \in 1 .. Len(wire) |-> [wire[i] EXCEPT !.age = @ + 1]] /\ Len(wire) \in Nat
      BY <1>1
    <2> QED  BY <2>1, <2>2, IsASeq
  <1>3. \A k \in Kinds :
          heard'[k] = IF heard[k] \in 0 .. MarkFresh THEN heard[k] + 1 ELSE heard[k]
    BY DEF RecordTick
  <1>4. \A k \in Kinds :
          latest'[k] = IF latest[k] = None \/ latest[k].age > MarkFresh + WireDelay THEN latest[k]
                       ELSE [latest[k] EXCEPT !.age = @ + 1]
    BY DEF RecordTick
  <1>5. heard' \in [Kinds -> (0 .. MarkFresh + 1) \cup {None}]
    <2>1. heard' = [k \in Kinds |-> heard'[k]]
      BY DEF RecordTick
    <2>2. \A k \in Kinds : heard'[k] \in (0 .. MarkFresh + 1) \cup {None}
      BY <1>3, RecordingFacts DEF RecordInv, RecordType
    <2> QED  BY <2>1, <2>2
  <1>6. \A k \in Kinds :
          \/ latest[k] = None /\ latest'[k] = None
          \/ /\ latest[k] \in Stated /\ latest'[k] \in Stated
             /\ latest'[k].clock = latest[k].clock
             /\ latest'[k].age <= latest[k].age + 1
    <2> TAKE k \in Kinds
    <2>1. CASE latest[k] = None
      BY <1>4, <2>1
    <2>2. CASE latest[k] \in Stated
      <3>1. latest'[k] = latest[k] \/ latest'[k] = [latest[k] EXCEPT !.age = @ + 1]
        BY <1>4
      <3> QED  BY <2>2, <3>1 DEF Stated
    <2> QED  BY <2>1, <2>2 DEF RecordInv, RecordType
  <1>7. latest' \in [Kinds -> Stated \cup {None}]
    <2>1. latest' = [k \in Kinds |-> latest'[k]]
      BY DEF RecordTick
    <2> QED  BY <1>6, <2>1
  <1>8. run' = run /\ anchor' = anchor
    BY DEF RecordTick
  <1>9. LatestFollows'
    <2> SUFFICES ASSUME NEW k \in Kinds, heard'[k] \in 0 .. MarkFresh + 1
                 PROVE  /\ latest'[k] \in Stated
                        /\ heard'[k] <= MarkFresh => latest'[k].age <= heard'[k] + WireDelay
      BY DEF LatestFollows
    <2>1. heard[k] \in 0 .. MarkFresh + 1 /\ latest[k] \in Stated
      BY <1>3, RecordingFacts DEF RecordInv, RecordType, LatestFollows
    <2>2. latest'[k] \in Stated /\ latest'[k].age <= latest[k].age + 1
      BY <1>6, <2>1, RecordingFacts
    <2>3. heard'[k] <= MarkFresh =>
            heard'[k] = heard[k] + 1 /\ latest[k].age <= heard[k] + WireDelay
      BY <1>3, <2>1, RecordingFacts DEF RecordInv, LatestFollows
    <2>4. latest'[k].age \in Nat /\ latest[k].age \in Nat
      BY <2>1, <2>2 DEF Stated
    <2> QED  BY <2>1, <2>2, <2>3, <2>4, RecordingFacts
  <1>10. ClockFollows'
    <2> SUFFICES ASSUME heard'["intent"] \in 0 .. MarkFresh + 1
                 PROVE  /\ anchor' \in Int
                        /\ anchor' - latest'["intent"].clock
                             \in 1 - StepLimit - WireDelay .. StepLimit + WireDelay - 1
      BY DEF ClockFollows
    <2>1. heard["intent"] \in 0 .. MarkFresh + 1
      BY <1>3, KindFacts, RecordingFacts DEF RecordInv, RecordType
    <2>2. latest'["intent"].clock = latest["intent"].clock
      BY <1>6, <2>1, KindFacts, RecordingFacts DEF RecordInv, LatestFollows
    <2> QED  BY <1>8, <2>1, <2>2 DEF RecordInv, ClockFollows
  <1> QED  BY <1>2, <1>5, <1>7, <1>8, <1>9, <1>10 DEF RecordInv, RecordType

\* A clock that is followed is near the anchor's new value.
LEMMA FollowedFacts ==
  ASSUME RecordInv, NEW m \in Messages, ClockFits(m)
  PROVE  /\ Followed(m) \in Int
         /\ Followed(m) - m.clock \in 1 - StepLimit - WireDelay .. StepLimit + WireDelay - 1
  <1>1. m.clock \in Int /\ m.age \in 0 .. WireDelay /\ Candidate(m) = m.clock - m.age
    BY DEF Messages, Candidate
  <1>2. CASE anchor = None
    BY <1>1, <1>2, RecordingFacts DEF Followed
  <1>3. CASE anchor # None
    <2>1. anchor \in Int
      BY <1>3 DEF RecordInv, RecordType
    <2>2. Candidate(m) - anchor \in 1 - StepLimit .. StepLimit - 1
      BY <1>3 DEF ClockFits
    <2> QED  BY <1>1, <1>3, <2>1, <2>2, RecordingFacts DEF Followed
  <1> QED  BY <1>2, <1>3

LEMMA ReceiveStep ==
  ASSUME RecordInv, NEW i \in DOMAIN wire, ReceiveStatusOf(i)
  PROVE  RecordInv'
  <1> DEFINE m == wire[i]
             left == IF Accepted(m) THEN Renumbered(i) ELSE wire
             said == [run |-> m.run, does |-> m.does, clock |-> m.clock, age |-> m.age]
  <1>1. wire \in Seq(Messages) /\ m \in Messages /\ i \in 1 .. Len(wire)
    BY DEF RecordInv, RecordType
  <1>2. Renumbered(i) \in Seq(Messages) /\ DOMAIN Renumbered(i) = DOMAIN wire
    <2>1. \A j \in DOMAIN wire : [wire[j] EXCEPT !.old = j <= i] \in Messages
      <3>1. ASSUME NEW b \in Messages, NEW o \in BOOLEAN
            PROVE  [b EXCEPT !.old = o] \in Messages
        BY <3>1 DEF Messages
      <3>2. \A j \in DOMAIN wire : wire[j] \in Messages /\ (j <= i) \in BOOLEAN
        BY <1>1
      <3> QED  BY <3>1, <3>2
    <2> QED  BY <1>1, <2>1 DEF Renumbered
  <1>3. wire' \in Seq(Messages) /\ run' = run
    <2>1. left \in Seq(Messages) /\ i \in DOMAIN left
      BY <1>1, <1>2
    <2>2. wire' \in {left, RemoveAt(left, i)} /\ run' = run
      BY DEF ReceiveStatusOf
    <2> HIDE DEF left
    <2> QED  BY <2>1, <2>2, RemoveAtFacts
  <1>4. CASE ~Accepted(m)
    <2>1. UNCHANGED <<latest, heard, anchor>>
      BY <1>4 DEF ReceiveStatusOf
    <2> QED  BY <1>3, <2>1 DEF RecordInv, RecordType, LatestFollows, ClockFollows
  <1>5. CASE Accepted(m)
    <2>1. /\ latest' = [latest EXCEPT ![m.kind] = said]
          /\ heard' = [heard EXCEPT ![m.kind] = Receipt(m)]
          /\ anchor' = IF m.kind = "intent" /\ ClockFits(m) THEN Followed(m) ELSE anchor
      BY <1>5 DEF ReceiveStatusOf
    <2>2. /\ m.kind \in Kinds /\ said \in Stated /\ said.clock = m.clock
          /\ said.age = m.age /\ m.age \in 0 .. WireDelay
      BY <1>1, RecordingFacts DEF Messages, Stated
    <2>3. /\ Receipt(m) \in {0, None}
          /\ (m.kind = "intent" /\ Receipt(m) = 0) => ClockFits(m)
      BY RecordingFacts DEF Receipt
    <2> HIDE DEF m, said
    <2>4. /\ latest' \in [Kinds -> Stated \cup {None}] /\ latest'[m.kind] = said
          /\ \A k \in Kinds \ {m.kind} : latest'[k] = latest[k]
      BY <2>1, <2>2 DEF RecordInv, RecordType
    <2>5. /\ heard' \in [Kinds -> (0 .. MarkFresh + 1) \cup {None}]
          /\ heard'[m.kind] = Receipt(m)
          /\ \A k \in Kinds \ {m.kind} : heard'[k] = heard[k]
      BY <2>1, <2>2, <2>3, RecordingFacts DEF RecordInv, RecordType
    <2>6. anchor' \in Int \cup {None}
      BY <1>1, <2>1, FollowedFacts DEF RecordInv, RecordType
    <2>7. LatestFollows'
      BY <2>2, <2>3, <2>4, <2>5, RecordingFacts DEF RecordInv, LatestFollows
    <2>8. ClockFollows'
      <3>1. CASE m.kind = "intent"
        <4>1. heard'["intent"] \in 0 .. MarkFresh + 1 => ClockFits(m)
          BY <2>3, <2>5, <3>1, RecordingFacts
        <4> QED  BY <1>1, <2>1, <2>2, <2>4, <3>1, <4>1, FollowedFacts DEF ClockFollows
      <3>2. CASE m.kind # "intent"
        BY <2>1, <2>4, <2>5, <3>2, KindFacts DEF RecordInv, ClockFollows
      <3> QED  BY <3>1, <3>2
    <2> QED  BY <1>3, <2>4, <2>5, <2>6, <2>7, <2>8 DEF RecordInv, RecordType
  <1> QED  BY <1>4, <1>5

LEMMA RecordStep ==
  ASSUME RecordInv, [RecordNext]_recordVars PROVE RecordInv'
  <1>1. CASE UNCHANGED recordVars
    BY <1>1 DEF recordVars, RecordInv, RecordType, LatestFollows, ClockFollows
  <1>2. CASE RecordNext
    BY <1>2, WireStep, MalformedStep, RecordTickStep, ReceiveStep DEF RecordNext
  <1> QED  BY <1>1, <1>2

LEMMA MarksFollow ==
  ASSUME RecordInv, ActiveMark
  PROVE  \A k \in Kinds : heard[k] \in 0 .. MarkFresh
  BY KindFacts, RecordingFacts DEF ActiveMark, Health, Recent, RecordInv, RecordType

\* No frame is marked as a demonstration on the strength of what the gate or
\* the PC said too long ago, and the PC's time in it is the PC's.
THEOREM DemonstrationsAreFresh ==
  RecordSpec => [](DemonstrationWasMoved /\ DemonstrationHasPcTime)
  <1>1. ASSUME RecordInv PROVE DemonstrationWasMoved
    <2> SUFFICES ASSUME ActiveMark, NEW k \in Kinds
                 PROVE  latest[k].age <= MarkFresh + WireDelay
      BY DEF DemonstrationWasMoved
    <2>1. /\ heard[k] \in 0 .. MarkFresh /\ latest[k] \in Stated
          /\ latest[k].age <= heard[k] + WireDelay
      BY <1>1, MarksFollow, RecordingFacts DEF RecordInv, LatestFollows
    <2> QED  BY <2>1, RecordingFacts DEF Stated
  <1>2. ASSUME RecordInv PROVE DemonstrationHasPcTime
    BY <1>2, MarksFollow, KindFacts, RecordingFacts
    DEF DemonstrationHasPcTime, RecordInv, ClockFollows
  <1> QED  BY <1>1, <1>2, RecordStart, RecordStep, PTL DEF RecordSpec

-----------------------------------------------------------------------------
(* GateLink.                                                               *)

Queries == [client : Clients, asked : Nat \cup {None}, live : BOOLEAN,
            reply : Profiles \cup {None}, from : Nat \cup {None}]
Manifests == [from : Nat, profile : Profiles]

LinkType ==
  /\ serving \in [gate : Nat, number : Nat, profile : Profiles] /\ cyclo \in Profiles
  /\ statuses \subseteq [gate : Nat, number : Nat]
  /\ announced \in [gate : Nat \cup {None}, number : Nat]
  /\ queries \subseteq Queries
  /\ \A q \in queries : q.reply # None => q.from \in Nat
  /\ manifest \in Manifests \cup {None} /\ verified \in BOOLEAN

\* Nothing was said by a gate that is still to come.
Past ==
  /\ \A s \in statuses : s.gate <= serving.gate
  /\ announced.gate # None => announced.gate <= serving.gate

\* The last request to each of the two is the only one that counts.
OneLive == \A q, r \in queries : (q.live /\ r.live /\ q.client = r.client) => q = r

\* A gate's profile that is to be received, or was, is the running gate's if it
\* came from it.
Told(q) == q.live /\ q.client = "gate" /\ q.reply # None
OfServing(gate, profile) ==
  gate <= serving.gate /\ (gate = serving.gate => profile = serving.profile)
FromServing ==
  /\ \A q \in queries : Told(q) => OfServing(q.from, q.reply)
  /\ manifest # None => OfServing(manifest.from, manifest.profile)

\* What is to be received is no older than what was: neither the announced gate
\* nor that of the manifest, whose profile it must repeat.
RepliesLater ==
  \A q \in queries : Told(q) =>
    /\ announced.gate # None => q.from >= announced.gate
    /\ manifest # None => /\ q.from >= manifest.from
                          /\ q.from = manifest.from => q.reply = manifest.profile

Based == verified => manifest \in Manifests

LinkInv ==
  /\ LinkType /\ Past /\ OneLive /\ FromServing /\ RepliesLater
  /\ Based /\ ManifestIsCurrent /\ VerifiedMatches

USE DEF LinkInv, linkVars, Based

LEMMA LinkFacts == None \notin Nat /\ None \notin Profiles /\ None \notin Manifests
  BY GateLinkAssumption DEF Manifests

LEMMA LinkStart == LinkInit => LinkInv
  <1> SUFFICES ASSUME LinkInit PROVE LinkInv
    OBVIOUS
  <1>1. LinkType
    <2>1. /\ serving \in [gate : Nat, number : Nat, profile : Profiles] /\ cyclo \in Profiles
          /\ statuses = {} /\ queries = {} /\ manifest = None /\ verified = FALSE
      BY DEF LinkInit
    <2>2. announced \in [gate : Nat \cup {None}, number : Nat]
      BY DEF LinkInit
    <2> QED  BY <2>1, <2>2 DEF LinkType
  <1>2. Past /\ OneLive /\ FromServing /\ RepliesLater
    BY DEF LinkInit, Past, OneLive, FromServing, RepliesLater
  <1>3. Based /\ ManifestIsCurrent /\ VerifiedMatches
    BY DEF LinkInit, ManifestIsCurrent, VerifiedMatches
  <1> QED  BY <1>1, <1>2, <1>3

\* Of the requests that are given up none counts any more.
LEMMA AbandonedFacts ==
  ASSUME LinkType, NEW cs \in SUBSET Clients, NEW q \in Abandoned(cs)
  PROVE  /\ q \in Queries /\ (q.reply # None => q.from \in Nat)
         /\ q.live => q \in queries /\ q.client \notin cs
  <1>1. PICK r \in queries : q = IF r.client \in cs THEN [r EXCEPT !.live = FALSE] ELSE r
    BY DEF Abandoned
  <1>2. r \in Queries /\ (r.reply # None => r.from \in Nat)
    BY DEF LinkType
  <1>3. CASE r.client \in cs
    BY <1>1, <1>2, <1>3 DEF Queries
  <1>4. CASE r.client \notin cs
    BY <1>1, <1>2, <1>4
  <1> QED  BY <1>3, <1>4

LEMMA SurroundingsStep ==
  ASSUME LinkInv, GateSends \/ (\E profile \in Profiles : CycloRestarts(profile))
  PROVE  LinkInv'
  <1>1. /\ queries' \subseteq queries /\ cyclo' \in Profiles
        /\ UNCHANGED <<announced, manifest, verified, compared>>
        /\ serving'.gate = serving.gate /\ serving'.profile = serving.profile
    BY DEF GateSends, CycloRestarts, LinkType
  <1>2. /\ serving' \in [gate : Nat, number : Nat, profile : Profiles]
        /\ statuses' \subseteq [gate : Nat, number : Nat]
        /\ \A s \in statuses' : s.gate <= serving.gate
    BY DEF GateSends, CycloRestarts, LinkType, Past
  <1>3. LinkType' /\ Past' /\ OneLive'
    BY <1>1, <1>2 DEF LinkType, Past, OneLive
  <1>4. FromServing' /\ RepliesLater'
    BY <1>1 DEF FromServing, RepliesLater, OfServing
  <1>5. Based' /\ ManifestIsCurrent' /\ VerifiedMatches'
    BY <1>1 DEF ManifestIsCurrent, VerifiedMatches
  <1> QED  BY <1>3, <1>4, <1>5

LEMMA RestartStep ==
  ASSUME LinkInv, GateRestarts
  PROVE  LinkInv'
  <1>1. /\ queries' \subseteq queries
        /\ UNCHANGED <<cyclo, statuses, announced, manifest, verified, compared>>
        /\ serving' \in [gate : {serving.gate + 1}, number : {0}, profile : Profiles]
    BY DEF GateRestarts
  <1>2. serving'.gate = serving.gate + 1 /\ serving.gate \in Nat /\ serving'.gate \in Nat
    BY <1>1 DEF LinkType
  <1>3. LinkType'
    BY <1>1, <1>2 DEF LinkType
  <1>4. Past'
    BY <1>1, <1>2 DEF LinkType, Past
  <1>5. OneLive' /\ RepliesLater'
    BY <1>1 DEF OneLive, RepliesLater
  <1>6. FromServing'
    <2>1. ASSUME NEW gate \in Nat, NEW profile, OfServing(gate, profile)
          PROVE  OfServing(gate, profile)'
      BY <1>2, <2>1 DEF OfServing
    <2>2. \A q \in queries : Told(q) => q.from \in Nat
      BY DEF LinkType, Told
    <2>3. manifest # None => manifest.from \in Nat
      BY DEF LinkType, Manifests
    <2> QED  BY <1>1, <1>2, <2>2, <2>3 DEF FromServing, OfServing
  <1>7. Based' /\ ManifestIsCurrent' /\ VerifiedMatches'
    BY <1>1 DEF ManifestIsCurrent, VerifiedMatches
  <1> QED  BY <1>3, <1>4, <1>5, <1>6, <1>7

\* The gate or Cyclo answers: its present profile, which is no older than any.
LEMMA ServeStep ==
  ASSUME LinkInv, NEW q \in queries, Serve(q)
  PROVE  LinkInv'
  <1> DEFINE answered == [q EXCEPT !.reply = IF q.client = "gate" THEN serving.profile ELSE cyclo,
                                   !.from = serving.gate]
  <1>1. /\ queries' = (queries \ {q}) \cup {answered} /\ q.reply = None
        /\ UNCHANGED <<serving, cyclo, statuses, announced, manifest, verified, compared>>
    BY DEF Serve
  <1>2. q \in Queries /\ serving.gate \in Nat /\ serving.profile \in Profiles /\ cyclo \in Profiles
    BY DEF LinkType
  <1>3. /\ answered \in Queries /\ answered.client = q.client /\ answered.live = q.live
        /\ answered.from = serving.gate
        /\ q.client = "gate" => answered.reply = serving.profile
    BY <1>2 DEF Queries
  <1> HIDE DEF answered
  <1>4. LinkType' /\ Past'
    BY <1>1, <1>2, <1>3 DEF LinkType, Past
  <1>5. OneLive'
    BY <1>1, <1>3 DEF OneLive
  <1>6. FromServing'
    BY <1>1, <1>2, <1>3 DEF FromServing, OfServing, Told
  <1>7. RepliesLater'
    <2>1. Told(answered) =>
            /\ announced.gate # None => answered.from >= announced.gate
            /\ manifest # None =>
                 /\ answered.from >= manifest.from
                 /\ answered.from = manifest.from => answered.reply = manifest.profile
      <3>1. announced.gate # None => announced.gate \in Nat /\ announced.gate <= serving.gate
        BY DEF LinkType, Past
      <3>2. manifest # None => manifest.from \in Nat /\ OfServing(manifest.from, manifest.profile)
        BY DEF LinkType, Manifests, FromServing
      <3> QED  BY <1>2, <1>3, <3>1, <3>2 DEF Told, OfServing
    <2> QED  BY <1>1, <2>1 DEF RepliesLater, Told
  <1>8. Based' /\ ManifestIsCurrent' /\ VerifiedMatches'
    BY <1>1 DEF ManifestIsCurrent, VerifiedMatches
  <1> QED  BY <1>4, <1>5, <1>6, <1>7, <1>8

\* A status: another gate makes the PC forget all it asked and was told.
LEMMA StatusStep ==
  ASSUME LinkInv, NEW s \in statuses, ReceiveStatus(s)
  PROVE  LinkInv'
  <1>1. /\ statuses' = statuses \ {s} /\ UNCHANGED <<serving, cyclo>>
        /\ compared' = IF verified' THEN compared ELSE None
        /\ s \in [gate : Nat, number : Nat] /\ s.gate <= serving.gate /\ s.gate \in Nat
    BY DEF ReceiveStatus, LinkType, Past
  <1>2. CASE ~Heeds(s) \/ s.gate = announced.gate
    <2>1. /\ UNCHANGED <<queries, manifest, verified>>
          /\ announced' = announced \/ (announced' = s /\ s.gate = announced.gate)
      BY <1>2 DEF ReceiveStatus
    <2>2. announced'.gate = announced.gate /\ announced' \in [gate : Nat \cup {None}, number : Nat]
      BY <1>1, <2>1 DEF LinkType
    <2>3. LinkType' /\ Past'
      BY <1>1, <2>1, <2>2 DEF LinkType, Past
    <2>4. OneLive' /\ FromServing' /\ RepliesLater'
      BY <1>1, <2>1, <2>2 DEF OneLive, FromServing, OfServing, RepliesLater
    <2>5. Based' /\ ManifestIsCurrent'
      BY <2>1, <2>2 DEF ManifestIsCurrent
    <2>6. VerifiedMatches'
      BY <1>1, <2>1, <2>2 DEF VerifiedMatches
    <2> QED  BY <2>3, <2>4, <2>5, <2>6
  <1>3. CASE Heeds(s) /\ s.gate # announced.gate
    <2>1. /\ announced' = s /\ queries' = Abandoned(Clients)
          /\ manifest' = None /\ verified' = FALSE
      BY <1>3 DEF ReceiveStatus
    <2>2. \A q \in queries' : q \in Queries /\ ~q.live /\ (q.reply # None => q.from \in Nat)
      <3> TAKE q \in queries'
      <3>1. q \in Queries /\ (q.reply # None => q.from \in Nat)
            /\ (q.live => q.client \notin Clients)
        BY <2>1, AbandonedFacts
      <3> QED  BY <3>1 DEF Queries
    <2>3. LinkType' /\ Past'
      BY <1>1, <2>1, <2>2 DEF LinkType, Past
    <2>4. OneLive' /\ FromServing' /\ RepliesLater'
      BY <2>1, <2>2 DEF OneLive, FromServing, RepliesLater, Told
    <2>5. Based' /\ ManifestIsCurrent' /\ VerifiedMatches'
      BY <2>1 DEF ManifestIsCurrent, VerifiedMatches
    <2> QED  BY <2>3, <2>4, <2>5
  <1> QED  BY <1>2, <1>3

LEMMA QueryStep ==
  ASSUME LinkInv, NEW client \in Clients, Query(client)
  PROVE  LinkInv'
  <1> DEFINE new == [client |-> client, asked |-> announced.gate, live |-> TRUE, reply |-> None,
                     from |-> None]
  <1>1. /\ queries' = Abandoned({client}) \cup {new}
        /\ UNCHANGED <<serving, cyclo, statuses, announced, manifest, verified, compared>>
    BY DEF Query
  <1>2. new \in Queries /\ new.live /\ new.client = client /\ new.reply = None
    BY DEF Queries, LinkType
  <1> HIDE DEF new
  <1>3. \A q \in Abandoned({client}) :
          /\ q \in Queries /\ (q.reply # None => q.from \in Nat)
          /\ q.live => q \in queries /\ q.client # client
    BY AbandonedFacts
  <1>4. LinkType' /\ Past'
    BY <1>1, <1>2, <1>3 DEF LinkType, Past
  <1>5. OneLive'
    BY <1>1, <1>2, <1>3 DEF OneLive
  <1>6. FromServing' /\ RepliesLater'
    BY <1>1, <1>2, <1>3 DEF FromServing, OfServing, RepliesLater, Told
  <1>7. Based' /\ ManifestIsCurrent' /\ VerifiedMatches'
    BY <1>1 DEF ManifestIsCurrent, VerifiedMatches
  <1> QED  BY <1>4, <1>5, <1>6, <1>7

\* A reply. The gate's renews the manifest, which stays what was verified: if
\* it came from the announced gate, so did the one before, with the same
\* profile. Cyclo's is what the manifest is compared with.
LEMMA ReplyStep ==
  ASSUME LinkInv, NEW q \in queries, NEW valid \in BOOLEAN, Receive(q, valid)
  PROVE  LinkInv'
  <1>1. /\ q.reply # None /\ queries' = queries \ {q}
        /\ UNCHANGED <<serving, cyclo, statuses, announced>>
        /\ compared' = IF ~verified' THEN None
                       ELSE IF Counts(q) /\ q.client = "cyclo" THEN q.reply ELSE compared
    BY DEF Receive
  <1>2. q \in Queries /\ q.from \in Nat /\ q.reply \in Profiles
    BY <1>1 DEF LinkType, Queries
  <1>3. Past' /\ OneLive'
    BY <1>1 DEF Past, OneLive
  <1>4. CASE ~Counts(q)
    <2>1. UNCHANGED <<manifest, verified>>
      BY <1>4 DEF Receive
    <2>2. LinkType' /\ FromServing' /\ RepliesLater'
      BY <1>1, <2>1 DEF LinkType, FromServing, OfServing, RepliesLater
    <2>3. Based' /\ ManifestIsCurrent'
      BY <1>1, <2>1 DEF ManifestIsCurrent
    <2>4. VerifiedMatches'
      BY <1>1, <1>4, <2>1 DEF VerifiedMatches
    <2> QED  BY <1>3, <2>2, <2>3, <2>4
  <1>5. CASE Counts(q) /\ q.client = "gate"
    <2>1. /\ manifest' = IF valid THEN [from |-> q.from, profile |-> q.reply] ELSE None
          /\ verified' = (verified /\ valid)
      BY <1>5 DEF Receive
    <2>2. Told(q)
      BY <1>1, <1>5 DEF Told, Counts
    <2>3. CASE ~valid
      <3>1. manifest' = None /\ verified' = FALSE
        BY <2>1, <2>3
      <3>2. LinkType' /\ FromServing' /\ RepliesLater'
        BY <1>1, <3>1 DEF LinkType, FromServing, OfServing, RepliesLater
      <3>3. Based' /\ ManifestIsCurrent' /\ VerifiedMatches'
        BY <3>1 DEF ManifestIsCurrent, VerifiedMatches
      <3> QED  BY <1>3, <3>2, <3>3
    <2>4. CASE valid
      <3>1. /\ manifest' \in Manifests /\ manifest'.from = q.from /\ manifest'.profile = q.reply
            /\ verified' = verified
        BY <1>2, <2>1, <2>4 DEF LinkType, Manifests
      <3>2. LinkType'
        BY <1>1, <3>1 DEF LinkType
      <3>3. FromServing'
        BY <1>1, <2>2, <3>1 DEF FromServing, OfServing
      <3>4. RepliesLater'
        <4>1. \A r \in queries' : ~Told(r)
          BY <1>1, <1>5, <2>2 DEF OneLive, Told
        <4> QED  BY <4>1 DEF RepliesLater
      <3>5. ManifestIsCurrent'
        BY <1>1, <2>2, <3>1 DEF ManifestIsCurrent, RepliesLater
      <3>6. verified => /\ manifest \in Manifests /\ q.from >= manifest.from
                        /\ q.from = manifest.from => q.reply = manifest.profile
        BY <2>2, LinkFacts DEF RepliesLater, LinkType
      <3>7. VerifiedMatches'
        <4> SUFFICES ASSUME verified, q.from = announced.gate PROVE q.reply = compared
          BY <1>1, <1>5, <3>1 DEF VerifiedMatches
        <4>1. manifest.from >= announced.gate /\ announced.gate \in Nat
          BY <1>2, <3>6, LinkFacts DEF ManifestIsCurrent
        <4>2. manifest.from = announced.gate
          BY <3>6, <4>1 DEF Manifests
        <4> QED  BY <3>6, <4>2 DEF VerifiedMatches
      <3>8. Based'
        BY <3>1
      <3> QED  BY <1>3, <3>2, <3>3, <3>4, <3>5, <3>7, <3>8
    <2> QED  BY <2>3, <2>4
  <1>6. CASE Counts(q) /\ q.client # "gate"
    <2>1. /\ verified' = (valid /\ manifest # None /\ manifest.profile = q.reply)
          /\ manifest' = manifest /\ q.client = "cyclo"
      BY <1>2, <1>6 DEF Receive, Queries, Clients
    <2>2. LinkType' /\ FromServing' /\ RepliesLater'
      BY <1>1, <2>1 DEF LinkType, FromServing, OfServing, RepliesLater
    <2>3. Based' /\ ManifestIsCurrent'
      BY <1>1, <2>1 DEF ManifestIsCurrent, LinkType
    <2>4. VerifiedMatches'
      BY <1>1, <1>6, <2>1 DEF VerifiedMatches
    <2> QED  BY <1>3, <2>2, <2>3, <2>4
  <1> QED  BY <1>4, <1>5, <1>6

LEMMA LinkStep ==
  ASSUME LinkInv, [LinkNext]_linkVars PROVE LinkInv'
  <1>1. CASE UNCHANGED linkVars
    <2>1. LinkType' /\ Past' /\ OneLive'
      BY <1>1 DEF LinkType, Past, OneLive
    <2>2. FromServing' /\ RepliesLater'
      BY <1>1 DEF FromServing, OfServing, RepliesLater
    <2>3. Based' /\ ManifestIsCurrent' /\ VerifiedMatches'
      BY <1>1 DEF ManifestIsCurrent, VerifiedMatches
    <2> QED  BY <2>1, <2>2, <2>3
  <1>2. CASE LinkNext
    BY <1>2, SurroundingsStep, RestartStep, ServeStep, StatusStep, QueryStep, ReplyStep
    DEF LinkNext
  <1> QED  BY <1>1, <1>2

\* The PC's manifest is not that of a gate before the announced one, and what
\* it verified of the announced gate is what Cyclo said, however late replies
\* and statuses of an earlier gate arrive.
THEOREM ManifestStaysCurrent == LinkSpec => [](ManifestIsCurrent /\ VerifiedMatches)
  <1>1. LinkInv => ManifestIsCurrent /\ VerifiedMatches
    OBVIOUS
  <1> QED  BY <1>1, LinkStart, LinkStep, PTL DEF LinkSpec

\* What the PC, the gate and the recorder believe of each other is current,
\* each in its own protocol.
THEOREM LinkStaysCurrent == LinkSpec /\ IntentSpec /\ RecordSpec => []LinkIsCurrent
  <1>1. ManifestIsCurrent /\ VerifiedMatches /\ QuietBeatTells /\ DemonstrationWasMoved
          /\ DemonstrationHasPcTime => LinkIsCurrent
    BY DEF LinkIsCurrent
  <1> QED  BY <1>1, ManifestStaysCurrent, BeatTells, DemonstrationsAreFresh, PTL
=============================================================================
