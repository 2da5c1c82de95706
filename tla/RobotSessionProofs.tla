------------------------- MODULE RobotSessionProofs -------------------------
(***************************************************************************)
(* Theorems about the session coordinator of the robot, for every set of   *)
(* command lines.                                                          *)
(***************************************************************************)
EXTENDS RobotSession, SequenceTheorems, TLAPS

USE DEF vars, listVars, followerVars, worldVars, robotVars, leaseVars, endVars

-----------------------------------------------------------------------------
(* Lists without duplicates. *)

LEMMA FrontFacts ==
  ASSUME NEW S, NEW s \in Seq(S), IsInjective(s), s # <<>>
  PROVE  /\ Front(s) \in Seq(S) /\ IsInjective(Front(s))
         /\ Last(s) \in ToSet(s)
         /\ ToSet(Front(s)) = ToSet(s) \ {Last(s)}
  <1>1. /\ Len(s) \in Nat /\ Len(s) # 0 /\ DOMAIN s = 1 .. Len(s)
    BY EmptySeq, LenProperties
  <1>2. /\ Front(s) \in Seq(S) /\ Len(Front(s)) = Len(s) - 1
        /\ DOMAIN Front(s) = 1 .. Len(s) - 1
        /\ \A i \in 1 .. Len(s) - 1 : Front(s)[i] = s[i]
    BY <1>1, SubSeqProperties, LenProperties DEF Front
  <1>3. IsInjective(Front(s))
    BY <1>1, <1>2 DEF IsInjective
  <1>4. Last(s) \in ToSet(s)
    BY <1>1 DEF Last, ToSet
  <1>5. \A i \in 1 .. Len(s) - 1 : s[i] # Last(s)
    <2>1. \A i, j \in 1 .. Len(s) : s[i] = s[j] => i = j
      BY <1>1 DEF IsInjective
    <2>. QED
      BY <1>1, <2>1 DEF Last
  <1>6. ToSet(Front(s)) = ToSet(s) \ {Last(s)}
    <2>1. ToSet(Front(s)) = {s[i] : i \in 1 .. Len(s) - 1}
      BY <1>2 DEF ToSet
    <2>2. ToSet(s) = {s[i] : i \in 1 .. Len(s) - 1} \cup {Last(s)}
      <3>1. 1 .. Len(s) = (1 .. Len(s) - 1) \cup {Len(s)}
        BY <1>1
      <3>. QED
        BY <1>1, <3>1 DEF ToSet, Last
    <2>. QED
      BY <1>5, <2>1, <2>2
  <1>. QED
    BY <1>2, <1>3, <1>4, <1>6

LEMMA AppendFacts ==
  ASSUME NEW S, NEW s \in Seq(S), IsInjective(s), NEW e \in S, e \notin ToSet(s)
  PROVE  /\ Append(s, e) \in Seq(S) /\ IsInjective(Append(s, e))
         /\ ToSet(Append(s, e)) = ToSet(s) \cup {e}
  <1>1. /\ Len(s) \in Nat /\ DOMAIN s = 1 .. Len(s)
    BY LenProperties
  <1>2. /\ Append(s, e) \in Seq(S) /\ Len(Append(s, e)) = Len(s) + 1
        /\ DOMAIN Append(s, e) = 1 .. Len(s) + 1
        /\ \A i \in 1 .. Len(s) : Append(s, e)[i] = s[i]
        /\ Append(s, e)[Len(s) + 1] = e
    BY <1>1, AppendProperties, LenProperties
  <1>3. IsInjective(Append(s, e))
    BY <1>1, <1>2 DEF IsInjective, ToSet
  <1>4. ToSet(Append(s, e)) = ToSet(s) \cup {e}
    BY <1>1, <1>2 DEF ToSet
  <1>. QED
    BY <1>2, <1>3, <1>4

LEMMA RemoveFirstFacts ==
  ASSUME NEW S, NEW s \in Seq(S), IsInjective(s), NEW e
  PROVE  /\ RemoveFirst(s, e) \in Seq(S) /\ IsInjective(RemoveFirst(s, e))
         /\ ToSet(RemoveFirst(s, e)) = ToSet(s) \ {e}
  <1>1. /\ Len(s) \in Nat /\ DOMAIN s = 1 .. Len(s)
    BY LenProperties
  <1>2. CASE ~\E i \in 1 .. Len(s) : s[i] = e
    BY <1>1, <1>2 DEF RemoveFirst, ToSet
  <1>3. ASSUME NEW i \in 1 .. Len(s), s[i] = e
        PROVE  /\ RemoveFirst(s, e) \in Seq(S) /\ IsInjective(RemoveFirst(s, e))
               /\ ToSet(RemoveFirst(s, e)) = ToSet(s) \ {e}
    <2>1. {j \in 1 .. Len(s) : s[j] = e} = {i}
      BY <1>1, <1>3 DEF IsInjective
    <2>2. SelectInSeq(s, LAMBDA v : v = e) = i
      BY <1>1, <1>3, <2>1 DEF SelectInSeq, Min
    <2>3. RemoveFirst(s, e) = RemoveAt(s, i)
      BY <1>3, <2>2 DEF RemoveFirst
    <2>. DEFINE before == SubSeq(s, 1, i - 1)
                after == SubSeq(s, i + 1, Len(s))
                both == before \o after
    <2>4. /\ before \in Seq(S) /\ Len(before) = i - 1
          /\ \A j \in 1 .. i - 1 : before[j] = s[j]
      BY <1>1, SubSeqProperties
    <2>5. /\ after \in Seq(S) /\ Len(after) = Len(s) - i
          /\ \A j \in 1 .. Len(s) - i : after[j] = s[i + j]
      <3>1. /\ after \in Seq(S)
            /\ Len(after) = IF i + 1 <= Len(s) THEN Len(s) - (i + 1) + 1 ELSE 0
            /\ \A j \in 1 .. Len(s) - (i + 1) + 1 : after[j] = s[i + 1 + j - 1]
        <4>1. i + 1 \in Int /\ Len(s) \in Int
          BY <1>1
        <4>2. \A j \in i + 1 .. Len(s) : s[j] \in S
          BY <1>1, ElementOfSeq
        <4>. QED
          BY <4>1, <4>2, SubSeqProperties
      <3>2. Len(after) = Len(s) - i
        <4>. HIDE DEF after
        <4>1. i \in Int /\ Len(s) \in Int /\ i <= Len(s)
          BY <1>1
        <4>2. CASE i + 1 <= Len(s)
          BY <3>1, <4>1, <4>2
        <4>3. CASE ~(i + 1 <= Len(s))
          BY <3>1, <4>1, <4>3
        <4>. QED
          BY <4>2, <4>3
      <3>3. Len(s) - (i + 1) + 1 = Len(s) - i
        BY <1>1
      <3>4. \A j \in 1 .. Len(s) - i : i + 1 + j - 1 = i + j
        BY <1>1
      <3>. HIDE DEF after
      <3>. QED
        BY <3>1, <3>2, <3>3, <3>4
    <2>6. /\ both \in Seq(S) /\ DOMAIN both = 1 .. Len(s) - 1
          /\ \A j \in 1 .. Len(s) - 1 :
               both[j] = IF j < i THEN s[j] ELSE s[j + 1]
      <3>. HIDE DEF before, after
      <3>1. /\ both \in Seq(S) /\ Len(both) = Len(before) + Len(after)
            /\ \A j \in 1 .. Len(before) + Len(after) :
                 both[j] = IF j <= Len(before) THEN before[j]
                                               ELSE after[j - Len(before)]
        BY <2>4, <2>5, ConcatProperties
      <3>2. Len(before) + Len(after) = Len(s) - 1
        BY <1>1, <2>4, <2>5
      <3>. HIDE DEF both
      <3>3. DOMAIN both = 1 .. Len(s) - 1
        BY <3>1, <3>2, LenProperties
      <3>4. ASSUME NEW j \in 1 .. Len(s) - 1
            PROVE  both[j] = IF j < i THEN s[j] ELSE s[j + 1]
        <4>1. CASE j < i
          BY <1>1, <2>4, <3>1, <3>2, <4>1
        <4>2. CASE ~(j < i)
          <5>1. /\ ~(j <= Len(before))
                /\ j - Len(before) \in 1 .. Len(s) - i
                /\ i + (j - Len(before)) = j + 1
            BY <1>1, <2>4, <4>2
          <5>. QED
            BY <2>5, <3>1, <3>2, <4>2, <5>1
        <4>. QED
          BY <4>1, <4>2
      <3>. QED
        BY <3>1, <3>3, <3>4
    <2>. HIDE DEF both
    <2>7. \A j, k \in 1 .. Len(s) : s[j] = s[k] => j = k
      BY <1>1 DEF IsInjective
    <2>8. IsInjective(both)
      <3>1. ASSUME NEW j \in 1 .. Len(s) - 1, NEW k \in 1 .. Len(s) - 1,
                   both[j] = both[k]
            PROVE  j = k
        <4>1. /\ j \in 1 .. Len(s) /\ j + 1 \in 1 .. Len(s)
              /\ k \in 1 .. Len(s) /\ k + 1 \in 1 .. Len(s)
          BY <1>1
        <4>. QED
          BY <1>1, <2>6, <2>7, <3>1, <4>1
      <3>. QED
        BY <2>6, <3>1 DEF IsInjective
    <2>9. ToSet(both) = ToSet(s) \ {e}
      <3>1. ASSUME NEW j \in 1 .. Len(s) - 1
            PROVE  \E k \in 1 .. Len(s) : k # i /\ both[j] = s[k]
        <4>1. j \in 1 .. Len(s) /\ j + 1 \in 1 .. Len(s)
          BY <1>1
        <4>. QED
          BY <1>1, <2>6, <4>1
      <3>2. ASSUME NEW k \in 1 .. Len(s), k # i
            PROVE  \E j \in 1 .. Len(s) - 1 : both[j] = s[k]
        <4>1. CASE k < i
          BY <1>1, <2>6, <4>1
        <4>2. CASE k > i
          <5>1. k - 1 \in 1 .. Len(s) - 1 /\ ~(k - 1 < i) /\ (k - 1) + 1 = k
            BY <1>1, <4>2
          <5>. QED
            BY <2>6, <5>1
        <4>. QED
          BY <1>1, <3>2, <4>1, <4>2
      <3>3. ToSet(both) = {s[k] : k \in (1 .. Len(s)) \ {i}}
        <4>1. ToSet(both) = {both[j] : j \in 1 .. Len(s) - 1}
          BY <2>6 DEF ToSet
        <4>2. \A x \in ToSet(both) : x \in {s[k] : k \in (1 .. Len(s)) \ {i}}
          BY <3>1, <4>1
        <4>3. \A x \in {s[k] : k \in (1 .. Len(s)) \ {i}} : x \in ToSet(both)
          BY <3>2, <4>1
        <4>. QED
          BY <4>2, <4>3
      <3>4. {s[k] : k \in (1 .. Len(s)) \ {i}} = {s[k] : k \in 1 .. Len(s)} \ {e}
        BY <1>3, <2>7
      <3>. QED
        BY <1>1, <3>3, <3>4 DEF ToSet
    <2>. QED
      BY <2>3, <2>6, <2>8, <2>9 DEF RemoveAt, both, before, after
  <1>. QED
    BY <1>2, <1>3

-----------------------------------------------------------------------------
(* The inductive invariant in named parts. *)

Listed == ToSet(children)

ProcessType ==
  /\ launched \in Owned \cup {"none"}
  /\ services \subseteq Services
  /\ alive \subseteq Owned \cup {"existing"} /\ survivors \subseteq Owned
FlagType ==
  /\ outer_router \in BOOLEAN /\ found \in BOOLEAN
  /\ follower_started \in BOOLEAN /\ reused_follower \in BOOLEAN
  /\ mover_failed \in BOOLEAN /\ release_error \in BOOLEAN
  /\ failed \in BOOLEAN /\ lease \in BOOLEAN /\ signalled \in BOOLEAN
  /\ fingers \in {"on", "off"} /\ option \in OptionSets
StageType == stage \in Startup \cup Cleanup \cup Ended
ListType == children \in Seq(Children) /\ IsInjective(children)

LEMMA RangeOfList ==
  ASSUME ListType PROVE Listed \subseteq Children
  BY ElementOfSeq, LenProperties DEF ListType, Listed, ToSet

LEMMA TypeGroups ==
  TypeOK <=> ProcessType /\ FlagType /\ StageType /\ ListType
  BY DEF TypeOK, ProcessType, FlagType, StageType, ListType

\* A process is started at one stage only, and before that it is not listed.
StartsAt(name, here) ==
  /\ name = "router" => here = "router"
  /\ name = "guard" => here = "guard"
  /\ name = "follower" => here = "follower_start"
  /\ name = "mover" => here = "pose"
  /\ name = "loader" => here = "loader"
  /\ name = "controller" => here = "controller"
  /\ name = "streamer" => here = "streamer"
ListedAt(here, list) ==
  /\ here \in {"router", "router_wait", "guard"} => list = {}
  /\ here \in {"follower", "follower_start", "ready", "pose", "loader"}
       => list \subseteq {"guard"}
  /\ here = "pose_wait" => list \subseteq {"guard", "mover"}
  /\ here = "controller" => list \subseteq {"guard", "loader"}
  /\ here = "streamer" => list \subseteq {"guard", "loader", "controller"}
StartsOnce == StartsAt(launched, stage) /\ ListedAt(stage, Listed)

\* What the session started and has not stopped is in a list, has just been
\* started, or has outlived its stop.
Accounted == alive \cap Owned \subseteq Recorded \cup {launched} \cup survivors

StoppedSoFar ==
  /\ stage \in {"follower_stop", "reused_stop", "release", "services_stop",
                "done"} => children = <<>>
  /\ stage \in {"reused_stop", "release", "services_stop", "done"}
       => "follower" \notin services
  /\ stage = "done" => services = {}
  /\ stage # "aborted"

\* From the release on nothing powers the fingers again.
Released ==
  stage \in {"services_stop", "done"} /\ ~release_error
    /\ (follower_started \/ reused_follower)
  => fingers = "off" /\ alive \cap PortOwners = {}

-----------------------------------------------------------------------------
(* Types. *)

LEMMA FlagStep ==
  ASSUME FlagType, [Next]_vars PROVE FlagType'
  <1>. USE DEF FlagType
  <1>1. ASSUME NEW name, Start(name) PROVE FlagType'
    BY <1>1 DEF Start
  <1>2. ASSUME NEW there, Proceed(there) PROVE FlagType'
    BY <1>2 DEF Proceed, Goto
  <1>3. CASE Fail
    BY <1>3 DEF Fail, Goto
  <1>4. ASSUME NEW name, Stop(name) PROVE FlagType'
    BY <1>4 DEF Stop
  <1>5. CASE StartupStep
    <2>1. CASE Record
      BY <2>1 DEF Record
    <2>2. CASE Follower
      BY <1>3, <2>2 DEF Follower, Goto
    <2>3. CASE Ready
      BY <1>3, <2>3 DEF Ready, Goto
    <2>4. CASE PoseWait
      BY <1>3, <2>4 DEF PoseWait
    <2>. QED
      BY <1>1, <1>2, <1>3, <1>5, <2>1, <2>2, <2>3, <2>4
         DEF StartupStep, Router, RouterWait, Pose, Loader, Streamer, Watch, TryStart
  <1>6. CASE CleanupStep
    <2>1. CASE Close \/ StopChildren
      BY <1>2, <1>4, <2>1 DEF Close, StopChildren
    <2>2. CASE Hush
      BY <2>2 DEF Hush
    <2>3. CASE StopFollower
      BY <1>4, <2>3 DEF StopFollower
    <2>4. CASE StopReused
      BY <2>4 DEF StopReused
    <2>5. CASE Release
      BY <2>5 DEF Release
    <2>6. CASE StopServices
      BY <1>4, <2>6 DEF StopServices
    <2>. QED
      BY <1>6, <2>1, <2>2, <2>3, <2>4, <2>5, <2>6 DEF CleanupStep
  <1>7. CASE HostGone
    BY <1>7 DEF HostGone
  <1>8. CASE Interrupt
    BY <1>8 DEF Interrupt
  <1>9. CASE DriverEnables
    BY <1>9 DEF DriverEnables
  <1>10. ASSUME NEW name \in Owned \cup {"existing"}, ProcessExit(name)
         PROVE  FlagType'
    BY <1>10 DEF ProcessExit
  <1>11. CASE UNCHANGED vars
    BY <1>11
  <1>. QED
    BY <1>5, <1>6, <1>7, <1>8, <1>9, <1>10, <1>11 DEF Next, MainStep

\* The lists and the stages.
Core == ProcessType /\ StageType /\ ListType /\ StartsOnce

LEMMA StartKeeps ==
  ASSUME Core, NEW name \in Owned, Start(name), StartsAt(name, stage)
  PROVE  Core'
  BY DEF Core, ProcessType, StageType, ListType, StartsOnce, Listed, Start

\* A step that changes the stage and no list.
LEMMA GotoKeeps ==
  ASSUME Core, NEW there \in Startup \cup Cleanup \cup Ended, Goto(there),
         launched = "none", ListedAt(there, Listed)
  PROVE  Core'
  <1>1. StartsAt("none", there)
    BY DEF StartsAt
  <1>. QED
    BY <1>1 DEF Core, ProcessType, StageType, ListType, StartsOnce, Listed, Goto

LEMMA FailKeeps ==
  ASSUME Core, Fail, launched = "none" PROVE Core'
  <1>1. "close" \in Startup \cup Cleanup \cup Ended /\ ListedAt("close", Listed)
    BY DEF Cleanup, ListedAt
  <1>. QED
    BY <1>1, GotoKeeps DEF Fail

LEMMA RecordKeeps ==
  ASSUME Core, Record PROVE Core'
  <1>. USE DEF Core
  <1>1. CASE launched \in Services
    <2>1. /\ services' = services \cup {launched} /\ UNCHANGED children
          /\ launched' = "none" /\ UNCHANGED <<alive, survivors>>
      BY <1>1 DEF Record, IsService
    <2>2. ProcessType' /\ ListType' /\ UNCHANGED Listed
      BY <1>1, <2>1 DEF ProcessType, ListType, Listed
    <2>3. stage' \in Startup /\ ListedAt(stage', Listed)
      BY <1>1 DEF Record, After, Services, StartsOnce, StartsAt, ListedAt, Startup
    <2>. QED
      BY <2>1, <2>2, <2>3 DEF StageType, StartsOnce, StartsAt
  <1>2. CASE launched \in Children
    <2>0. launched \notin Services
      BY <1>2 DEF Children, Services
    <2>1. /\ children' = Append(children, launched) /\ UNCHANGED services
          /\ launched' = "none" /\ UNCHANGED <<alive, survivors>>
      BY <2>0 DEF Record, IsService
    <2>2. launched \notin Listed
      BY <1>2 DEF StartsOnce, StartsAt, ListedAt, Children
    <2>3. ListType' /\ Listed' = Listed \cup {launched}
      BY <1>2, <2>1, <2>2, AppendFacts DEF ListType, Listed
    <2>4. ProcessType'
      BY <2>1 DEF ProcessType
    <2>5. stage' \in Startup /\ ListedAt(stage', Listed \cup {launched})
      BY <1>2 DEF Record, After, Children, StartsOnce, StartsAt, ListedAt, Startup
    <2>. QED
      BY <2>1, <2>3, <2>4, <2>5 DEF StageType, StartsOnce, StartsAt
  <1>. QED
    BY <1>1, <1>2 DEF Record, ProcessType, Owned

LEMMA StartupKeeps ==
  ASSUME Core, StartupStep PROVE Core'
  <1>. USE StartKeeps, GotoKeeps, FailKeeps DEF At, TryStart
  <1>1. CASE Record
    BY <1>1, RecordKeeps
  <1>2. CASE Router
    BY <1>2 DEF Router, Proceed, StartsAt, ListedAt, Core, StartsOnce, Owned,
       Services, Startup
  <1>3. CASE RouterWait
    BY <1>3 DEF RouterWait, Proceed, StartsAt, ListedAt, Core, StartsOnce, Startup
  <1>4. CASE Follower
    BY <1>4 DEF Follower, ListedAt, Core, StartsOnce, Startup
  <1>5. CASE Ready
    <2>1. stage = "ready" /\ launched = "none"
      BY <1>5 DEF Ready
    <2>2. CASE Goto("pose") \/ Goto("close")
      <3>1. ListedAt("pose", Listed) /\ ListedAt("close", Listed)
        BY <2>1 DEF ListedAt, Core, StartsOnce
      <3>2. {"pose", "close"} \subseteq Startup \cup Cleanup \cup Ended
        BY DEF Startup, Cleanup
      <3>. QED
        BY <2>1, <2>2, <3>1, <3>2
    <2>. QED
      BY <1>5, <2>2 DEF Ready
  <1>6. CASE Pose
    BY <1>6 DEF Pose, Proceed, StartsAt, ListedAt, Core, StartsOnce, Owned,
       Children, Startup
  <1>7. CASE PoseWait
    <2>1. CASE /\ stage' = "loader"
               /\ children' = RemoveFirst(children, "mover")
               /\ UNCHANGED <<launched, services, robotVars>>
      <3>1. ListType' /\ Listed' = Listed \ {"mover"}
        BY <2>1, RemoveFirstFacts DEF Core, ListType, Listed
      <3>2. Listed' \subseteq {"guard"}
        BY <1>7, <3>1 DEF PoseWait, Core, StartsOnce, ListedAt
      <3>3. ProcessType' /\ StageType' /\ launched' = "none"
        BY <1>7, <2>1 DEF PoseWait, Core, ProcessType, StageType, Startup
      <3>. QED
        BY <2>1, <3>1, <3>2, <3>3 DEF Core, StartsOnce, StartsAt, ListedAt
    <2>. QED
      BY <1>7, <2>1 DEF PoseWait
  <1>8. CASE Loader
    BY <1>8 DEF Loader, Proceed, StartsAt, ListedAt, Core, StartsOnce, Owned,
       Children, Startup
  <1>9. CASE Streamer
    BY <1>9 DEF Streamer, Proceed, StartsAt, ListedAt, Core, StartsOnce, Owned,
       Children, Startup
  <1>10. CASE Watch
    BY <1>10 DEF Watch
  <1>11. CASE \/ At("guard") /\ TryStart("guard")
              \/ At("follower_start") /\ TryStart("follower")
              \/ At("controller") /\ TryStart("controller")
    BY <1>11 DEF StartsAt, Owned, Children, Services
  <1>. QED
    BY <1>1, <1>2, <1>3, <1>4, <1>5, <1>6, <1>7, <1>8, <1>9, <1>10, <1>11
       DEF StartupStep

\* Nothing is being started once the cleanup has begun.
LEMMA NoLateLaunch ==
  ASSUME Core, stage \in Cleanup \cup Ended PROVE launched = "none"
  BY DEF Core, ProcessType, StartsOnce, StartsAt, Cleanup, Ended, Owned, Services,
     Children

\* A stop in the cleanup.
LEMMA StopKeeps ==
  ASSUME Core, NEW name \in Owned, Stop(name), UNCHANGED children,
         stage \in Cleanup, stage' \in Cleanup \cup Ended,
         services' \subseteq services
  PROVE  Core'
  <1>1. StartsAt(launched, stage') /\ ListedAt(stage', Listed)
    BY DEF Core, ProcessType, StartsOnce, StartsAt, ListedAt, Cleanup, Ended,
       Owned, Services, Children
  <1>. QED
    BY <1>1 DEF Core, ProcessType, StageType, ListType, StartsOnce, Listed, Stop

\* The lists do not matter from the cleanup on.
LEMMA LateKeeps ==
  ASSUME Core, stage \in Cleanup, stage' \in Cleanup \cup Ended,
         UNCHANGED <<launched, services, survivors, children>>, alive' \subseteq alive
  PROVE  Core'
  <1>1. StartsAt(launched, stage') /\ ListedAt(stage', Listed)
    BY DEF Core, ProcessType, StartsOnce, StartsAt, ListedAt, Cleanup, Ended,
       Owned, Services, Children
  <1>. QED
    BY <1>1 DEF Core, ProcessType, StageType, ListType, StartsOnce, Listed

LEMMA CleanupKeeps ==
  ASSUME Core, CleanupStep PROVE Core'
  <1>1. CASE Close
    BY <1>1, LateKeeps DEF Close, Proceed, Goto, Cleanup
  <1>2. CASE Hush
    BY <1>2, LateKeeps DEF Hush, Cleanup
  <1>3. CASE StopChildren
    <2>1. CASE ToStop = <<>>
      BY <1>3, <2>1, LateKeeps DEF StopChildren, Proceed, Goto, Cleanup, ToStop
    <2>2. CASE ToStop # <<>>
      <3>1. /\ stage = "children" /\ UNCHANGED <<stage, services>>
            /\ Stop(Last(children)) /\ children' = Front(children)
        BY <1>3, <2>2 DEF StopChildren, ToStop
      <3>2. ListType' /\ Last(children) \in Children
        BY <2>2, <3>1, FrontFacts, RangeOfList DEF Core, ListType, Listed, ToStop
      <3>3. ProcessType' /\ UNCHANGED launched
        BY <3>1, <3>2 DEF Core, ProcessType, Stop, Owned
      <3>4. StartsOnce'
        BY <3>1, <3>3 DEF Core, StartsOnce, ListedAt, StartsAt
      <3>. QED
        BY <3>1, <3>2, <3>3, <3>4 DEF Core, StageType
    <2>. QED
      BY <2>1, <2>2
  <1>4. CASE StopFollower
    BY <1>4, StopKeeps, LateKeeps DEF StopFollower, Cleanup, Owned, Services
  <1>5. CASE StopReused
    BY <1>5, LateKeeps DEF StopReused, Cleanup
  <1>6. CASE Release
    BY <1>6, LateKeeps DEF Release, Cleanup
  <1>7. CASE StopServices
    BY <1>7, StopKeeps, LateKeeps DEF StopServices, Cleanup, Ended, Owned, Services
  <1>. QED
    BY <1>1, <1>2, <1>3, <1>4, <1>5, <1>6, <1>7 DEF CleanupStep

LEMMA CoreStep ==
  ASSUME Core, [Next]_vars PROVE Core'
  <1>1. CASE MainStep
    BY <1>1, StartupKeeps, CleanupKeeps DEF MainStep
  <1>2. CASE Interrupt
    <2>1. CASE stage' \in {"close", "aborted"} /\ launched' = "none"
               /\ UNCHANGED <<children, services, alive, survivors>>
      <3>1. StartsAt("none", stage') /\ ListedAt(stage', Listed)
        BY <2>1 DEF StartsAt, ListedAt
      <3>2. ProcessType' /\ ListType' /\ UNCHANGED Listed
        BY <2>1 DEF Core, ProcessType, ListType, Listed
      <3>. QED
        BY <2>1, <3>1, <3>2 DEF Core, StageType, StartsOnce, Cleanup, Ended
    <2>2. CASE UNCHANGED <<stage, launched, children, services, alive, survivors>>
      BY <2>2 DEF Core, ProcessType, StageType, ListType, StartsOnce, Listed
    <2>3. stage = "close" => launched = "none"
      BY NoLateLaunch DEF Cleanup
    <2>. QED
      BY <1>2, <2>1, <2>2, <2>3 DEF Interrupt
  <1>3. CASE HostGone \/ DriverEnables \/ UNCHANGED vars
    BY <1>3 DEF HostGone, DriverEnables, Core, ProcessType, StageType, ListType,
       StartsOnce, Listed
  <1>4. ASSUME NEW name \in Owned \cup {"existing"}, ProcessExit(name)
        PROVE  Core'
    BY <1>4 DEF ProcessExit, Core, ProcessType, StageType, ListType, StartsOnce,
       Listed
  <1>. QED
    BY <1>1, <1>2, <1>3, <1>4 DEF Next

LEMMA CoreInit == Init => Core /\ FlagType
  <1>. SUFFICES ASSUME Init PROVE Core /\ FlagType
    OBVIOUS
  <1>1. ProcessType /\ FlagType /\ StageType
    BY DEF Init, ProcessType, FlagType, StageType, Startup
  <1>2. ListType /\ Listed = {}
    BY EmptySeq DEF Init, ListType, Listed, ToSet, IsInjective
  <1>. QED
    BY <1>1, <1>2 DEF Init, Core, StartsOnce, StartsAt, ListedAt

\* The state of the coordinator stays in its domains, and no process is listed
\* twice, wherever a signal arrives.
THEOREM TypeCorrect == Spec => []TypeOK
  <1>1. Init => Core /\ FlagType
    BY CoreInit
  <1>2. Core /\ FlagType /\ [Next]_vars => Core' /\ FlagType'
    BY CoreStep, FlagStep
  <1>3. Core /\ FlagType => TypeOK
    BY TypeGroups DEF Core
  <1>. QED
    BY <1>1, <1>2, <1>3, PTL DEF Spec

-----------------------------------------------------------------------------
(* The end of the session. *)

\* The startup stays in the startup or goes to the first stage of the cleanup.
LEMMA StartupStages ==
  ASSUME Core, StartupStep
  PROVE  stage \in Startup /\ stage' \in Startup \cup {"close"}
  <1>. USE DEF At, TryStart, Fail, Goto
  <1>1. CASE Record
    BY <1>1 DEF Record, After, Core, ProcessType, StartsOnce, StartsAt, Startup,
       Owned, Services, Children
  <1>2. CASE Router \/ RouterWait
    BY <1>2 DEF Router, RouterWait, Proceed, Start, Startup
  <1>3. CASE Follower \/ Ready
    BY <1>3 DEF Follower, Ready, Startup
  <1>4. CASE Pose \/ PoseWait
    BY <1>4 DEF Pose, PoseWait, Proceed, Start, Startup
  <1>5. CASE Loader \/ Streamer \/ Watch
    BY <1>5 DEF Loader, Streamer, Watch, Proceed, Start, Startup
  <1>6. CASE \/ At("guard") /\ TryStart("guard")
             \/ At("follower_start") /\ TryStart("follower")
             \/ At("controller") /\ TryStart("controller")
    BY <1>6 DEF Start, Startup
  <1>. QED
    BY <1>1, <1>2, <1>3, <1>4, <1>5, <1>6 DEF StartupStep

LEMMA ReleasedStep ==
  ASSUME Core, Released, [Next]_vars PROVE Released'
  <1>. USE DEF Released
  <1>1. CASE StartupStep
    BY <1>1, StartupStages DEF Startup
  <1>2. CASE Close \/ Hush \/ StopChildren \/ StopFollower \/ StopReused
    BY <1>2 DEF Close, Hush, StopChildren, StopFollower, StopReused, Proceed, Goto
  <1>3. CASE Release
    BY <1>3 DEF Release, Idle
  <1>4. CASE StopServices
    BY <1>4 DEF StopServices, Stop
  <1>5. CASE HostGone \/ UNCHANGED vars
    BY <1>5 DEF HostGone
  <1>6. CASE Interrupt
    BY <1>6 DEF Interrupt
  <1>7. CASE DriverEnables
    BY <1>7 DEF DriverEnables
  <1>8. ASSUME NEW name \in Owned \cup {"existing"}, ProcessExit(name)
        PROVE  Released'
    BY <1>8 DEF ProcessExit
  <1>. QED
    BY <1>1, <1>2, <1>3, <1>4, <1>5, <1>6, <1>7, <1>8
       DEF Next, MainStep, CleanupStep

LEMMA StartupAccounted ==
  ASSUME Core, Accounted, StartupStep PROVE Accounted'
  <1>. USE DEF Accounted, Recorded, At
  <1>1. ASSUME NEW name, Start(name), launched = "none" PROVE Accounted'
    BY <1>1 DEF Start, Owned, Services, Children
  <1>2. ASSUME NEW there, Goto(there) PROVE Accounted'
    BY <1>2 DEF Goto
  <1>3. CASE Record
    <2>1. CASE launched \in Services
      BY <1>3, <2>1 DEF Record, IsService
    <2>2. CASE launched \in Children
      <3>1. /\ children' = Append(children, launched) /\ UNCHANGED services
            /\ UNCHANGED <<alive, survivors>>
        BY <1>3, <2>2 DEF Record, IsService, Services, Children
      <3>2. launched \notin Listed
        BY <2>2 DEF Core, StartsOnce, StartsAt, ListedAt, Children
      <3>3. ToSet(children') = ToSet(children) \cup {launched}
        BY <2>2, <3>1, <3>2, AppendFacts DEF Core, ListType, Listed
      <3>. QED
        BY <3>1, <3>3
    <2>. QED
      BY <1>3, <2>1, <2>2 DEF Record, Core, ProcessType, Owned
  <1>4. CASE PoseWait
    <2>1. CASE /\ "mover" \notin alive
               /\ children' = RemoveFirst(children, "mover")
               /\ UNCHANGED <<launched, services, alive, survivors>>
      <3>1. ToSet(children') = ToSet(children) \ {"mover"}
        BY <2>1, RemoveFirstFacts DEF Core, ListType
      <3>. QED
        BY <2>1, <3>1
    <2>. QED
      BY <1>2, <1>4, <2>1 DEF PoseWait, MoverDone, Fail
  <1>. QED
    BY <1>1, <1>2, <1>3, <1>4
       DEF StartupStep, Router, RouterWait, Follower, Ready, Pose, Loader,
           Streamer, Watch, Proceed, Fail, TryStart

LEMMA CleanupAccounted ==
  ASSUME Core, StoppedSoFar, Accounted, CleanupStep PROVE Accounted'
  <1>. USE DEF Accounted, Recorded
  <1>1. ASSUME NEW there, Goto(there) PROVE Accounted'
    BY <1>1 DEF Goto
  <1>2. CASE Close \/ Release \/ Hush \/ StopReused
    BY <1>1, <1>2 DEF Close, Proceed, Release, Hush, StopReused
  <1>3. CASE StopChildren
    <2>1. CASE ToStop = <<>>
      BY <1>1, <1>3, <2>1 DEF StopChildren, Proceed
    <2>2. CASE ToStop # <<>>
      <3>1. /\ Stop(Last(children)) /\ children' = Front(children)
            /\ UNCHANGED services
        BY <1>3, <2>2 DEF StopChildren, ToStop
      <3>2. ToSet(children') = ToSet(children) \ {Last(children)}
        BY <2>2, <3>1, FrontFacts DEF Core, ListType, ToStop
      <3>. QED
        BY <3>1, <3>2 DEF Stop
    <2>. QED
      BY <2>1, <2>2
  <1>4. CASE StopFollower
    BY <1>4 DEF StopFollower, Stop
  <1>5. CASE StopServices
    <2>1. CASE "router" \in services
      <3>1. services \subseteq {"router"}
        BY <1>5 DEF StopServices, StoppedSoFar, Core, ProcessType, Services
      <3>. QED
        BY <1>5, <2>1, <3>1 DEF StopServices, Stop
    <2>. QED
      BY <1>5, <2>1 DEF StopServices
  <1>. QED
    BY <1>2, <1>3, <1>4, <1>5 DEF CleanupStep

LEMMA AccountedStep ==
  ASSUME Preempt = FALSE, Core, StoppedSoFar, Accounted, [Next]_vars
  PROVE  Accounted'
  <1>1. CASE MainStep
    BY <1>1, StartupAccounted, CleanupAccounted DEF MainStep
  <1>2. CASE Interrupt
    BY <1>2 DEF Interrupt, Interruptible, Accounted, Recorded
  <1>3. CASE HostGone \/ DriverEnables \/ UNCHANGED vars
    BY <1>3 DEF HostGone, DriverEnables, Accounted, Recorded
  <1>4. ASSUME NEW name \in Owned \cup {"existing"}, ProcessExit(name)
        PROVE  Accounted'
    BY <1>4 DEF ProcessExit, Accounted, Recorded
  <1>. QED
    BY <1>1, <1>2, <1>3, <1>4 DEF Next

LEMMA StoppedStep ==
  ASSUME Preempt = FALSE, Core, StoppedSoFar, [Next]_vars
  PROVE  StoppedSoFar'
  <1>. USE DEF StoppedSoFar
  <1>1. CASE StartupStep
    BY <1>1, StartupStages DEF Startup
  <1>2. CASE Close \/ Hush
    BY <1>2 DEF Close, Hush, Proceed, Goto
  <1>3. CASE StopChildren
    BY <1>3 DEF StopChildren, ToStop, Proceed, Goto
  <1>4. CASE StopFollower
    BY <1>4 DEF StopFollower, Stop
  <1>5. CASE StopReused \/ Release
    BY <1>5 DEF StopReused, Release
  <1>6. CASE StopServices
    <2>1. services \subseteq {"router"} /\ children = <<>>
      BY <1>6 DEF StopServices, Core, ProcessType, Services
    <2>2. /\ stage' = "done" /\ UNCHANGED children
          /\ services' = {}
      BY <1>6, <2>1 DEF StopServices
    <2>. QED
      BY <2>1, <2>2
  <1>7. CASE Interrupt
    BY <1>7 DEF Interrupt, Interruptible
  <1>8. CASE HostGone \/ DriverEnables \/ UNCHANGED vars
    BY <1>8 DEF HostGone, DriverEnables
  <1>9. ASSUME NEW name \in Owned \cup {"existing"}, ProcessExit(name)
        PROVE  StoppedSoFar'
    BY <1>9 DEF ProcessExit
  <1>. QED
    BY <1>1, <1>2, <1>3, <1>4, <1>5, <1>6, <1>7, <1>8, <1>9
       DEF Next, MainStep, CleanupStep

IInv == Core /\ StoppedSoFar /\ Accounted

\* The invariant of the coordinator is inductive when no signal comes between a
\* start and its record.
THEOREM Inductive ==
  ASSUME Preempt = FALSE PROVE Spec => []IInv
  <1>1. Init => IInv
    BY CoreInit DEF Init, IInv, StoppedSoFar, Accounted, Owned, Services, Children
  <1>2. IInv /\ [Next]_vars => IInv'
    BY CoreStep, StoppedStep, AccountedStep DEF IInv
  <1>. QED
    BY <1>1, <1>2, PTL DEF Spec

-----------------------------------------------------------------------------
(* The theorems. *)

\* When the session is over, whatever it started is gone or reported.
THEOREM NothingRuns ==
  ASSUME Preempt = FALSE PROVE Spec => []NothingLeftRunning
  <1>1. IInv => NothingLeftRunning
    <2>. SUFFICES ASSUME IInv, stage \in Ended
                  PROVE  alive \cap Owned \subseteq survivors
      BY DEF NothingLeftRunning
    <2>1. children = <<>> /\ services = {}
      BY DEF IInv, StoppedSoFar, Ended
    <2>2. ToSet(children) = {}
      BY <2>1 DEF ToSet
    <2>3. launched = "none"
      BY NoLateLaunch DEF IInv
    <2>. QED
      BY <2>1, <2>2, <2>3 DEF IInv, Accounted, Recorded, Owned, Services, Children
  <1>. QED
    BY <1>1, Inductive, PTL

\* The arms have no commander left when their follower is taken away.
THEOREM CommandsStop ==
  ASSUME Preempt = FALSE PROVE Spec => []CommandsStopFirst
  <1>1. IInv => CommandsStopFirst
    <2>. SUFFICES ASSUME IInv,
                         stage \in {"follower_stop", "reused_stop", "release",
                                   "services_stop"}
                  PROVE  alive \cap Movers \subseteq survivors
      BY DEF CommandsStopFirst
    <2>1. children = <<>> /\ services \subseteq Services
      BY DEF IInv, StoppedSoFar, Core, ProcessType
    <2>2. ToSet(children) = {}
      BY <2>1 DEF ToSet
    <2>3. launched = "none"
      BY NoLateLaunch DEF IInv, Cleanup
    <2>. QED
      BY <2>1, <2>2, <2>3
         DEF IInv, Accounted, Recorded, Movers, Owned, Services, Children
  <1>. QED
    BY <1>1, Inductive, PTL

\* A clean end leaves the fingers without torque and nothing to power them,
\* wherever a signal arrived.
THEOREM CleanEnd == Spec => []CleanEndReleasesFingers
  <1>1. Init => Core /\ Released
    BY CoreInit DEF Init, Released
  <1>2. Core /\ Released /\ [Next]_vars => Core' /\ Released'
    BY CoreStep, ReleasedStep
  <1>3. Core /\ Released => CleanEndReleasesFingers
    BY DEF Released, CleanEndReleasesFingers
  <1>. QED
    BY <1>1, <1>2, <1>3, PTL DEF Spec
=============================================================================
