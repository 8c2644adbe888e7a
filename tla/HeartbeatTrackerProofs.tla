----------------------- MODULE HeartbeatTrackerProofs -----------------------
(***************************************************************************)
(* Proofs about HeartbeatTracker for any number of sensors and of scrapes  *)
(* that overlap, and for every choice of the two windows.                  *)
(*                                                                         *)
(* HashIsListed is inductive once the types are known.  The properties of  *)
(* the records are not: they need what the loop and each scrape know, from *)
(* a hash they read earlier, of the hash as it is now.                     *)
(***************************************************************************)
EXTENDS HeartbeatTracker, TLAPS

USE WindowAssumption, TrackerBoundsAssumption
USE DEF redis, service, record, metrics, history

-----------------------------------------------------------------------------
(* Types.                                                                  *)

LEMMA TypeInit == Init => TypeOK
BY DEF Init, TypeOK

\* What recordAuthorizedSensor writes is a hash.
LEMMA RecordedType ==
  ASSUME TypeOK
  PROVE  Recorded \in Hash
<1>1. observedAt \in Nat /\ (existing # NoHash => existing \in Hash)
  BY DEF TypeOK
<1>2. StreakStart \in Nat
  BY <1>1 DEF StreakStart, Hash
<1>3. QED
  BY <1>1, <1>2 DEF Recorded, Hash

LEMMA TypeRecord == TypeOK /\ ((\E s \in Sensors : Observe(s)) \/ RecordStep) => TypeOK'
<1> SUFFICES ASSUME TypeOK, (\E s \in Sensors : Observe(s)) \/ RecordStep
             PROVE  TypeOK'
  OBVIOUS
<1>1. ASSUME NEW s \in Sensors, Observe(s)
      PROVE  TypeOK'
  BY <1>1 DEF Observe, TypeOK
<1>2. CASE ReadExisting
  BY <1>2 DEF ReadExisting, TypeOK
<1>3. CASE WriteHash
  <2>1. hash' \in [Sensors -> Hash \cup {NoHash}]
    BY <1>3, RecordedType DEF WriteHash, TypeOK
  <2>2. raced' \in [Scrapes -> SUBSET Sensors]
    BY <1>3 DEF WriteHash, TypeOK
  <2>3. QED
    BY <1>3, <2>1, <2>2 DEF WriteHash, TypeOK
<1>4. CASE Join
  BY <1>4 DEF Join, TypeOK
<1>5. CASE CommandRejects
  BY <1>5 DEF CommandRejects, TypeOK, Unlisted
<1>6. QED
  BY <1>1, <1>2, <1>3, <1>4, <1>5 DEF RecordStep

\* What the removal of gone from the set leaves behind, of which ok is known to
\* the scrape.
Removed(m, gone, ok) ==
  /\ ok \subseteq gone
  /\ torn' = torn \cup {s \in gone \ ok : hash[s] # NoHash}
  /\ members' = members \ gone
  /\ stale' = [stale EXCEPT ![m] = ok]
  /\ scrape' = [scrape EXCEPT ![m] = IF ok = {} THEN "idle" ELSE "del"]

LEMMA RemovedParts ==
  ASSUME NEW m \in Scrapes, RemoveMembers(m)
  PROVE  \E gone, ok \in SUBSET stale[m] : Removed(m, gone, ok)
<1>1. PICK gone \in SUBSET stale[m] : \E ok \in SUBSET gone : Removed(m, gone, ok)
  BY DEF RemoveMembers, Removed
<1>2. PICK ok \in SUBSET gone : Removed(m, gone, ok)
  BY <1>1
<1>3. ok \in SUBSET stale[m]
  OBVIOUS
<1>4. QED
  BY <1>2, <1>3

LEMMA TypeScrape ==
  TypeOK /\ (\E m \in Scrapes : BeginScrape(m) \/ ScrapeStep(m)) => TypeOK'
<1> SUFFICES ASSUME TypeOK, NEW m \in Scrapes, BeginScrape(m) \/ ScrapeStep(m)
             PROVE  TypeOK'
  OBVIOUS
<1>1. CASE BeginScrape(m)
  BY <1>1 DEF BeginScrape, TypeOK
<1>2. CASE ListSensors(m)
  BY <1>2 DEF ListSensors, TypeOK
<1>3. CASE ReadHashes(m)
  <2> DEFINE valid == {s \in sensorIds[m] : hash[s] # NoHash}
             old == {s \in valid : Expired(m, hash[s])}
             seen == {v \in valid \ old : Online(m, hash[v])}
             entries == {<<s, hash[s].onlineSince>> : s \in seen}
  <2>1. old \subseteq Sensors
    BY DEF TypeOK
  <2>2. entries \subseteq Sensors \X Nat
    <3>1. ASSUME NEW s \in seen
          PROVE  s \in Sensors /\ hash[s].onlineSince \in Nat
      BY DEF TypeOK, Hash
    <3>2. QED
      BY <3>1
  <2>3. /\ stale' = [stale EXCEPT ![m] = old]
        /\ report' = [report EXCEPT ![m] = entries]
        /\ scrape' = [scrape EXCEPT ![m] = IF old = {} THEN "idle" ELSE "srem"]
        /\ sensorIds' = [sensorIds EXCEPT ![m] = {}]
        /\ raced' = [raced EXCEPT ![m] = {}]
        /\ UNCHANGED <<now, redis, service, record, currentTime, beats, torn>>
    BY <1>3 DEF ReadHashes
  <2> HIDE DEF entries, old
  <2>4. QED
    BY <2>1, <2>2, <2>3 DEF TypeOK
<1>4. CASE RemoveMembers(m)
  <2>1. PICK gone \in SUBSET stale[m], ok \in SUBSET stale[m] : Removed(m, gone, ok)
    BY <1>4, RemovedParts
  <2>2. stale[m] \subseteq Sensors
    BY DEF TypeOK
  <2>3. QED
    BY <1>4, <2>1, <2>2 DEF RemoveMembers, Removed, TypeOK
<1>5. ASSUME NEW s \in Sensors, DeleteHash(m, s)
      PROVE  TypeOK'
  BY <1>5 DEF DeleteHash, TypeOK, Unlisted
<1>6. CASE ScrapeFails(m)
  BY <1>6 DEF ScrapeFails, TypeOK
<1>7. QED
  BY <1>1, <1>2, <1>3, <1>4, <1>5, <1>6 DEF ScrapeStep

LEMMA TypeVanish ==
  ASSUME TypeOK, Vanish
  PROVE  TypeOK'
<1>1. torn' \subseteq Sensors
  BY DEF Vanish, TypeOK, Unlisted
<1>2. QED
  BY <1>1 DEF Vanish, TypeOK

LEMMA TypeNext == TypeOK /\ [Next]_vars => TypeOK'
<1> SUFFICES ASSUME TypeOK, [Next]_vars
             PROVE  TypeOK'
  OBVIOUS
<1>1. CASE (\E s \in Sensors : Observe(s)) \/ RecordStep
  BY <1>1, TypeRecord
<1>2. CASE \E m \in Scrapes : BeginScrape(m) \/ ScrapeStep(m)
  BY <1>2, TypeScrape
<1>3. CASE Tick
  <2>1. currentTime' \in [Scrapes -> 0..now']
    BY <1>3 DEF Tick, TypeOK
  <2>2. QED
    BY <1>3, <2>1 DEF Tick, TypeOK
<1>4. CASE Start
  BY <1>4 DEF Start, TypeOK
<1>5. CASE StartFails
  BY <1>5 DEF StartFails, TypeOK
<1>6. CASE Stop \/ StopFails \/ QuitRedis \/ LoopEnds
  BY <1>6 DEF Stop, StopFails, QuitRedis, LoopEnds, TypeOK
<1>7. CASE Stopped \/ Crash
  BY <1>7, TypeVanish DEF Stopped, Crash
<1>8. CASE UNCHANGED vars
  BY <1>8 DEF vars, TypeOK
<1>9. QED
  BY <1>1, <1>2, <1>3, <1>4, <1>5, <1>6, <1>7, <1>8 DEF Next

\* Every variable keeps its type; the loop and each scrape are at a place
\* their locals agree with (recordAuthorizedSensor, createMetrics).
THEOREM TypeCorrect == Spec => []TypeOK
<1>1. QED
  BY TypeInit, TypeNext, PTL DEF Spec

-----------------------------------------------------------------------------
(* Every hash is listed.                                                   *)

\* The steps that touch neither the two structures in Redis nor the place
\* where a second command is due.
LEMMA ListedAside ==
  ASSUME HashIsListed, UNCHANGED <<hash, members, torn, stale>>,
         loop = "join" => loop' = "join" /\ sensor' = sensor,
         \A m \in Scrapes : scrape[m] = "del" => scrape'[m] = "del"
  PROVE  HashIsListed'
BY DEF HashIsListed

LEMMA ListedRecord ==
  TypeOK /\ HashIsListed /\ ((\E s \in Sensors : Observe(s)) \/ RecordStep) => HashIsListed'
<1> SUFFICES ASSUME TypeOK, HashIsListed, (\E s \in Sensors : Observe(s)) \/ RecordStep
             PROVE  HashIsListed'
  OBVIOUS
<1>1. ASSUME NEW s \in Sensors, Observe(s)
      PROVE  HashIsListed'
  BY <1>1, ListedAside DEF Observe
<1>2. CASE ReadExisting
  BY <1>2, ListedAside DEF ReadExisting
<1>3. CASE WriteHash
  BY <1>3 DEF WriteHash, TypeOK, HashIsListed
<1>4. CASE Join
  BY <1>4 DEF Join, TypeOK, HashIsListed
<1>5. CASE CommandRejects
  BY <1>5 DEF CommandRejects, TypeOK, HashIsListed, Unlisted
<1>6. QED
  BY <1>1, <1>2, <1>3, <1>4, <1>5 DEF RecordStep

LEMMA ListedScrape ==
  TypeOK /\ HashIsListed /\ (\E m \in Scrapes : BeginScrape(m) \/ ScrapeStep(m))
    => HashIsListed'
<1> SUFFICES ASSUME TypeOK, HashIsListed,
                    NEW m \in Scrapes, BeginScrape(m) \/ ScrapeStep(m)
             PROVE  HashIsListed'
  OBVIOUS
<1>1. CASE BeginScrape(m)
  BY <1>1, ListedAside DEF BeginScrape, TypeOK
<1>2. CASE ListSensors(m)
  BY <1>2, ListedAside DEF ListSensors, TypeOK
<1>3. CASE ReadHashes(m)
  <2>1. /\ UNCHANGED <<hash, members, torn, loop, sensor>>
        /\ \A n \in Scrapes : n # m => stale'[n] = stale[n] /\ scrape'[n] = scrape[n]
        /\ scrape[m] = "read"
    BY <1>3 DEF ReadHashes, TypeOK
  <2>2. QED
    BY <2>1 DEF HashIsListed
<1>4. CASE RemoveMembers(m)
  <2>1. PICK gone \in SUBSET stale[m], ok \in SUBSET stale[m] : Removed(m, gone, ok)
    BY <1>4, RemovedParts
  <2>2. /\ UNCHANGED <<hash, loop, sensor>>
        /\ \A n \in Scrapes : n # m => stale'[n] = stale[n] /\ scrape'[n] = scrape[n]
        /\ scrape[m] = "srem"
    BY <1>4, <2>1 DEF RemoveMembers, Removed, TypeOK
  <2>3. \A s \in ok : scrape'[m] = "del" /\ s \in stale'[m]
    BY <2>1 DEF Removed, TypeOK
  <2>4. QED
    BY <2>1, <2>2, <2>3 DEF Removed, HashIsListed
<1>5. ASSUME NEW s \in Sensors, DeleteHash(m, s)
      PROVE  HashIsListed'
  <2>1. /\ UNCHANGED <<members, loop, sensor>>
        /\ \A n \in Scrapes : n # m => stale'[n] = stale[n] /\ scrape'[n] = scrape[n]
        /\ \A t \in stale[m] : t # s => t \in stale'[m] /\ scrape'[m] = "del"
    BY <1>5 DEF DeleteHash, TypeOK
  <2>2. \/ hash' = [hash EXCEPT ![s] = NoHash] /\ torn' = torn \ {s}
        \/ hash' = hash /\ torn' = torn \cup Unlisted({s})
    BY <1>5 DEF DeleteHash
  <2>3. QED
    BY <2>1, <2>2 DEF HashIsListed, TypeOK, Unlisted
<1>6. CASE ScrapeFails(m)
  BY <1>6, ListedAside DEF ScrapeFails, TypeOK
<1>7. QED
  BY <1>1, <1>2, <1>3, <1>4, <1>5, <1>6 DEF ScrapeStep

\* A process that is not there records nothing.
DownIsDone == phase = "down" => loop = "done"

LEMMA DownNext == DownIsDone /\ [Next]_vars => DownIsDone'
<1> SUFFICES ASSUME DownIsDone, [Next]_vars
             PROVE  DownIsDone'
  OBVIOUS
<1> USE DEF DownIsDone
<1>1. CASE (\E s \in Sensors : Observe(s)) \/ RecordStep
  BY <1>1 DEF Observe, RecordStep, ReadExisting, WriteHash, Join, CommandRejects, Connected
<1>2. CASE \E m \in Scrapes : BeginScrape(m) \/ ScrapeStep(m)
  BY <1>2 DEF BeginScrape, ScrapeStep, ListSensors, ReadHashes, RemoveMembers,
              DeleteHash, ScrapeFails
<1>3. CASE Tick \/ Start \/ StartFails \/ Stop \/ StopFails \/ QuitRedis \/ LoopEnds
  BY <1>3 DEF Tick, Start, StartFails, Stop, StopFails, QuitRedis, LoopEnds
<1>4. CASE Stopped \/ Crash
  BY <1>4 DEF Stopped, Crash, Vanish
<1>5. CASE UNCHANGED vars
  BY <1>5 DEF vars
<1>6. QED
  BY <1>1, <1>2, <1>3, <1>4, <1>5 DEF Next

LEMMA ListedNext == TypeOK /\ DownIsDone /\ HashIsListed /\ [Next]_vars => HashIsListed'
<1> SUFFICES ASSUME TypeOK, DownIsDone, HashIsListed, [Next]_vars
             PROVE  HashIsListed'
  OBVIOUS
<1>1. CASE (\E s \in Sensors : Observe(s)) \/ RecordStep
  BY <1>1, ListedRecord
<1>2. CASE \E m \in Scrapes : BeginScrape(m) \/ ScrapeStep(m)
  BY <1>2, ListedScrape
<1>3. CASE Tick \/ StartFails \/ Stop \/ StopFails \/ QuitRedis \/ LoopEnds
  BY <1>3, ListedAside DEF Tick, StartFails, Stop, StopFails, QuitRedis, LoopEnds
<1>4. CASE Start
  BY <1>4, ListedAside DEF Start, DownIsDone
<1>5. CASE Stopped \/ Crash
  BY <1>5 DEF Stopped, Crash, Vanish, HashIsListed, Unlisted
<1>6. CASE UNCHANGED vars
  BY <1>6, ListedAside DEF vars
<1>7. QED
  BY <1>1, <1>2, <1>3, <1>4, <1>5, <1>6 DEF Next

\* Pruning and recording that interleave never hide a hash: one that the set
\* does not list waits for its second command, or was cut off from it by a
\* rejection, a stop() or the end of a process.
THEOREM HashesAreListed == Spec => []HashIsListed
<1>1. Init => DownIsDone /\ HashIsListed
  BY DEF Init, DownIsDone, HashIsListed
<1>2. QED
  BY <1>1, TypeInit, TypeNext, DownNext, ListedNext, PTL DEF Spec

-----------------------------------------------------------------------------
(* What is recorded and reported.                                          *)

\* The hash h of sensor s tells of a streak of s.
Streak(s, h) ==
  /\ h.lastSeen \in beats[s]
  /\ h.onlineSince <= h.lastSeen
  /\ Continuous(s, h.onlineSince, h.lastSeen)

BeatsArePast == \A s \in Sensors : \A b \in beats[s] : b <= now

HashesAreStreaks == \A s \in Sensors : hash[s] # NoHash => Streak(s, hash[s])

\* No message of the sensor was observed after the one in hand.
MessageIsLatest ==
  loop \in {"read", "write"} =>
    /\ observedAt \in beats[sensor]
    /\ \A b \in beats[sensor] : b <= observedAt

\* Since the loop read the hash, only a prune can have changed it.
ExistingIsCurrent ==
  loop = "write" =>
    /\ hash[sensor] \in {existing, NoHash}
    /\ existing # NoHash => Streak(sensor, existing)

\* What a scrape is about to erase is as old as it was, or was written since.
StaleIsOldOrRaced ==
  \A m \in Scrapes : \A s \in stale[m] :
    hash[s] # NoHash =>
      s \in raced[m] \/ currentTime[m] - hash[s].lastSeen > RetentionWindow

IInv ==
  /\ TypeOK
  /\ BeatsArePast
  /\ HashesAreStreaks
  /\ MessageIsLatest
  /\ ExistingIsCurrent
  /\ StaleIsOldOrRaced
  /\ ReportIsTrue

LEMMA IInvInit == Init => IInv
<1> SUFFICES ASSUME Init
             PROVE  IInv
  OBVIOUS
<1>1. TypeOK
  BY TypeInit
<1>2. QED
  BY <1>1 DEF Init, IInv, BeatsArePast, HashesAreStreaks, MessageIsLatest,
              ExistingIsCurrent, StaleIsOldOrRaced, ReportIsTrue

\* A later message leaves a streak as it is.
LEMMA ObservedStreaks ==
  ASSUME TypeOK, BeatsArePast, NEW s \in Sensors, Observe(s),
         NEW t \in Sensors, NEW from \in Nat, NEW to \in beats[t], Continuous(t, from, to)
  PROVE  to \in beats'[t] /\ Continuous(t, from, to)'
<1>1. /\ now \in Nat
      /\ beats \in [Sensors -> SUBSET Nat]
      /\ beats' = [beats EXCEPT ![s] = @ \cup {now}]
  BY DEF TypeOK, Observe
<1>2. \A u \in Sensors : beats[u] \subseteq beats'[u] /\ beats'[u] \subseteq beats[u] \cup {now}
  BY <1>1
<1>3. to <= now
  BY DEF BeatsArePast
<1>4. ASSUME NEW b \in beats'[t], from < b, b <= to
      PROVE  b \in beats[t]
  <2>1. b \in Nat /\ to \in Nat
    BY <1>1, <1>2
  <2>2. CASE b = now
    BY <1>1, <1>3, <1>4, <2>1, <2>2
  <2>3. CASE b \in beats[t]
    BY <2>3
  <2>4. QED
    BY <1>2, <2>2, <2>3
<1>5. from \in beats'[t]
  BY <1>2 DEF Continuous
<1>6. ASSUME NEW b \in beats'[t], from < b, b <= to
      PROVE  \E a \in beats'[t] : from <= a /\ a < b /\ b - a <= OnlineWindow
  <2>1. PICK a \in beats[t] : from <= a /\ a < b /\ b - a <= OnlineWindow
    BY <1>4, <1>6 DEF Continuous
  <2>2. QED
    BY <1>2, <2>1
<1>7. QED
  BY <1>2, <1>5, <1>6 DEF Continuous

LEMMA ObserveKeeps ==
  ASSUME IInv, NEW s \in Sensors, Observe(s)
  PROVE  IInv'
<1> USE DEF IInv
<1>1. TypeOK'
  BY TypeRecord
<1>2. /\ UNCHANGED <<now, hash, report, currentTime, stale, raced>>
      /\ loop = "idle" /\ loop' = "read" /\ sensor' = s /\ observedAt' = now
      /\ beats' = [beats EXCEPT ![s] = @ \cup {now}]
      /\ now \in Nat /\ beats \in [Sensors -> SUBSET Nat]
      /\ \A t \in Sensors : hash[t] # NoHash => hash[t] \in Hash
  BY DEF Observe, TypeOK
<1>3. BeatsArePast'
  BY <1>2 DEF BeatsArePast
<1>4. HashesAreStreaks'
  <2> SUFFICES ASSUME NEW t \in Sensors, hash[t] # NoHash
               PROVE  Streak(t, hash[t])'
    BY <1>2 DEF HashesAreStreaks
  <2>1. hash[t].onlineSince \in Nat /\ Streak(t, hash[t])
    BY <1>2 DEF HashesAreStreaks, Hash
  <2>2. QED
    BY <1>2, <2>1, ObservedStreaks DEF Streak
<1>5. MessageIsLatest'
  BY <1>2 DEF MessageIsLatest, BeatsArePast
<1>6. ExistingIsCurrent'
  BY <1>2 DEF ExistingIsCurrent
<1>7. StaleIsOldOrRaced'
  BY <1>2 DEF StaleIsOldOrRaced
<1>8. ReportIsTrue'
  <2> SUFFICES ASSUME NEW m \in Scrapes, NEW entry \in report[m]
               PROVE  \E last \in beats'[entry[1]] :
                         /\ currentTime[m] - last <= OnlineWindow
                         /\ Continuous(entry[1], entry[2], last)'
    BY <1>2 DEF ReportIsTrue
  <2>1. entry[1] \in Sensors /\ entry[2] \in Nat
    BY DEF TypeOK
  <2>2. PICK last \in beats[entry[1]] :
          /\ currentTime[m] - last <= OnlineWindow
          /\ Continuous(entry[1], entry[2], last)
    BY DEF ReportIsTrue
  <2>3. QED
    BY <2>1, <2>2, ObservedStreaks
<1>9. QED
  BY <1>1, <1>3, <1>4, <1>5, <1>6, <1>7, <1>8

\* Without a new message, what is said of streaks does not change.
LEMMA SameStreaks ==
  ASSUME UNCHANGED beats
  PROVE  /\ \A s, from, to : Continuous(s, from, to)' <=> Continuous(s, from, to)
         /\ \A s, h : Streak(s, h)' <=> Streak(s, h)
BY DEF Continuous, Streak

\* What is written continues a streak, or begins one.
LEMMA RecordedIsStreak ==
  ASSUME IInv, loop = "write"
  PROVE  Streak(sensor, Recorded)
<1> USE DEF IInv
<1>1. /\ observedAt \in Nat /\ observedAt \in beats[sensor]
      /\ \A b \in beats[sensor] : b <= observedAt
      /\ beats[sensor] \subseteq Nat
      /\ existing # NoHash => existing \in Hash /\ Streak(sensor, existing)
  BY DEF TypeOK, MessageIsLatest, ExistingIsCurrent
<1>2. Recorded.lastSeen = observedAt /\ Recorded.onlineSince = StreakStart
  BY DEF Recorded
<1>3. CASE StreakStart = observedAt
  BY <1>1, <1>2, <1>3 DEF Streak, Continuous
<1>4. CASE /\ existing # NoHash /\ observedAt - existing.lastSeen <= OnlineWindow
           /\ StreakStart = existing.onlineSince
  <2> DEFINE from == existing.onlineSince
             last == existing.lastSeen
  <2>1. /\ from \in Nat /\ last \in Nat /\ from <= last
        /\ from \in beats[sensor] /\ last \in beats[sensor]
        /\ Continuous(sensor, from, last)
    BY <1>1, <1>4 DEF Hash, Streak, Continuous
  <2>2. ASSUME NEW b \in beats[sensor], from < b, b <= observedAt
        PROVE  \E a \in beats[sensor] : from <= a /\ a < b /\ b - a <= OnlineWindow
    <3>1. CASE b <= last
      BY <2>1, <2>2, <3>1 DEF Continuous
    <3>2. CASE last < b
      BY <1>1, <1>4, <2>1, <2>2, <3>2
    <3>3. QED
      BY <1>1, <2>1, <3>1, <3>2
  <2>3. from <= observedAt
    BY <1>1, <2>1
  <2>4. QED
    BY <1>1, <1>2, <1>4, <2>1, <2>2, <2>3 DEF Streak, Continuous
<1>5. QED
  <2>1. existing # NoHash => observedAt - existing.lastSeen \in Int
    BY <1>1 DEF Hash
  <2>2. QED
    BY <1>3, <1>4, <2>1 DEF StreakStart

LEMMA RecordKeeps ==
  ASSUME IInv, RecordStep
  PROVE  IInv'
<1> USE DEF IInv
<1>1. TypeOK'
  BY TypeRecord
<1>2. UNCHANGED <<now, beats, report, currentTime, stale>>
  BY DEF RecordStep, ReadExisting, WriteHash, Join, CommandRejects
<1>3. BeatsArePast' /\ ReportIsTrue'
  BY <1>2, SameStreaks DEF BeatsArePast, ReportIsTrue
<1>4. CASE ReadExisting
  <2>1. /\ UNCHANGED <<hash, sensor, observedAt, raced>>
        /\ loop = "read" /\ loop' = "write" /\ existing' = hash[sensor] /\ sensor \in Sensors
    BY <1>4 DEF ReadExisting, TypeOK
  <2>2. HashesAreStreaks' /\ StaleIsOldOrRaced'
    BY <1>2, <2>1, SameStreaks DEF HashesAreStreaks, StaleIsOldOrRaced
  <2>3. MessageIsLatest' /\ ExistingIsCurrent'
    BY <1>2, <2>1, SameStreaks DEF MessageIsLatest, ExistingIsCurrent, HashesAreStreaks
  <2>4. QED
    BY <1>1, <1>3, <2>2, <2>3
<1>5. CASE WriteHash
  <2>1. /\ loop = "write" /\ loop' = "join"
        /\ hash' = [hash EXCEPT ![sensor] = Recorded]
        /\ raced' = [m \in Scrapes |->
                       IF stale[m] = {} THEN {} ELSE raced[m] \cup {sensor}]
        /\ hash \in [Sensors -> Hash \cup {NoHash}] /\ sensor \in Sensors
    BY <1>5 DEF WriteHash, TypeOK
  <2>2. HashesAreStreaks'
    BY <1>2, <2>1, SameStreaks, RecordedIsStreak DEF HashesAreStreaks
  <2>3. StaleIsOldOrRaced'
    BY <1>2, <2>1 DEF StaleIsOldOrRaced, TypeOK
  <2>4. MessageIsLatest' /\ ExistingIsCurrent'
    BY <2>1 DEF MessageIsLatest, ExistingIsCurrent
  <2>5. QED
    BY <1>1, <1>3, <2>2, <2>3, <2>4
<1>6. CASE Join \/ CommandRejects
  <2>1. UNCHANGED <<hash, raced>> /\ loop' \in {"idle", "done"}
    BY <1>6 DEF Join, CommandRejects
  <2>2. HashesAreStreaks' /\ StaleIsOldOrRaced'
    BY <1>2, <2>1, SameStreaks DEF HashesAreStreaks, StaleIsOldOrRaced
  <2>3. MessageIsLatest' /\ ExistingIsCurrent'
    BY <2>1 DEF MessageIsLatest, ExistingIsCurrent
  <2>4. QED
    BY <1>1, <1>3, <2>2, <2>3
<1>7. QED
  BY <1>4, <1>5, <1>6 DEF RecordStep

\* The steps of a scrape write nothing; one of them erases hashes.
LEMMA ErasingKeeps ==
  ASSUME IInv, UNCHANGED <<now, beats, loop, sensor, observedAt, existing>>,
         \A s \in Sensors : hash'[s] \in {hash[s], NoHash}
  PROVE  BeatsArePast' /\ HashesAreStreaks' /\ MessageIsLatest' /\ ExistingIsCurrent'
<1> USE DEF IInv
<1>1. sensor \in Sensors
  BY DEF TypeOK
<1>2. BeatsArePast' /\ MessageIsLatest'
  BY DEF BeatsArePast, MessageIsLatest
<1>3. HashesAreStreaks'
  BY SameStreaks DEF HashesAreStreaks
<1>4. ExistingIsCurrent'
  BY <1>1, SameStreaks DEF ExistingIsCurrent
<1>5. QED
  BY <1>2, <1>3, <1>4

LEMMA ScrapeKeeps ==
  ASSUME IInv, NEW m \in Scrapes, BeginScrape(m) \/ ScrapeStep(m)
  PROVE  IInv'
<1> USE DEF IInv
<1>1. TypeOK'
  BY TypeScrape
<1>2. /\ UNCHANGED <<now, beats, loop, sensor, observedAt, existing>>
      /\ \A s \in Sensors : hash'[s] \in {hash[s], NoHash}
  BY DEF BeginScrape, ScrapeStep, ListSensors, ReadHashes, RemoveMembers, DeleteHash,
         ScrapeFails, TypeOK
<1>3. BeatsArePast' /\ HashesAreStreaks' /\ MessageIsLatest' /\ ExistingIsCurrent'
  BY <1>2, ErasingKeeps
<1>4. CASE BeginScrape(m)
  <2>1. stale[m] = {} /\ UNCHANGED <<hash, stale, raced>>
    BY <1>4 DEF BeginScrape, TypeOK
  <2>2. StaleIsOldOrRaced'
    BY <1>4, <2>1 DEF BeginScrape, StaleIsOldOrRaced, TypeOK
  <2>3. ReportIsTrue'
    BY <1>2, <1>4, SameStreaks DEF BeginScrape, ReportIsTrue, TypeOK
  <2>4. QED
    BY <1>1, <1>3, <2>2, <2>3
<1>5. CASE ReadHashes(m)
  <2> DEFINE valid == {s \in sensorIds[m] : hash[s] # NoHash}
             old == {s \in valid : Expired(m, hash[s])}
             seen == {v \in valid \ old : Online(m, hash[v])}
             entries == {<<s, hash[s].onlineSince>> : s \in seen}
  <2>1. /\ UNCHANGED <<hash, currentTime>>
        /\ stale' = [stale EXCEPT ![m] = old]
        /\ report' = [report EXCEPT ![m] = entries]
        /\ raced' = [raced EXCEPT ![m] = {}]
    BY <1>5 DEF ReadHashes
  <2>2. sensorIds[m] \subseteq Sensors
    BY DEF TypeOK
  <2>3. \A s \in old : currentTime[m] - hash[s].lastSeen > RetentionWindow
    BY DEF Expired
  <2>4. StaleIsOldOrRaced'
    <3> HIDE DEF old
    <3>1. QED
      BY <2>1, <2>3 DEF StaleIsOldOrRaced, TypeOK
  <2>5. ASSUME NEW entry \in entries
        PROVE  \E last \in beats[entry[1]] :
                 /\ currentTime[m] - last <= OnlineWindow
                 /\ Continuous(entry[1], entry[2], last)
    <3>1. PICK s \in seen : entry = <<s, hash[s].onlineSince>>
      OBVIOUS
    <3>2. Streak(s, hash[s]) /\ currentTime[m] - hash[s].lastSeen <= OnlineWindow
      BY <2>2 DEF HashesAreStreaks, Online
    <3>3. entry[1] = s /\ entry[2] = hash[s].onlineSince
      BY <3>1
    <3>4. QED
      BY <3>2, <3>3 DEF Streak
  <2>6. ReportIsTrue'
    <3> HIDE DEF entries
    <3>1. QED
      BY <1>2, <2>1, <2>5, SameStreaks DEF ReportIsTrue, TypeOK
  <2>7. QED
    BY <1>1, <1>3, <2>4, <2>6
<1>6. CASE ListSensors(m) \/ ScrapeFails(m) \/ RemoveMembers(m)
  <2>1. /\ UNCHANGED <<hash, report, currentTime, raced>>
        /\ \A n \in Scrapes : stale'[n] \subseteq stale[n]
    BY <1>6 DEF ListSensors, ScrapeFails, RemoveMembers, TypeOK
  <2>2. StaleIsOldOrRaced'
    BY <2>1 DEF StaleIsOldOrRaced
  <2>3. ReportIsTrue'
    BY <1>2, <2>1, SameStreaks DEF ReportIsTrue
  <2>4. QED
    BY <1>1, <1>3, <2>2, <2>3
<1>7. ASSUME NEW s \in Sensors, DeleteHash(m, s)
      PROVE  IInv'
  <2>1. /\ UNCHANGED <<report, currentTime, raced>>
        /\ \A n \in Scrapes : stale'[n] \subseteq stale[n] /\ stale[n] \subseteq Sensors
    BY <1>7 DEF DeleteHash, TypeOK
  <2>2. StaleIsOldOrRaced'
    BY <1>2, <2>1 DEF StaleIsOldOrRaced
  <2>3. ReportIsTrue'
    BY <1>2, <2>1, SameStreaks DEF ReportIsTrue
  <2>4. QED
    BY <1>1, <1>3, <2>2, <2>3
<1>8. QED
  BY <1>4, <1>5, <1>6, <1>7 DEF ScrapeStep

LEMMA IInvNext == IInv /\ [Next]_vars => IInv'
<1> SUFFICES ASSUME IInv, [Next]_vars
             PROVE  IInv'
  OBVIOUS
<1> USE DEF IInv
<1>1. TypeOK'
  BY TypeNext
<1>2. CASE \E s \in Sensors : Observe(s)
  BY <1>2, ObserveKeeps
<1>3. CASE RecordStep
  BY <1>3, RecordKeeps
<1>4. CASE \E m \in Scrapes : BeginScrape(m) \/ ScrapeStep(m)
  BY <1>4, ScrapeKeeps
<1>5. CASE Tick
  <2>1. BeatsArePast'
    BY <1>5 DEF Tick, BeatsArePast, TypeOK
  <2>2. UNCHANGED <<hash, record, beats, report, currentTime, stale, raced>>
    BY <1>5 DEF Tick
  <2>3. QED
    BY <1>1, <2>1, <2>2, SameStreaks
       DEF HashesAreStreaks, MessageIsLatest, ExistingIsCurrent, StaleIsOldOrRaced, ReportIsTrue
<1>6. CASE StartFails \/ Stop \/ StopFails \/ QuitRedis \/ UNCHANGED vars
  <2>1. UNCHANGED <<now, hash, record, beats, report, currentTime, stale, raced>>
    BY <1>6 DEF StartFails, Stop, StopFails, QuitRedis, vars
  <2>2. QED
    BY <1>1, <2>1, SameStreaks
       DEF BeatsArePast, HashesAreStreaks, MessageIsLatest, ExistingIsCurrent,
           StaleIsOldOrRaced, ReportIsTrue
<1>7. CASE Start \/ LoopEnds
  <2>1. /\ UNCHANGED <<now, hash, beats, report, currentTime, stale, raced>>
        /\ loop' \in {"idle", "done"}
    BY <1>7 DEF Start, LoopEnds
  <2>2. QED
    BY <1>1, <2>1, SameStreaks
       DEF BeatsArePast, HashesAreStreaks, MessageIsLatest, ExistingIsCurrent,
           StaleIsOldOrRaced, ReportIsTrue
<1>8. CASE Stopped \/ Crash
  <2>1. /\ UNCHANGED <<now, hash, beats>>
        /\ loop' = "done"
        /\ stale' = [m \in Scrapes |-> {}]
        /\ report' = [m \in Scrapes |-> {}]
    BY <1>8 DEF Stopped, Crash, Vanish
  <2>2. QED
    BY <1>1, <2>1, SameStreaks
       DEF BeatsArePast, HashesAreStreaks, MessageIsLatest, ExistingIsCurrent,
           StaleIsOldOrRaced, ReportIsTrue
<1>9. QED
  BY <1>2, <1>3, <1>4, <1>5, <1>6, <1>7, <1>8 DEF Next

LEMMA Invariant == Spec => []IInv
<1>1. QED
  BY IInvInit, IInvNext, PTL DEF Spec

\* A sensor reported online was seen within the window of the scrape's time,
\* and its uptime is counted from the start of a streak without an offline
\* gap (createMetrics, recordAuthorizedSensor).
THEOREM ReportsAreTrue == Spec => []ReportIsTrue
<1>1. IInv => ReportIsTrue
  BY DEF IInv
<1>2. QED
  BY <1>1, Invariant, PTL

\* The steps that change a hash.
LEMMA HashSteps ==
  ASSUME [Next]_vars, hash' # hash
  PROVE  WriteHash \/ \E m \in Scrapes : \E s \in Sensors : DeleteHash(m, s)
<1>1. ~UNCHANGED vars
  BY DEF vars
<1>2. CASE (\E s \in Sensors : Observe(s)) \/ RecordStep
  BY <1>2 DEF Observe, RecordStep, ReadExisting, Join, CommandRejects
<1>3. CASE \E m \in Scrapes : BeginScrape(m) \/ ScrapeStep(m)
  BY <1>3 DEF BeginScrape, ScrapeStep, ListSensors, ReadHashes, RemoveMembers, ScrapeFails
<1>4. CASE Tick \/ Start \/ StartFails \/ Stop \/ StopFails \/ QuitRedis \/ LoopEnds
  BY <1>4 DEF Tick, Start, StartFails, Stop, StopFails, QuitRedis, LoopEnds
<1>5. CASE Stopped \/ Crash
  BY <1>5 DEF Stopped, Crash, Vanish
<1>6. QED
  BY <1>1, <1>2, <1>3, <1>4, <1>5 DEF Next

\* The record of a sensor is kept until it is pruned: firstSeen stays,
\* lastSeen never moves back, and only a gap above the window begins a streak
\* (the hash recordAuthorizedSensor computes from the one it read).
THEOREM RecordsAreKept == Spec => RecordIsKept
<1> DEFINE Kept(s) ==
             (hash[s] # NoHash /\ hash'[s] # NoHash) =>
               /\ hash'[s].firstSeen = hash[s].firstSeen
               /\ hash'[s].lastSeen >= hash[s].lastSeen
               /\ hash'[s].onlineSince # hash[s].onlineSince =>
                    hash'[s].lastSeen - hash[s].lastSeen > OnlineWindow
<1>1. ASSUME IInv, [Next]_vars, NEW s \in Sensors
      PROVE  Kept(s)
  <2> USE DEF IInv
  <2>1. hash \in [Sensors -> Hash \cup {NoHash}] /\ sensor \in Sensors /\ observedAt \in Nat
    BY <1>1 DEF TypeOK
  <2>2. CASE hash'[s] = hash[s]
    BY <2>1, <2>2 DEF Hash
  <2>3. CASE WriteHash /\ s = sensor /\ hash[s] # NoHash
    <3>1. /\ existing = hash[s] /\ existing \in Hash
          /\ hash'[s] = Recorded /\ existing.lastSeen <= observedAt
      BY <1>1, <2>1, <2>3
         DEF WriteHash, ExistingIsCurrent, MessageIsLatest, Streak
    <3>2. QED
      BY <2>1, <2>3, <3>1 DEF Recorded, StreakStart, Hash
  <2>4. CASE hash'[s] = NoHash
    BY <2>4
  <2>5. CASE hash' # hash /\ hash'[s] # hash[s]
    <3>1. CASE WriteHash
      BY <2>1, <2>3, <2>5, <3>1 DEF WriteHash
    <3>2. CASE \E m \in Scrapes : \E t \in Sensors : DeleteHash(m, t)
      BY <2>1, <2>4, <2>5, <3>2 DEF DeleteHash
    <3>3. QED
      BY <1>1, <2>5, <3>1, <3>2, HashSteps
  <2>6. QED
    BY <2>2, <2>5
<1>2. IInv /\ [Next]_vars => [\A s \in Sensors : Kept(s)]_vars
  BY <1>1
<1>3. QED
  BY <1>2, Invariant, PTL DEF Spec, RecordIsKept

\* A scrape erases only hashes past retention at its time, or written after it
\* read them: the race between pruning and recording does nothing worse.
THEOREM ErasedAreStaleOrRaced == Spec => ErasedIsStaleOrRaced
<1> DEFINE Cause(s) ==
             (hash[s] # NoHash /\ hash'[s] = NoHash) =>
               \E m \in Scrapes :
                 /\ s \in stale[m]
                 /\ s \in raced[m] \/ currentTime[m] - hash[s].lastSeen > RetentionWindow
<1>1. ASSUME IInv, [Next]_vars, NEW s \in Sensors, hash[s] # NoHash, hash'[s] = NoHash
      PROVE  \E m \in Scrapes :
               /\ s \in stale[m]
               /\ s \in raced[m] \/ currentTime[m] - hash[s].lastSeen > RetentionWindow
  <2> USE DEF IInv
  <2>1. hash \in [Sensors -> Hash \cup {NoHash}] /\ hash' # hash
    BY <1>1 DEF TypeOK
  <2>2. ~WriteHash
    BY <1>1, <2>1, RecordedType, NoHashAssumption DEF WriteHash
  <2>3. PICK m \in Scrapes, t \in Sensors : DeleteHash(m, t)
    BY <1>1, <2>1, <2>2, HashSteps
  <2>4. s = t /\ s \in stale[m]
    BY <1>1, <2>1, <2>3 DEF DeleteHash
  <2>5. QED
    BY <1>1, <2>4 DEF StaleIsOldOrRaced
<1>2. IInv /\ [Next]_vars => [\A s \in Sensors : Cause(s)]_vars
  BY <1>1
<1>3. QED
  BY <1>2, Invariant, PTL DEF Spec, ErasedIsStaleOrRaced

=============================================================================
