-------------------------- MODULE HeartbeatTracker --------------------------
(***************************************************************************)
(* heartbeat-tracker (services/heartbeat-tracker/src/index.ts): a consumer *)
(* loop records when each sensor was seen, and every scrape of /metrics    *)
(* reads what is recorded and prunes the sensors not seen for long.  Both  *)
(* work on the same hashes and the same set in Redis, one awaited command  *)
(* at a time; commands sent together are carried out together.             *)
(*                                                                         *)
(* Messages that carry no authorized telemetry change nothing and are left *)
(* out, and so is the count of messages consumed.  Offsets are committed   *)
(* by the Kafka client on its own: any message may be seen again, or not   *)
(* at all, and the next one may be that of any sensor.  A service is not   *)
(* started again once it has stopped: the next start is of a new process.  *)
(***************************************************************************)
EXTENDS Integers, FiniteSets

CONSTANTS
  Sensors,
  Scrapes,          \* bound: scrapes of /metrics that may overlap
  NoHash,           \* what hgetall returns for a missing hash
  OnlineWindow,     \* config.onlineWindowMs
  RetentionWindow,  \* config.retentionWindowMs
  MaxTime,          \* bound: the clock
  MaxProcesses,     \* bound: processes, one after another
  Faults            \* may Redis and Kafka fail?

ASSUME WindowAssumption == OnlineWindow \in Nat /\ RetentionWindow \in Nat
ASSUME TrackerBoundsAssumption ==
  MaxTime \in Nat /\ MaxProcesses \in Nat /\ Faults \in BOOLEAN

Hash == [firstSeen : Nat, lastSeen : Nat, onlineSince : Nat]

ASSUME NoHashAssumption == NoHash \notin Hash

VARIABLES
  now,
  hash,         \* Redis: sensor -> its hash, or NoHash
  members,      \* Redis: the set of sensors
  phase,        \* down, running, closing, quit, or adrift: stop() rejected
  loop,         \* recordAuthorizedSensor: idle, read, write or join; done
  sensor, observedAt, existing,   \* its locals
  scrape,       \* scrape -> where createMetrics stands: idle, list, read, srem, del
  currentTime, sensorIds,         \* its locals
  stale,        \* scrape -> staleSensorIds not pruned yet
  report,       \* scrape -> sensors it reported online, with onlineSince
  beats,        \* history: sensor -> times it was observed at
  raced,        \* history: scrape -> sensors written since it read the hashes
  torn,         \* history: sensors whose hash lost its place in the set
  processes     \* processes started

redis   == <<hash, members>>
service == <<phase, processes>>
record  == <<loop, sensor, observedAt, existing>>
metrics == <<scrape, currentTime, sensorIds, stale, report>>
history == <<beats, raced, torn>>
vars == <<now, redis, service, record, metrics, history>>

\* redis.quit() is done, or nothing runs: commands reject.
Connected == phase \notin {"down", "quit"}

\* Hashes of S the set does not list.
Unlisted(S) == {s \in S \ members : hash[s] # NoHash}

Init ==
  /\ now = 0
  /\ hash = [s \in Sensors |-> NoHash]
  /\ members = {}
  /\ phase = "down"
  /\ loop = "done"
  /\ sensor \in Sensors
  /\ observedAt = 0
  /\ existing = NoHash
  /\ scrape = [m \in Scrapes |-> "idle"]
  /\ currentTime = [m \in Scrapes |-> 0]
  /\ sensorIds = [m \in Scrapes |-> {}]
  /\ stale = [m \in Scrapes |-> {}]
  /\ report = [m \in Scrapes |-> {}]
  /\ beats = [s \in Sensors |-> {}]
  /\ raced = [m \in Scrapes |-> {}]
  /\ torn = {}
  /\ processes = 0

-----------------------------------------------------------------------------
(* recordAuthorizedSensor, for the message the loop has in hand.           *)

\* A message with authorized telemetry of sensor s.
Observe(s) ==
  /\ phase # "down"
  /\ loop = "idle"
  /\ loop' = "read"
  /\ sensor' = s
  /\ observedAt' = now
  /\ beats' = [beats EXCEPT ![s] = @ \cup {now}]
  /\ UNCHANGED <<now, redis, service, existing, metrics, raced, torn>>

ReadExisting ==
  /\ loop = "read"
  /\ Connected
  /\ loop' = "write"
  /\ existing' = hash[sensor]
  /\ UNCHANGED <<now, redis, service, sensor, observedAt, metrics, history>>

\* Mutant: an offline gap does not end the streak.
StreakStartForever ==
  IF existing = NoHash THEN observedAt ELSE existing.onlineSince

\* Mutant: every message starts a streak.
StreakStartAlways == observedAt

\* The streak goes on unless the gap since the last message is too long.
StreakStart ==
  IF existing = NoHash \/ observedAt - existing.lastSeen > OnlineWindow
  THEN observedAt ELSE existing.onlineSince

Recorded ==
  [firstSeen |-> IF existing = NoHash THEN observedAt ELSE existing.firstSeen,
   lastSeen |-> observedAt,
   onlineSince |-> StreakStart]

WriteHash ==
  /\ loop = "write"
  /\ Connected
  /\ loop' = "join"
  /\ hash' = [hash EXCEPT ![sensor] = Recorded]
  /\ raced' = [m \in Scrapes |-> IF stale[m] = {} THEN {} ELSE raced[m] \cup {sensor}]
  /\ UNCHANGED <<now, members, service, sensor, observedAt, existing, metrics, beats, torn>>

\* Mutant: only a sensor that had no hash is added to the set.
JoinIfNew ==
  /\ loop = "join"
  /\ Connected
  /\ loop' = "idle"
  /\ members' = IF existing = NoHash THEN members \cup {sensor} ELSE members
  /\ existing' = NoHash
  /\ torn' = torn \ {sensor}
  /\ UNCHANGED <<now, hash, service, sensor, observedAt, metrics, beats, raced>>

Join ==
  /\ loop = "join"
  /\ Connected
  /\ loop' = "idle"
  /\ members' = members \cup {sensor}
  /\ existing' = NoHash
  /\ torn' = torn \ {sensor}
  /\ UNCHANGED <<now, hash, service, sensor, observedAt, metrics, beats, raced>>

\* The command rejects because stop() has quit the connection: the loop ends,
\* and stop() swallows the rejection.
CommandRejects ==
  /\ phase = "quit"
  /\ loop \in {"read", "write", "join"}
  /\ loop' = "done"
  /\ existing' = NoHash
  /\ torn' = IF loop = "join" THEN torn \cup Unlisted({sensor}) ELSE torn
  /\ UNCHANGED <<now, redis, service, sensor, observedAt, metrics, beats, raced>>

-----------------------------------------------------------------------------
(* createMetrics.                                                          *)

Online(m, h) == currentTime[m] - h.lastSeen <= OnlineWindow

\* Mutant: sensors that are only offline are pruned.
ExpiredOffline(m, h) == ~Online(m, h)

\* Not seen within the retention window.
Expired(m, h) == currentTime[m] - h.lastSeen > RetentionWindow

\* A scrape begins by reading the clock.
BeginScrape(m) ==
  /\ phase # "down"
  /\ scrape[m] = "idle"
  /\ scrape' = [scrape EXCEPT ![m] = "list"]
  /\ currentTime' = [currentTime EXCEPT ![m] = now]
  /\ report' = [report EXCEPT ![m] = {}]
  /\ UNCHANGED <<now, redis, service, record, sensorIds, stale, history>>

ListSensors(m) ==
  /\ scrape[m] = "list"
  /\ Connected
  /\ scrape' = [scrape EXCEPT ![m] = "read"]
  /\ sensorIds' = [sensorIds EXCEPT ![m] = members]
  /\ UNCHANGED <<now, redis, service, record, currentTime, stale, report, history>>

\* Mutant: the scrape goes on to prune even if nothing is stale.
ReadAndPrune(m) ==
  /\ scrape[m] = "read"
  /\ Connected
  /\ scrape' = [scrape EXCEPT ![m] = "srem"]
  /\ sensorIds' = [sensorIds EXCEPT ![m] = {}]
  /\ UNCHANGED <<now, redis, service, record, currentTime, stale, report, history>>

\* All hashes are read; a sensor without one is skipped, an expired one is
\* marked, another one reported.  Without anything to prune the scrape ends.
ReadHashes(m) ==
  /\ scrape[m] = "read"
  /\ Connected
  /\ LET valid == {s \in sensorIds[m] : hash[s] # NoHash}
         old == {s \in valid : Expired(m, hash[s])}
     IN /\ stale' = [stale EXCEPT ![m] = old]
        /\ report' = [report EXCEPT ![m] =
             {<<s, hash[s].onlineSince>> : s \in {v \in valid \ old : Online(m, hash[v])}}]
        /\ scrape' = [scrape EXCEPT ![m] = IF old = {} THEN "idle" ELSE "srem"]
  /\ sensorIds' = [sensorIds EXCEPT ![m] = {}]
  /\ raced' = [raced EXCEPT ![m] = {}]
  /\ UNCHANGED <<now, redis, service, record, currentTime, beats, torn>>

\* srem for every stale sensor; where it rejects, possibly after it took
\* effect, there is no del.
RemoveMembers(m) ==
  /\ scrape[m] = "srem"
  /\ \E gone \in SUBSET stale[m] : \E ok \in SUBSET gone :
       /\ IF Connected THEN Faults \/ ok = stale[m] ELSE gone = {}
       /\ torn' = torn \cup {s \in gone \ ok : hash[s] # NoHash}
       /\ members' = members \ gone
       /\ stale' = [stale EXCEPT ![m] = ok]
       /\ scrape' = [scrape EXCEPT ![m] = IF ok = {} THEN "idle" ELSE "del"]
  /\ UNCHANGED <<now, hash, service, record, currentTime, sensorIds, report, beats, raced>>

\* del for a sensor whose srem is done; it may reject, without effect.
DeleteHash(m, s) ==
  /\ scrape[m] = "del"
  /\ s \in stale[m]
  /\ \/ /\ Connected
        /\ hash' = [hash EXCEPT ![s] = NoHash]
        /\ torn' = torn \ {s}
     \/ /\ Faults \/ ~Connected
        /\ torn' = torn \cup Unlisted({s})
        /\ UNCHANGED hash
  /\ stale' = [stale EXCEPT ![m] = @ \ {s}]
  /\ scrape' = [scrape EXCEPT ![m] = IF stale[m] = {s} THEN "idle" ELSE "del"]
  /\ UNCHANGED <<now, members, service, record, currentTime, sensorIds, report, beats, raced>>

\* A read of the scrape rejects: 500.
ScrapeFails(m) ==
  /\ Faults \/ ~Connected
  /\ scrape[m] \in {"list", "read"}
  /\ scrape' = [scrape EXCEPT ![m] = "idle"]
  /\ sensorIds' = [sensorIds EXCEPT ![m] = {}]
  /\ UNCHANGED <<now, redis, service, record, currentTime, stale, report, history>>

-----------------------------------------------------------------------------
(* start(), stop() and the surroundings.                                   *)

Tick ==
  /\ now < MaxTime
  /\ now' = now + 1
  /\ UNCHANGED <<redis, service, record, metrics, history>>

\* start(): the stream is open and the health server listens.
Start ==
  /\ phase = "down"
  /\ processes < MaxProcesses
  /\ processes' = processes + 1
  /\ phase' = "running"
  /\ loop' = "idle"
  /\ UNCHANGED <<now, redis, sensor, observedAt, existing, metrics, history>>

\* start() rejects: what it opened is closed again, and the process ends.
StartFails ==
  /\ Faults
  /\ phase = "down"
  /\ processes < MaxProcesses
  /\ processes' = processes + 1
  /\ UNCHANGED <<now, redis, phase, record, metrics, history>>

\* stop(): consumer.close() is awaited ...
Stop ==
  /\ phase = "running"
  /\ phase' = "closing"
  /\ UNCHANGED <<now, redis, processes, record, metrics, history>>

\* ... and rejects, and stop() with it: the service runs on, and a further
\* stop() is skipped; ...
StopFails ==
  /\ Faults
  /\ phase = "closing"
  /\ phase' = "adrift"
  /\ UNCHANGED <<now, redis, processes, record, metrics, history>>

\* ... or the connection to Redis is quit, under the loop and the scrapes.
QuitRedis ==
  /\ phase = "closing"
  /\ phase' = "quit"
  /\ UNCHANGED <<now, redis, processes, record, metrics, history>>

\* The closed stream ends.
LoopEnds ==
  /\ phase \in {"closing", "quit"}
  /\ loop = "idle"
  /\ loop' = "done"
  /\ UNCHANGED <<now, redis, service, sensor, observedAt, existing, metrics, history>>

\* The process is gone, and with it the second command of a pair.
Vanish ==
  /\ phase' = "down"
  /\ torn' = torn \cup Unlisted({s \in Sensors :
                \/ loop = "join" /\ sensor = s
                \/ \E m \in Scrapes : scrape[m] = "del" /\ s \in stale[m]})
  /\ loop' = "done"
  /\ existing' = NoHash
  /\ scrape' = [m \in Scrapes |-> "idle"]
  /\ sensorIds' = [m \in Scrapes |-> {}]
  /\ stale' = [m \in Scrapes |-> {}]
  /\ report' = [m \in Scrapes |-> {}]
  /\ raced' = [m \in Scrapes |-> {}]
  /\ UNCHANGED <<now, redis, processes, sensor, observedAt, currentTime, beats>>

\* stop() returns: the health server has answered its requests, and the loop
\* is done.
Stopped ==
  /\ phase = "quit"
  /\ loop = "done"
  /\ \A m \in Scrapes : scrape[m] = "idle"
  /\ Vanish

\* The process is killed, or ended by a rejection in the loop that nobody
\* handles, of a command that may be done.
Crash ==
  /\ phase # "down"
  /\ Vanish

RecordStep == ReadExisting \/ WriteHash \/ Join \/ CommandRejects

ScrapeStep(m) ==
  \/ ListSensors(m) \/ ReadHashes(m) \/ RemoveMembers(m)
  \/ \E s \in Sensors : DeleteHash(m, s)
  \/ ScrapeFails(m)

Next ==
  \/ \E s \in Sensors : Observe(s)
  \/ RecordStep
  \/ \E m \in Scrapes : BeginScrape(m) \/ ScrapeStep(m)
  \/ Tick
  \/ Start \/ StartFails
  \/ Stop \/ StopFails \/ QuitRedis \/ LoopEnds \/ Stopped
  \/ Crash

Spec == Init /\ [][Next]_vars

-----------------------------------------------------------------------------
(* Properties.                                                             *)

\* Type correctness, and where the locals of a scrape are in use.
TypeOK ==
  /\ now \in 0..MaxTime
  /\ hash \in [Sensors -> Hash \cup {NoHash}]
  /\ members \subseteq Sensors
  /\ phase \in {"down", "running", "adrift", "closing", "quit"}
  /\ loop \in {"idle", "read", "write", "join", "done"}
  /\ loop = "done" => phase \in {"down", "closing", "quit", "adrift"}
  /\ sensor \in Sensors
  /\ observedAt \in 0..now
  /\ existing \in Hash \cup {NoHash}
  /\ scrape \in [Scrapes -> {"idle", "list", "read", "srem", "del"}]
  /\ currentTime \in [Scrapes -> 0..now]
  /\ sensorIds \in [Scrapes -> SUBSET Sensors]
  /\ stale \in [Scrapes -> SUBSET Sensors]
  /\ \A m \in Scrapes : stale[m] # {} <=> scrape[m] \in {"srem", "del"}
  /\ report \in [Scrapes -> SUBSET (Sensors \X Nat)]
  /\ beats \in [Sensors -> SUBSET Nat]
  /\ raced \in [Scrapes -> SUBSET Sensors]
  /\ torn \subseteq Sensors
  /\ processes \in 0..MaxProcesses

\* Sensor s was seen at time from, and from there until time to again and
\* again without a gap above the window.
Continuous(s, from, to) ==
  /\ from \in beats[s]
  /\ \A b \in beats[s] : (from < b /\ b <= to) =>
       \E a \in beats[s] : from <= a /\ a < b /\ b - a <= OnlineWindow

\* A sensor reported online was seen within the window of the scrape's time,
\* and the streak its uptime is counted from has no offline gap, however the
\* scrape, pruning by others, deaths and new messages interleave.
ReportIsTrue ==
  \A m \in Scrapes : \A entry \in report[m] :
    \E last \in beats[entry[1]] :
      /\ currentTime[m] - last <= OnlineWindow
      /\ Continuous(entry[1], entry[2], last)

\* A hash no scrape can find, because the set does not list its sensor, is
\* never the work of pruning and recording that interleave: its second command
\* is on its way, or it was cut off from it by a rejection, a stop() or the
\* end of a process.
HashIsListed ==
  \A s \in Sensors : hash[s] # NoHash =>
    \/ s \in members
    \/ s \in torn
    \/ loop = "join" /\ sensor = s
    \/ \E m \in Scrapes : scrape[m] = "del" /\ s \in stale[m]

\* What is recorded of a sensor is kept: firstSeen until its hash is pruned,
\* onlineSince until it is pruned or a gap above the window is observed, and
\* lastSeen never moves back.
RecordIsKept ==
  [][\A s \in Sensors :
       (hash[s] # NoHash /\ hash'[s] # NoHash) =>
          /\ hash'[s].firstSeen = hash[s].firstSeen
          /\ hash'[s].lastSeen >= hash[s].lastSeen
          /\ hash'[s].onlineSince # hash[s].onlineSince =>
               hash'[s].lastSeen - hash[s].lastSeen > OnlineWindow]_vars

\* A hash is erased only if it was past retention for the scrape that erases
\* it, or was written after that scrape read the hashes: pruning can race with
\* a message, which the code does not exclude, but does nothing worse.
ErasedIsStaleOrRaced ==
  [][\A s \in Sensors :
       (hash[s] # NoHash /\ hash'[s] = NoHash) =>
          \E m \in Scrapes :
            /\ s \in stale[m]
            /\ s \in raced[m] \/ currentTime[m] - hash[s].lastSeen > RetentionWindow]_vars

=============================================================================
