---------------------------- MODULE IpfsPublisher ----------------------------
(***************************************************************************)
(* ipfs-publisher (services/ipfs-publisher/src/index.ts): consumes         *)
(* authorized telemetry from Kafka, collects it in currentBatch and        *)
(* archives the batch: IPFS, then the result event, then the offsets.      *)
(*                                                                         *)
(* The consumer loop and the batch timer both call flushBatch and share    *)
(* currentBatch.  Each of them runs to its next await, so the steps here   *)
(* are the stretches between awaits: a flush copies the batch, and empties *)
(* currentBatch only three awaits later.                                   *)
(*                                                                         *)
(* A message is an item <<partition, n>>, the n-th of its partition; n is  *)
(* the offset that is committed for it, its own plus one.  The order of    *)
(* the items of a batch is abstracted away.                                *)
(*                                                                         *)
(* consume() is called without a mode: the stream of a new process starts  *)
(* at the end of the topic, whatever offsets the group has committed (the  *)
(* default of @platformatic/kafka, an assumption about the library).       *)
(***************************************************************************)
EXTENDS Integers, Sequences, FiniteSets, FiniteSetsExt

CONSTANTS
  Partitions,   \* partitions of telemetry.authorized.v1
  Log,          \* partition -> all the messages it will ever hold, a
                \* sequence of "telemetry" or "unreadable"
  BatchSize,    \* config.batchSize
  Timers,       \* bound: expired batch timers whose flush may overlap
  Loop,         \* the flush of the consumer loop
  MaxCrashes,   \* bound: process deaths
  Faults        \* may calls to IPFS and Kafka fail?

ASSUME LogAssumption ==
  /\ DOMAIN Log = Partitions
  /\ \A p \in Partitions :
       /\ Len(Log[p]) \in Nat
       /\ \A n \in 1..Len(Log[p]) : Log[p][n] \in {"telemetry", "unreadable"}
ASSUME BatchSizeAssumption == BatchSize \in Nat \ {0}
ASSUME FlusherAssumption == Loop \notin Timers /\ IsFiniteSet(Timers)
ASSUME PublisherBoundsAssumption == MaxCrashes \in Nat /\ Faults \in BOOLEAN

VARIABLES
  committed,    \* partition -> offset committed in Kafka for the group
  phase,        \* down, running, stopping or ending
  position,     \* partition -> messages handed over by a stream, or passed
                \* over by the start of one
  loop,         \* where the consumer loop stands: next, lag, flush or done
  batch,        \* currentBatch
  timer,        \* is batchTimer armed?
  flush,        \* flusher -> where its flushBatch stands
  copy,         \* flusher -> its batchToPublish
  archived,     \* history: items of announced batches
  dropped,      \* history: items removed from currentBatch unpublished
  cut,          \* history: items that a process held when it ended
  missed,       \* history: items that were produced before a process started,
                \* and that no process before it was handed
  flushFailed,  \* history: a flush failed, and nothing arrived since
  crashes

kafka   == <<committed>>
stream  == <<phase, position, loop>>
flushes == <<flush, copy>>
history == <<archived, dropped, cut, missed>>
vars == <<kafka, stream, batch, timer, flushes, history, flushFailed, crashes>>

Flushers == {Loop} \cup Timers

Items == UNION {{p} \X (1..Len(Log[p])) : p \in Partitions}

Telemetry(p, n) == Log[p][n] = "telemetry"

\* Mutant: the offset of an item, which is already the next one, is counted
\* up once more.
OffsetsPastNext(items) ==
  [p \in Partitions |->
     LET offsets == {n \in 1..Len(Log[p]) : <<p, n>> \in items}
     IN IF offsets = {} THEN committed[p] ELSE Max(offsets) + 1]

\* Mutant: what the stream has handed over is committed.
OffsetsHandedOver(items) == position

\* The last offset of each partition among the items, the group's otherwise.
OffsetsByPartition(items) ==
  [p \in Partitions |->
     LET offsets == {n \in 1..Len(Log[p]) : <<p, n>> \in items}
     IN IF offsets = {} THEN committed[p] ELSE Max(offsets)]

-----------------------------------------------------------------------------
(* flushBatch.                                                             *)

\* Flusher f enters flushBatch with batch b: the copy to publish is taken
\* here, and publishBatch starts with the upload to IPFS.
BeginFlush(f, b) ==
  /\ flush' = [flush EXCEPT ![f] = "ipfs"]
  /\ copy' = [copy EXCEPT ![f] = b]

\* The flusher's call of flushBatch returns; the loop awaited it.
EndFlush(f) ==
  /\ flush' = [flush EXCEPT ![f] = "none"]
  /\ copy' = [copy EXCEPT ![f] = {}]
  /\ loop' = IF f # Loop THEN loop
             ELSE IF phase = "ending" THEN "done" ELSE "next"

\* The upload to IPFS succeeds.
AddToIpfs(f) ==
  /\ flush[f] = "ipfs"
  /\ flush' = [flush EXCEPT ![f] = "result"]
  /\ UNCHANGED <<kafka, stream, batch, timer, copy, history, flushFailed, crashes>>

\* Mutant: the result event is not awaited before the offsets are committed.
SendResultLater(f) ==
  /\ flush[f] = "result"
  /\ flush' = [flush EXCEPT ![f] = "commit"]
  /\ UNCHANGED <<kafka, stream, batch, timer, copy, history, flushFailed, crashes>>

\* The result event with the CID is produced.
SendResult(f) ==
  /\ flush[f] = "result"
  /\ flush' = [flush EXCEPT ![f] = "commit"]
  /\ archived' = archived \cup copy[f]
  /\ UNCHANGED <<kafka, stream, batch, timer, copy, dropped, cut, missed, flushFailed,
                 crashes>>

\* Mutant: the batch and its timer are not reset after the commit.
CommitKeepsBatch(f) ==
  /\ flush[f] = "commit"
  /\ committed' = OffsetsByPartition(copy[f])
  /\ timer' = FALSE
  /\ EndFlush(f)
  /\ UNCHANGED <<phase, position, batch, history, flushFailed, crashes>>

\* The offsets are committed, which overwrites the group's; the batch, as it
\* is now, is emptied and the timer cleared.
CommitAndClear(f) ==
  /\ flush[f] = "commit"
  /\ committed' = OffsetsByPartition(copy[f])
  /\ dropped' = dropped \cup (batch \ (copy[f] \cup archived))
  /\ batch' = {}
  /\ timer' = FALSE
  /\ EndFlush(f)
  /\ UNCHANGED <<phase, position, archived, cut, missed, flushFailed, crashes>>

\* A call of the flush rejects, possibly after it took effect: the batch is
\* kept.  Once stop() closed the clients, calls reject in any case.
FlushFails(f) ==
  /\ Faults \/ phase = "stopping"
  /\ flush[f] # "none"
  /\ flushFailed' = TRUE
  /\ \/ UNCHANGED <<archived, committed>>
     \/ /\ flush[f] = "result"
        /\ archived' = archived \cup copy[f]
        /\ UNCHANGED committed
     \/ /\ flush[f] = "commit"
        /\ committed' = OffsetsByPartition(copy[f])
        /\ UNCHANGED archived
  /\ EndFlush(f)
  /\ UNCHANGED <<phase, position, batch, timer, dropped, cut, missed, crashes>>

-----------------------------------------------------------------------------
(* The consumer loop and the timer.                                        *)

Init ==
  /\ committed = [p \in Partitions |-> 0]
  /\ phase = "down"
  /\ position = [p \in Partitions |-> 0]
  /\ loop = "done"
  /\ batch = {}
  /\ timer = FALSE
  /\ flush = [f \in Flushers |-> "none"]
  /\ copy = [f \in Flushers |-> {}]
  /\ archived = {}
  /\ dropped = {}
  /\ cut = {}
  /\ missed = {}
  /\ flushFailed = FALSE
  /\ crashes = 0

\* Where the topic may end when a process starts.
TopicEnds ==
  {end \in [Partitions -> UNION {0..Len(Log[p]) : p \in Partitions}] :
     \A p \in Partitions : position[p] <= end[p] /\ end[p] <= Len(Log[p])}

\* start(): the stream begins at the end of the topic.
Start ==
  /\ phase = "down"
  /\ phase' = "running"
  /\ position' \in TopicEnds
  /\ missed' = missed \cup
       {i \in Items : position[i[1]] < i[2] /\ i[2] <= position'[i[1]]}
  /\ loop' = "next"
  /\ UNCHANGED <<kafka, batch, timer, flushes, archived, dropped, cut, flushFailed,
                 crashes>>

\* The stream hands over the next message of a partition: an unreadable one
\* is skipped, telemetry joins the batch; a full batch is flushed at once,
\* otherwise the loop asks for the consumer lag.
Receive(p) ==
  /\ phase = "running"
  /\ loop = "next"
  /\ position[p] < Len(Log[p])
  /\ position' = [position EXCEPT ![p] = @ + 1]
  /\ LET n == position[p] + 1
         b == batch \cup {<<p, n>>}
     IN \/ /\ ~Telemetry(p, n)
           /\ UNCHANGED <<loop, batch, flushes, flushFailed>>
        \/ /\ Telemetry(p, n)
           /\ Cardinality(b) >= BatchSize
           /\ batch' = b
           /\ flushFailed' = FALSE
           /\ loop' = "flush"
           /\ BeginFlush(Loop, b)
        \/ /\ Telemetry(p, n)
           /\ Cardinality(b) < BatchSize
           /\ batch' = b
           /\ flushFailed' = FALSE
           /\ loop' = "lag"
           /\ UNCHANGED flushes
  /\ UNCHANGED <<kafka, phase, timer, history, crashes>>

\* Mutant: the timer is not armed again.
LagIsLowNoTimer ==
  /\ loop = "lag"
  /\ loop' = "next"
  /\ UNCHANGED <<kafka, phase, position, batch, timer, flushes, history,
                 flushFailed, crashes>>

\* getTotalLag reports a low lag, or fails and counts as none: the timer is
\* armed anew unless the batch was emptied in the meantime.
LagIsLow ==
  /\ loop = "lag"
  /\ loop' = "next"
  /\ timer' = IF batch # {} THEN TRUE ELSE timer
  /\ UNCHANGED <<kafka, phase, position, batch, flushes, history, flushFailed, crashes>>

\* getTotalLag reports a high lag: flushBatch, which returns at once if the
\* batch was emptied in the meantime.
LagIsHigh ==
  /\ loop = "lag"
  /\ \/ /\ batch # {}
        /\ loop' = "flush"
        /\ BeginFlush(Loop, batch)
     \/ /\ batch = {}
        /\ loop' = "next"
        /\ UNCHANGED flushes
  /\ UNCHANGED <<kafka, phase, position, batch, timer, history, flushFailed, crashes>>

\* The timer expires; its callback flushes a batch that is not empty.
TimerFires(t) ==
  /\ timer
  /\ flush[t] = "none"
  /\ timer' = FALSE
  /\ \/ batch # {} /\ BeginFlush(t, batch)
     \/ batch = {} /\ UNCHANGED flushes
  /\ UNCHANGED <<kafka, stream, batch, history, flushFailed, crashes>>

\* stop(): sets shouldStop and closes the clients.
Stop ==
  /\ phase = "running"
  /\ phase' = "stopping"
  /\ UNCHANGED <<kafka, position, loop, batch, timer, flushes, history,
                 flushFailed, crashes>>

\* The loop leaves the closed stream; its finally clears the timer, and
\* flushes only if the stream ended without shouldStop.
LoopStops ==
  /\ phase = "stopping"
  /\ loop = "next"
  /\ loop' = "done"
  /\ timer' = FALSE
  /\ UNCHANGED <<kafka, phase, position, batch, flushes, history, flushFailed, crashes>>

\* The stream breaks while the loop waits for it: finally flushes, then the
\* rejection of runPromise, which nobody handles, ends the process.
StreamFails ==
  /\ Faults
  /\ phase = "running"
  /\ loop = "next"
  /\ crashes < MaxCrashes
  /\ crashes' = crashes + 1
  /\ phase' = "ending"
  /\ timer' = FALSE
  /\ \/ /\ batch # {}
        /\ loop' = "flush"
        /\ BeginFlush(Loop, batch)
     \/ /\ batch = {}
        /\ loop' = "done"
        /\ UNCHANGED flushes
  /\ UNCHANGED <<kafka, position, batch, history, flushFailed>>

\* The items a process holds that are neither announced nor dropped.
InHand == (batch \cup (UNION {copy[f] : f \in Flushers})) \ (archived \cup dropped)

\* The process is gone, and with it all but Kafka.
Vanish ==
  /\ cut' = cut \cup InHand
  /\ phase' = "down"
  /\ loop' = "done"
  /\ batch' = {}
  /\ timer' = FALSE
  /\ flush' = [f \in Flushers |-> "none"]
  /\ copy' = [f \in Flushers |-> {}]
  /\ flushFailed' = FALSE
  /\ UNCHANGED <<kafka, position, archived, dropped, missed>>

\* stop() returned, or the unhandled rejection struck.
Ended ==
  /\ phase \in {"stopping", "ending"}
  /\ loop = "done"
  /\ Vanish
  /\ UNCHANGED crashes

\* The process is killed; no signal is handled.
Crash ==
  /\ phase # "down"
  /\ crashes < MaxCrashes
  /\ crashes' = crashes + 1
  /\ Vanish

FlushStep(f) == AddToIpfs(f) \/ SendResult(f) \/ CommitAndClear(f) \/ FlushFails(f)

LoopStep == LagIsLow \/ LagIsHigh \/ LoopStops \/ Ended

Next ==
  \/ Start
  \/ \E p \in Partitions : Receive(p)
  \/ LoopStep
  \/ \E t \in Timers : TimerFires(t)
  \/ \E f \in Flushers : FlushStep(f)
  \/ Stop
  \/ StreamFails
  \/ Crash

\* Awaited calls settle, the event loop runs the loop's continuation, and an
\* armed timer expires.  Messages need not arrive.
Spec ==
  /\ Init /\ [][Next]_vars
  /\ WF_vars(LoopStep)
  /\ WF_vars(\E t \in Timers : TimerFires(t))
  /\ \A f \in Flushers : WF_vars(FlushStep(f))

-----------------------------------------------------------------------------
(* Properties.                                                             *)

\* Type correctness, and which variables agree: the loop is in a flush
\* exactly while its flusher is busy, and an idle flusher holds no copy.
TypeOK ==
  /\ committed \in [Partitions -> Nat]
  /\ \A p \in Partitions : committed[p] <= Len(Log[p])
  /\ phase \in {"down", "running", "stopping", "ending"}
  /\ position \in [Partitions -> Nat]
  /\ \A p \in Partitions : position[p] <= Len(Log[p])
  /\ loop \in {"next", "lag", "flush", "done"}
  /\ loop = "flush" <=> flush[Loop] # "none"
  /\ batch \subseteq Items
  /\ timer \in BOOLEAN
  /\ flush \in [Flushers -> {"none", "ipfs", "result", "commit"}]
  /\ copy \in [Flushers -> SUBSET Items]
  /\ \A f \in Flushers : flush[f] = "none" => copy[f] = {}
  /\ archived \subseteq Items
  /\ dropped \subseteq Items
  /\ cut \subseteq Items
  /\ missed \subseteq Items
  /\ flushFailed \in BOOLEAN
  /\ crashes \in 0..MaxCrashes

\* Telemetry below a committed offset is in an announced batch, unless its
\* loss has one of three causes: another flush emptied currentBatch with it,
\* a process ended with it in hand, or it came before a process started.  The
\* order of the three calls of flushBatch, their failures and their overlaps
\* lose nothing else.
LossHasCause ==
  \A p \in Partitions : \A n \in 1..committed[p] :
    Telemetry(p, n) => <<p, n>> \in archived \cup dropped \cup cut \cup missed

\* The service as a relay of telemetry.authorized.v1: telemetry is settled
\* when an announced batch holds it, or when it was dropped with the batch of
\* another flush, other messages are from the start.  Overlapping flushes
\* commit only what was handed over and is settled, and what no process will
\* be handed again is what a process held at its end, or what came before a
\* start.
Archiving == INSTANCE Relay WITH
  settled <- archived \cup dropped \cup {i \in Items : ~Telemetry(i[1], i[2])},
  lost <- cut \cup missed

RelaysTelemetry == Archiving!Spec

\* Telemetry waiting in the batch always has something that will flush it: an
\* armed timer, a flush under way or the lag check; only a failed flush
\* leaves it waiting for the next message.
BatchHasTrigger ==
  (phase = "running" /\ batch # {}) =>
     \/ timer
     \/ loop = "lag"
     \/ \E f \in Flushers : flush[f] # "none"
     \/ flushFailed

\* However often arrivals reset the timer, a batch is emptied in the end,
\* unless a flush fails or the process ends.
BatchIsFlushed ==
  (phase = "running" /\ batch # {}) ~> (batch = {} \/ flushFailed \/ phase # "running")

\* README.md of the service: "If any step fails, the batch remains
\* uncommitted and will be reprocessed. This ensures no telemetry is lost".
\* Said here of the telemetry of a process that lives on.
NoTelemetryLost ==
  \A p \in Partitions : \A n \in 1..committed[p] :
    Telemetry(p, n) => <<p, n>> \in archived \cup cut \cup missed

=============================================================================
