# A TLA+ development for sensors-connectivity

Specifications of the services of this repository, written from their source,
model-checked with TLC on small instances and, for the main safety properties of all
services, proved with TLAPS. `PROJECT.json` lists the runs, the
source lines every definition stands for, the hazards and the findings.

## 1. The system

Devices post signed telemetry; the services pass it on through Kafka.

```
 chain --finalized heads--> registry-sync --> Redis --> endpoint <-- devices
                                                          |
                                              telemetry.authorized.v1
                    +---------------------+---------------+--------------+
              heartbeat-tracker   pubsub-broadcaster            ipfs-publisher --> IPFS
                    |                                                    |
                  Redis                                 telemetry.ipfs-published.v1
                                                                         |
                                                    blockchain-anchor --> chain
```

Every service is a single Node process, one instance of each, so the only
concurrency inside one is between `await`s; no service handles a signal, so an
orderly `stop()` runs only when called, and SIGTERM is a crash. A rejection of
a service's `runPromise` has no handler and ends the process. Services meet only
through Kafka topics and Redis keys; each is modelled against what these hold.

| component | state | operations | what is hard | what makes it correct |
| --- | --- | --- | --- | --- |
| registry-sync | Redis: cursor, processed ids, sensor records, DLQ; process: promise chain of heads, event in process | start, backfill, subscription, `processEvent`, stop | three Redis calls per event, cursor per event, swallowed failures of heads, skipped and repeated heads, replays | nothing marked without its effect; nothing below the cursor lost; records follow chain order; no event blocks the rest |
| registry reader | Redis | `getSensorRecord`, `isNonceSeen`, `rememberNonce` | expiry; the form of the ids in its keys | it finds what registry-sync wrote |
| whitelist | an in-memory set of nonces | the same, for a configured set of sensors | restarts forget the nonces | see endpoint |
| endpoint | none beside the requests under way | POST /v1/telemetry | concurrent requests around a check-then-act on nonces; partial failure after the publish; the timestamp window against the lifetime of nonces | an acknowledged envelope is not accepted again; only enabled sensors publish; answers agree with topics |
| ipfs-publisher | `currentBatch`, timer, Kafka offsets | receive, flush by size, lag and timer, final flush, stop | loop and timer flush concurrently and share the batch; offsets of overlapping flushes; each process starts at the end of the topic | every loss has a named cause; no batch waits for ever |
| blockchain-anchor | Kafka offsets, one watched extrinsic | receive, submit, watch, commit, skip, stop | an outcome that comes late or never; commits of later messages; each process starts at the end of the topic | commits follow finality; nothing committed is anchored again; every CID passed over has a named cause |
| heartbeat-tracker | Redis: a hash per sensor, the set of sensors; process: loop, scrapes, connection | record, scrape and prune, start, stop | scrapes and the loop interleave on pairs of commands; stop quits Redis under both | reports are true; records are kept; only stale ones are pruned; every hash can be found |
| pubsub-broadcaster | Kafka offsets, counters, `pubsubClient` | take, publish once, automatic commit, start, stop | commits ahead of the loop; stop forgets the client under the loop | counters add up; every loss has a cause; the loop is not held up |
| core, proto, fake-sensor-cli, configuration, docker | - | codecs, validation, a test client | - | - |

## 2. Modules

| module | models |
| --- | --- |
| `RegistryEvents` | the pure functions of `chain-source.ts` and `keyspace.ts`: event filter, extraction, address normalization, numbering, mapping to an update, idempotency key |
| `RegistryEventsProofs` | theorems about the events of a block and their numbering |
| `Projection` | abstract: what registry-sync promises to the readers of its projection |
| `RegistrySync` | `index.ts`, `chain-source.ts`, `projection-store.ts` of registry-sync; extends `RegistryEvents`, implements `Projection` |
| `RegistrySyncProofs` | theorems about `RegistrySync` |
| `RegistryReader` | `reader.ts` on top of the store of `RegistrySync`, which it extends |
| `RegistryReaderProofs` | theorems about the reader's answers; extends `RegistrySyncProofs` |
| `Ingress` | abstract: what the endpoint promises to devices and to readers of its topic |
| `Endpoint` | `index.ts`, `producer.ts`, `sensor-auth-factory.ts` of endpoint with the reader of registry-sync and `whitelist-auth.ts`; implements `Ingress` |
| `EndpointProofs` | theorems about `Endpoint` |
| `Relay` | abstract: what a service with manual Kafka commits promises |
| `IpfsPublisher` | `index.ts` of ipfs-publisher; implements `Relay` |
| `IpfsPublisherProofs` | theorems about `IpfsPublisher` |
| `BlockchainAnchor` | `index.ts` of blockchain-anchor, with the chain its status callback sees; implements `Relay` |
| `BlockchainAnchorProofs` | theorems about `BlockchainAnchor` |
| `HeartbeatTracker` | `index.ts` of heartbeat-tracker: `recordAuthorizedSensor`, `createMetrics`, start and stop |
| `HeartbeatTrackerProofs` | theorems about `HeartbeatTracker` |
| `PubsubBroadcaster` | `index.ts` of pubsub-broadcaster |
| `PubsubBroadcasterProofs` | theorems about `PubsubBroadcaster` |
| `MC*` | small instances: the values a `.cfg` gives to the constants |

In the modules of services one action is the stretch of code from one `await` to the next.
A call that rejects is an action of its own, and may have taken effect, as a
timeout does. What the process knows and what Redis, Kafka or the chain know
are separate variables; a crash resets only the first. Variables marked
*history* record what happened for the properties and are read by no guard.

**RegistrySync.** `stage` is the `await` of `processEvent` at which the event
`<<height, index>>` stands (`check`, `apply`, `mark`, `commit` inside the retry
loop, `dlq`, `tailMark`, `tailCommit` outside, `head` for `onFinalizedHead`).
`phase` tells backfill, subscription, stopping, and a start that failed and is
not resumed. `stop()` does not wait for a backfill: it is `cutOff`, goes on while
the node and Redis are closed under it, and ends with the first call that rejects
outside the retry loop. `abandoned` is the history of blocks that were given up: cut short
by a rejection or a death, or passed over by the subscription. Calls inside the
retry loop cost an attempt when they reject (`RetriedCallFails`), the others take
the whole block with them (`CallFails`). `Chain` gives the normalized events of
each block. The MC module writes them out beside the raw records, and assumes
that they are what `normalizeRegistryEvents` makes of them; TLC evaluates that
assumption, so that every run checks the pure functions as well; it also evaluates
`UniqueIds`, which theorems assume. An id is a key
with the form it is written in (`hex`, `0x`, `ss58`, `robonomics`), since the
code compares ids as strings.

**Projection.** Six variables: for each sensor the event its record is from, the
events accounted for (written or dead-lettered), the cursor, the open block with
the event that is next, and the blocks given up. A step of `Work` has one `Effect`
on Redis (`Write`, `DeadLetter`, `MoveCursor` or none) and one on the block (`Stay`,
`Advance`, `Finish`, `GiveUp`); `Open` needs every lower block to be complete or
given up. The mapping `Promise` keeps the variables of the service but for the
idempotency set, the attempts, the queue of heads, the phase and the stage of the
call: an event is written twice only over itself or in a block given up before,
and the cursor moves only once the first event of the block is dealt with.

**RegistryReader** extends `RegistrySync` by what the endpoint asks of the same
store: `getSensorRecord` with the hex of a key.

**Endpoint.** One request is a value of `pc`: `parse`, `record`, `nonce`,
`publish`, `remember`, then its status code. `expiry` holds the remembered
nonces with the end of their lifetime. The clock stands still while a request
is older than `MaxLatency`: this is the assumption that requests are answered
in bounded time. `strategy` is `SENSOR_AUTH_STRATEGY`, chosen once: with
`whitelist` the nonces are in memory, never expire and are lost by a restart.
`acknowledged` (envelopes answered with 202, for as long as the strategy
promises to know them), `before` and `vouched` are history.
`Gate` maps the handler to `Ingress`: the `Verdict` of a request is open while
the handler works, then acknowledged, refused (4xx) or failed (5xx, or lost).
`Ingress` knows neither clock nor nonces: it only says that telemetry is not
published for an envelope acknowledged before the request arrived, and that
answers are true of the topic.

**Starting a stream.** ipfs-publisher, blockchain-anchor and pubsub-broadcaster call
`consume({ topics, autocommit })` without a `mode` (ipfs-publisher `index.ts:271`,
blockchain-anchor `:239`, pubsub-broadcaster `:216`). The default of the library,
`@platformatic/kafka` 2.9.0, is `LATEST`: the stream of a new process starts at the end
of the topic, not at the offsets the group has committed. So `Start` moves
`position` to some `TopicEnds`, at or past all that was handed over before, and
records in `missed` what it passes over; what a process holds when it ends goes to
`cut`. Both may be passed by the next commit, and neither is ever handed over
again. The histories keep such losses, for which the code that runs can do
nothing, apart from those it causes.

**Relay.** Four variables: what is committed, what was taken, what is settled, what
is lost. A commit covers only what was taken and is settled or lost, and only the
end of a process (`End`) or the start of one (`Begin`) loses anything. `Anchoring`
settles a CID by its anchoring or a failed attempt, `Archiving` settles telemetry by
an announced batch or by the drop described below; both map `cut` and `missed` to
what is lost.

**IpfsPublisher.** `flush[f]` is where the flush of the loop or of an expired
timer stands (`ipfs`, `result`, `commit`) and `copy[f]` its `batchToPublish`.
`CommitAndClear` empties `currentBatch` as the code does, whatever was added
since the copy; what is lost that way is recorded in `dropped`.

**BlockchainAnchor.** `pool` holds the extrinsics submitted and not final, and
whether this process still watches them. An extrinsic nobody watches may still
be finalized. `WatchLost` is a reconnection, which does not restore a status
subscription: the loop then waits for ever, and so does a `stop()`. `unheard`
records that the loop waits for a status that cannot come any more, after
`WatchLost` or after a `Disconnect` by the stop itself.

**HeartbeatTracker.** Each Redis command of the loop is a step; commands that a
scrape sends together are one. `phase` follows `stop()`, which closes the
consumer, quits Redis (`QuitRedis`) and only then waits for the loop: commands
that come later reject (`Connected`). When closing the consumer rejects, the
service is `adrift`: it runs on and cannot be stopped again. `raced`, `beats` and
`torn` are history; `torn` holds the sensors whose hash was cut off from its
place in the set between the two commands that belong together.

**PubsubBroadcaster.** `fetched` is what the stream holds, `position` what it
handed over or passed over. `Autocommit` may commit any offset up to `fetched` at any time,
which covers every schedule of the Kafka client. `client` is ready, stopped or
null in the order `stop()` takes it away under the loop. `published`, `failed`,
`cut` (items in the stream or in hand when a process ended) and `missed` are history.

## 3. Runs

| run | shows | bounds |
| --- | --- | --- |
| `registry_sync` | `ProcessedIsAccounted`, `CursorIsAccounted`, `GoesBackOnlyInReplay`, `DeadLetteredForCause`, `BlockIsLeft`, `BackfillEnds`, `ProjectsChain` (`Projection`) | 2 blocks with 3 and 2 events, 2 sensors, 2 attempts, 2 queued heads, 1 death, all calls may fail |
| `endpoint` | `AcknowledgedIsNotRepeated`, `PublishedWasVouched`, `AnswerMatchesTopics`, `DecidesAtOnce` (`Ingress`) | both strategies, 3 requests, 2 valid envelopes with one nonce and a broken one, window 1, lifetime 4, clock to 4, 1 restart, 1 update |
| `ipfs_publisher` | `LossHasCause`, `BatchHasTrigger`, `BatchIsFlushed`, `RelaysTelemetry` (`Relay`) | 2 partitions with 5 messages, batch of 2, one timer flush beside the loop's, 1 death |
| `blockchain_anchor` | `LossHasCause`, `CommitFollowsFinality`, `AnchorsOnlyUncommitted`, `InHandIsReleased`, `StopReturns`, `RelaysCids` (`Relay`) | 2 partitions with 5 messages, 2 deaths |
| `heartbeat_tracker` | `ReportIsTrue`, `HashIsListed`, `RecordIsKept`, `ErasedIsStaleOrRaced` | 1 sensor, 2 scrapes, windows 1 and 2, clock to 4, 2 processes |
| `pubsub_broadcaster` | `CountsAgree`, `LossHasCause`, `FetchedIsHandedOver`, `StopReturns` | 2 partitions with 4 messages, 2 processes |
| `registry_cursor_loss` | violation of `NothingLostBelowCursor` | as `registry_sync` without faults |
| `registry_replay` | violation of `ProjectionSettles` | a grant in block 1, its revocation in block 2 |
| `registry_ids` | violation of `NewDevicesAreEligible` | the same chain, no faults and no deaths |
| `endpoint_duplicate` | violation of `DuplicateIsConflict` | as `endpoint` without faults, clock to 1 |
| `ipfs_telemetry_loss` | violation of `NoTelemetryLost` | as `ipfs_publisher` without faults, batch of 3 |
| `anchor_passes_failed` | violation of `FailedIsRetried` | as `blockchain_anchor` without deaths |

Why these bounds are enough: two blocks with two events are the least
with a death inside a block and a later block beside it, and two queued heads
the least where one fails and the next runs; the events are of every kind
`processEvent` distinguishes, two of them entries of one record; three requests are the least in
which two duplicates overlap and a third follows; the clock of `endpoint` runs
past the lifetime of a nonce, so that nonces expire; two partitions are the
least where a batch mixes offsets; two scrapes and a message are the three
parties of a pruning race, and two processes the least where one finds what
another left behind. The lifetime of a nonce in `Endpoint.cfg` keeps the
relation of the defaults (900 s against twice 300 s plus latency).

Six runs are expected to fail; each states what the documentation says and is
listed under `findings` in `PROJECT.json`:

1. *The cursor skips the rest of a block* (`registry_cursor_loss`).
   `processEvent` commits the height after each event; a process that dies
   before the last event of the block resumes after the block.
2. *A replay restores a revoked sensor* (`registry_replay`). The failure of one
   head is swallowed, the next is applied and marked; a death before its cursor
   commit makes the restart replay the first and skip the second.
3. *Two duplicates are both accepted* (`endpoint_duplicate`), when they overlap.
4. *Telemetry is dropped* (`ipfs_telemetry_loss`), when it arrives during the
   flush of the timer.
5. *A failed CID is passed over* (`anchor_passes_failed`) by the next commit.
6. *A device granted by `rws.NewDevices` is not found* (`registry_ids`): its
   record is stored under its SS58 address and looked up by the hex of its key.

The passing runs say how far the damage of these goes: `CursorIsAccounted`
names every way an event can be lost, `GoesBackOnlyInReplay` the only way a
record goes back, `AcknowledgedIsNotRepeated` that duplicates must overlap,
`LossHasCause` of the publisher that a process that lives on loses telemetry only by
the overlapping flush, that of the anchor that such a process passes no CID without
an attempt. For three of them theorems give the exact extent: `SettlesUnlessReplayed`,
`LivingLoseOnlyByOverlap` and `AddressesAreNeverFound` (section 4).

The start at the end of the topic is a disagreement as well, which no run states:
the README of ipfs-publisher (line 97) claims "at-least-once delivery semantics" for
its manual commits, but what a process had not archived when it ended, and what
arrives until the next one runs, is passed over. It rests on the library's default
and is listed under the hazards. The counterexamples of findings 4 and 5 need
no restart, and `NoTelemetryLost` leaves these losses out.

Documents disagree about pubsub-broadcaster: `docs/wp/wp-03` (line 37) asks that
offsets be committed only after the publish, the service's README (line 10)
says "Autocommit: Enabled (best-effort delivery)". The code does what the latter
says; `LossHasCause` is what is left of the former.

**Fairness.** Every assumption is that the event loop runs what is ready and an
awaited call settles:

- `RegistrySync`: weak fairness of `ProcessStep`.
- `IpfsPublisher`: weak fairness of the loop and of each flush; an armed timer
  expires.
- `BlockchainAnchor`: weak fairness of `LoopStep` and of `Disconnect`, and of
  `Decided`: the chain finalizes an extrinsic that is watched, or an error is
  reported. Where the subscription was lost nothing is assumed, and the two
  properties say that this is the only way to wait for ever.
- `PubsubBroadcaster`: weak fairness of the loop and of `stop()`, strong fairness of
  `Take(p)` for each partition: the stream hands over fetched messages in turn
  and does not starve a partition.

Nothing is assumed of the environment: heads and messages need not arrive,
nobody needs to restart or stop a process. `Endpoint` and `HeartbeatTracker` state
safety only. `CHECK_DEADLOCK FALSE` stands where the system may really stop: a
failed start of registry-sync, an anchor whose subscription is lost, a bounded
number of requests or processes or a bounded clock. `ipfs_publisher` is checked
for deadlock.

## 4. Proofs

All theorems are checked by `tlapm` to the last leaf, for every value of the
constants that meets the named assumptions of the modules.

**RegistrySync.** One invariant carries everything else. `BlockInv` says that the
events of the block before the current one are in the idempotency set
(`EarlierIsDone`), and that every block up to `frontier`, the highest one opened
since the start, which the cursor does not pass (`Bounds`), is done, in process or
given up (`FrontierIsSettled`). It holds for every chain; on it rest

- `ProcessedEventsAreAccounted` and `CursorPassesOnlyAccountedEvents`, through
  `IInv`: nothing is marked that is not accounted for, which needs that at `mark`
  the current event is (`MarkIsAccounted`). Both assume `UniqueIds`: where two
  events share an id, the second counts as processed and the claims fail.
- `GoesBackOnlyInReplayHolds`, through `OrderInv`: a block that was never given up
  is run for the first time, ahead of all records, or again with nothing left to
  apply (`FirstOrAgain`), and below the block of a record everything is settled
  (`RecordsFollowDone`). No assumption on ids: records never go back by a clash.
- `DeadLetteredForCauseHolds`, with `DlqHasCause`.
- `ServiceProjectsChain`, the refinement of `Projection`, with `UniqueIds` and
  `AgainInv`: outside blocks given up, what is accounted for and not in the
  idempotency set is the event at hand (`AccountedIsDone`), and if it was applied,
  its record is still its own (`AppliedIsRecorded`), so that a retry writes an event
  over itself. `CallIsEffect` maps each call to its effect, `MoveIsWork` where it
  leaves the block, `FrontierIsComplete` gives the guard of `Open`.
- `SettlesUnlessReplayed`: as long as no block given up is run again, every record
  is that of the last event applied to its sensor (`InOrder`) and
  `ProjectionSettles` holds, whatever fails. The replay that `registry_replay` shows
  is thus the only cause of its violation.

`IdsAreUnique` discharges `UniqueIds`: it follows for every chain whose blocks are
what `normalizeRegistryEvents` makes of records that fit (`IsNormalized`).
`FittingChainsAreAccounted` and `FittingChainsAreProjected` state the results for
these chains, without an assumption on ids.

**RegistryEvents.** `NormalizedInOrder`: the events of a block are those of its
records, all of them and no others, in the order of the records and of the entries
of each. The function folds over the records; the proof is an induction over
them, by the smallest number of records that would refute it (`<` on the naturals
is well-founded). `IndicesAreUnique`, and for whole blocks
`NormalizedIndicesAreUnique`: no two events share an index if every record `Fits`: at
most `IndexStride` records, at most that many devices in one, and at most one in
record 0. An event of a record has the index of the record or one of the record's
share of the stride (`IndexOfEvent`), and the shares are disjoint
(`SharesAreDisjoint`). The condition on record 0 cannot be dropped:
`FirstRecordOverlaps` shows that its second device always takes the index of the
record behind it.

**RegistryReader.** A record is always from an applied event of its sensor
(`RecordsAreApplied`), which gives `AuthenticatedWasGranted`: no key is authenticated
without a grant of exactly its id, whatever fails or is replayed. With `InOrder`,
`ReaderFollowsChain` says more: as long as no block given up is run again, a key is
authenticated exactly when the last event applied to its id grants it.
`AddressesAreNeverFound` bounds these promises from the other side: on a chain that
names sensors by addresses, in whatever form, no key is ever authenticated, which
is what `registry_ids` shows for one device.

**Endpoint.** Five theorems: type correctness and one for each property of the
run. `TypeCorrect` includes that every acknowledged envelope has left its nonce
behind; that no request outlives `MaxLatency` (`InTime`) is assumed by the clock's
guard and only a conjunct of the inductive invariant. `AcknowledgedStaysRefused`: no acknowledged envelope is accepted again,
under `NoncesOutliveWindow`: `Ttl > 2 * Skew + MaxLatency`. It holds for both
strategies and across restarts: a restart of the whitelist forgets what it
acknowledged, and nothing is promised of that. The invariant `RepeatInv`: a
request past the timestamp check was fresh since it arrived (`PassedIsFresh`);
past the nonce check its nonce is free, or remembered until after the last
moment at which the envelope can pass the nonce check (`PendingIsCovered`), and
so is that of every envelope answered with 202 (`AcknowledgedCovered`). The factor
2 comes from stamps of the future; with `>=` the proof fails where a duplicate
meets a nonce that expires in the same second (`CoveredIsSeen`). The defaults,
900 s for nonces and 300 s of skew, meet it for requests that take less than
300 s; they are set by two variables that different modules read, and nothing in
the code checks that they fit. `AnswersMatchTopics` and `PublishedIsVouched` follow
from what each place in the handler implies of the topics and of the sensor
(`RequestMatches`, `RequestVouched`). `EndpointDecidesAtOnce` is the refinement of
`Ingress`, under the same assumption: `RepeatInv` gives the guard of `Publishes`,
`TopicInv` those of `Acknowledge` and `Refuse`, and each kind of step of the handler
is one step of `Ingress` or a stutter (`GateNext`).

**BlockchainAnchor.** `TypeCorrect`, `LossesHaveCauses`, `CommitsFollowFinality`,
`CommittedAreNotSubmittedAgain`. The invariant (`HandedOverIsAccounted`) carries the
claim from the committed offset, which is never ahead of it
(`CommittedIsHandedOver`), to the position of the stream: every message there is
settled or lost with a process, but for the one the loop holds, which is the last
of its partition (`CurrentIsLast`). `AnchorRelaysCids` is the refinement of `Relay`: the
same invariant
makes every offset the service commits one of `Committable` (`SettledBelow`,
`CommitsSettled`).

**IpfsPublisher.** `TypeCorrect`, `BatchesHaveTriggers`, `LossesHaveCauses`,
`PublisherRelaysTelemetry`, `LivingLoseOnlyByOverlap`. A flush commits the last offset of its copy and with it
everything below, which need not be in the copy. `SafeInv` closes the gap: what
was handed over is settled, lost with an earlier process or in the batch
(`HandedOverIsKept`), what lies below a message of a copy is settled or in that
copy (`CopiesAreCovered`), and
a copy about to be committed is archived (`CommitIsArchived`), however many flushes
overlap. A flush that empties the batch over the head of another settles what
it drops, which is why `dropped` is part of the claim and the run
`ipfs_telemetry_loss` has a counterexample. That an offset to commit is one of an
item (`OffsetsAreOfItems`) needs a last element of a set of offsets, which comes
from the well-foundedness of `<` on the naturals (`FirstOfNumbers`, `MaxIsLast`).
`LivingLoseOnlyByOverlap` says how far the promise of the service's README holds: if
a batch grows only while no flush is under way (`BatchGrowsAlone`, which nothing in
the code ensures), nothing is dropped and `NoTelemetryLost` holds for every topic:
all that is lost is lost between one process and the next.

**HeartbeatTracker.** `TypeCorrect`, `HashesAreListed`, `ReportsAreTrue`,
`RecordsAreKept`, `ErasedAreStaleOrRaced`, for any number of sensors and of scrapes
that overlap, and for every choice of the windows. The values in Redis are
computed from hashes read several awaits earlier, so `IInv` says what such a
copy still tells: the hash the loop read is the one it will replace, or was
erased since (`ExistingIsCurrent`); a message in hand is the latest of its sensor
(`MessageIsLatest`); a scrape's list of stale sensors holds hashes past retention
or written since (`StaleIsOldOrRaced`); every hash is a streak of the beats
recorded (`HashesAreStreaks`). `NoHashAssumption`: a missing hash is no hash.

**PubsubBroadcaster.** `TypeCorrect`, `CountersAgree`, `LossesHaveCauses`. Kafka commits
on its own whatever was fetched, so `LossHasCause` does not follow from what is
committed: `CauseInv` states it for what the loop was handed (`HandedOverHasCause`),
bounds the commits by what was fetched or passed over (`CommittedIsFetched`) and
says that a stream that ended holds nothing (`DownHoldsNothing`), so that a start
adds only what it records in `missed`.

Model-checked only: the liveness properties (`BlockIsLeft`, `BackfillEnds`,
`BatchIsFlushed`, `InHandIsReleased`, `StopReturns`, `FetchedIsHandedOver`), since the
prover does not handle liveness under fairness. Every other property of a
passing run is stated by a theorem.

## 5. Not modelled

- Codecs, signatures, compression, CIDs, SS58: below the level of the models; a
  valid envelope, a readable message, the form of an id is all that is left.
- Metrics, logging, health servers, configuration: output and parsing. Only the
  counters of pubsub-broadcaster are modelled, since they are all that is left of
  a failed publish.
- Rate limiting by address; it only removes requests.
- Rebalancing of consumer groups: one instance of each service runs.
- The Kafka library, whose source is not in the repository. That a stream without a
  `mode` starts at the end of the topic is an assumption about it; with a mode that
  resumes at the committed offsets fewer messages would be lost and more repeated.
  heartbeat-tracker does not depend on it: its next message may be any.
- When a message was sent: heartbeat-tracker counts a backlog as life signs at
  the time it is handled, by design of the service (`observedAt` is its clock).
- The branch of registry-sync for a runtime without `system.events`.
- The in-memory registry reader, which serves tests, and `fake-sensor-cli`, a
  client that sends one envelope after another and keeps no state.

## 6. Plan

Done: all services, on their own and, for the registry, with the reader. Next:

1. Telemetry from endpoint through ipfs-publisher to blockchain-anchor: the
   composition of `Ingress` and two `Relay`s, small enough to be checked, in which
   each acknowledged envelope is anchored or in a named exception.
2. What readers of `Projection` may conclude from it alone, proved from the abstract
   specification: a sensor's record never goes back outside a block given up.
3. The extent of the two findings that no theorem bounds yet: duplicates
   (`endpoint_duplicate`) and failed CIDs (`anchor_passes_failed`).
