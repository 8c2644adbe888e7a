----------------------------- MODULE RegistrySync -----------------------------
(***************************************************************************)
(* registry-sync: follows the finalized chain and projects its registry    *)
(* events into Redis.  services/registry-sync/src/index.ts drives the      *)
(* event source of chain-source.ts and the store of projection-store.ts.   *)
(*                                                                         *)
(* The service backfills from the saved cursor to the head it reads at     *)
(* start, then subscribes to finalized heads, handling them one at a time  *)
(* on a promise chain.  Every awaited Redis call is one step here: it may  *)
(* succeed, be rejected, or be rejected although Redis carried it out, and *)
(* the process may die before and after it.                                *)
(***************************************************************************)
EXTENDS RegistryEvents

CONSTANTS
  MaxHeight,     \* bound: the chain that exists
  Chain,         \* height -> the normalized registry events of that block
  Sensors,       \* the sensor ids the events name
  MaxRetries,    \* config.maxRetries
  QueueBound,    \* bound: finalized heads waiting on the promise chain
  MaxCrashes,    \* bound: process deaths
  Faults,        \* may calls to Redis and to the chain node fail?
  HeadsMaySkip   \* may the node announce a head above the next one?

Heights == 1..MaxHeight

ASSUME MaxHeightAssumption == MaxHeight \in Nat \ {0}
ASSUME ChainAssumption ==
  /\ DOMAIN Chain = Heights
  /\ \A h \in Heights :
       /\ Len(Chain[h]) \in Nat
       /\ DOMAIN Chain[h] = 1..Len(Chain[h])
       /\ \A i \in 1..Len(Chain[h]) :
            Chain[h][i].sensor \in Sensors \cup {NoSensor}
ASSUME MaxRetriesAssumption == MaxRetries \in Nat \ {0}
ASSUME BoundsAssumption == QueueBound \in Nat \ {0} /\ MaxCrashes \in Nat
ASSUME TogglesAssumption == Faults \in BOOLEAN /\ HeadsMaySkip \in BOOLEAN

VARIABLES
  \* Redis
  cursor,        \* cursor:finalized-height
  processed,     \* events:processed, a set of event ids
  sensorState,   \* sensor:<id>, the projection
  dlq,           \* dlq:events, as the set of positions dead-lettered
  \* the process
  phase,         \* down, backfill, subscribed, stopping, failed, or cutOff:
                 \* stopped during the backfill, which runs on
  from,          \* fromInclusiveHeight
  frontier,      \* highest height opened since this start
  seen,          \* latestFinalizedHeight, then the last head announced
  heads,         \* heads waiting on the promise chain
  stage,         \* the await at which processing of a block stands
  height,        \* the block being processed
  index,         \* the event of it being processed, counted from 1
  attempt,       \* attempt of the retry loop
  \* history and bounds
  applied,       \* positions whose projection write reached Redis
  abandoned,     \* heights given up or passed over and not completed since
  crashes

store == <<cursor, processed, sensorState, dlq>>
run   == <<phase, from, frontier, seen, heads>>
job   == <<stage, height, index, attempt>>
vars  == <<store, run, job, applied, abandoned, crashes>>

-----------------------------------------------------------------------------
(* Events by their position <<height, index>> in the finalized chain.      *)

Position == UNION {{h} \X (1..Len(Chain[h])) : h \in Heights}

Event(p) == Chain[p[1]][p[2]]

EventId(p) == toChainEventId(p[1], Event(p))

Update(p) == mapRegistryEventToUpdate(Event(p))

\* The chain identity of an event is unique.
UniqueIds == \A p, q \in Position : EventId(p) = EventId(q) => p = q

\* The record applyProjection writes; its updated_at fields name the event.
RecordOf(p) == [enabled |-> Update(p), at |-> p]

NoRecord == [enabled |-> "absent", at |-> <<0, 0>>]

Current == <<height, index>>

Accounted(p) == p \in applied \/ p \in dlq

Larger(a, b) == IF a > b THEN a ELSE b

-----------------------------------------------------------------------------
(* Steps shared by the handlers.                                           *)

Idle ==
  /\ stage' = "idle"
  /\ height' = 0
  /\ index' = 0
  /\ attempt' = 0

\* Mutant: one event too many is taken from a block.
GoToEventPastEnd(h, i) ==
  /\ stage' = IF i <= Len(Chain[h]) + 1 THEN "check" ELSE "head"
  /\ height' = h
  /\ index' = i
  /\ attempt' = 0

\* Control goes to event i of block h, or to onFinalizedHead after the last.
GoToEvent(h, i) ==
  /\ stage' = IF i <= Len(Chain[h]) THEN "check" ELSE "head"
  /\ height' = h
  /\ index' = i
  /\ attempt' = 0

\* Calls of Redis fail now and then, and once stop() has closed it under the
\* backfill.
CallsMayFail == Faults \/ phase = "cutOff"

GoTo(s) ==
  /\ stage' = s
  /\ UNCHANGED <<height, index, attempt>>

\* Mutant: a rejection ends the event instead of the block.
AbortEvent ==
  /\ GoToEvent(height, index + 1)
  /\ UNCHANGED <<run, abandoned>>

\* A rejection nobody retries: the backfill rejects start() and is not
\* resumed, which is the end of one already stopped; a head handler's
\* rejection is logged and the next head runs.
Abort ==
  /\ Idle
  /\ phase' = CASE phase = "backfill" -> "failed"
                [] phase = "cutOff" -> "stopping"
                [] OTHER -> phase
  /\ abandoned' = IF stage = "head" THEN abandoned \ {height}
                  ELSE abandoned \cup {height}
  /\ UNCHANGED <<from, frontier, seen, heads>>

\* Mutant: exhausted events are marked without being dead-lettered.
AttemptFailedNoDlq ==
  /\ stage' = IF attempt < MaxRetries THEN "apply" ELSE "tailMark"
  /\ attempt' = IF attempt < MaxRetries THEN attempt + 1 ELSE attempt
  /\ UNCHANGED <<height, index>>

\* Mutant: the loop stops one attempt early.
AttemptFailedEarly ==
  /\ stage' = IF attempt + 1 < MaxRetries THEN "apply" ELSE "dlq"
  /\ attempt' = IF attempt + 1 < MaxRetries THEN attempt + 1 ELSE attempt
  /\ UNCHANGED <<height, index>>

\* Mutant: attempts are not counted.
AttemptFailedUncounted ==
  /\ stage' = "apply"
  /\ UNCHANGED <<height, index, attempt>>

\* The catch of the retry loop: again, or on to the dead-letter queue.
AttemptFailed ==
  /\ stage' = IF attempt < MaxRetries THEN "apply" ELSE "dlq"
  /\ attempt' = IF attempt < MaxRetries THEN attempt + 1 ELSE attempt
  /\ UNCHANGED <<height, index>>

\* Mutant: the cursor is moved to the latest head instead of the block.
CommitSeenHeight(h) ==
  /\ cursor' = Larger(cursor, seen)
  /\ UNCHANGED <<processed, sensorState, dlq>>

\* The atomic maximum of commitCursorHeight's script.
CommitCursorHeight(h) ==
  /\ cursor' = Larger(cursor, h)
  /\ UNCHANGED <<processed, sensorState, dlq>>

MarkProcessed(p) ==
  /\ processed' = processed \cup {EventId(p)}
  /\ UNCHANGED <<cursor, sensorState, dlq>>

PublishDlq(p) ==
  /\ dlq' = dlq \cup {p}
  /\ UNCHANGED <<cursor, processed, sensorState>>

ApplyProjection(p) ==
  /\ sensorState' = [sensorState EXCEPT ![Event(p).sensor] = RecordOf(p)]
  /\ applied' = applied \cup {p}
  /\ UNCHANGED <<cursor, processed, dlq>>

-----------------------------------------------------------------------------
(* Starting, and opening the blocks.                                       *)

Init ==
  /\ cursor = 0
  /\ processed = {}
  /\ sensorState = [s \in Sensors |-> NoRecord]
  /\ dlq = {}
  /\ phase = "down"
  /\ from = 0
  /\ frontier = 0
  /\ seen = 0
  /\ heads = << >>
  /\ stage = "idle"
  /\ height = 0
  /\ index = 0
  /\ attempt = 0
  /\ applied = {}
  /\ abandoned = {}
  /\ crashes = 0

\* start(): loads the cursor and asks the node, which may lag behind the
\* cursor, for its latest finalized height.
Start ==
  /\ phase = "down"
  /\ phase' = "backfill"
  /\ from' = cursor + 1
  /\ frontier' = cursor
  /\ seen' \in 0..MaxHeight
  /\ heads' = << >>
  /\ UNCHANGED <<store, job, applied, abandoned, crashes>>

\* start() rejects on its first calls: nothing resumes it.
StartFails ==
  /\ Faults
  /\ phase = "down"
  /\ phase' = "failed"
  /\ UNCHANGED <<store, job, from, frontier, seen, heads,
                 applied, abandoned, crashes>>

\* Mutant: the loop comes back to the block it has done.
OpenBackfillAgain ==
  /\ phase \in {"backfill", "cutOff"}
  /\ stage = "idle"
  /\ frontier < seen
  /\ GoToEvent(frontier + 1, 1)
  /\ UNCHANGED <<store, phase, from, frontier, seen, heads,
                 applied, abandoned, crashes>>

\* The backfill loop reads the events of its next height.
OpenBackfill ==
  /\ phase \in {"backfill", "cutOff"}
  /\ stage = "idle"
  /\ frontier < seen
  /\ frontier' = frontier + 1
  /\ GoToEvent(frontier + 1, 1)
  /\ UNCHANGED <<store, phase, from, seen, heads,
                 applied, abandoned, crashes>>

\* Reading a block from the node rejects during the backfill.
BackfillReadFails ==
  /\ Faults
  /\ phase = "backfill"
  /\ stage = "idle"
  /\ phase' = "failed"
  /\ UNCHANGED <<store, job, from, frontier, seen, heads,
                 applied, abandoned, crashes>>

\* The loop is done: subscribeFinalizedHeads.
Subscribe ==
  /\ phase = "backfill"
  /\ stage = "idle"
  /\ frontier >= seen
  /\ phase' = "subscribed"
  /\ UNCHANGED <<store, job, from, frontier, seen, heads,
                 applied, abandoned, crashes>>

\* The node announces a head; it may repeat one and, unless HeadsMaySkip is
\* FALSE, leave out those finalized since the one it showed before.
DeliverHead ==
  /\ phase = "subscribed"
  /\ Len(heads) < QueueBound
  /\ \E h \in seen..MaxHeight :
       /\ h > 0
       /\ HeadsMaySkip \/ h <= seen + 1
       /\ heads' = Append(heads, h)
       /\ seen' = h
  /\ UNCHANGED <<store, job, phase, from, frontier,
                 applied, abandoned, crashes>>

\* A head below the start height is skipped.
SkipHead ==
  /\ phase \in {"subscribed", "stopping"}
  /\ stage = "idle"
  /\ heads # << >>
  /\ Head(heads) < from
  /\ heads' = Tail(heads)
  /\ UNCHANGED <<store, job, phase, from, frontier, seen,
                 applied, abandoned, crashes>>

\* The next head is handled.  Heights between the last block opened and this
\* one are never read by this process.
OpenHead ==
  /\ phase \in {"subscribed", "stopping"}
  /\ stage = "idle"
  /\ heads # << >>
  /\ Head(heads) >= from
  /\ heads' = Tail(heads)
  /\ GoToEvent(Head(heads), 1)
  /\ frontier' = Larger(frontier, Head(heads))
  /\ abandoned' = abandoned \cup ((frontier + 1)..(Head(heads) - 1))
  /\ UNCHANGED <<store, phase, from, seen, applied, crashes>>

\* Reading the head's events rejects: logged, and the next head runs.
HeadReadFails ==
  /\ Faults
  /\ phase \in {"subscribed", "stopping"}
  /\ stage = "idle"
  /\ heads # << >>
  /\ Head(heads) >= from
  /\ heads' = Tail(heads)
  /\ frontier' = Larger(frontier, Head(heads))
  /\ abandoned' = abandoned \cup ((frontier + 1)..Head(heads))
  /\ UNCHANGED <<store, job, phase, from, seen, applied, crashes>>

-----------------------------------------------------------------------------
(* processEvent, one action per awaited call.                              *)

\* Mutant: no idempotency check.
CheckWithoutDedup ==
  /\ stage = "check"
  /\ \/ /\ Update(Current) = "unmapped"
        /\ GoTo("dlq")
     \/ /\ Update(Current) # "unmapped"
        /\ stage' = "apply"
        /\ attempt' = 1
        /\ UNCHANGED <<height, index>>
  /\ UNCHANGED <<store, run, applied, abandoned, crashes>>

\* hasProcessed: an event already processed only commits the cursor, one that
\* maps to no update goes to the dead-letter queue, any other is applied.
CheckProcessed ==
  /\ stage = "check"
  /\ \/ /\ EventId(Current) \in processed
        /\ GoTo("tailCommit")
     \/ /\ EventId(Current) \notin processed
        /\ Update(Current) = "unmapped"
        /\ GoTo("dlq")
     \/ /\ EventId(Current) \notin processed
        /\ Update(Current) # "unmapped"
        /\ stage' = "apply"
        /\ attempt' = 1
        /\ UNCHANGED <<height, index>>
  /\ UNCHANGED <<store, run, applied, abandoned, crashes>>

Apply ==
  /\ stage = "apply"
  /\ ApplyProjection(Current)
  /\ GoTo("mark")
  /\ UNCHANGED <<run, abandoned, crashes>>

ApplyFails ==
  /\ CallsMayFail
  /\ stage = "apply"
  /\ ApplyProjection(Current) \/ UNCHANGED <<store, applied>>
  /\ AttemptFailed
  /\ UNCHANGED <<run, abandoned, crashes>>

\* markProcessed, inside the retry loop and after the dead-letter queue.
Mark ==
  /\ stage \in {"mark", "tailMark"}
  /\ MarkProcessed(Current)
  /\ GoTo(IF stage = "mark" THEN "commit" ELSE "tailCommit")
  /\ UNCHANGED <<run, applied, abandoned, crashes>>

\* commitCursorHeight ends the event, wherever it was reached from.
Commit ==
  /\ stage \in {"commit", "tailCommit"}
  /\ CommitCursorHeight(height)
  /\ GoToEvent(height, index + 1)
  /\ UNCHANGED <<run, applied, abandoned, crashes>>

\* Inside the retry loop a rejected mark or commit costs an attempt.
RetriedCallFails ==
  /\ CallsMayFail
  /\ stage \in {"mark", "commit"}
  /\ \/ stage = "mark" /\ MarkProcessed(Current)
     \/ stage = "commit" /\ CommitCursorHeight(height)
     \/ UNCHANGED store
  /\ AttemptFailed
  /\ UNCHANGED <<run, applied, abandoned, crashes>>

DeadLetter ==
  /\ stage = "dlq"
  /\ PublishDlq(Current)
  /\ GoTo("tailMark")
  /\ UNCHANGED <<run, applied, abandoned, crashes>>

\* onFinalizedHead: the block is complete.
FinishBlock ==
  /\ stage = "head"
  /\ CommitCursorHeight(height)
  /\ Idle
  /\ abandoned' = abandoned \ {height}
  /\ UNCHANGED <<run, applied, crashes>>

\* Any call outside the retry loop rejects and takes the block with it.
CallFails ==
  /\ CallsMayFail
  /\ stage \in {"check", "dlq", "tailMark", "tailCommit", "head"}
  /\ \/ stage = "dlq" /\ PublishDlq(Current)
     \/ stage = "tailMark" /\ MarkProcessed(Current)
     \/ stage \in {"tailCommit", "head"} /\ CommitCursorHeight(height)
     \/ UNCHANGED store
  /\ Abort
  /\ UNCHANGED <<applied, crashes>>

-----------------------------------------------------------------------------
(* Ending.                                                                 *)

\* stop() unsubscribes; the heads already chained are still processed.  A
\* backfill is not waited for: the node and Redis are closed under it, and it
\* goes on until a call rejects.  One that rejected before leaves a service
\* that still counts as started.
Stop ==
  /\ phase \in {"backfill", "subscribed", "failed"}
  /\ phase' = IF phase = "backfill" THEN "cutOff" ELSE "stopping"
  /\ UNCHANGED <<store, job, from, frontier, seen, heads,
                 applied, abandoned, crashes>>

\* The last head is done, or the node gives the backfill no more blocks.
Stopped ==
  /\ phase \in {"stopping", "cutOff"}
  /\ stage = "idle"
  /\ heads = << >>
  /\ phase' = "down"
  /\ from' = 0
  /\ seen' = 0
  /\ UNCHANGED <<store, job, frontier, heads, applied, abandoned, crashes>>

\* The process dies (no signal is handled, so SIGTERM is one such death) and
\* keeps nothing but Redis.  A failed start ends this way as well.
Crash ==
  /\ phase # "down"
  /\ crashes < MaxCrashes
  /\ crashes' = crashes + 1
  /\ phase' = "down"
  /\ from' = 0
  /\ seen' = 0
  /\ heads' = << >>
  /\ Idle
  /\ abandoned' = CASE stage = "idle" -> abandoned
                    [] stage = "head" -> abandoned \ {height}
                    [] OTHER -> abandoned \cup {height}
  /\ UNCHANGED <<store, frontier, applied>>

\* What the process does of itself.
ProcessStep ==
  \/ OpenBackfill \/ Subscribe \/ SkipHead \/ OpenHead
  \/ BackfillReadFails \/ HeadReadFails
  \/ CheckProcessed \/ Apply \/ ApplyFails \/ Mark \/ Commit
  \/ RetriedCallFails \/ DeadLetter \/ FinishBlock \/ CallFails
  \/ Stopped

Next ==
  \/ Start \/ StartFails
  \/ ProcessStep
  \/ DeliverHead
  \/ Stop
  \/ Crash

\* The event loop runs what is ready, and an awaited call settles.
Spec == Init /\ [][Next]_vars /\ WF_vars(ProcessStep)

-----------------------------------------------------------------------------
(* Properties.                                                             *)

Phases == {"down", "backfill", "subscribed", "stopping", "cutOff", "failed"}
Stages == {"idle", "check", "apply", "mark", "commit",
           "dlq", "tailMark", "tailCommit", "head"}

\* Type correctness: the shape of Redis and of the process, and that a block
\* is being processed exactly when the stage says so.
TypeOK ==
  /\ cursor \in 0..MaxHeight
  /\ processed \subseteq {EventId(p) : p \in Position}
  /\ sensorState \in [Sensors -> {NoRecord} \cup {RecordOf(p) : p \in Position}]
  /\ dlq \subseteq Position
  /\ phase \in Phases
  /\ from \in 0..(MaxHeight + 1)
  /\ frontier \in 0..MaxHeight
  /\ seen \in 0..MaxHeight
  /\ heads \in Seq(Heights)
  /\ stage \in Stages
  /\ stage = "idle" => height = 0 /\ index = 0
  /\ stage # "idle" => height \in Heights /\ index \in 1..(Len(Chain[height]) + 1)
  /\ stage \notin {"idle", "head"} => Current \in Position
  /\ stage \in {"apply", "mark", "commit"} => Update(Current) # "unmapped"
  /\ attempt \in 0..MaxRetries
  /\ applied \subseteq Position
  /\ abandoned \subseteq Heights
  /\ crashes \in 0..MaxCrashes

\* The set of processed events never runs ahead of their effects: an event
\* that a replay will skip was written to the projection or dead-lettered,
\* whatever failed or died in between (processEvent's order of calls).
ProcessedIsAccounted ==
  \A p \in Position : EventId(p) \in processed => Accounted(p)

\* Every event at or below the saved cursor, from above which a restart
\* resumes, was applied or dead-lettered, or its block is being processed or
\* is one the service gave up: cut short by a death or a rejection, or passed
\* over by the head subscription.  There is no fourth way to lose an event.
CursorIsAccounted ==
  \A p \in Position :
    p[1] <= cursor => \/ Accounted(p)
                      \/ p[1] = height
                      \/ p[1] \in abandoned

\* A sensor's record goes back to an older event only while a restarted
\* service runs again a block it had given up: heads in flight, retries and
\* duplicated heads never reorder the writes (the promise chain of startFrom).
GoesBackOnlyInReplay ==
  [][\A s \in Sensors :
       LET old == sensorState[s].at
           new == sensorState'[s].at
       IN \/ old[1] < new[1]
          \/ old[1] = new[1] /\ old[2] <= new[2]
          \/ height \in abandoned]_vars

\* Only an event that exhausted its attempts, or maps to no update, is
\* dead-lettered: while one is being dead-lettered, one or the other holds.
\* (The bounded retry of processEvent.)
DeadLetteredForCause ==
  [][\A p \in dlq' \ dlq :
       \/ Update(p) = "unmapped"
       \/ attempt = MaxRetries]_vars

\* No event stops the service: a block once opened is left, with its events
\* applied, dead-lettered or given up, even if every call fails.
BlockIsLeft == []<>(stage = "idle")

\* start() comes to an end, subscribed or rejected, whatever the node and
\* Redis answer while it backfills: a rejection, which nobody retries, does
\* not leave it waiting.
BackfillEnds == []<>(phase # "backfill")

\* The service as a projection of the finalized chain: each record is known
\* by the event it is from, and an event is accounted for when it was written
\* or dead-lettered.  The idempotency set, the retries, the queue of heads and
\* the restarts show in no other way.
Promise == INSTANCE Projection WITH
  records <- [s \in Sensors |-> sensorState[s].at],
  accounted <- applied \cup dlq,
  givenUp <- abandoned

ProjectsChain == Promise!Spec

\* What the documented checkpoint promises ("Track processed chain
\* cursor/checkpoint to support restart recovery", wp-01): between blocks no
\* event at or below the cursor is lost.
NothingLostBelowCursor ==
  stage = "idle" => \A p \in Position : p[1] <= cursor => Accounted(p)

\* What wp-01 promises of replays ("Redis writes must be upsert/idempotent so
\* replay cannot corrupt authorization state"): between blocks, once every
\* block given up has been completed, each sensor's record is that of the
\* last event applied to it in chain order.
ProjectionSettles ==
  (stage = "idle" /\ abandoned = {}) =>
    \A p \in applied :
      LET at == sensorState[Event(p).sensor].at
      IN p[1] < at[1] \/ (p[1] = at[1] /\ p[2] <= at[2])

=============================================================================
