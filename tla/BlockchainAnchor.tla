-------------------------- MODULE BlockchainAnchor --------------------------
(***************************************************************************)
(* blockchain-anchor (services/blockchain-anchor/src/index.ts): for every  *)
(* telemetry.ipfs-published.v1 message it submits cps.setPayload with the  *)
(* CID, watches the extrinsic until it is finalized and then commits the   *)
(* message's offset.                                                       *)
(*                                                                         *)
(* One consumer loop; the chain runs beside it, and an extrinsic the       *)
(* service no longer watches may still be finalized.  A message is an item *)
(* <<partition, n>>, the n-th of its partition, n being also the offset    *)
(* that is committed for it.                                               *)
(*                                                                         *)
(* consume() is called without a mode: the stream of a new process starts  *)
(* at the end of the topic, whatever offsets the group has committed (the  *)
(* default of @platformatic/kafka, an assumption about the library).       *)
(***************************************************************************)
EXTENDS Integers, Sequences, FiniteSets

CONSTANTS
  Partitions,   \* partitions of telemetry.ipfs-published.v1
  Log,          \* partition -> all the messages it will ever hold, a
                \* sequence of "cid", "other" or "malformed"
  MaxCrashes,   \* bound: process deaths
  Faults        \* may Kafka, the connection and the chain fail?

ASSUME LogAssumption ==
  /\ DOMAIN Log = Partitions
  /\ \A p \in Partitions :
       /\ Len(Log[p]) \in Nat
       /\ \A n \in 1..Len(Log[p]) : Log[p][n] \in {"cid", "other", "malformed"}
ASSUME AnchorBoundsAssumption == MaxCrashes \in Nat /\ Faults \in BOOLEAN

VARIABLES
  committed,    \* partition -> offset committed in Kafka for the group
  phase,        \* down, running, stopping (shouldStop) or closed (clients)
  position,     \* partition -> messages handed over by a stream, or passed
                \* over by the start of one
  loop,         \* where the loop stands: next, submit, watch, commit, skip, done
  current,      \* the item the loop works on
  pool,         \* extrinsics submitted and not final: their item, and whether
                \* this process still watches them
  anchored,     \* history: items whose extrinsic was finalized with success
  failed,       \* history: items an attempt to anchor or to commit failed for
  cut,          \* history: items a process had not decided on when it ended
  missed,       \* history: items that were produced before a process started,
                \* and that no process before it was handed
  unheard,      \* history: does the loop wait for a status that will not come?
  crashes

fate == <<cut, missed>>
vars == <<committed, phase, position, loop, current, pool, anchored, failed, fate, unheard,
          crashes>>

Items == UNION {{p} \X (1..Len(Log[p])) : p \in Partitions}

NoItem == <<>>

Extrinsics == [item : Items, watched : BOOLEAN]

Kind(item) == Log[item[1]][item[2]]

\* The clients of Kafka or of the chain may reject a call: they fail, or
\* stop() is closing them.
MayReject == Faults \/ phase # "running"

\* The pool when the service's subscription to extrinsic statuses is gone.
Unwatched(txs) == {[item |-> tx.item, watched |-> FALSE] : tx \in txs}

CommitOffset(item) == committed' = [committed EXCEPT ![item[1]] = item[2]]

\* The loop goes back to its stream.
NextMessage == loop' = "next" /\ current' = NoItem

-----------------------------------------------------------------------------
(* The consumer loop.                                                      *)

Init ==
  /\ committed = [p \in Partitions |-> 0]
  /\ phase = "down"
  /\ position = [p \in Partitions |-> 0]
  /\ loop = "done"
  /\ current = NoItem
  /\ pool = {}
  /\ anchored = {}
  /\ failed = {}
  /\ cut = {}
  /\ missed = {}
  /\ unheard = FALSE
  /\ crashes = 0

\* Mutant: the stream starts at the beginning of the topic.
StartFromEarliest ==
  /\ phase = "down"
  /\ phase' = "running"
  /\ position' = [p \in Partitions |-> 0]
  /\ NextMessage
  /\ UNCHANGED <<committed, pool, anchored, failed, fate, unheard, crashes>>

\* Where the topic may end when a process starts.
TopicEnds ==
  {end \in [Partitions -> UNION {0..Len(Log[p]) : p \in Partitions}] :
     \A p \in Partitions : position[p] <= end[p] /\ end[p] <= Len(Log[p])}

\* start(): the stream begins at the end of the topic.  A start that fails
\* rolls back to what was before.
Start ==
  /\ phase = "down"
  /\ phase' = "running"
  /\ position' \in TopicEnds
  /\ missed' = missed \cup
       {i \in Items : position[i[1]] < i[2] /\ i[2] <= position'[i[1]]}
  /\ NextMessage
  /\ UNCHANGED <<committed, pool, anchored, failed, cut, unheard, crashes>>

\* The stream hands over the next message of a partition.  A null message or
\* one of another type is ignored, one that cannot be decoded is to be
\* skipped, a CID is to be anchored.
Receive(p) ==
  /\ phase = "running"
  /\ loop = "next"
  /\ position[p] < Len(Log[p])
  /\ position' = [position EXCEPT ![p] = @ + 1]
  /\ LET item == <<p, position[p] + 1>>
     IN \/ Kind(item) = "other" /\ UNCHANGED <<loop, current>>
        \/ Kind(item) = "malformed" /\ loop' = "skip" /\ current' = item
        \/ Kind(item) = "cid" /\ loop' = "submit" /\ current' = item
  /\ UNCHANGED <<committed, phase, pool, anchored, failed, fate, unheard, crashes>>

\* signAndSend hands the extrinsic to the node.
Submit ==
  /\ loop = "submit"
  /\ phase # "closed"
  /\ pool' = pool \cup {[item |-> current, watched |-> TRUE]}
  /\ loop' = "watch"
  /\ UNCHANGED <<committed, phase, position, current, anchored, failed, fate,
                 unheard, crashes>>

\* signAndSend rejects, possibly after the node took the extrinsic: the loop
\* logs it and goes on, without a commit.
SubmitFails ==
  /\ loop = "submit"
  /\ MayReject
  /\ failed' = failed \cup {current}
  /\ pool' \in {pool, pool \cup {[item |-> current, watched |-> FALSE]}}
  /\ NextMessage
  /\ UNCHANGED <<committed, phase, position, anchored, fate, unheard, crashes>>

\* Mutant: the callback does not unsubscribe on an error.
WatchErrsSubscribed(tx) ==
  /\ Faults
  /\ tx \in pool
  /\ tx.watched
  /\ failed' = failed \cup {tx.item}
  /\ NextMessage
  /\ UNCHANGED <<committed, phase, position, pool, anchored, fate, unheard, crashes>>

\* Mutant: the callback unsubscribes on an error, but does not reject.
WatchErrsSilently(tx) ==
  /\ Faults
  /\ tx \in pool
  /\ tx.watched
  /\ pool' = pool \ {tx}
  /\ UNCHANGED <<committed, phase, position, loop, current, anchored, failed, fate,
                 unheard, crashes>>

\* The status callback reports an error: the extrinsic was invalid or
\* dropped, or the node gave up reporting on it and it may yet be finalized.
WatchErrs(tx) ==
  /\ Faults
  /\ tx \in pool
  /\ tx.watched
  /\ pool' \in {pool \ {tx}, (pool \ {tx}) \cup Unwatched({tx})}
  /\ failed' = failed \cup {tx.item}
  /\ NextMessage
  /\ UNCHANGED <<committed, phase, position, anchored, fate, unheard, crashes>>

\* Mutant: the promise resolves as soon as the extrinsic is in a block.
CommitInBlock ==
  /\ loop \in {"watch", "commit"}
  /\ CommitOffset(current)
  /\ NextMessage
  /\ UNCHANGED <<phase, position, pool, anchored, failed, fate, unheard, crashes>>

\* Mutant: the offset after the next message is committed.
CommitPastNext ==
  /\ loop = "commit"
  /\ committed' = [committed EXCEPT ![current[1]] = current[2] + 1]
  /\ NextMessage
  /\ UNCHANGED <<phase, position, pool, anchored, failed, fate, unheard, crashes>>

\* The offset after the anchored message is committed.
Commit ==
  /\ loop = "commit"
  /\ CommitOffset(current)
  /\ NextMessage
  /\ UNCHANGED <<phase, position, pool, anchored, failed, fate, unheard, crashes>>

\* The commit rejects, possibly after it took effect: counted and logged like
\* a failure to anchor.
CommitFails ==
  /\ loop = "commit"
  /\ MayReject
  /\ failed' = failed \cup {current}
  /\ CommitOffset(current) \/ UNCHANGED committed
  /\ NextMessage
  /\ UNCHANGED <<phase, position, pool, anchored, fate, unheard, crashes>>

\* The offset after a message that cannot be decoded is committed.
SkipMalformed ==
  /\ loop = "skip"
  /\ CommitOffset(current)
  /\ NextMessage
  /\ UNCHANGED <<phase, position, pool, anchored, failed, fate, unheard, crashes>>

\* The CID the loop works on, if nothing has come of it.
InHand == IF loop \in {"submit", "watch"} THEN {current} \ (anchored \cup failed) ELSE {}

\* The process is gone; the chain and Kafka remain.
Vanish ==
  /\ cut' = cut \cup InHand
  /\ phase' = "down"
  /\ loop' = "done"
  /\ current' = NoItem
  /\ pool' = Unwatched(pool)
  /\ unheard' = FALSE
  /\ UNCHANGED <<position, anchored, failed, missed>>

\* That commit rejects, which nothing catches: runPromise rejects, and unless
\* stop() awaits it the process ends.
SkipFails ==
  /\ loop = "skip"
  /\ MayReject
  /\ CommitOffset(current) \/ UNCHANGED committed
  /\ \/ /\ phase = "running"
        /\ crashes < MaxCrashes
        /\ crashes' = crashes + 1
        /\ Vanish
     \/ /\ phase # "running"
        /\ loop' = "done"
        /\ current' = NoItem
        /\ UNCHANGED <<phase, position, pool, anchored, failed, fate, unheard, crashes>>

\* stop(): shouldStop is set and the consumer closed.
Stop ==
  /\ phase = "running"
  /\ phase' = "stopping"
  /\ UNCHANGED <<committed, position, loop, current, pool, anchored, failed, fate,
                 unheard, crashes>>

\* stop() goes on to disconnect from the chain: a status the loop waits for
\* will not come any more, and stop() waits for the loop.
Disconnect ==
  /\ phase = "stopping"
  /\ phase' = "closed"
  /\ pool' = Unwatched(pool)
  /\ unheard' = (loop = "watch")
  /\ UNCHANGED <<committed, position, loop, current, anchored, failed, fate, crashes>>

\* Mutant: a stop does not end the wait for the next message.
LoopStopsWhenOpen ==
  /\ phase = "stopping"
  /\ loop = "next"
  /\ loop' = "done"
  /\ UNCHANGED <<committed, phase, position, current, pool, anchored, failed, fate,
                 unheard, crashes>>

\* The loop leaves the closed stream, or breaks on shouldStop.
LoopStops ==
  /\ phase \in {"stopping", "closed"}
  /\ loop = "next"
  /\ loop' = "done"
  /\ UNCHANGED <<committed, phase, position, current, pool, anchored, failed, fate,
                 unheard, crashes>>

\* stop() returned.
Ended ==
  /\ phase = "closed"
  /\ loop = "done"
  /\ Vanish
  /\ UNCHANGED <<committed, crashes>>

\* The process is killed, or the stream breaks and runPromise rejects.
Crash ==
  /\ phase # "down"
  /\ crashes < MaxCrashes
  /\ crashes' = crashes + 1
  /\ Vanish
  /\ UNCHANGED committed

-----------------------------------------------------------------------------
(* The chain.                                                              *)

\* An extrinsic is finalized with success; a watching service resolves.
FinalizedOk(tx) ==
  /\ tx \in pool
  /\ pool' = pool \ {tx}
  /\ anchored' = anchored \cup {tx.item}
  /\ loop' = IF tx.watched THEN "commit" ELSE loop
  /\ UNCHANGED <<committed, phase, position, current, failed, fate, unheard, crashes>>

\* An extrinsic is finalized with ExtrinsicFailed; a watching service
\* rejects, which the loop logs and goes on.
FinalizedFailed(tx) ==
  /\ Faults
  /\ tx \in pool
  /\ pool' = pool \ {tx}
  /\ \/ tx.watched /\ failed' = failed \cup {tx.item} /\ NextMessage
     \/ ~tx.watched /\ UNCHANGED <<failed, loop, current>>
  /\ UNCHANGED <<committed, phase, position, anchored, fate, unheard, crashes>>

\* The connection drops and is made anew: the subscription to the statuses is
\* not, and the loop waits for one that will not come.
WatchLost ==
  /\ Faults
  /\ \E tx \in pool : tx.watched
  /\ pool' = Unwatched(pool)
  /\ unheard' = TRUE
  /\ UNCHANGED <<committed, phase, position, loop, current, anchored, failed, fate,
                 crashes>>

ServiceStep ==
  \/ Start
  \/ \E p \in Partitions : Receive(p)
  \/ Submit \/ SubmitFails
  \/ \E tx \in pool : WatchErrs(tx)
  \/ Commit \/ CommitFails
  \/ SkipMalformed \/ SkipFails
  \/ Stop \/ Disconnect \/ LoopStops \/ Ended
  \/ Crash

ChainStep ==
  \/ \E tx \in pool : FinalizedOk(tx) \/ FinalizedFailed(tx)
  \/ WatchLost

Next == ServiceStep \/ ChainStep

\* The loop's continuation runs once what it awaits has settled.
LoopStep ==
  \/ Submit \/ SubmitFails
  \/ Commit \/ CommitFails
  \/ SkipMalformed \/ SkipFails
  \/ LoopStops \/ Ended

\* The chain decides on an extrinsic that is watched.
Decided == \E tx \in pool : tx.watched /\ (FinalizedOk(tx) \/ FinalizedFailed(tx) \/ WatchErrs(tx))

\* Calls settle, stop() goes on, and the chain finalizes extrinsics or reports
\* an error to those who watch them.  Messages need not arrive.
Spec ==
  /\ Init /\ [][Next]_vars
  /\ WF_vars(LoopStep)
  /\ WF_vars(Disconnect)
  /\ WF_vars(Decided)

-----------------------------------------------------------------------------
(* Properties.                                                             *)

\* Type correctness, and which variables agree: the service watches at most
\* the extrinsic of its current message, and only while it waits for it.
TypeOK ==
  /\ committed \in [Partitions -> Nat]
  /\ phase \in {"down", "running", "stopping", "closed"}
  /\ position \in [Partitions -> Nat]
  /\ \A p \in Partitions : position[p] <= Len(Log[p])
  /\ loop \in {"next", "submit", "watch", "commit", "skip", "done"}
  /\ IF loop \in {"next", "done"} THEN current = NoItem ELSE current \in Items
  /\ pool \subseteq Extrinsics
  /\ \A tx \in pool : tx.watched => loop = "watch" /\ tx.item = current
  /\ anchored \subseteq Items
  /\ failed \subseteq Items
  /\ cut \subseteq Items
  /\ missed \subseteq Items
  /\ unheard \in BOOLEAN
  /\ crashes \in 0..MaxCrashes

\* A CID below a committed offset was anchored or an attempt for it failed,
\* unless a process ended before anything came of it, or it came before a
\* process started.  The loop passes over nothing itself, whatever becomes of
\* the extrinsics and of the commits.
LossHasCause ==
  \A p \in Partitions : \A n \in 1..committed[p] :
    /\ n <= Len(Log[p])
    /\ Kind(<<p, n>>) = "cid" => <<p, n>> \in anchored \cup failed \cup cut \cup missed

\* The message an offset is committed for is itself anchored, finalized with
\* success, or cannot be decoded.  README.md of the service: "Only commits
\* Kafka offset after successful blockchain finalization".
CommitFollowsFinality ==
  [][\A p \in Partitions :
       committed'[p] # committed[p] =>
         \/ <<p, committed'[p]>> \in anchored
         \/ Kind(<<p, committed'[p]>>) = "malformed"]_vars

\* A CID whose offset, or a later one, is committed is not submitted again,
\* and the committed offset never moves back, whenever the process dies and
\* whatever a status that comes late decides.
AnchorsOnlyUncommitted ==
  [][/\ \A p \in Partitions : committed'[p] >= committed[p]
     /\ \A tx \in pool' \ pool :
          tx.watched => tx.item[2] > committed[tx.item[1]]]_vars

\* The service as a relay of telemetry.ipfs-published.v1: a CID is settled by
\* its anchoring or by an attempt that failed, other messages are from the
\* start.  Messages are taken in order and once, commits pass only settled ones
\* that were handed over, and what no process will be handed again is the CID
\* that was in hand at an end, or what came before a start.
Anchoring == INSTANCE Relay WITH
  settled <- anchored \cup failed \cup {i \in Items : Kind(i) # "cid"},
  lost <- cut \cup missed

RelaysCids == Anchoring!Spec

\* The loop lets go of every message: the extrinsic has no timeout, but the
\* loop waits for ever only when its subscription was lost.  Every other end of
\* an extrinsic, errors and failed commits included, gives the loop back.
InHandIsReleased == current # NoItem ~> current = NoItem \/ unheard

\* stop(), which waits for the loop, returns, unless the loop waits for a
\* status that a lost subscription or the disconnect itself keeps away.
StopReturns == phase = "stopping" ~> phase = "down" \/ unheard

\* README.md of the service: "Blockchain errors: Message not committed, will
\* be retried".
FailedIsRetried ==
  \A item \in failed : item[2] <= committed[item[1]] => item \in anchored

=============================================================================
