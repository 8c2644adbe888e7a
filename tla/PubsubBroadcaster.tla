------------------------- MODULE PubsubBroadcaster -------------------------
(***************************************************************************)
(* pubsub-broadcaster (services/pubsub-broadcaster/src/index.ts): hands    *)
(* authorized telemetry to the pubsub of an IPFS node.  Offsets are        *)
(* committed by the Kafka client on its own, at any time and for whatever  *)
(* its stream has fetched; a publish that fails is counted and forgotten.  *)
(*                                                                         *)
(* A message is an item <<partition, n>>, the n-th of its partition.  A    *)
(* service is not started again once its consumer is closed: the next      *)
(* start is that of a new process.  consume() is called without a mode, so *)
(* its stream starts at the end of the topic, whatever offsets the group   *)
(* has committed (the default of @platformatic/kafka, an assumption about  *)
(* the library).                                                           *)
(***************************************************************************)
EXTENDS Integers, Sequences, FiniteSets

CONSTANTS
  Partitions,   \* partitions of telemetry.authorized.v1
  Log,          \* partition -> all the messages it will ever hold, a
                \* sequence of "telemetry" or "other"
  MaxProcesses, \* bound: processes, one after another
  Faults        \* may starting, a publish, or closing the consumer fail?

ASSUME LogAssumption ==
  /\ DOMAIN Log = Partitions
  /\ \A p \in Partitions :
       /\ Len(Log[p]) \in Nat
       /\ \A n \in 1..Len(Log[p]) : Log[p][n] \in {"telemetry", "other"}
ASSUME BroadcasterBoundsAssumption == MaxProcesses \in Nat /\ Faults \in BOOLEAN

VARIABLES
  committed,    \* partition -> offset committed in Kafka for the group
  phase,        \* down, running, stopping, or adrift: stop() rejected
  client,       \* pubsubClient: ready, stopped, or null
  fetched,      \* partition -> messages a stream holds or is done with, or the
                \* start of one passed over
  position,     \* partition -> those of them that no stream holds any more
  loop,         \* where the loop stands: next, publish or done
  current,      \* the item being published
  metrics,      \* the counters of the process
  published,    \* items the node has broadcast
  failed,       \* history: items whose publish failed, or was not possible
  cut,          \* history: items in the stream or in hand when a process ended
  missed,       \* history: items that were produced before a process started,
                \* and that none before it fetched
  processes     \* processes started

stream  == <<fetched, position>>
history == <<published, failed, cut, missed>>
vars == <<committed, phase, client, stream, loop, current, metrics, history, processes>>

Items == UNION {{p} \X (1..Len(Log[p])) : p \in Partitions}

NoItem == <<>>

Kind(item) == Log[item[1]][item[2]]

NoMetrics == [consumed |-> 0, publishSuccess |-> 0, publishFailure |-> 0]

\* What the stream fetched and the loop is not done with.
Pending ==
  {i \in Items : position[i[1]] < i[2] /\ i[2] <= fetched[i[1]]} \cup ({current} \ {NoItem})

Live == phase \in {"running", "adrift"}

Init ==
  /\ committed = [p \in Partitions |-> 0]
  /\ phase = "down"
  /\ client = "null"
  /\ fetched = [p \in Partitions |-> 0]
  /\ position = [p \in Partitions |-> 0]
  /\ loop = "done"
  /\ current = NoItem
  /\ metrics = NoMetrics
  /\ published = {}
  /\ failed = {}
  /\ cut = {}
  /\ missed = {}
  /\ processes = 0

\* Where the topic may end when a process starts.
TopicEnds ==
  {end \in [Partitions -> UNION {0..Len(Log[p]) : p \in Partitions}] :
     \A p \in Partitions : fetched[p] <= end[p] /\ end[p] <= Len(Log[p])}

\* start(): the node answers, and the stream begins at the end of the topic.
Start ==
  /\ phase = "down"
  /\ processes < MaxProcesses
  /\ processes' = processes + 1
  /\ phase' = "running"
  /\ client' = "ready"
  /\ fetched' \in TopicEnds
  /\ position' = fetched'
  /\ missed' = missed \cup {i \in Items : fetched[i[1]] < i[2] /\ i[2] <= fetched'[i[1]]}
  /\ loop' = "next"
  /\ metrics' = NoMetrics
  /\ UNCHANGED <<committed, current, published, failed, cut>>

\* start() rejects: what it opened is closed again, and the process ends.
StartFails ==
  /\ Faults
  /\ phase = "down"
  /\ processes < MaxProcesses
  /\ processes' = processes + 1
  /\ UNCHANGED <<committed, phase, client, stream, loop, current, metrics, history>>

-----------------------------------------------------------------------------
(* The Kafka client.                                                       *)

Fetch(p) ==
  /\ Live
  /\ fetched[p] < Len(Log[p])
  /\ fetched' = [fetched EXCEPT ![p] = @ + 1]
  /\ UNCHANGED <<committed, phase, client, position, loop, current, metrics, history, processes>>

\* Mutant: messages are committed before the stream has them.
AutocommitAhead(p) ==
  /\ phase # "down"
  /\ \E n \in (committed[p] + 1)..Len(Log[p]) : committed' = [committed EXCEPT ![p] = n]
  /\ UNCHANGED <<phase, client, stream, loop, current, metrics, history, processes>>

\* autocommit: true.
Autocommit(p) ==
  /\ phase # "down"
  /\ \E n \in (committed[p] + 1)..fetched[p] : committed' = [committed EXCEPT ![p] = n]
  /\ UNCHANGED <<phase, client, stream, loop, current, metrics, history, processes>>

-----------------------------------------------------------------------------
(* The loop and handleTelemetryMessage.                                    *)

Count(counter) == metrics' = [metrics EXCEPT ![counter] = @ + 1]

CountConsumedAnd(counter) ==
  metrics' = [metrics EXCEPT !.consumed = @ + 1, ![counter] = @ + 1]

\* The loop takes the next message.  Others, which have no value or another
\* type or cannot be parsed, are passed over.  Telemetry is counted, and then
\* published by a client that is ready, failed by one that is stopped, and
\* logged as a parse error, uncounted, when the client is null already.
Take(p) ==
  /\ loop = "next"
  /\ position[p] < fetched[p]
  /\ position' = [position EXCEPT ![p] = @ + 1]
  /\ LET item == <<p, position[p] + 1>>
     IN \/ /\ Kind(item) # "telemetry"
           /\ UNCHANGED <<loop, current, metrics, failed>>
        \/ /\ Kind(item) = "telemetry"
           /\ client = "ready"
           /\ Count("consumed")
           /\ loop' = "publish"
           /\ current' = item
           /\ UNCHANGED failed
        \/ /\ Kind(item) = "telemetry"
           /\ client = "stopped"
           /\ CountConsumedAnd("publishFailure")
           /\ failed' = failed \cup {item}
           /\ UNCHANGED <<loop, current>>
        \/ /\ Kind(item) = "telemetry"
           /\ client = "null"
           /\ Count("consumed")
           /\ failed' = failed \cup {item}
           /\ UNCHANGED <<loop, current>>
  /\ UNCHANGED <<committed, phase, client, fetched, published, cut, missed, processes>>

NextMessage == loop' = "next" /\ current' = NoItem

\* The node takes the telemetry.
PublishSucceeds ==
  /\ loop = "publish"
  /\ Count("publishSuccess")
  /\ published' = published \cup {current}
  /\ NextMessage
  /\ UNCHANGED <<committed, phase, client, stream, failed, cut, missed, processes>>

\* Mutant: the failure is logged and not counted.
PublishFailsUncounted ==
  /\ loop = "publish"
  /\ Faults
  /\ failed' = failed \cup {current}
  /\ NextMessage
  /\ UNCHANGED <<committed, phase, client, stream, metrics, published, cut, missed, processes>>

\* Mutant: the rejection is not caught, and ends the loop.
PublishFailsUncaught ==
  /\ loop = "publish"
  /\ Faults
  /\ Count("publishFailure")
  /\ failed' = failed \cup {current}
  /\ loop' = "done"
  /\ current' = NoItem
  /\ UNCHANGED <<committed, phase, client, stream, published, cut, missed, processes>>

\* The publish rejects, possibly after the node took the telemetry: counted,
\* and not tried again.
PublishFails ==
  /\ loop = "publish"
  /\ Faults
  /\ Count("publishFailure")
  /\ published' \in {published, published \cup {current}}
  /\ failed' = failed \cup {current}
  /\ NextMessage
  /\ UNCHANGED <<committed, phase, client, stream, cut, missed, processes>>

-----------------------------------------------------------------------------
(* stop() and the end of the process.                                      *)

\* stop(): started is reset and consumer.close() awaited.
Stop ==
  /\ phase = "running"
  /\ phase' = "stopping"
  /\ UNCHANGED <<committed, client, stream, loop, current, metrics, history, processes>>

\* Mutant: the client is stopped before the consumer is closed.
StopFailsLate ==
  /\ Faults
  /\ phase = "stopping"
  /\ client \in {"ready", "stopped"}
  /\ loop # "done"
  /\ phase' = "adrift"
  /\ UNCHANGED <<committed, client, stream, loop, current, metrics, history, processes>>

\* consumer.close() rejects, and stop() with it: the service runs on, and a
\* further stop() is skipped.
StopFails ==
  /\ Faults
  /\ phase = "stopping"
  /\ client = "ready"
  /\ loop # "done"
  /\ phase' = "adrift"
  /\ UNCHANGED <<committed, client, stream, loop, current, metrics, history, processes>>

\* Mutant: the client is stopped only once the loop is done.
StopClientLast ==
  /\ phase = "stopping"
  /\ client = "ready"
  /\ loop = "publish"
  /\ client' = "stopped"
  /\ UNCHANGED <<committed, phase, stream, loop, current, metrics, history, processes>>

\* The consumer is closed: the client is stopped, ...
StopClient ==
  /\ phase = "stopping"
  /\ client = "ready"
  /\ client' = "stopped"
  /\ UNCHANGED <<committed, phase, stream, loop, current, metrics, history, processes>>

\* ... and forgotten.
DropClient ==
  /\ phase = "stopping"
  /\ client = "stopped"
  /\ client' = "null"
  /\ UNCHANGED <<committed, phase, stream, loop, current, metrics, history, processes>>

\* The closed stream ends, whatever it still holds.
LoopEnds ==
  /\ phase = "stopping"
  /\ loop = "next"
  /\ loop' = "done"
  /\ UNCHANGED <<committed, phase, client, stream, current, metrics, history, processes>>

\* The process is gone, and what its stream holds with it.
Vanish ==
  /\ cut' = cut \cup Pending
  /\ phase' = "down"
  /\ client' = "null"
  /\ position' = fetched
  /\ loop' = "done"
  /\ current' = NoItem
  /\ metrics' = NoMetrics
  /\ UNCHANGED <<committed, fetched, published, failed, missed, processes>>

\* stop() returns when the loop is done.
Ended ==
  /\ phase = "stopping"
  /\ client = "null"
  /\ loop = "done"
  /\ Vanish

\* The process is killed, or the stream breaks and nobody handles the
\* rejection of runPromise.
Crash ==
  /\ phase # "down"
  /\ Vanish

LoopStep == (\E p \in Partitions : Take(p)) \/ PublishSucceeds \/ PublishFails \/ LoopEnds
StopStep == StopFails \/ StopClient \/ DropClient \/ Ended

Next ==
  \/ Start \/ StartFails
  \/ \E p \in Partitions : Fetch(p) \/ Autocommit(p)
  \/ LoopStep
  \/ Stop \/ StopStep
  \/ Crash

\* A publish settles, the loop takes what is there, from each partition in
\* turn, and stop() goes on.  Messages need not arrive.
Spec ==
  /\ Init /\ [][Next]_vars
  /\ WF_vars(LoopStep)
  /\ \A p \in Partitions : SF_vars(Take(p))
  /\ WF_vars(StopStep)

-----------------------------------------------------------------------------
(* Properties.                                                             *)

\* Type correctness, and which variables agree: the loop has an item exactly
\* while it publishes, and no process holds more than was fetched.
TypeOK ==
  /\ committed \in [Partitions -> Nat]
  /\ phase \in {"down", "running", "stopping", "adrift"}
  /\ client \in {"ready", "stopped", "null"}
  /\ Live => client = "ready"
  /\ fetched \in [Partitions -> Nat]
  /\ position \in [Partitions -> Nat]
  /\ \A p \in Partitions : position[p] <= fetched[p] /\ fetched[p] <= Len(Log[p])
  /\ loop \in {"next", "publish", "done"}
  /\ IF loop = "publish" THEN current \in Items /\ Kind(current) = "telemetry"
     ELSE current = NoItem
  /\ metrics \in [{"consumed", "publishSuccess", "publishFailure"} -> Nat]
  /\ published \subseteq Items
  /\ failed \subseteq Items
  /\ cut \subseteq Items
  /\ missed \subseteq Items
  /\ processes \in 0..MaxProcesses

\* The counters add up: telemetry consumed is published, failed or in hand,
\* whatever order the steps of a stop take; only the messages that meet a
\* client already forgotten are counted as consumed and as nothing else.
CountsAgree ==
  LET settled == metrics.publishSuccess + metrics.publishFailure
                 + (IF loop = "publish" THEN 1 ELSE 0)
  IN /\ settled <= metrics.consumed
     /\ client # "null" => settled = metrics.consumed

\* Delivery is best effort, but every loss has a cause that can be named:
\* telemetry below a committed offset was broadcast, is on its way, had its
\* publish fail, met the end of stop(), was lost with its process, or came
\* before a process started.  The loop itself passes nothing over.
LossHasCause ==
  \A p \in Partitions : \A n \in 1..committed[p] :
    Kind(<<p, n>>) = "telemetry" =>
      <<p, n>> \in published \cup failed \cup cut \cup missed \cup Pending

\* A message that was fetched is handed over, however many publishes fail
\* before it, unless the process ends.
FetchedIsHandedOver ==
  \A i \in Items :
    (Live /\ position[i[1]] < i[2] /\ i[2] <= fetched[i[1]])
      ~> (position[i[1]] >= i[2] \/ ~Live)

\* stop() returns or rejects: it does not wait for ever, for the loop or for
\* a publish under way.
StopReturns == phase = "stopping" ~> phase # "stopping"

=============================================================================
