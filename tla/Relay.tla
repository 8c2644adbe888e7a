-------------------------------- MODULE Relay --------------------------------
(***************************************************************************)
(* What a service that relays a Kafka topic with manual commits promises:  *)
(* it takes the messages of a partition in their order, each at most once, *)
(* settles them, and commits an offset only when every message below it is *)
(* settled, or lost for a reason that is no fault of the relay's: a        *)
(* process ended before it settled what it had taken, or a process that    *)
(* started at the end of the topic passed over what was there already.     *)
(* While a process lives it loses nothing.                                 *)
(*                                                                         *)
(* What settles a message is the service's business.  A message may be     *)
(* settled at any time, by a process that is long gone for instance, and   *)
(* the committed offset may move back.                                     *)
(***************************************************************************)
EXTENDS Integers, Sequences

CONSTANTS
  Partitions,
  Log           \* partition -> its messages

VARIABLES
  committed,    \* partition -> committed offset
  position,     \* partition -> messages taken or passed over
  settled,      \* the items <<partition, n>> that are dealt with
  lost          \* the items that an end or a start of a process gave up

vars == <<committed, position, settled, lost>>

Init ==
  /\ committed = [p \in Partitions |-> 0]
  /\ position = [p \in Partitions |-> 0]
  /\ lost = {}

\* The items of partition p from offset m up to n.
Between(p, m, n) == {<<p, k>> : k \in (m + 1)..n}

Take(p) ==
  /\ position[p] < Len(Log[p])
  /\ position' = [position EXCEPT ![p] = @ + 1]
  /\ UNCHANGED <<committed, settled, lost>>

Settle ==
  /\ settled \subseteq settled'
  /\ UNCHANGED <<committed, position, lost>>

\* The offsets that may be committed for a partition.
Committable(p) ==
  {n \in 0..position[p] : Between(p, 0, n) \subseteq settled \cup lost}

\* Offsets of several partitions may be committed at once.
Commits == \A p \in Partitions : committed'[p] \in {committed[p]} \cup Committable(p)

Commit ==
  /\ DOMAIN committed' = Partitions
  /\ Commits
  /\ settled \subseteq settled'
  /\ UNCHANGED <<position, lost>>

Taken == UNION {Between(p, 0, position[p]) : p \in Partitions}

\* The process ends, possibly after a last commit; what it took and did not
\* settle is lost.
End ==
  /\ DOMAIN committed' = Partitions
  /\ Commits
  /\ lost' = lost \cup (Taken \ settled)
  /\ UNCHANGED <<position, settled>>

\* A process starts at the end of the topic, wherever that is by then.
Begin ==
  /\ DOMAIN position' = Partitions
  /\ \A p \in Partitions : position'[p] \in position[p]..Len(Log[p])
  /\ lost' = lost \cup (UNION {Between(p, position[p], position'[p]) : p \in Partitions})
  /\ UNCHANGED <<committed, settled>>

Next ==
  \/ \E p \in Partitions : Take(p)
  \/ Settle
  \/ Commit
  \/ End
  \/ Begin

Spec == Init /\ [][Next]_vars

=============================================================================
