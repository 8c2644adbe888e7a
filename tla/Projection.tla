----------------------------- MODULE Projection -----------------------------
(***************************************************************************)
(* What registry-sync promises to those who read its projection: it works  *)
(* through one block of the finalized chain at a time, and through the     *)
(* events of a block in their order.  It leaves an event behind only when  *)
(* it was written to its sensor's record or dead-lettered, and a block     *)
(* only when it is through with it or gives it up; and it opens a block    *)
(* only when each one below is complete or given up.                       *)
(*                                                                         *)
(* How the calls to Redis are ordered and retried, how an event is known   *)
(* to be dealt with, and where blocks and heads come from is the business  *)
(* of RegistrySync, which implements this specification.                   *)
(***************************************************************************)
EXTENDS Integers, Sequences

CONSTANTS
  Sensors,
  Chain         \* height -> its events, each naming a sensor

VARIABLES
  records,      \* sensor -> position <<height, n>> of the event of its record
  accounted,    \* positions written to a record or dead-lettered
  cursor,       \* the height up to which a restart reads nothing again
  height,       \* the open block, or 0
  index,        \* the event of it that is next
  givenUp       \* the blocks given up and not completed since

vars == <<records, accounted, cursor, height, index, givenUp>>

Heights == DOMAIN Chain

Current == <<height, index>>

Subject == Chain[height][index].sensor

Complete(h) == \A i \in 1..Len(Chain[h]) : <<h, i>> \in accounted

Init ==
  /\ records = [s \in Sensors |-> <<0, 0>>]
  /\ accounted = {}
  /\ cursor = 0
  /\ height = 0
  /\ index = 0
  /\ givenUp = {}

\* Blocks above the cursor and below h may be passed over, all others below h
\* are complete or were given up.
PassOver(h) ==
  /\ givenUp \subseteq givenUp'
  /\ givenUp' \ givenUp \subseteq (cursor + 1)..(h - 1)
  /\ \A k \in 1..(h - 1) : Complete(k) \/ k \in givenUp'

Open(h) ==
  /\ height = 0
  /\ PassOver(h)
  /\ height' = h
  /\ index' = 1
  /\ UNCHANGED <<records, accounted, cursor>>

\* A block that cannot be read is passed over itself.
Miss(h) ==
  /\ height = 0
  /\ PassOver(h + 1)
  /\ UNCHANGED <<records, accounted, cursor, height, index>>

-----------------------------------------------------------------------------
(* Work on the open block: what Redis gets to see of it, and where it      *)
(* leaves the block.                                                       *)

\* The sensor's record becomes that of the event.  Outside a block given up,
\* an event is written again only over itself.
Write ==
  /\ index <= Len(Chain[height])
  /\ Subject \in Sensors
  /\ \/ Current \notin accounted
     \/ records[Subject] = Current
     \/ height \in givenUp
  /\ records' = [records EXCEPT ![Subject] = Current]
  /\ accounted' = accounted \cup {Current}
  /\ UNCHANGED cursor

DeadLetter ==
  /\ index <= Len(Chain[height])
  /\ accounted' = accounted \cup {Current}
  /\ UNCHANGED <<records, cursor>>

\* The cursor reaches the open block with the first event left behind.
MoveCursor ==
  /\ index > Len(Chain[height]) \/ Current \in accounted
  /\ cursor' = IF cursor > height THEN cursor ELSE height
  /\ UNCHANGED <<records, accounted>>

Effect ==
  Write \/ DeadLetter \/ MoveCursor \/ UNCHANGED <<records, accounted, cursor>>

Stay == UNCHANGED <<height, index, givenUp>>

Advance ==
  /\ index <= Len(Chain[height])
  /\ Current \in accounted
  /\ index' = index + 1
  /\ UNCHANGED <<height, givenUp>>

Leave == height' = 0 /\ index' = 0

Finish ==
  /\ index > Len(Chain[height])
  /\ Leave
  /\ givenUp' = givenUp \ {height}

GiveUp ==
  /\ Leave
  /\ givenUp' = givenUp \cup {height}

Work ==
  /\ height # 0
  /\ Effect
  /\ Stay \/ Advance \/ Finish \/ GiveUp

Next ==
  \/ \E h \in Heights : Open(h) \/ Miss(h)
  \/ Work

Spec == Init /\ [][Next]_vars

=============================================================================
