---------------------- MODULE PubsubBroadcasterProofs ----------------------
(***************************************************************************)
(* Proofs about PubsubBroadcaster for every topic, any number of processes *)
(* and every schedule of the automatic commits, wherever each process      *)
(* starts.                                                                 *)
(*                                                                         *)
(* LossHasCause is not inductive: a commit may pass anything that was      *)
(* fetched.  CauseInv carries the claim from the committed offsets to the  *)
(* position of the loop, bounds the former by what is fetched, and says     *)
(* that a stream that ended holds nothing.                                 *)
(***************************************************************************)
EXTENDS PubsubBroadcaster, TLAPS

USE LogAssumption, BroadcasterBoundsAssumption
USE DEF stream, history

-----------------------------------------------------------------------------
(* Types.                                                                  *)

LEMMA ItemMember ==
  ASSUME NEW p \in Partitions, NEW n \in 1..Len(Log[p])
  PROVE  <<p, n>> \in Items
BY DEF Items

LEMMA ItemParts ==
  ASSUME NEW i \in Items
  PROVE  /\ i[1] \in Partitions
         /\ i[2] \in 1..Len(Log[i[1]])
         /\ i = <<i[1], i[2]>>
<1>1. PICK p \in Partitions : i \in {p} \X (1..Len(Log[p]))
  BY DEF Items
<1>2. QED
  BY <1>1

\* A process that is not there holds no message, and nothing is committed
\* beyond the end of a partition.
TInv ==
  /\ TypeOK
  /\ phase = "down" => loop = "done"
  /\ \A p \in Partitions : committed[p] <= Len(Log[p])

LEMMA TypeInit == Init => TInv
<1> SUFFICES ASSUME Init
             PROVE  TInv
  OBVIOUS
<1>1. NoMetrics \in [{"consumed", "publishSuccess", "publishFailure"} -> Nat]
  BY DEF NoMetrics
<1>2. QED
  BY <1>1 DEF Init, TInv, TypeOK, Live

Counters == {"consumed", "publishSuccess", "publishFailure"}

\* What counting does to the counters.
LEMMA CountEffect ==
  ASSUME metrics \in [Counters -> Nat], NEW c \in Counters, Count(c)
  PROVE  /\ metrics' \in [Counters -> Nat]
         /\ \A d \in Counters : metrics'[d] = IF d = c THEN metrics[d] + 1 ELSE metrics[d]
<1>1. metrics' = [metrics EXCEPT ![c] = metrics[c] + 1]
  BY DEF Count
<1>2. metrics[c] + 1 \in Nat
  OBVIOUS
<1>3. QED
  BY <1>1, <1>2

LEMMA ConsumedEffect ==
  ASSUME metrics \in [Counters -> Nat], Count("consumed")
  PROVE  /\ metrics'["consumed"] = metrics["consumed"] + 1
         /\ metrics'["publishSuccess"] = metrics["publishSuccess"]
         /\ metrics'["publishFailure"] = metrics["publishFailure"]
BY CountEffect DEF Counters

LEMMA CountFailureEffect ==
  ASSUME metrics \in [Counters -> Nat], CountConsumedAnd("publishFailure")
  PROVE  /\ metrics' \in [Counters -> Nat]
         /\ metrics'["consumed"] = metrics["consumed"] + 1
         /\ metrics'["publishSuccess"] = metrics["publishSuccess"]
         /\ metrics'["publishFailure"] = metrics["publishFailure"] + 1
<1> DEFINE once == [metrics EXCEPT !["consumed"] = metrics["consumed"] + 1]
<1>1. /\ once \in [Counters -> Nat]
      /\ once["consumed"] = metrics["consumed"] + 1
      /\ once["publishSuccess"] = metrics["publishSuccess"]
      /\ once["publishFailure"] = metrics["publishFailure"]
  BY DEF Counters
<1>2. metrics' = [once EXCEPT !["publishFailure"] = once["publishFailure"] + 1]
  BY DEF CountConsumedAnd, Counters
<1> HIDE DEF once
<1>3. QED
  BY <1>1, <1>2 DEF Counters

LEMMA TakeType ==
  ASSUME TInv, NEW p \in Partitions, Take(p)
  PROVE  TInv'
<1> USE DEF TInv
<1>1. /\ loop = "next" /\ phase # "down"
      /\ position[p] \in Nat /\ fetched[p] \in Nat /\ Len(Log[p]) \in Nat
      /\ position[p] < fetched[p] /\ fetched[p] <= Len(Log[p])
      /\ position' = [position EXCEPT ![p] = @ + 1]
      /\ UNCHANGED <<committed, phase, client, fetched, published, cut, missed, processes>>
  BY DEF Take, TypeOK
<1> DEFINE item == <<p, position[p] + 1>>
<1>2. item \in Items
  <2>1. position[p] + 1 \in 1..Len(Log[p])
    BY <1>1
  <2>2. QED
    BY <2>1, ItemMember
<1>3. metrics' \in [Counters -> Nat]
  <2>1. metrics' = metrics \/ Count("consumed") \/ CountConsumedAnd("publishFailure")
    BY DEF Take
  <2>2. metrics \in [Counters -> Nat] /\ "consumed" \in Counters
    BY DEF TypeOK, Counters
  <2>3. QED
    BY <2>1, <2>2, CountEffect, CountFailureEffect
<1>4. /\ failed' \subseteq Items
      /\ \/ loop' = "publish" /\ current' = item /\ Kind(item) = "telemetry"
         \/ loop' = "next" /\ current' = NoItem
  BY <1>1, <1>2 DEF Take, TypeOK
<1>5. /\ position' \in [Partitions -> Nat]
      /\ \A q \in Partitions : position'[q] <= fetched[q]
  BY <1>1 DEF TypeOK
<1> HIDE DEF item
<1>6. TypeOK'
  BY <1>1, <1>2, <1>3, <1>4, <1>5 DEF TypeOK, Live, Counters
<1>7. QED
  BY <1>1, <1>6

LEMMA VanishType ==
  ASSUME TInv, Vanish
  PROVE  TInv'
<1>1. NoMetrics \in [{"consumed", "publishSuccess", "publishFailure"} -> Nat]
  BY DEF NoMetrics
<1>2. Pending \subseteq Items
  BY DEF Pending, TInv, TypeOK
<1>3. QED
  BY <1>1, <1>2 DEF Vanish, TInv, TypeOK, Live

\* A new process begins past all that was fetched or passed over before.
LEMMA StartMoves ==
  ASSUME TypeOK, Start
  PROVE  /\ fetched' \in [Partitions -> Nat]
         /\ position' = fetched'
         /\ \A p \in Partitions : /\ fetched[p] \in Nat /\ fetched'[p] \in Nat
                                 /\ fetched[p] <= fetched'[p]
                                 /\ fetched'[p] <= Len(Log[p])
<1>1. /\ fetched' \in [Partitions -> UNION {0..Len(Log[p]) : p \in Partitions}]
      /\ position' = fetched'
      /\ \A p \in Partitions : fetched[p] <= fetched'[p] /\ fetched'[p] <= Len(Log[p])
  BY DEF Start, TopicEnds
<1>2. UNION {0..Len(Log[p]) : p \in Partitions} \subseteq Nat
  OBVIOUS
<1>3. fetched' \in [Partitions -> Nat]
  BY <1>1, <1>2
<1>4. QED
  BY <1>1, <1>3 DEF TypeOK

LEMMA TypeNext == TInv /\ [Next]_vars => TInv'
<1> SUFFICES ASSUME TInv, [Next]_vars
             PROVE  TInv'
  OBVIOUS
<1> USE DEF TInv
<1>1. CASE Start
  <2>1. metrics' \in [{"consumed", "publishSuccess", "publishFailure"} -> Nat]
    BY <1>1 DEF Start, NoMetrics
  <2>2. /\ fetched' \in [Partitions -> Nat] /\ position' \in [Partitions -> Nat]
        /\ \A p \in Partitions : position'[p] <= fetched'[p] /\ fetched'[p] <= Len(Log[p])
    BY <1>1, StartMoves
  <2>3. missed' \subseteq Items
    BY <1>1 DEF Start, TypeOK
  <2>4. /\ phase' = "running" /\ client' = "ready" /\ loop' = "next" /\ current = NoItem
        /\ processes' \in 0..MaxProcesses
        /\ UNCHANGED <<committed, current, published, failed, cut>>
    BY <1>1 DEF Start, TypeOK
  <2>5. QED
    BY <2>1, <2>2, <2>3, <2>4 DEF TypeOK, Live
<1>2. CASE StartFails
  BY <1>2 DEF StartFails, TypeOK, Live
<1>3. ASSUME NEW p \in Partitions, Fetch(p)
      PROVE  TInv'
  BY <1>3 DEF Fetch, TypeOK, Live
<1>4. ASSUME NEW p \in Partitions, Autocommit(p)
      PROVE  TInv'
  <2>1. PICK n \in (committed[p] + 1)..fetched[p] : committed' = [committed EXCEPT ![p] = n]
    BY <1>4 DEF Autocommit
  <2>2. n \in Nat /\ n <= Len(Log[p])
    BY <2>1 DEF TypeOK
  <2>3. QED
    BY <1>4, <2>1, <2>2 DEF Autocommit, TypeOK, Live
<1>5. ASSUME NEW p \in Partitions, Take(p)
      PROVE  TInv'
  BY <1>5, TakeType
<1>6. CASE PublishSucceeds \/ PublishFails
  <2>1. /\ current \in Items /\ phase # "down"
        /\ loop' = "next" /\ current' = NoItem
        /\ published' \subseteq Items /\ failed' \subseteq Items
        /\ UNCHANGED <<committed, phase, client, stream, cut, missed, processes>>
    BY <1>6 DEF PublishSucceeds, PublishFails, NextMessage, TypeOK
  <2>2. metrics' \in [Counters -> Nat]
    <3>1. metrics \in [Counters -> Nat]
      BY DEF TypeOK, Counters
    <3>2. Count("publishSuccess") \/ Count("publishFailure")
      BY <1>6 DEF PublishSucceeds, PublishFails
    <3>3. QED
      BY <3>1, <3>2, CountEffect DEF Counters
  <2>3. QED
    BY <2>1, <2>2 DEF TypeOK, Live, Counters
<1>7. CASE Stop \/ StopFails \/ StopClient \/ DropClient \/ LoopEnds
  BY <1>7 DEF Stop, StopFails, StopClient, DropClient, LoopEnds, TypeOK, Live
<1>8. CASE Ended \/ Crash
  BY <1>8, VanishType DEF Ended, Crash
<1>9. CASE UNCHANGED vars
  BY <1>9 DEF vars, TypeOK, Live
<1>10. QED
  BY <1>1, <1>2, <1>3, <1>4, <1>5, <1>6, <1>7, <1>8, <1>9
     DEF Next, LoopStep, StopStep

\* Every variable keeps its type, the loop holds an item exactly while it
\* publishes, and a service that is not stopping has its client.
THEOREM TypeCorrect == Spec => []TypeOK
<1>1. TInv => TypeOK
  BY DEF TInv
<1>2. QED
  BY <1>1, TypeInit, TypeNext, PTL DEF Spec

-----------------------------------------------------------------------------
(* The counters.                                                           *)

CountInv == TInv /\ CountsAgree

LEMMA CountInit == Init => CountInv
<1> SUFFICES ASSUME Init
             PROVE  CountInv
  OBVIOUS
<1>1. metrics.consumed = 0 /\ metrics.publishSuccess = 0 /\ metrics.publishFailure = 0
  BY DEF Init, NoMetrics
<1>2. QED
  BY <1>1, TypeInit DEF Init, CountInv, CountsAgree

LEMMA CountNext == CountInv /\ [Next]_vars => CountInv'
<1> SUFFICES ASSUME CountInv, [Next]_vars
             PROVE  CountsAgree'
  BY TypeNext DEF CountInv
<1> USE DEF CountInv, TInv
<1> metrics \in [Counters -> Nat]
  BY DEF TypeOK, Counters
<1> USE DEF Counters
<1> /\ metrics["consumed"] \in Nat
    /\ metrics["publishSuccess"] \in Nat
    /\ metrics["publishFailure"] \in Nat
  OBVIOUS
<1> HIDE DEF TInv
<1>1. CASE Start \/ Ended \/ Crash
  <2>1. metrics' = NoMetrics /\ loop' \in {"next", "done"}
    BY <1>1 DEF Start, Ended, Crash, Vanish
  <2>2. QED
    BY <2>1 DEF NoMetrics, CountsAgree
<1>2. ASSUME NEW p \in Partitions, Take(p)
      PROVE  CountsAgree'
  <2>1. loop = "next" /\ client' = client
    BY <1>2 DEF Take
  <2>2. \/ metrics' = metrics /\ loop' = loop
        \/ Count("consumed") /\ loop' = "publish"
        \/ CountConsumedAnd("publishFailure") /\ loop' = loop
        \/ client = "null" /\ Count("consumed") /\ loop' = loop
    <3> HIDE DEF Counters, CountInv, TInv
    <3>1. QED
      BY <1>2, ZenonT(30) DEF Take
  <2>3. CASE metrics' = metrics /\ loop' = loop
    BY <2>1, <2>3 DEF CountsAgree
  <2>4. CASE Count("consumed") /\ loop' = "publish"
    BY <2>1, <2>4, ConsumedEffect DEF CountsAgree
  <2>5. CASE CountConsumedAnd("publishFailure") /\ loop' = loop
    <3>1. /\ metrics'["consumed"] = metrics["consumed"] + 1
          /\ metrics'["publishSuccess"] = metrics["publishSuccess"]
          /\ metrics'["publishFailure"] = metrics["publishFailure"] + 1
      BY <2>5, CountFailureEffect
    <3>2. QED
      BY <2>1, <2>5, <3>1 DEF CountsAgree
  <2>6. CASE client = "null" /\ Count("consumed") /\ loop' = loop
    BY <2>1, <2>6, ConsumedEffect DEF CountsAgree
  <2>7. QED
    BY <2>2, <2>3, <2>4, <2>5, <2>6
<1>3. CASE PublishSucceeds \/ PublishFails
  <2>1. /\ loop = "publish" /\ loop' = "next" /\ client' = client
        /\ Count("publishSuccess") \/ Count("publishFailure")
    BY <1>3 DEF PublishSucceeds, PublishFails, NextMessage
  <2>2. QED
    BY <2>1, CountEffect DEF CountsAgree
<1>4. ASSUME UNCHANGED <<metrics, loop>>, client' = client \/ client' \in {"stopped", "null"},
             client' # "null" => client # "null"
      PROVE  CountsAgree'
  BY <1>4 DEF CountsAgree
<1>5. CASE StartFails \/ \E p \in Partitions : Fetch(p) \/ Autocommit(p)
  BY <1>4, <1>5 DEF StartFails, Fetch, Autocommit
<1>6. CASE Stop \/ StopFails \/ StopClient \/ DropClient
  BY <1>4, <1>6 DEF Stop, StopFails, StopClient, DropClient
<1>7. CASE LoopEnds
  BY <1>7 DEF LoopEnds, CountsAgree
<1>8. CASE UNCHANGED vars
  BY <1>4, <1>8 DEF vars
<1>9. QED
  BY <1>1, <1>2, <1>3, <1>5, <1>6, <1>7, <1>8 DEF Next, LoopStep, StopStep

\* The counters add up in every order of the steps of a stop: what is consumed
\* is published, failed or in hand, until the client is forgotten.
THEOREM CountersAgree == Spec => []CountsAgree
<1>1. CountInv => CountsAgree
  BY DEF CountInv
<1>2. QED
  BY <1>1, CountInit, CountNext, PTL DEF Spec

-----------------------------------------------------------------------------
(* The causes of losses.                                                   *)

Settled == published \cup failed \cup cut \cup missed

\* What no stream holds any more is settled or in hand.
HandedOverHasCause ==
  \A p \in Partitions : \A n \in 1..position[p] :
    Kind(<<p, n>>) = "telemetry" => <<p, n>> \in Settled \cup {current}

\* Only what was fetched, or passed over by a start, is committed.
CommittedIsFetched == \A p \in Partitions : committed[p] <= fetched[p]

\* A stream that ended holds nothing.
DownHoldsNothing == phase = "down" => position = fetched

CauseInv ==
  /\ TInv
  /\ HandedOverHasCause
  /\ CommittedIsFetched
  /\ DownHoldsNothing

LEMMA CauseInit == Init => CauseInv
BY TypeInit DEF Init, CauseInv, HandedOverHasCause, CommittedIsFetched, DownHoldsNothing

\* What was fetched, or passed over, is settled or pending.
LEMMA FetchedHasCause ==
  ASSUME CauseInv, NEW p \in Partitions, NEW n \in 1..fetched[p],
         Kind(<<p, n>>) = "telemetry"
  PROVE  <<p, n>> \in Settled \cup Pending
<1> USE DEF CauseInv, TInv
<1>1. /\ fetched[p] \in Nat /\ position[p] \in Nat
      /\ fetched[p] <= Len(Log[p])
  BY DEF TypeOK
<1>2. <<p, n>> \in Items
  BY <1>1, ItemMember
<1>3. CASE n <= position[p]
  <2>1. <<p, n>> \in Settled \cup {current}
    BY <1>1, <1>3 DEF HandedOverHasCause
  <2>2. <<p, n>> # NoItem
    BY DEF NoItem
  <2>3. QED
    BY <2>1, <2>2 DEF Pending
<1>4. CASE position[p] < n
  BY <1>1, <1>2, <1>4 DEF Pending
<1>5. QED
  BY <1>1, <1>3, <1>4

LEMMA CauseImplies == CauseInv => LossHasCause
<1> SUFFICES ASSUME CauseInv, NEW p \in Partitions, NEW n \in 1..committed[p],
                    Kind(<<p, n>>) = "telemetry"
             PROVE  <<p, n>> \in Settled \cup Pending
  BY DEF LossHasCause, Settled
<1>1. n \in 1..fetched[p]
  BY DEF CauseInv, TInv, CommittedIsFetched, TypeOK
<1>2. QED
  BY <1>1, FetchedHasCause

LEMMA VanishCause ==
  ASSUME CauseInv, Vanish
  PROVE  CauseInv'
<1>1. TInv'
  BY VanishType DEF CauseInv
<1>2. Settled' = Settled \cup Pending
  BY DEF Vanish, Settled
<1>3. HandedOverHasCause'
  BY <1>2, FetchedHasCause DEF Vanish, HandedOverHasCause, Kind
<1>4. CommittedIsFetched'
  BY DEF Vanish, CauseInv, CommittedIsFetched
<1>5. DownHoldsNothing'
  BY DEF Vanish, DownHoldsNothing
<1>6. QED
  BY <1>1, <1>3, <1>4, <1>5 DEF CauseInv

LEMMA StartCause ==
  ASSUME CauseInv, Start
  PROVE  CauseInv'
<1>1. TInv'
  BY TypeNext DEF CauseInv, Next
<1>2. /\ position' = fetched'
      /\ \A p \in Partitions : /\ fetched[p] \in Nat /\ fetched'[p] \in Nat
                              /\ fetched[p] <= fetched'[p] /\ fetched'[p] <= Len(Log[p])
  BY StartMoves DEF CauseInv, TInv
<1>3. Pending = {}
  <2>1. current = NoItem
    BY DEF Start, CauseInv, TInv, TypeOK
  <2>2. position = fetched
    BY DEF Start, CauseInv, DownHoldsNothing
  <2>3. ASSUME NEW i \in Items
        PROVE  ~(position[i[1]] < i[2] /\ i[2] <= fetched[i[1]])
    <3>1. fetched[i[1]] \in Nat /\ i[2] \in Nat
      BY <1>2, ItemParts
    <3>2. QED
      BY <2>2, <3>1
  <2>4. QED
    BY <2>1, <2>3 DEF Pending
<1>4. Settled \subseteq Settled'
  BY DEF Start, Settled
<1>5. HandedOverHasCause'
  <2> SUFFICES ASSUME NEW p \in Partitions, NEW n \in 1..fetched'[p],
                      Kind(<<p, n>>) = "telemetry"
               PROVE  <<p, n>> \in Settled'
    BY <1>2 DEF HandedOverHasCause, Kind
  <2>1. CASE n <= fetched[p]
    <3>1. n \in 1..fetched[p]
      BY <1>2, <2>1
    <3>2. QED
      BY <1>3, <1>4, <3>1, FetchedHasCause
  <2>2. CASE fetched[p] < n
    <3>1. n \in 1..Len(Log[p]) /\ n <= fetched'[p]
      BY <1>2
    <3>2. <<p, n>> \in Items
      BY <3>1, ItemMember
    <3>3. <<p, n>> \in missed'
      BY <2>2, <3>1, <3>2 DEF Start
    <3>4. QED
      BY <3>3 DEF Settled
  <2>3. QED
    BY <1>2, <2>1, <2>2
<1>6. CommittedIsFetched'
  <2>1. \A p \in Partitions : committed[p] \in Nat /\ committed[p] <= fetched[p]
    BY DEF CauseInv, TInv, TypeOK, CommittedIsFetched
  <2>2. \A p \in Partitions : committed[p] <= fetched'[p]
    BY <1>2, <2>1
  <2>3. QED
    BY <2>2 DEF Start, CommittedIsFetched
<1>7. DownHoldsNothing'
  BY <1>2 DEF DownHoldsNothing
<1>8. QED
  BY <1>1, <1>5, <1>6, <1>7 DEF CauseInv

LEMMA CauseNext == CauseInv /\ [Next]_vars => CauseInv'
<1> SUFFICES ASSUME CauseInv, [Next]_vars
             PROVE  CauseInv'
  OBVIOUS
<1> USE DEF CauseInv, TInv
<1>1. TInv'
  BY TypeNext
<1>2. CASE Start
  BY <1>2, StartCause
<1>3. CASE StartFails
  BY <1>1, <1>3 DEF StartFails, HandedOverHasCause, CommittedIsFetched, DownHoldsNothing, Settled
<1>4. ASSUME NEW p \in Partitions, Fetch(p)
      PROVE  CauseInv'
  <2>1. /\ UNCHANGED <<committed, phase, position, current>>
        /\ Settled' = Settled /\ phase # "down"
        /\ \A q \in Partitions : committed[q] \in Nat /\ fetched[q] \in Nat
                                 /\ fetched'[q] \in Nat /\ fetched[q] <= fetched'[q]
    BY <1>4 DEF Fetch, Settled, Live, TypeOK
  <2>2. HandedOverHasCause'
    BY <2>1 DEF HandedOverHasCause, Kind
  <2>3. CommittedIsFetched'
    BY <2>1 DEF CommittedIsFetched
  <2>4. QED
    BY <1>1, <2>1, <2>2, <2>3 DEF DownHoldsNothing
<1>5. ASSUME NEW p \in Partitions, Autocommit(p)
      PROVE  CauseInv'
  <2>1. /\ UNCHANGED <<phase, fetched, position, current>>
        /\ Settled' = Settled
        /\ phase # "down"
    BY <1>5 DEF Autocommit, Settled
  <2>2. PICK n \in (committed[p] + 1)..fetched[p] : committed' = [committed EXCEPT ![p] = n]
    BY <1>5 DEF Autocommit
  <2>3. HandedOverHasCause'
    BY <2>1 DEF HandedOverHasCause, Kind
  <2>4. CommittedIsFetched'
    BY <2>1, <2>2 DEF CommittedIsFetched, TypeOK
  <2>5. QED
    BY <1>1, <2>1, <2>3, <2>4 DEF DownHoldsNothing
<1>6. ASSUME NEW p \in Partitions, Take(p)
      PROVE  CauseInv'
  <2> DEFINE item == <<p, position[p] + 1>>
  <2>1. /\ phase # "down" /\ current = NoItem
        /\ UNCHANGED <<committed, phase, fetched, published, cut, missed>>
        /\ position' = [position EXCEPT ![p] = @ + 1]
        /\ position \in [Partitions -> Nat]
        /\ failed \subseteq failed'
        /\ Kind(item) = "telemetry" => item \in failed' \cup {current'}
    BY <1>6 DEF Take, TypeOK
  <2>2. HandedOverHasCause'
    <3> SUFFICES ASSUME NEW q \in Partitions, NEW n \in 1..position'[q],
                        Kind(<<q, n>>) = "telemetry"
                 PROVE  <<q, n>> \in Settled' \cup {current'}
      BY DEF HandedOverHasCause, Kind
    <3>1. CASE n \in 1..position[q]
      <4>1. <<q, n>> \in Settled
        <5>1. <<q, n>> # NoItem
          BY DEF NoItem
        <5>2. QED
          BY <2>1, <3>1, <5>1 DEF HandedOverHasCause
      <4>2. QED
        BY <2>1, <4>1 DEF Settled
    <3>2. CASE <<q, n>> = item
      BY <2>1, <3>2 DEF Settled
    <3>3. n \in 1..position[q] \/ <<q, n>> = item
      BY <2>1
    <3>4. QED
      BY <3>1, <3>2, <3>3
  <2>3. QED
    BY <1>1, <2>1, <2>2 DEF CommittedIsFetched, DownHoldsNothing
<1>7. CASE PublishSucceeds \/ PublishFails
  <2>1. /\ phase # "down"
        /\ UNCHANGED <<committed, phase, fetched, position, cut, missed>>
        /\ Settled \cup {current} \subseteq Settled'
    BY <1>7 DEF PublishSucceeds, PublishFails, Settled
  <2>2. QED
    BY <1>1, <2>1 DEF HandedOverHasCause, CommittedIsFetched, DownHoldsNothing
<1>8. CASE Stop \/ StopFails \/ StopClient \/ DropClient \/ LoopEnds \/ UNCHANGED vars
  <2>1. /\ UNCHANGED <<committed, fetched, position, current>>
        /\ Settled' = Settled
        /\ phase' = "down" => phase = "down"
    BY <1>8 DEF Stop, StopFails, StopClient, DropClient, LoopEnds, vars, Settled
  <2>2. QED
    BY <1>1, <2>1 DEF HandedOverHasCause, CommittedIsFetched, DownHoldsNothing
<1>9. CASE Ended \/ Crash
  BY <1>9, VanishCause DEF Ended, Crash
<1>10. QED
  BY <1>2, <1>3, <1>4, <1>5, <1>6, <1>7, <1>8, <1>9 DEF Next, LoopStep, StopStep

\* Delivery is best effort, but no telemetry is passed over by an automatic
\* commit without a cause that can be named, whenever the client commits and
\* wherever each process starts.
THEOREM LossesHaveCauses == Spec => []LossHasCause
<1>1. QED
  BY CauseInit, CauseNext, CauseImplies, PTL DEF Spec

=============================================================================
