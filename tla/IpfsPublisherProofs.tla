------------------------ MODULE IpfsPublisherProofs ------------------------
(***************************************************************************)
(* Proofs about IpfsPublisher for every topic, any batch size, any number  *)
(* of overlapping timer flushes and of process deaths.                     *)
(*                                                                         *)
(* LossHasCause is not inductive: what a flush commits covers every        *)
(* message below the last one of its copy.  SafeInv adds what is known of  *)
(* the messages handed over or passed over, and of those below a copy.     *)
(***************************************************************************)
EXTENDS IpfsPublisher, WellFoundedInduction, TLAPS

LEMMA LogLengths == \A p \in Partitions : Len(Log[p]) \in Nat
BY LogAssumption

LEMMA LoopIsNoTimer == Loop \notin Timers
BY FlusherAssumption

USE LogLengths, LoopIsNoTimer, PublisherBoundsAssumption
USE DEF kafka, stream, flushes, history

-----------------------------------------------------------------------------
(* Items and offsets.                                                      *)

LEMMA ItemMember ==
  ASSUME NEW p \in Partitions, NEW n \in 1..Len(Log[p])
  PROVE  <<p, n>> \in Items
BY DEF Items

LEMMA ItemParts ==
  ASSUME NEW i \in Items
  PROVE  /\ i[1] \in Partitions
         /\ i[2] \in 1..Len(Log[i[1]])
         /\ i = <<i[1], i[2]>>
<1>1. PICK p \in Partitions : i \in {p} \X (1..Len(Log[p]))
  BY DEF Items
<1>2. QED
  BY <1>1

\* A set of numbers that is not empty has a first one.
LEMMA FirstOfNumbers ==
  ASSUME NEW T, T \subseteq Nat, T # {}
  PROVE  \E t \in T : \A u \in T : ~(u < t)
<1> DEFINE R == OpToRel(<, Nat)
<1>1. IsWellFoundedOn(R, Nat)
  BY NatLessThanWellFounded, Zenon
<1>2. \A x, y \in Nat : x < y => <<x, y>> \in R
  BY DEF OpToRel
<1> HIDE DEF R
<1>3. \E x \in T : \A y \in T : ~ (<<y, x>> \in R)
  BY <1>1, WFMin, Zenon
<1>4. QED
  BY <1>2, <1>3

\* Offsets below a bound have a last one, which is what Max returns.
LEMMA MaxIsLast ==
  ASSUME NEW m \in Nat, NEW S \in SUBSET (1..m), S # {}
  PROVE  Max(S) \in S /\ \A y \in S : Max(S) >= y
<1> DEFINE T == {m - x : x \in S}
<1>1. T \subseteq Nat
  <2>1. ASSUME NEW x \in S
        PROVE  m - x \in Nat
    <3>1. x \in 1..m
      OBVIOUS
    <3>2. QED
      BY <3>1
  <2>2. QED
    BY <2>1
<1>2. T # {}
  OBVIOUS
<1>3. PICK t \in T : \A u \in T : ~(u < t)
  <2> HIDE DEF T
  <2>1. QED
    BY <1>1, <1>2, FirstOfNumbers
<1>4. PICK x \in S : t = m - x
  BY <1>3
<1>5. ASSUME NEW y \in S
      PROVE  x >= y
  <2>1. ~(m - y < m - x)
    BY <1>3, <1>4
  <2>2. x \in 1..m /\ y \in 1..m
    OBVIOUS
  <2>3. QED
    BY <2>1, <2>2
<1>6. QED
  BY <1>4, <1>5 DEF Max

\* An offset to commit is that of an item, or the one that is committed.
LEMMA OffsetsAreOfItems ==
  ASSUME NEW items, items \subseteq Items, NEW p \in Partitions
  PROVE  \/ OffsetsByPartition(items)[p] = committed[p]
         \/ /\ OffsetsByPartition(items)[p] \in 1..Len(Log[p])
            /\ <<p, OffsetsByPartition(items)[p]>> \in items
<1> DEFINE offsets == {n \in 1..Len(Log[p]) : <<p, n>> \in items}
<1>1. OffsetsByPartition(items)[p] = IF offsets = {} THEN committed[p] ELSE Max(offsets)
  BY DEF OffsetsByPartition
<1>2. CASE offsets = {}
  BY <1>1, <1>2
<1>3. CASE offsets # {}
  <2>1. Len(Log[p]) \in Nat
    OBVIOUS
  <2>2. offsets \in SUBSET (1..Len(Log[p]))
    OBVIOUS
  <2>3. Max(offsets) \in offsets
    <3> HIDE DEF offsets
    <3>1. QED
      BY <1>3, <2>1, <2>2, MaxIsLast
  <2>4. QED
    BY <1>1, <1>3, <2>3
<1>4. QED
  BY <1>2, <1>3

-----------------------------------------------------------------------------
(* Types.                                                                  *)

\* A process that is not there holds nothing.
DownIsEmpty ==
  phase = "down" =>
    /\ loop = "done"
    /\ batch = {}
    /\ ~timer
    /\ \A f \in Flushers : flush[f] = "none"

TInv == TypeOK /\ DownIsEmpty

\* No flusher is busy after a start or a death.
LEMMA NoFlushType ==
  ASSUME flush' = [f \in Flushers |-> "none"], copy' = [f \in Flushers |-> {}]
  PROVE  /\ flush' \in [Flushers -> {"none", "ipfs", "result", "commit"}]
         /\ copy' \in [Flushers -> SUBSET Items]
         /\ \A f \in Flushers : flush'[f] = "none" /\ copy'[f] = {}
         /\ flush'[Loop] = "none"
<1>1. Loop \in Flushers
  BY DEF Flushers
<1>2. QED
  BY <1>1

LEMMA TypeInit == Init => TInv
<1> SUFFICES ASSUME Init
             PROVE  TInv
  OBVIOUS
<1>1. /\ flush \in [Flushers -> {"none", "ipfs", "result", "commit"}]
      /\ copy \in [Flushers -> SUBSET Items]
      /\ \A f \in Flushers : flush[f] = "none" /\ copy[f] = {}
  BY DEF Init
<1>2. flush[Loop] = "none"
  BY <1>1 DEF Flushers
<1>3. /\ committed \in [Partitions -> Nat] /\ position \in [Partitions -> Nat]
      /\ \A p \in Partitions : committed[p] <= Len(Log[p]) /\ position[p] <= Len(Log[p])
  BY DEF Init
<1>4. /\ phase = "down" /\ loop = "done" /\ batch = {} /\ timer = FALSE
      /\ archived = {} /\ dropped = {} /\ cut = {} /\ missed = {} /\ flushFailed = FALSE
  BY DEF Init
<1>5. crashes \in 0..MaxCrashes
  BY DEF Init
<1>6. DownIsEmpty
  BY <1>1, <1>4 DEF DownIsEmpty
<1>7. TypeOK
  BY <1>1, <1>2, <1>3, <1>4, <1>5 DEF TypeOK
<1>8. QED
  BY <1>6, <1>7 DEF TInv

\* What entering and leaving flushBatch do to the flushers.
LEMMA BeginFlushType ==
  ASSUME TypeOK, NEW f \in Flushers, NEW b, b \subseteq Items, BeginFlush(f, b)
  PROVE  /\ flush' \in [Flushers -> {"none", "ipfs", "result", "commit"}]
         /\ copy' \in [Flushers -> SUBSET Items]
         /\ flush'[f] = "ipfs" /\ copy'[f] = b
         /\ \A g \in Flushers : g # f => flush'[g] = flush[g] /\ copy'[g] = copy[g]
BY DEF BeginFlush, TypeOK

LEMMA EndFlushType ==
  ASSUME TypeOK, NEW f \in Flushers, flush[f] # "none", EndFlush(f)
  PROVE  /\ flush' \in [Flushers -> {"none", "ipfs", "result", "commit"}]
         /\ copy' \in [Flushers -> SUBSET Items]
         /\ flush'[f] = "none" /\ copy'[f] = {}
         /\ \A g \in Flushers : g # f => flush'[g] = flush[g] /\ copy'[g] = copy[g]
         /\ loop' \in {"next", "lag", "flush", "done"}
         /\ loop' = "flush" <=> flush'[Loop] # "none"
BY DEF EndFlush, TypeOK, Flushers

LEMMA CommitType ==
  ASSUME TypeOK, NEW f \in Flushers, committed' = OffsetsByPartition(copy[f])
  PROVE  /\ committed' \in [Partitions -> Nat]
         /\ \A p \in Partitions : committed'[p] <= Len(Log[p])
<1>1. copy[f] \subseteq Items
  BY DEF TypeOK
<1>2. ASSUME NEW p \in Partitions
      PROVE  committed'[p] \in Nat /\ committed'[p] <= Len(Log[p])
  <2>1. \/ committed'[p] = committed[p]
        \/ committed'[p] \in 1..Len(Log[p])
    BY <1>1, OffsetsAreOfItems
  <2>2. committed[p] \in Nat /\ committed[p] <= Len(Log[p]) /\ Len(Log[p]) \in Nat
    BY DEF TypeOK
  <2>3. QED
    BY <2>1, <2>2
<1>3. committed' = [p \in Partitions |-> committed'[p]]
  BY DEF OffsetsByPartition
<1>4. QED
  BY <1>2, <1>3

LEMMA ReceiveType ==
  ASSUME TInv, NEW p \in Partitions, Receive(p)
  PROVE  TInv'
<1> USE DEF TInv
<1> DEFINE n == position[p] + 1
           b == batch \cup {<<p, n>>}
<1>1. /\ phase = "running" /\ loop = "next" /\ flush[Loop] = "none"
      /\ position[p] \in Nat /\ Len(Log[p]) \in Nat /\ position[p] < Len(Log[p])
      /\ position' = [position EXCEPT ![p] = @ + 1]
      /\ UNCHANGED <<kafka, phase, timer, history, crashes>>
  BY DEF Receive, TypeOK
<1>2. b \subseteq Items
  BY <1>1, ItemMember DEF TypeOK
<1>3. /\ position' \in [Partitions -> Nat]
      /\ \A q \in Partitions : position'[q] <= Len(Log[q])
  BY <1>1 DEF TypeOK
<1>4. \/ UNCHANGED <<loop, batch, flushes, flushFailed>>
      \/ batch' = b /\ flushFailed' = FALSE /\ loop' = "flush" /\ BeginFlush(Loop, b)
      \/ batch' = b /\ flushFailed' = FALSE /\ loop' = "lag" /\ UNCHANGED flushes
  BY DEF Receive
<1> HIDE DEF b, n
<1>5. CASE UNCHANGED <<loop, batch, flushes, flushFailed>>
  BY <1>1, <1>3, <1>5 DEF TypeOK, DownIsEmpty
<1>6. CASE batch' = b /\ flushFailed' = FALSE /\ loop' = "flush" /\ BeginFlush(Loop, b)
  <2>1. Loop \in Flushers
    BY DEF Flushers
  <2>2. QED
    BY <1>1, <1>2, <1>3, <1>6, <2>1, BeginFlushType DEF TypeOK, DownIsEmpty
<1>7. CASE batch' = b /\ flushFailed' = FALSE /\ loop' = "lag" /\ UNCHANGED flushes
  BY <1>1, <1>2, <1>3, <1>7 DEF TypeOK, DownIsEmpty
<1>8. QED
  BY <1>4, <1>5, <1>6, <1>7

LEMMA FlushType ==
  ASSUME TInv, NEW f \in Flushers, FlushStep(f)
  PROVE  TInv'
<1> USE DEF TInv
<1>1. /\ flush[f] # "none" /\ phase # "down" /\ phase' = phase
      /\ copy[f] \subseteq Items
  BY DEF FlushStep, AddToIpfs, SendResult, CommitAndClear, FlushFails, TypeOK, DownIsEmpty
<1>2. CASE AddToIpfs(f) \/ SendResult(f)
  BY <1>1, <1>2 DEF AddToIpfs, SendResult, TypeOK, DownIsEmpty, Flushers
<1>3. CASE CommitAndClear(f)
  <2>1. /\ committed' \in [Partitions -> Nat]
        /\ \A p \in Partitions : committed'[p] <= Len(Log[p])
    BY <1>3, CommitType DEF CommitAndClear
  <2>2. EndFlush(f)
    BY <1>3 DEF CommitAndClear
  <2>3. dropped' \subseteq Items
    BY <1>3 DEF CommitAndClear, TypeOK
  <2>4. QED
    BY <1>1, <1>3, <2>1, <2>2, <2>3, EndFlushType DEF CommitAndClear, TypeOK, DownIsEmpty
<1>4. CASE FlushFails(f)
  <2>1. /\ committed' \in [Partitions -> Nat]
        /\ \A p \in Partitions : committed'[p] <= Len(Log[p])
    BY <1>4, CommitType DEF FlushFails, TypeOK
  <2>2. EndFlush(f)
    BY <1>4 DEF FlushFails
  <2>3. archived' \subseteq Items
    BY <1>1, <1>4 DEF FlushFails, TypeOK
  <2>4. QED
    BY <1>1, <1>4, <2>1, <2>2, <2>3, EndFlushType DEF FlushFails, TypeOK, DownIsEmpty
<1>5. QED
  BY <1>2, <1>3, <1>4 DEF FlushStep

LEMMA LoopType ==
  ASSUME TInv, LagIsLow \/ LagIsHigh \/ LoopStops \/ StreamFails
               \/ \E t \in Timers : TimerFires(t)
  PROVE  TInv'
<1> USE DEF TInv
<1>1. Loop \in Flushers /\ Timers \subseteq Flushers /\ batch \subseteq Items
  BY DEF Flushers, TypeOK
<1>2. CASE LagIsLow \/ LoopStops
  BY <1>2 DEF LagIsLow, LoopStops, TypeOK, DownIsEmpty
<1>3. CASE LagIsHigh \/ StreamFails
  <2>1. /\ phase # "down" /\ flush[Loop] = "none"
        /\ phase' \in {"running", "stopping", "ending"}
        /\ timer' \in BOOLEAN /\ crashes' \in 0..MaxCrashes
        /\ UNCHANGED <<committed, position, batch, history, flushFailed>>
    <3>1. CASE LagIsHigh
      BY <3>1 DEF LagIsHigh, TypeOK, DownIsEmpty
    <3>2. CASE StreamFails
      <4>1. crashes' \in 0..MaxCrashes
        BY <3>2 DEF StreamFails, TypeOK
      <4>2. flush[Loop] = "none"
        BY <3>2 DEF StreamFails, TypeOK
      <4>3. /\ phase = "running" /\ phase' = "ending" /\ timer' = FALSE
            /\ UNCHANGED <<committed, position, batch, history, flushFailed>>
        BY <3>2 DEF StreamFails
      <4>4. QED
        BY <4>1, <4>2, <4>3
    <3>3. QED
      BY <1>3, <3>1, <3>2
  <2>2. \/ loop' = "flush" /\ BeginFlush(Loop, batch)
        \/ loop' \in {"next", "done"} /\ UNCHANGED <<flush, copy>>
    BY <1>3 DEF LagIsHigh, StreamFails
  <2>3. CASE loop' = "flush" /\ BeginFlush(Loop, batch)
    BY <1>1, <2>1, <2>3, BeginFlushType DEF TypeOK, DownIsEmpty
  <2>4. CASE loop' \in {"next", "done"} /\ UNCHANGED <<flush, copy>>
    BY <2>1, <2>4 DEF TypeOK, DownIsEmpty
  <2>5. QED
    BY <2>2, <2>3, <2>4
<1>4. ASSUME NEW t \in Timers, TimerFires(t)
      PROVE  TInv'
  <2>1. t \in Flushers /\ t # Loop
    BY <1>1
  <2>2. CASE BeginFlush(t, batch)
    BY <1>1, <1>4, <2>1, <2>2, BeginFlushType DEF TimerFires, TypeOK, DownIsEmpty
  <2>3. CASE UNCHANGED flushes
    BY <1>4, <2>3 DEF TimerFires, TypeOK, DownIsEmpty
  <2>4. QED
    BY <1>4, <2>2, <2>3 DEF TimerFires
<1>5. QED
  BY <1>2, <1>3, <1>4

LEMMA VanishType ==
  ASSUME TInv, Vanish, crashes' \in 0..MaxCrashes
  PROVE  TInv'
<1>1. /\ flush' \in [Flushers -> {"none", "ipfs", "result", "commit"}]
      /\ copy' \in [Flushers -> SUBSET Items]
      /\ \A f \in Flushers : flush'[f] = "none" /\ copy'[f] = {}
      /\ flush'[Loop] = "none"
  BY NoFlushType DEF Vanish
<1>2. cut' \subseteq Items
  BY DEF Vanish, InHand, TInv, TypeOK
<1>3. /\ phase' = "down" /\ loop' = "done" /\ batch' = {} /\ timer' = FALSE
      /\ UNCHANGED <<committed, position, archived, dropped, missed>>
      /\ flushFailed' = FALSE
  BY DEF Vanish
<1>4. QED
  BY <1>1, <1>2, <1>3 DEF TInv, TypeOK, DownIsEmpty

\* A new process begins past all that was handed over or passed over before.
LEMMA StartMoves ==
  ASSUME TypeOK, Start
  PROVE  /\ position' \in [Partitions -> Nat]
         /\ \A p \in Partitions : /\ position[p] \in Nat /\ position'[p] \in Nat
                                 /\ position[p] <= position'[p]
                                 /\ position'[p] <= Len(Log[p])
<1>1. /\ position' \in [Partitions -> UNION {0..Len(Log[p]) : p \in Partitions}]
      /\ \A p \in Partitions : position[p] <= position'[p] /\ position'[p] <= Len(Log[p])
  BY DEF Start, TopicEnds
<1>2. UNION {0..Len(Log[p]) : p \in Partitions} \subseteq Nat
  OBVIOUS
<1>3. position' \in [Partitions -> Nat]
  BY <1>1, <1>2
<1>4. QED
  BY <1>1, <1>3 DEF TypeOK

LEMMA StartType ==
  ASSUME TInv, Start
  PROVE  TInv'
<1>1. /\ position' \in [Partitions -> Nat]
      /\ \A p \in Partitions : position'[p] <= Len(Log[p])
  BY StartMoves DEF TInv
<1>2. missed' \subseteq Items
  BY DEF Start, TInv, TypeOK
<1>3. flush[Loop] = "none"
  BY DEF Start, TInv, DownIsEmpty, Flushers
<1>4. /\ phase' = "running" /\ loop' = "next"
      /\ UNCHANGED <<committed, batch, timer, flush, copy, archived, dropped, cut,
                     flushFailed, crashes>>
  BY DEF Start
<1>5. QED
  BY <1>1, <1>2, <1>3, <1>4 DEF TInv, TypeOK, DownIsEmpty

LEMMA TypeNext == TInv /\ [Next]_vars => TInv'
<1> SUFFICES ASSUME TInv, [Next]_vars
             PROVE  TInv'
  OBVIOUS
<1>1. CASE Start
  BY <1>1, StartType
<1>2. CASE \E p \in Partitions : Receive(p)
  BY <1>2, ReceiveType
<1>3. CASE LagIsLow \/ LagIsHigh \/ LoopStops \/ StreamFails
           \/ \E t \in Timers : TimerFires(t)
  BY <1>3, LoopType
<1>4. CASE \E f \in Flushers : FlushStep(f)
  BY <1>4, FlushType
<1>5. CASE Stop
  BY <1>5 DEF Stop, TInv, TypeOK, DownIsEmpty
<1>6. CASE Ended \/ Crash
  <2>1. Vanish /\ crashes' \in 0..MaxCrashes
    BY <1>6 DEF Ended, Crash, TInv, TypeOK
  <2>2. QED
    BY <2>1, VanishType
<1>7. CASE UNCHANGED vars
  BY <1>7 DEF vars, TInv, TypeOK, DownIsEmpty
<1>8. QED
  BY <1>1, <1>2, <1>3, <1>4, <1>5, <1>6, <1>7 DEF Next, LoopStep

\* Every variable keeps its type, the loop is in a flush exactly while its
\* flusher is busy, and an idle flusher holds no copy.
THEOREM TypeCorrect == Spec => []TypeOK
<1>1. TInv => TypeOK
  BY DEF TInv
<1>2. QED
  BY <1>1, TypeInit, TypeNext, PTL DEF Spec

-----------------------------------------------------------------------------
(* The batch has a trigger.                                                *)

TriggerInv == TInv /\ BatchHasTrigger

LEMMA TriggerNext == TriggerInv /\ [Next]_vars => TriggerInv'
<1> SUFFICES ASSUME TriggerInv, [Next]_vars
             PROVE  BatchHasTrigger'
  BY TypeNext DEF TriggerInv
<1> USE DEF TriggerInv, TInv
<1>1. CASE Start
  BY <1>1 DEF Start, DownIsEmpty, BatchHasTrigger
<1>2. ASSUME NEW p \in Partitions, Receive(p)
      PROVE  BatchHasTrigger'
  <2>1. CASE UNCHANGED <<batch, flushes, flushFailed>>
    BY <1>2, <2>1 DEF Receive, BatchHasTrigger
  <2>2. CASE loop' = "lag"
    BY <2>2 DEF BatchHasTrigger
  <2>3. CASE \E b : BeginFlush(Loop, b)
    BY <2>3 DEF BeginFlush, BatchHasTrigger, Flushers, TypeOK
  <2>4. QED
    BY <1>2, <2>1, <2>2, <2>3 DEF Receive
<1>3. CASE LagIsLow
  BY <1>3 DEF LagIsLow, BatchHasTrigger
<1>4. CASE LagIsHigh
  BY <1>4 DEF LagIsHigh, BeginFlush, BatchHasTrigger, Flushers, TypeOK
<1>5. CASE LoopStops \/ StreamFails \/ Stop
  BY <1>5 DEF LoopStops, StreamFails, Stop, BatchHasTrigger
<1>6. ASSUME NEW t \in Timers, TimerFires(t)
      PROVE  BatchHasTrigger'
  BY <1>6 DEF TimerFires, BeginFlush, BatchHasTrigger, Flushers, TypeOK
<1>7. ASSUME NEW f \in Flushers, FlushStep(f)
      PROVE  BatchHasTrigger'
  <2>1. CASE AddToIpfs(f) \/ SendResult(f)
    <3>1. flush'[f] # "none"
      BY <2>1 DEF AddToIpfs, SendResult, TypeOK
    <3>2. QED
      BY <3>1 DEF BatchHasTrigger
  <2>2. CASE CommitAndClear(f)
    BY <2>2 DEF CommitAndClear, BatchHasTrigger
  <2>3. CASE FlushFails(f)
    BY <2>3 DEF FlushFails, BatchHasTrigger
  <2>4. QED
    BY <1>7, <2>1, <2>2, <2>3 DEF FlushStep
<1>8. CASE Ended \/ Crash
  BY <1>8 DEF Ended, Crash, Vanish, BatchHasTrigger
<1>9. CASE UNCHANGED vars
  BY <1>9 DEF vars, BatchHasTrigger
<1>10. QED
  BY <1>1, <1>2, <1>3, <1>4, <1>5, <1>6, <1>7, <1>8, <1>9 DEF Next, LoopStep

\* Telemetry in the batch always has something that will flush it, whatever
\* arrivals, timers and overlapping flushes do to the one timer; a failed
\* flush is the exception.
THEOREM BatchesHaveTriggers == Spec => []BatchHasTrigger
<1>1. Init => TriggerInv
  BY TypeInit DEF Init, TriggerInv, BatchHasTrigger
<1>2. TriggerInv => BatchHasTrigger
  BY DEF TriggerInv
<1>3. QED
  BY <1>1, <1>2, TriggerNext, PTL DEF Spec

-----------------------------------------------------------------------------
(* What is committed is accounted for.                                     *)

Settled == archived \cup dropped \cup {i \in Items : ~Telemetry(i[1], i[2])}

Lost == cut \cup missed

Accounted == Settled \cup Lost

\* Of the messages up to those of a copy, which are telemetry, each was handed
\* over or passed over, and is accounted for or in the copy itself.
Covered(items, taken, done) ==
  \A p \in Partitions : \A n \in 1..Len(Log[p]) :
    <<p, n>> \in items =>
      /\ Telemetry(p, n)
      /\ n <= taken[p]
      /\ \A m \in 1..n : <<p, m>> \in done \cup items

CommittedIsAccounted ==
  \A p \in Partitions : \A n \in 1..committed[p] : <<p, n>> \in Accounted

HandedOverIsKept ==
  \A p \in Partitions : \A n \in 1..position[p] : <<p, n>> \in Accounted \cup batch

BatchIsHandedOver ==
  \A p \in Partitions : \A n \in 1..Len(Log[p]) :
    <<p, n>> \in batch => Telemetry(p, n) /\ n <= position[p]

CopiesAreCovered ==
  \A f \in Flushers : Covered(copy[f], position, Accounted)

CommitIsArchived ==
  \A f \in Flushers : flush[f] = "commit" => copy[f] \subseteq archived

SafeInv ==
  /\ TInv
  /\ CommittedIsAccounted
  /\ HandedOverIsKept
  /\ BatchIsHandedOver
  /\ CopiesAreCovered
  /\ CommitIsArchived

LEMMA SettledGrows ==
  ASSUME archived \subseteq archived', dropped \subseteq dropped'
  PROVE  Settled \subseteq Settled'
BY DEF Settled, Telemetry

LEMMA AccountedGrows ==
  ASSUME archived \subseteq archived', dropped \subseteq dropped',
         cut \subseteq cut', missed \subseteq missed'
  PROVE  Accounted \subseteq Accounted'
BY SettledGrows DEF Accounted, Lost

LEMMA CoveredLater ==
  ASSUME NEW items, NEW taken, NEW later, NEW done, NEW more,
         Covered(items, taken, done), done \subseteq more,
         \A p \in Partitions : taken[p] \in Nat /\ later[p] \in Nat /\ taken[p] <= later[p]
  PROVE  Covered(items, later, more)
<1> SUFFICES ASSUME NEW p \in Partitions, NEW n \in 1..Len(Log[p]), <<p, n>> \in items
             PROVE  /\ Telemetry(p, n)
                    /\ n <= later[p]
                    /\ \A m \in 1..n : <<p, m>> \in more \cup items
  BY DEF Covered
<1>1. /\ Telemetry(p, n)
      /\ n <= taken[p]
      /\ \A m \in 1..n : <<p, m>> \in done \cup items
  BY DEF Covered
<1>2. n \in Nat /\ taken[p] \in Nat /\ later[p] \in Nat /\ taken[p] <= later[p]
  OBVIOUS
<1>3. QED
  BY <1>1, <1>2

\* The batch is covered.
LEMMA BatchIsCovered ==
  ASSUME SafeInv
  PROVE  Covered(batch, position, Accounted)
<1> SUFFICES ASSUME NEW p \in Partitions, NEW n \in 1..Len(Log[p]), <<p, n>> \in batch
             PROVE  /\ Telemetry(p, n)
                    /\ n <= position[p]
                    /\ \A m \in 1..n : <<p, m>> \in Accounted \cup batch
  BY DEF Covered
<1>1. Telemetry(p, n) /\ n <= position[p] /\ position[p] \in Nat
  BY DEF SafeInv, BatchIsHandedOver, TInv, TypeOK
<1>2. ASSUME NEW m \in 1..n
      PROVE  <<p, m>> \in Accounted \cup batch
  <2>1. m \in 1..position[p]
    BY <1>1
  <2>2. QED
    BY <2>1 DEF SafeInv, HandedOverIsKept
<1>3. QED
  BY <1>1, <1>2

\* Committing an archived copy passes only over messages that are accounted
\* for, all of them handed over or passed over.
LEMMA CommitIsAccounted ==
  ASSUME SafeInv, NEW f \in Flushers, flush[f] = "commit",
         committed' = OffsetsByPartition(copy[f]), NEW p \in Partitions
  PROVE  \/ committed'[p] = committed[p]
         \/ /\ committed'[p] \in 0..position[p]
            /\ \A m \in 1..committed'[p] : <<p, m>> \in Accounted
<1>1. copy[f] \subseteq Items /\ position[p] \in Nat
  BY DEF SafeInv, TInv, TypeOK
<1>2. copy[f] \subseteq Accounted
  BY DEF SafeInv, CommitIsArchived, Settled, Accounted
<1>3. CASE committed'[p] = committed[p]
  BY <1>3
<1>4. CASE committed'[p] \in 1..Len(Log[p]) /\ <<p, committed'[p]>> \in copy[f]
  <2>1. /\ committed'[p] <= position[p]
        /\ \A m \in 1..committed'[p] : <<p, m>> \in Accounted \cup copy[f]
    BY <1>4 DEF SafeInv, CopiesAreCovered, Covered
  <2>2. QED
    BY <1>1, <1>2, <1>4, <2>1
<1>5. QED
  BY <1>1, <1>3, <1>4, OffsetsAreOfItems

\* Steps that leave the copies alone, or clear or take one.
LEMMA CopiesKept ==
  ASSUME SafeInv, UNCHANGED position, Accounted \subseteq Accounted',
         NEW f \in Flushers, \A g \in Flushers : g # f => copy'[g] = copy[g],
         copy'[f] \in {copy[f], {}, batch}
  PROVE  CopiesAreCovered'
<1>1. ASSUME NEW g \in Flushers
      PROVE  Covered(copy'[g], position, Accounted')
  <2>1. \A p \in Partitions : position[p] \in Nat
    BY DEF SafeInv, TInv, TypeOK
  <2>2. CASE copy'[g] = {}
    BY <2>2 DEF Covered
  <2>3. CASE copy'[g] = copy[g]
    <3>1. Covered(copy[g], position, Accounted)
      BY DEF SafeInv, CopiesAreCovered
    <3>2. QED
      BY <2>1, <2>3, <3>1, CoveredLater
  <2>4. CASE copy'[g] = batch
    BY <2>1, <2>4, BatchIsCovered, CoveredLater
  <2>5. QED
    BY <2>2, <2>3, <2>4
<1>2. QED
  BY <1>1 DEF CopiesAreCovered, Covered, Telemetry

\* The parts of SafeInv a step keeps that leaves the messages in hand alone.
LEMMA CommittedKept ==
  ASSUME SafeInv, UNCHANGED committed, Accounted \subseteq Accounted'
  PROVE  CommittedIsAccounted'
BY DEF SafeInv, CommittedIsAccounted

LEMMA HandedOverKept ==
  ASSUME SafeInv, UNCHANGED position, batch' \subseteq batch,
         Accounted \cup batch \subseteq Accounted' \cup batch'
  PROVE  HandedOverIsKept' /\ BatchIsHandedOver'
<1>1. \A p \in Partitions : \A n \in 1..position[p] : <<p, n>> \in Accounted' \cup batch'
  BY DEF SafeInv, HandedOverIsKept
<1>2. HandedOverIsKept'
  BY <1>1 DEF HandedOverIsKept
<1>3. BatchIsHandedOver'
  BY DEF SafeInv, BatchIsHandedOver, Telemetry
<1>4. QED
  BY <1>2, <1>3

\* The loop and the timers only begin flushes of the batch.
LEMMA LoopSafe ==
  ASSUME SafeInv, \/ LagIsLow \/ LagIsHigh \/ LoopStops \/ StreamFails \/ Stop
                  \/ \E t \in Timers : TimerFires(t)
  PROVE  SafeInv'
<1>1. TInv'
  BY TypeNext DEF SafeInv, Next, LoopStep
<1>2. UNCHANGED <<committed, position, batch, history>>
  BY DEF LagIsLow, LagIsHigh, LoopStops, StreamFails, Stop, TimerFires
<1>3. Accounted \subseteq Accounted'
  BY <1>2, AccountedGrows
<1>4. CommittedIsAccounted' /\ HandedOverIsKept' /\ BatchIsHandedOver'
  BY <1>2, <1>3, CommittedKept, HandedOverKept
<1>5. PICK f \in Flushers : BeginFlush(f, batch) \/ UNCHANGED <<flush, copy>>
  BY DEF LagIsLow, LagIsHigh, LoopStops, StreamFails, Stop, TimerFires, Flushers
<1>6. /\ \A g \in Flushers : g # f => flush'[g] = flush[g] /\ copy'[g] = copy[g]
      /\ \/ flush'[f] = "ipfs" /\ copy'[f] = batch
         \/ flush'[f] = flush[f] /\ copy'[f] = copy[f]
  <2>1. CASE BeginFlush(f, batch)
    BY <2>1, BeginFlushType DEF SafeInv, TInv, TypeOK
  <2>2. CASE UNCHANGED <<flush, copy>>
    BY <2>2
  <2>3. QED
    BY <1>5, <2>1, <2>2
<1>7. CopiesAreCovered'
  BY <1>2, <1>3, <1>6, CopiesKept
<1>8. CommitIsArchived'
  BY <1>2, <1>6 DEF SafeInv, CommitIsArchived
<1>9. QED
  BY <1>1, <1>4, <1>7, <1>8 DEF SafeInv

\* A message that is handed over joins the batch, unless it is unreadable.
LEMMA ReceiveSafe ==
  ASSUME SafeInv, NEW p \in Partitions, Receive(p)
  PROVE  SafeInv'
<1> DEFINE n == position[p] + 1
           b == batch \cup {<<p, n>>}
<1>1. TInv'
  BY TypeNext DEF SafeInv, Next
<1>2. /\ phase = "running" /\ loop = "next" /\ phase' = phase
      /\ position[p] \in Nat /\ n \in 1..Len(Log[p])
      /\ position' = [position EXCEPT ![p] = n]
      /\ UNCHANGED <<committed, history>>
  BY DEF Receive, SafeInv, TInv, TypeOK
<1>3. \/ ~Telemetry(p, n) /\ UNCHANGED <<batch, flush, copy>>
      \/ Telemetry(p, n) /\ batch' = b /\ BeginFlush(Loop, b)
      \/ Telemetry(p, n) /\ batch' = b /\ UNCHANGED <<flush, copy>>
  BY DEF Receive
<1>4. Accounted' = Accounted
  BY <1>2 DEF Accounted, Lost, Settled, Telemetry
<1> HIDE DEF n, b
<1>5. /\ <<p, n>> \in Accounted \cup batch'
      /\ batch \subseteq batch' /\ batch' \subseteq batch \cup {<<p, n>>}
      /\ <<p, n>> \in batch' => Telemetry(p, n) \/ <<p, n>> \in batch
  <2>1. CASE ~Telemetry(p, n) /\ UNCHANGED <<batch, flush, copy>>
    <3>1. <<p, n>> \in Items
      BY <1>2, ItemMember
    <3>2. QED
      BY <2>1, <3>1 DEF Settled, Accounted
  <2>2. CASE Telemetry(p, n) /\ batch' = b
    BY <2>2 DEF b
  <2>3. QED
    BY <1>3, <2>1, <2>2
<1>6. \A q \in Partitions : /\ position[q] \in Nat /\ position'[q] \in Nat
                            /\ position'[q] = IF q = p THEN n ELSE position[q]
                            /\ position[q] <= position'[q]
  BY <1>2 DEF n, SafeInv, TInv, TypeOK
<1>7. ASSUME NEW q \in Partitions, NEW m \in 1..position'[q]
      PROVE  <<q, m>> \in Accounted \cup batch'
  <2>1. m \in 1..position[q] \/ (q = p /\ m = n)
    BY <1>2, <1>6 DEF n
  <2>2. QED
    BY <1>2, <1>5, <2>1 DEF SafeInv, HandedOverIsKept
<1>8. HandedOverIsKept'
  BY <1>4, <1>7 DEF HandedOverIsKept
<1>9. BatchIsHandedOver'
  <2>1. ASSUME NEW q \in Partitions, NEW m \in 1..Len(Log[q]), <<q, m>> \in batch'
        PROVE  Telemetry(q, m) /\ m <= position'[q]
    <3>1. Telemetry(q, m) /\ (m <= position[q] \/ (q = p /\ m = n))
      BY <1>5, <2>1 DEF SafeInv, BatchIsHandedOver
    <3>2. QED
      BY <1>2, <1>6, <3>1
  <2>2. QED
    BY <2>1 DEF BatchIsHandedOver, Telemetry
<1>10. ASSUME NEW f \in Flushers, copy'[f] = copy[f]
       PROVE  Covered(copy'[f], position', Accounted')
  <2>1. Covered(copy[f], position, Accounted)
    BY DEF SafeInv, CopiesAreCovered
  <2>2. QED
    BY <1>4, <1>6, <1>10, <2>1, CoveredLater
<1>11. Covered(batch', position', Accounted')
  <2>1. ASSUME NEW q \in Partitions, NEW k \in 1..Len(Log[q]), <<q, k>> \in batch'
        PROVE  /\ Telemetry(q, k)
               /\ k <= position'[q]
               /\ \A m \in 1..k : <<q, m>> \in Accounted' \cup batch'
    <3>1. Telemetry(q, k) /\ k <= position'[q]
      BY <1>9, <2>1 DEF BatchIsHandedOver, Telemetry
    <3>2. \A m \in 1..k : m \in 1..position'[q]
      BY <1>6, <3>1
    <3>3. QED
      BY <1>4, <1>7, <3>1, <3>2
  <2>2. QED
    BY <2>1 DEF Covered
<1>12. CASE batch' = b /\ BeginFlush(Loop, b)
  <2>1. b \subseteq Items /\ Loop \in Flushers
    BY <1>2, ItemMember DEF b, SafeInv, TInv, TypeOK, Flushers
  <2>2. /\ flush'[Loop] = "ipfs" /\ copy'[Loop] = b
        /\ \A g \in Flushers : g # Loop => flush'[g] = flush[g] /\ copy'[g] = copy[g]
    BY <1>12, <2>1, BeginFlushType DEF SafeInv, TInv
  <2>3. ASSUME NEW f \in Flushers
        PROVE  Covered(copy'[f], position', Accounted')
    BY <1>10, <1>11, <1>12, <2>2
  <2>4. CopiesAreCovered'
    BY <2>3 DEF CopiesAreCovered, Covered, Telemetry
  <2>5. CommitIsArchived'
    BY <1>2, <2>2 DEF SafeInv, CommitIsArchived
  <2>6. QED
    BY <1>1, <1>2, <1>4, <1>8, <1>9, <2>4, <2>5, CommittedKept DEF SafeInv
<1>13. CASE UNCHANGED <<flush, copy>>
  <2>1. CopiesAreCovered'
    BY <1>10, <1>13 DEF CopiesAreCovered, Covered, Telemetry
  <2>2. CommitIsArchived'
    BY <1>2, <1>13 DEF SafeInv, CommitIsArchived
  <2>3. QED
    BY <1>1, <1>2, <1>4, <1>8, <1>9, <2>1, <2>2, CommittedKept DEF SafeInv
<1>14. QED
  BY <1>3, <1>12, <1>13

\* A flush archives before it commits, and what it drops is on record.
LEMMA FlushSafe ==
  ASSUME SafeInv, NEW f \in Flushers, FlushStep(f)
  PROVE  SafeInv'
<1>1. TInv'
  BY TypeNext DEF SafeInv, Next
<1>2. /\ flush[f] # "none" /\ UNCHANGED <<position, cut, missed>>
      /\ archived \subseteq archived' /\ dropped \subseteq dropped'
      /\ batch' \subseteq batch
  BY DEF FlushStep, AddToIpfs, SendResult, CommitAndClear, FlushFails
<1>3. Accounted \subseteq Accounted'
  BY <1>2, AccountedGrows
<1>4. \/ UNCHANGED committed
      \/ flush[f] = "commit" /\ committed' = OffsetsByPartition(copy[f])
  BY DEF FlushStep, AddToIpfs, SendResult, CommitAndClear, FlushFails
<1>5. CommittedIsAccounted'
  <2>1. ASSUME NEW p \in Partitions, NEW n \in 1..committed'[p]
        PROVE  <<p, n>> \in Accounted
    BY <1>4, CommitIsAccounted DEF SafeInv, CommittedIsAccounted
  <2>2. QED
    BY <1>3, <2>1 DEF CommittedIsAccounted
<1>6. batch \subseteq Accounted' \cup batch'
  <2>1. CASE CommitAndClear(f)
    BY <2>1 DEF CommitAndClear, Settled, Accounted, SafeInv, CommitIsArchived
  <2>2. CASE batch' = batch
    BY <2>2
  <2>3. QED
    BY <2>1, <2>2 DEF FlushStep, AddToIpfs, SendResult, FlushFails
<1>7. HandedOverIsKept' /\ BatchIsHandedOver'
  BY <1>2, <1>3, <1>6, HandedOverKept
<1>8. /\ \A g \in Flushers : g # f => flush'[g] = flush[g] /\ copy'[g] = copy[g]
      /\ copy'[f] \in {copy[f], {}}
      /\ flush'[f] = "commit" => copy[f] \subseteq archived'
  <2>1. CASE AddToIpfs(f) \/ SendResult(f)
    BY <2>1 DEF AddToIpfs, SendResult, SafeInv, TInv, TypeOK
  <2>2. CASE EndFlush(f)
    BY <1>2, <2>2, EndFlushType DEF SafeInv, TInv
  <2>3. QED
    BY <2>1, <2>2 DEF FlushStep, CommitAndClear, FlushFails
<1>9. CopiesAreCovered'
  BY <1>2, <1>3, <1>8, CopiesKept
<1>10. CommitIsArchived'
  <2>1. ASSUME NEW g \in Flushers, flush'[g] = "commit"
        PROVE  copy'[g] \subseteq archived'
    BY <1>2, <1>8, <2>1 DEF SafeInv, CommitIsArchived
  <2>2. QED
    BY <2>1 DEF CommitIsArchived
<1>11. QED
  BY <1>1, <1>5, <1>7, <1>9, <1>10 DEF SafeInv

\* Deaths and starts.
LEMMA VanishSafe ==
  ASSUME SafeInv, Vanish, TInv'
  PROVE  SafeInv'
<1>1. Accounted \subseteq Accounted'
  BY AccountedGrows DEF Vanish
<1>2. CommittedIsAccounted'
  BY <1>1, CommittedKept DEF Vanish
<1>3. batch \subseteq Accounted'
  BY DEF Vanish, InHand, Accounted, Settled, Lost
<1>4. HandedOverIsKept' /\ BatchIsHandedOver'
  BY <1>1, <1>3, HandedOverKept DEF Vanish
<1>5. \A f \in Flushers : flush'[f] = "none" /\ copy'[f] = {}
  BY NoFlushType DEF Vanish
<1>6. CopiesAreCovered' /\ CommitIsArchived'
  BY <1>5 DEF CopiesAreCovered, Covered, CommitIsArchived
<1>7. QED
  BY <1>2, <1>4, <1>6 DEF SafeInv

LEMMA StartSafe ==
  ASSUME SafeInv, Start
  PROVE  SafeInv'
<1>1. TInv'
  BY TypeNext DEF SafeInv, Next
<1>2. Accounted \subseteq Accounted'
  BY AccountedGrows DEF Start
<1>3. CommittedIsAccounted'
  BY <1>2, CommittedKept DEF Start
<1>4. HandedOverIsKept'
  <2>1. ASSUME NEW p \in Partitions, NEW n \in 1..position'[p]
        PROVE  <<p, n>> \in Accounted' \cup batch'
    <3>1. /\ position[p] \in Nat /\ position'[p] \in Nat
          /\ position[p] <= position'[p] /\ position'[p] <= Len(Log[p])
      BY StartMoves DEF SafeInv, TInv
    <3>2. CASE n <= position[p]
      <4>1. n \in 1..position[p]
        BY <3>1, <3>2
      <4>2. QED
        BY <1>2, <4>1 DEF SafeInv, HandedOverIsKept, Start
    <3>3. CASE position[p] < n
      <4>1. <<p, n>> \in Items
        BY <3>1, ItemMember
      <4>2. n <= position'[p]
        BY <3>1
      <4>3. <<p, n>> \in missed'
        BY <3>3, <4>1, <4>2 DEF Start
      <4>4. QED
        BY <4>3 DEF Accounted, Lost
    <3>4. QED
      BY <3>1, <3>2, <3>3
  <2>2. QED
    BY <2>1 DEF HandedOverIsKept
<1>5. BatchIsHandedOver'
  BY DEF Start, BatchIsHandedOver, SafeInv, TInv, DownIsEmpty
<1>6. \A f \in Flushers : flush'[f] = "none" /\ copy'[f] = {}
  BY DEF Start, SafeInv, TInv, TypeOK, DownIsEmpty
<1>7. CopiesAreCovered' /\ CommitIsArchived'
  BY <1>6 DEF CopiesAreCovered, Covered, CommitIsArchived
<1>8. QED
  BY <1>1, <1>3, <1>4, <1>5, <1>7 DEF SafeInv

LEMMA SafeNext == SafeInv /\ [Next]_vars => SafeInv'
<1> SUFFICES ASSUME SafeInv, [Next]_vars
             PROVE  SafeInv'
  OBVIOUS
<1>1. CASE \/ LagIsLow \/ LagIsHigh \/ LoopStops \/ StreamFails \/ Stop
           \/ \E t \in Timers : TimerFires(t)
  BY <1>1, LoopSafe
<1>2. CASE Ended \/ Crash
  <2>1. Vanish /\ TInv'
    BY <1>2, TypeNext DEF Ended, Crash, SafeInv, Next, LoopStep
  <2>2. QED
    BY <2>1, VanishSafe
<1>3. CASE UNCHANGED vars
  <2>1. TInv'
    BY <1>3, TypeNext DEF SafeInv
  <2>2. Accounted' = Accounted
    BY <1>3 DEF vars, Accounted, Lost, Settled, Telemetry
  <2>3. QED
    BY <1>3, <2>1, <2>2 DEF vars, SafeInv, CommittedIsAccounted, HandedOverIsKept,
                            BatchIsHandedOver, CopiesAreCovered, Covered, CommitIsArchived,
                            Telemetry
<1>4. QED
  BY <1>1, <1>2, <1>3, ReceiveSafe, FlushSafe, StartSafe DEF Next, LoopStep

LEMMA SafeInit == Init => SafeInv
<1> SUFFICES ASSUME Init
             PROVE  SafeInv
  OBVIOUS
<1>1. CommittedIsAccounted /\ HandedOverIsKept /\ BatchIsHandedOver
  BY DEF Init, CommittedIsAccounted, HandedOverIsKept, BatchIsHandedOver
<1>2. \A f \in Flushers : flush[f] = "none" /\ copy[f] = {}
  BY DEF Init
<1>3. CopiesAreCovered /\ CommitIsArchived
  BY <1>2 DEF CopiesAreCovered, Covered, CommitIsArchived
<1>4. QED
  BY <1>1, <1>3, TypeInit DEF SafeInv

LEMMA SafeAlways == Spec => []SafeInv
BY SafeInit, SafeNext, PTL DEF Spec

\* Telemetry below a committed offset that no announced batch holds was
\* dropped with the batch of another flush, was in the hands of a process that
\* ended, or came before a process started, however many flushes overlap,
\* whatever fails and wherever each process starts.
THEOREM LossesHaveCauses == Spec => []LossHasCause
<1>1. SafeInv => LossHasCause
  BY DEF SafeInv, CommittedIsAccounted, Accounted, Lost, Settled, LossHasCause
<1>2. QED
  BY <1>1, SafeAlways, PTL

-----------------------------------------------------------------------------
(* The service implements Relay.                                           *)

LEMMA RelayInit == Init => Archiving!Init
BY DEF Init, Archiving!Init

\* The kinds of steps, as Relay sees them.
LEMMA RelayStutter ==
  ASSUME UNCHANGED <<committed, position, history>>
  PROVE  UNCHANGED Archiving!vars
BY DEF Archiving!vars, Telemetry

LEMMA RelayTake ==
  ASSUME NEW p \in Partitions, Receive(p)
  PROVE  Archiving!Take(p)
BY DEF Receive, Archiving!Take, Telemetry

LEMMA RelayFlush ==
  ASSUME SafeInv, NEW f \in Flushers, FlushStep(f)
  PROVE  Archiving!Commit
<1>1. /\ UNCHANGED <<position, cut, missed>>
      /\ archived \subseteq archived' /\ dropped \subseteq dropped'
  BY DEF FlushStep, AddToIpfs, SendResult, CommitAndClear, FlushFails
<1>2. \/ UNCHANGED committed
      \/ flush[f] = "commit" /\ committed' = OffsetsByPartition(copy[f])
  BY DEF FlushStep, AddToIpfs, SendResult, CommitAndClear, FlushFails
<1>3. DOMAIN committed' = Partitions
  BY <1>2 DEF OffsetsByPartition, SafeInv, TInv, TypeOK
<1>4. ASSUME NEW p \in Partitions
      PROVE  committed'[p] \in {committed[p]} \cup Archiving!Committable(p)
  <2>1. \/ committed'[p] = committed[p]
        \/ /\ committed'[p] \in 0..position[p]
           /\ \A m \in 1..committed'[p] : <<p, m>> \in Accounted
    BY <1>2, CommitIsAccounted
  <2>2. CASE /\ committed'[p] \in 0..position[p]
             /\ \A m \in 1..committed'[p] : <<p, m>> \in Accounted
    <3>1. Archiving!Between(p, 0, committed'[p]) \subseteq Accounted
      BY <2>2 DEF Archiving!Between
    <3>2. QED
      BY <2>2, <3>1 DEF Archiving!Committable, Accounted, Lost, Settled
  <2>3. QED
    BY <2>1, <2>2
<1>5. QED
  BY <1>1, <1>3, <1>4, SettledGrows DEF Archiving!Commit, Archiving!Commits, Settled

\* What a process holds when it ends is what was handed over and is neither
\* settled nor lost before.
LEMMA InHandIsTaken ==
  ASSUME SafeInv, NEW i \in InHand
  PROVE  /\ i[1] \in Partitions /\ i[2] \in 1..position[i[1]] /\ i = <<i[1], i[2]>>
         /\ i \notin Settled
<1>1. i \in batch \/ \E f \in Flushers : i \in copy[f]
  BY DEF InHand
<1>2. i \in Items
  BY <1>1 DEF SafeInv, TInv, TypeOK
<1>3. i[1] \in Partitions /\ i[2] \in 1..Len(Log[i[1]]) /\ i = <<i[1], i[2]>>
  BY <1>2, ItemParts
<1>4. Telemetry(i[1], i[2]) /\ i[2] <= position[i[1]]
  <2>1. CASE i \in batch
    BY <1>3, <2>1 DEF SafeInv, BatchIsHandedOver
  <2>2. CASE \E f \in Flushers : i \in copy[f]
    BY <1>3, <2>2 DEF SafeInv, CopiesAreCovered, Covered
  <2>3. QED
    BY <1>1, <2>1, <2>2
<1>5. position[i[1]] \in Nat
  BY <1>3 DEF SafeInv, TInv, TypeOK
<1>6. i \notin archived \cup dropped
  BY DEF InHand
<1>7. QED
  BY <1>3, <1>4, <1>5, <1>6 DEF Settled

LEMMA RelayEnd ==
  ASSUME SafeInv, Vanish
  PROVE  Archiving!End
<1> DEFINE taken == Archiving!Taken
<1>1. \A i : i \in taken <=> \E p \in Partitions : \E n \in 1..position[p] : i = <<p, n>>
  BY DEF Archiving!Between, Archiving!Taken
<1> HIDE DEF taken
<1>2. InHand \subseteq taken \ Settled
  BY <1>1, InHandIsTaken
<1>3. taken \ Settled \subseteq Lost \cup InHand
  <2>1. ASSUME NEW p \in Partitions, NEW n \in 1..position[p], <<p, n>> \notin Settled
        PROVE  <<p, n>> \in Lost \cup InHand
    <3>1. <<p, n>> \in Accounted \cup batch
      BY DEF SafeInv, HandedOverIsKept
    <3>2. QED
      BY <2>1, <3>1 DEF Accounted, Settled, InHand
  <2>2. QED
    BY <1>1, <2>1
<1>4. cut' \cup missed' = (cut \cup missed) \cup (taken \ Settled)
  BY <1>2, <1>3 DEF Vanish, Lost
<1>5. UNCHANGED <<committed, position, archived, dropped>> /\ DOMAIN committed = Partitions
  BY DEF Vanish, SafeInv, TInv, TypeOK
<1>6. QED
  BY <1>4, <1>5 DEF Archiving!End, Archiving!Commits, taken, Settled, Telemetry

LEMMA RelayBegin ==
  ASSUME SafeInv, Start
  PROVE  Archiving!Begin
<1> DEFINE gap == {i \in Items : position[i[1]] < i[2] /\ i[2] <= position'[i[1]]}
           passed == UNION {Archiving!Between(p, position[p], position'[p]) : p \in Partitions}
<1>1. \A p \in Partitions : /\ position[p] \in Nat /\ position'[p] \in Nat
                            /\ position[p] <= position'[p] /\ position'[p] <= Len(Log[p])
  BY StartMoves DEF SafeInv, TInv
<1>2. \A i : i \in passed <=>
        \E p \in Partitions : \E n \in (position[p] + 1)..position'[p] : i = <<p, n>>
  BY DEF Archiving!Between
<1>3. gap \subseteq passed
  <2>1. ASSUME NEW i \in Items, position[i[1]] < i[2], i[2] <= position'[i[1]]
        PROVE  \E p \in Partitions : \E n \in (position[p] + 1)..position'[p] : i = <<p, n>>
    <3>1. i[1] \in Partitions /\ i[2] \in 1..Len(Log[i[1]]) /\ i = <<i[1], i[2]>>
      BY ItemParts
    <3>2. i[2] \in (position[i[1]] + 1)..position'[i[1]]
      BY <1>1, <2>1, <3>1
    <3>3. QED
      BY <3>1, <3>2
  <2>2. QED
    BY <1>2, <2>1
<1>4. passed \subseteq gap
  <2>1. ASSUME NEW p \in Partitions, NEW n \in (position[p] + 1)..position'[p]
        PROVE  <<p, n>> \in gap
    <3>1. n \in 1..Len(Log[p]) /\ position[p] < n /\ n <= position'[p]
      BY <1>1
    <3>2. <<p, n>> \in Items
      BY <3>1, ItemMember
    <3>3. QED
      BY <3>1, <3>2
  <2>2. QED
    BY <1>2, <2>1
<1> HIDE DEF gap, passed
<1>5. cut' \cup missed' = (cut \cup missed) \cup passed
  <2>1. cut' = cut /\ missed' = missed \cup gap
    BY DEF Start, gap
  <2>2. gap = passed
    BY <1>3, <1>4
  <2>3. QED
    BY <2>1, <2>2
<1>6. DOMAIN position' = Partitions
  BY StartMoves DEF SafeInv, TInv
<1>7. \A p \in Partitions : position'[p] \in position[p]..Len(Log[p])
  BY <1>1
<1>8. UNCHANGED <<committed, archived, dropped>>
  BY DEF Start
<1>9. QED
  BY <1>5, <1>6, <1>7, <1>8 DEF Archiving!Begin, passed, Telemetry

LEMMA RelayNext == SafeInv /\ [Next]_vars => [Archiving!Next]_(Archiving!vars)
<1> SUFFICES ASSUME SafeInv, [Next]_vars
             PROVE  [Archiving!Next]_(Archiving!vars)
  OBVIOUS
<1>1. CASE \/ LagIsLow \/ LagIsHigh \/ LoopStops \/ StreamFails \/ Stop
           \/ (\E t \in Timers : TimerFires(t)) \/ UNCHANGED vars
  <2>1. UNCHANGED <<committed, position, history>>
    BY <1>1 DEF LagIsLow, LagIsHigh, LoopStops, StreamFails, Stop, TimerFires, vars
  <2>2. QED
    BY <2>1, RelayStutter
<1>2. CASE \E p \in Partitions : Receive(p)
  BY <1>2, RelayTake DEF Archiving!Next
<1>3. CASE \E f \in Flushers : FlushStep(f)
  BY <1>3, RelayFlush DEF Archiving!Next
<1>4. CASE Ended \/ Crash
  BY <1>4, RelayEnd DEF Ended, Crash, Archiving!Next
<1>5. CASE Start
  BY <1>5, RelayBegin DEF Archiving!Next
<1>6. QED
  BY <1>1, <1>2, <1>3, <1>4, <1>5 DEF Next, LoopStep

\* ipfs-publisher implements Relay for every topic, batch size and number of
\* overlapping flushes, whatever fails and whenever processes die.
THEOREM PublisherRelaysTelemetry == Spec => RelaysTelemetry
BY RelayInit, RelayNext, SafeAlways, PTL DEF Spec, RelaysTelemetry, Archiving!Spec

-----------------------------------------------------------------------------
(* What keeps telemetry from being lost.                                   *)

\* No message joins the batch while the flush of a timer is under way.  The
\* code does not see to that: the timer's callback is not awaited, and the
\* consumer loop receives meanwhile.
BatchGrowsAlone ==
  [][batch' \subseteq batch \/ \A t \in Timers : flush[t] = "none"]_vars

\* Then each flush under way holds all of the batch it is going to empty.
NothingDropped ==
  /\ dropped = {}
  /\ \A f \in Flushers : flush[f] # "none" => batch \subseteq copy[f]

LEMMA NothingDroppedInit == Init => NothingDropped
BY DEF Init, NothingDropped

\* A flush keeps the copies of the others, and empties the batch it copied.
LEMMA FlushDropsNothing ==
  ASSUME TInv, NothingDropped, NEW f \in Flushers, FlushStep(f)
  PROVE  NothingDropped'
<1>1. flush[f] # "none" /\ batch \subseteq copy[f]
  BY DEF NothingDropped, FlushStep, AddToIpfs, SendResult, CommitAndClear, FlushFails
<1>2. dropped' = {} /\ batch' \in {batch, {}}
  BY <1>1 DEF NothingDropped, FlushStep, AddToIpfs, SendResult, CommitAndClear, FlushFails
<1>3. /\ \A g \in Flushers : g # f => flush'[g] = flush[g] /\ copy'[g] = copy[g]
      /\ flush'[f] = "none" \/ copy'[f] = copy[f]
  <2>1. CASE AddToIpfs(f) \/ SendResult(f)
    BY <2>1 DEF AddToIpfs, SendResult, TInv, TypeOK
  <2>2. CASE EndFlush(f)
    BY <1>1, <2>2, EndFlushType DEF TInv
  <2>3. QED
    BY <2>1, <2>2 DEF FlushStep, CommitAndClear, FlushFails
<1>4. QED
  BY <1>1, <1>2, <1>3 DEF NothingDropped

\* The batch grows only while no flush is under way: the loop, which receives,
\* is in none, and by assumption no timer is.
LEMMA ReceiveDropsNothing ==
  ASSUME TInv, NothingDropped, NEW p \in Partitions, Receive(p),
         batch' \subseteq batch \/ \A t \in Timers : flush[t] = "none"
  PROVE  NothingDropped'
<1> DEFINE b == batch \cup {<<p, position[p] + 1>>}
<1>1. /\ flush[Loop] = "none" /\ UNCHANGED dropped
      /\ \/ UNCHANGED <<batch, flush, copy>>
         \/ batch' = b /\ BeginFlush(Loop, b)
         \/ batch' = b /\ UNCHANGED <<flush, copy>>
  BY DEF Receive, TInv, TypeOK
<1>2. b \subseteq Items
  BY ItemMember DEF Receive, TInv, TypeOK
<1> HIDE DEF b
<1>3. CASE batch' \subseteq batch
  <2>1. CASE UNCHANGED <<flush, copy>>
    BY <1>1, <1>3, <2>1 DEF NothingDropped
  <2>2. CASE batch' = b /\ BeginFlush(Loop, b)
    BY <1>1, <1>2, <1>3, <2>2, BeginFlushType DEF NothingDropped, Flushers, TInv
  <2>3. QED
    BY <1>1, <2>1, <2>2
<1>4. CASE \A t \in Timers : flush[t] = "none"
  <2>1. \A f \in Flushers : flush[f] = "none"
    BY <1>1, <1>4 DEF Flushers
  <2>2. CASE UNCHANGED <<flush, copy>>
    BY <1>1, <2>1, <2>2 DEF NothingDropped
  <2>3. CASE batch' = b /\ BeginFlush(Loop, b)
    BY <1>1, <1>2, <2>1, <2>3, BeginFlushType DEF NothingDropped, Flushers, TInv
  <2>4. QED
    BY <1>1, <2>2, <2>3
<1>5. QED
  BY <1>3, <1>4

\* The loop and the timers begin flushes of all of the batch.
LEMMA LoopDropsNothing ==
  ASSUME TInv, NothingDropped,
         \/ LagIsLow \/ LagIsHigh \/ LoopStops \/ StreamFails \/ Stop
         \/ \E t \in Timers : TimerFires(t)
  PROVE  NothingDropped'
<1>1. UNCHANGED <<batch, dropped>>
  BY DEF LagIsLow, LagIsHigh, LoopStops, StreamFails, Stop, TimerFires
<1>2. PICK f \in Flushers : BeginFlush(f, batch) \/ UNCHANGED <<flush, copy>>
  BY DEF LagIsLow, LagIsHigh, LoopStops, StreamFails, Stop, TimerFires, Flushers
<1>3. CASE BeginFlush(f, batch)
  <2>1. /\ copy'[f] = batch
        /\ \A g \in Flushers : g # f => flush'[g] = flush[g] /\ copy'[g] = copy[g]
    BY <1>3, BeginFlushType DEF TInv, TypeOK
  <2>2. QED
    BY <1>1, <2>1 DEF NothingDropped
<1>4. CASE UNCHANGED <<flush, copy>>
  BY <1>1, <1>4 DEF NothingDropped
<1>5. QED
  BY <1>2, <1>3, <1>4

LEMMA NothingDroppedNext ==
  ASSUME TInv, NothingDropped, [Next]_vars,
         [batch' \subseteq batch \/ \A t \in Timers : flush[t] = "none"]_vars
  PROVE  NothingDropped'
<1>1. CASE UNCHANGED vars
  BY <1>1 DEF vars, NothingDropped
<1>2. CASE \E p \in Partitions : Receive(p)
  <2>1. CASE UNCHANGED vars
    BY <1>1, <2>1
  <2>2. CASE batch' \subseteq batch \/ \A t \in Timers : flush[t] = "none"
    BY <1>2, <2>2, ReceiveDropsNothing
  <2>3. QED
    BY <2>1, <2>2
<1>3. CASE \/ LagIsLow \/ LagIsHigh \/ LoopStops \/ StreamFails \/ Stop
           \/ \E t \in Timers : TimerFires(t)
  BY <1>3, LoopDropsNothing
<1>4. CASE \E f \in Flushers : FlushStep(f)
  BY <1>4, FlushDropsNothing
<1>5. CASE Start
  BY <1>5 DEF Start, NothingDropped
<1>6. CASE Ended \/ Crash
  BY <1>6, NoFlushType DEF Ended, Crash, Vanish, NothingDropped
<1>7. QED
  BY <1>1, <1>2, <1>3, <1>4, <1>5, <1>6 DEF Next, LoopStep

\* While a process lives, it loses telemetry in one way only: as long as
\* nothing joins the batch during the flush of a timer, all telemetry below a
\* committed offset is in an announced batch, but for what a process held at
\* its end and what came before a start, whatever fails and for any batch size.
THEOREM LivingLoseOnlyByOverlap == Spec /\ BatchGrowsAlone => []NoTelemetryLost
<1>1. SafeInv => TInv
  BY DEF SafeInv
<1>2. NothingDropped /\ LossHasCause => NoTelemetryLost
  BY DEF NothingDropped, LossHasCause, NoTelemetryLost
<1>3. QED
  BY <1>1, <1>2, NothingDroppedInit, NothingDroppedNext, SafeAlways, LossesHaveCauses, PTL
     DEF Spec, BatchGrowsAlone

=============================================================================
