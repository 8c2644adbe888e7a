----------------------- MODULE BlockchainAnchorProofs -----------------------
(***************************************************************************)
(* Proofs about BlockchainAnchor for every topic, with or without faults   *)
(* and for any number of process deaths.                                   *)
(*                                                                         *)
(* LossHasCause is not inductive: a commit passes over every message below *)
(* the current one, committed or not.  IInv adds what is known of the      *)
(* messages handed over or passed over, and where the current message      *)
(* stands among them.                                                      *)
(***************************************************************************)
EXTENDS BlockchainAnchor, TLAPS

USE LogAssumption, AnchorBoundsAssumption
USE DEF fate

-----------------------------------------------------------------------------
(* Items.                                                                  *)

\* An item is a partition and an index into its messages.
LEMMA ItemMember ==
  ASSUME NEW p \in Partitions, NEW n \in 1..Len(Log[p])
  PROVE  <<p, n>> \in Items
BY DEF Items

LEMMA ItemParts ==
  ASSUME NEW i \in Items
  PROVE  /\ i[1] \in Partitions
         /\ i[2] \in 1..Len(Log[i[1]])
         /\ i = <<i[1], i[2]>>
<1>1. PICK p \in Partitions : i \in {p} \X (1..Len(Log[p]))
  BY DEF Items
<1>2. QED
  BY <1>1

\* No extrinsic is watched once the subscription is gone.
LEMMA UnwatchedType ==
  ASSUME NEW txs, txs \subseteq Extrinsics
  PROVE  /\ Unwatched(txs) \subseteq Extrinsics
         /\ \A tx \in Unwatched(txs) : ~tx.watched
<1>1. ASSUME NEW ty \in Unwatched(txs)
      PROVE  ty \in Extrinsics /\ ~ty.watched
  <2>1. PICK tx \in txs : ty = [item |-> tx.item, watched |-> FALSE]
    BY DEF Unwatched
  <2>2. tx.item \in Items
    BY DEF Extrinsics
  <2>3. QED
    BY <2>1, <2>2 DEF Extrinsics
<1>2. QED
  BY <1>1

\* The service watches one extrinsic at a time.
LEMMA OneIsWatched ==
  ASSUME TypeOK, NEW tx \in pool, NEW ty \in pool, tx.watched, ty.watched
  PROVE  tx = ty
<1>1. tx.item = current /\ ty.item = current
  BY DEF TypeOK
<1>2. /\ tx = [item |-> tx.item, watched |-> tx.watched]
      /\ ty = [item |-> ty.item, watched |-> ty.watched]
      /\ tx.watched = TRUE /\ ty.watched = TRUE
  BY DEF TypeOK, Extrinsics
<1>3. QED
  BY <1>1, <1>2

-----------------------------------------------------------------------------
(* The invariant.                                                          *)

\* Offsets are committed within the topic.
OffsetsFit == \A p \in Partitions : committed[p] <= Len(Log[p])

\* A process that is down has no loop.
DownIsDone == phase = "down" => loop = "done"

TInv == TypeOK /\ OffsetsFit /\ DownIsDone

\* The loop has a message in hand.
Busy == loop \notin {"next", "done"}

\* What became of a CID.
Lost == cut \cup missed

Accounted == anchored \cup failed \cup Lost

\* Every CID handed over or passed over is accounted for, or is the one in
\* hand.
HandedOverIsAccounted ==
  \A p \in Partitions : \A n \in 1..position[p] :
    Kind(<<p, n>>) = "cid" =>
      \/ <<p, n>> \in Accounted
      \/ Busy /\ current = <<p, n>>

\* Nothing is committed that was not handed over or passed over.
CommittedIsHandedOver == \A p \in Partitions : committed[p] <= position[p]

\* The message in hand is the last one of its partition and is not committed;
\* it is to be skipped because it cannot be decoded, or it is a CID, and what
\* is about to be committed is anchored.
CurrentIsLast ==
  Busy => /\ current[2] = position[current[1]]
          /\ committed[current[1]] < current[2]
          /\ loop = "commit" => current \in anchored
          /\ Kind(current) = IF loop = "skip" THEN "malformed" ELSE "cid"

IInv ==
  /\ TInv
  /\ LossHasCause
  /\ HandedOverIsAccounted
  /\ CommittedIsHandedOver
  /\ CurrentIsLast

-----------------------------------------------------------------------------
(* Type correctness.                                                       *)

LEMMA TypeInit == Init => TInv
<1> SUFFICES ASSUME Init PROVE TInv
  OBVIOUS
<1>1. unheard \in BOOLEAN
  BY DEF Init
<1>2. QED
  BY <1>1 DEF Init, TInv, OffsetsFit, DownIsDone, TypeOK, NoItem

LEMMA ReceiveType ==
  ASSUME TInv, NEW p \in Partitions, Receive(p)
  PROVE  TypeOK'
<1>1. /\ position[p] \in Nat /\ position[p] + 1 <= Len(Log[p]) /\ Len(Log[p]) \in Nat
      /\ position' = [position EXCEPT ![p] = position[p] + 1]
      /\ position' \in [Partitions -> Nat]
      /\ UNCHANGED <<committed, phase, pool, anchored, failed, fate, unheard, crashes>>
      /\ loop = "next" /\ current = NoItem
  BY DEF TInv, TypeOK, Receive
<1>2. \A q \in Partitions : position'[q] <= Len(Log[q])
  BY <1>1 DEF TInv, TypeOK
<1>3. <<p, position[p] + 1>> \in Items
  BY <1>1, ItemMember
<1>4. \/ loop' = "next" /\ current' = NoItem
      \/ loop' \in {"skip", "submit"} /\ current' \in Items
  BY <1>1, <1>3 DEF Receive
<1>5. \A tx \in pool : ~tx.watched
  BY <1>1 DEF TInv, TypeOK
<1>6. QED
  BY <1>1, <1>2, <1>4, <1>5 DEF TInv, TypeOK

\* The death of the process fits, whatever offsets are committed.
LEMMA VanishType ==
  ASSUME TypeOK, Vanish,
         committed' \in [Partitions -> Nat], crashes' \in 0..MaxCrashes
  PROVE  TypeOK'
<1>1. pool' \subseteq Extrinsics /\ \A tx \in pool' : ~tx.watched
  BY UnwatchedType DEF TypeOK, Vanish
<1>2. cut' \subseteq Items
  <2>1. loop \in {"submit", "watch"} => current \in Items
    BY DEF TypeOK
  <2>2. QED
    BY <2>1 DEF TypeOK, Vanish, InHand
<1>3. QED
  BY <1>1, <1>2 DEF TypeOK, Vanish

\* A new process begins past all that was handed over or passed over before.
LEMMA StartMoves ==
  ASSUME TypeOK, Start
  PROVE  /\ position' \in [Partitions -> Nat]
         /\ \A p \in Partitions : /\ position[p] \in Nat /\ position'[p] \in Nat
                                 /\ position[p] <= position'[p]
                                 /\ position'[p] <= Len(Log[p])
<1>1. /\ position' \in [Partitions -> UNION {0..Len(Log[p]) : p \in Partitions}]
      /\ \A p \in Partitions : position[p] <= position'[p] /\ position'[p] <= Len(Log[p])
  BY DEF Start, TopicEnds
<1>2. UNION {0..Len(Log[p]) : p \in Partitions} \subseteq Nat
  OBVIOUS
<1>3. position' \in [Partitions -> Nat]
  BY <1>1, <1>2
<1>4. QED
  BY <1>1, <1>3 DEF TypeOK

\* Committing the message in hand keeps the offsets numbers that fit.
LEMMA CommitType ==
  ASSUME TInv, Busy, CommitOffset(current) \/ UNCHANGED committed
  PROVE  committed' \in [Partitions -> Nat] /\ OffsetsFit'
<1>1. current \in Items
  BY DEF TInv, TypeOK, Busy
<1>2. current[1] \in Partitions /\ current[2] \in Nat /\ current[2] <= Len(Log[current[1]])
  BY <1>1, ItemParts
<1>3. QED
  BY <1>2 DEF TInv, OffsetsFit, TypeOK, CommitOffset

\* The message in hand is dealt with: the loop has none, and watches none.
LEMMA NextMessageType ==
  ASSUME TypeOK, NextMessage, UNCHANGED <<phase, position, fate, unheard, crashes>>,
         committed' \in [Partitions -> Nat],
         pool' \subseteq Extrinsics, \A tx \in pool' : ~tx.watched,
         anchored' = anchored, failed' \subseteq Items
  PROVE  TypeOK'
BY DEF TypeOK, NextMessage

LEMMA DownNext == TInv /\ [Next]_vars => DownIsDone'
<1> SUFFICES ASSUME TInv, [Next]_vars PROVE DownIsDone'
  OBVIOUS
<1>w. \A tx \in pool : tx.watched => loop = "watch"
  BY DEF TInv, TypeOK
<1>1. CASE Start
  BY <1>1 DEF Start, DownIsDone
<1>2. CASE \E p \in Partitions : Receive(p)
  BY <1>2 DEF Receive, DownIsDone
<1>3. CASE Submit \/ SubmitFails \/ Commit \/ CommitFails \/ SkipMalformed
  BY <1>3 DEF TInv, Submit, SubmitFails, Commit, CommitFails, SkipMalformed, DownIsDone
<1>4. CASE \E tx \in pool : WatchErrs(tx)
  BY <1>4, <1>w DEF TInv, WatchErrs, DownIsDone
<1>5. CASE SkipFails \/ Ended \/ Crash
  BY <1>5 DEF SkipFails, Ended, Crash, Vanish, DownIsDone
<1>6. CASE Stop \/ Disconnect \/ LoopStops \/ WatchLost
  BY <1>6 DEF TInv, Stop, Disconnect, LoopStops, WatchLost, DownIsDone
<1>7. CASE \E tx \in pool : FinalizedOk(tx) \/ FinalizedFailed(tx)
  BY <1>7, <1>w DEF TInv, FinalizedOk, FinalizedFailed, DownIsDone
<1>8. CASE UNCHANGED vars
  BY <1>8 DEF TInv, DownIsDone, vars
<1>9. QED
  BY <1>1, <1>2, <1>3, <1>4, <1>5, <1>6, <1>7, <1>8 DEF Next, ServiceStep, ChainStep

LEMMA TypeNext == TInv /\ [Next]_vars => TInv'
<1> SUFFICES ASSUME TInv, [Next]_vars PROVE TInv'
  OBVIOUS
<1>d. DownIsDone'
  BY DownNext
<1>f. UNCHANGED committed => OffsetsFit'
  BY DEF TInv, OffsetsFit
<1>n. loop # "watch" => \A tx \in pool : ~tx.watched
  BY DEF TInv, TypeOK
<1>i. Busy => current \in Items
  BY DEF TInv, TypeOK, Busy
<1>1. CASE Start
  <2>1. committed \in [Partitions -> Nat] /\ \A tx \in pool : ~tx.watched
    BY <1>1, <1>n DEF TInv, TypeOK, DownIsDone, Start
  <2>2. /\ position' \in [Partitions -> Nat]
        /\ \A p \in Partitions : position'[p] <= Len(Log[p])
    BY <1>1, StartMoves DEF TInv
  <2>3. missed' \subseteq Items
    BY <1>1 DEF Start, TInv, TypeOK
  <2>4. /\ phase' = "running" /\ loop' = "next" /\ current' = NoItem
        /\ UNCHANGED <<committed, pool, anchored, failed, cut, unheard, crashes>>
    BY <1>1 DEF Start, NextMessage
  <2>5. QED
    BY <1>f, <1>d, <2>1, <2>2, <2>3, <2>4 DEF TInv, TypeOK
<1>2. CASE \E p \in Partitions : Receive(p)
  BY <1>2, <1>f, <1>d, ReceiveType DEF Receive, TInv
<1>3. CASE Submit
  <2>1. current \in Items /\ \A tx \in pool : ~tx.watched
    BY <1>3, <1>n, <1>i DEF Submit, Busy
  <2>2. DEFINE new == [item |-> current, watched |-> TRUE]
  <2>3. new \in Extrinsics /\ new.item = current
    BY <2>1 DEF Extrinsics
  <2>4. pool' = pool \cup {new} /\ loop' = "watch" /\ current' = current
    BY <1>3 DEF Submit
  <2>5. pool' \subseteq Extrinsics /\ \A tx \in pool' : tx.watched => tx.item = current
    <3>1. HIDE DEF new
    <3>2. QED
      BY <2>1, <2>3, <2>4 DEF TInv, TypeOK
  <2>6. QED
    BY <1>3, <1>f, <1>d, <2>1, <2>4, <2>5 DEF TInv, TypeOK, Submit
<1>4. CASE SubmitFails
  <2>1. current \in Items /\ \A tx \in pool : ~tx.watched
    BY <1>4, <1>n, <1>i DEF SubmitFails, Busy
  <2>2. pool' \subseteq Extrinsics /\ \A tx \in pool' : ~tx.watched
    <3>1. DEFINE new == [item |-> current, watched |-> FALSE]
    <3>2. new \in Extrinsics /\ ~new.watched
      BY <2>1 DEF Extrinsics
    <3>3. pool' \in {pool, pool \cup {new}}
      BY <1>4 DEF SubmitFails
    <3>4. HIDE DEF new
    <3>5. QED
      BY <2>1, <3>2, <3>3 DEF TInv, TypeOK
  <2>3. QED
    BY <1>4, <1>f, <1>d, <2>1, <2>2, NextMessageType DEF SubmitFails, TInv, TypeOK
<1>5. CASE \E tx \in pool : WatchErrs(tx)
  <2>1. PICK tx \in pool : WatchErrs(tx)
    BY <1>5
  <2>2. Unwatched({tx}) \subseteq Extrinsics /\ \A ty \in Unwatched({tx}) : ~ty.watched
    <3>1. {tx} \subseteq Extrinsics
      BY DEF TInv, TypeOK
    <3>2. QED
      BY <3>1, UnwatchedType
  <2>3. \A ty \in pool \ {tx} : ~ty.watched
    BY <2>1, OneIsWatched DEF WatchErrs, TInv
  <2>4. pool' \subseteq Extrinsics /\ \A ty \in pool' : ~ty.watched
    BY <2>1, <2>2, <2>3 DEF WatchErrs, TInv, TypeOK
  <2>5. tx.item \in Items
    BY DEF TInv, TypeOK, Extrinsics
  <2>6. QED
    BY <2>1, <2>4, <2>5, <1>f, <1>d, NextMessageType DEF WatchErrs, TInv, TypeOK
<1>6. CASE Commit \/ CommitFails \/ SkipMalformed
  <2>1. /\ Busy /\ loop # "watch"
        /\ CommitOffset(current) \/ UNCHANGED committed
        /\ failed' \in {failed, failed \cup {current}}
        /\ NextMessage
        /\ UNCHANGED <<phase, position, pool, anchored, fate, unheard, crashes>>
    BY <1>6 DEF Commit, CommitFails, SkipMalformed, Busy
  <2>2. committed' \in [Partitions -> Nat] /\ OffsetsFit'
    BY <2>1, CommitType
  <2>3. failed' \subseteq Items
    BY <2>1, <1>i DEF TInv, TypeOK
  <2>4. TypeOK'
    BY <2>1, <2>2, <2>3, <1>n, NextMessageType DEF TInv, TypeOK
  <2>5. QED
    BY <2>2, <2>4, <1>d DEF TInv
<1>7. CASE SkipFails
  <2>1. committed' \in [Partitions -> Nat] /\ OffsetsFit'
    BY <1>7, CommitType DEF SkipFails, Busy
  <2>2. CASE Vanish /\ crashes < MaxCrashes /\ crashes' = crashes + 1
    <3>1. crashes' \in 0..MaxCrashes
      BY <2>2 DEF TInv, TypeOK
    <3>2. QED
      BY <2>1, <2>2, <3>1, <1>d, VanishType DEF TInv
  <2>3. CASE /\ loop' = "done" /\ current' = NoItem
             /\ UNCHANGED <<phase, position, pool, anchored, failed, fate, unheard, crashes>>
    <3>1. \A tx \in pool : ~tx.watched
      BY <1>7, <1>n DEF SkipFails
    <3>2. QED
      BY <2>1, <2>3, <3>1, <1>d DEF TInv, TypeOK
  <2>4. QED
    BY <1>7, <2>2, <2>3 DEF SkipFails
<1>8. CASE Stop
  BY <1>8, <1>f, <1>d DEF TInv, TypeOK, Stop
<1>9. CASE Disconnect \/ WatchLost
  <2>1. pool' \subseteq Extrinsics /\ \A tx \in pool' : ~tx.watched
    BY <1>9, UnwatchedType DEF TInv, TypeOK, Disconnect, WatchLost
  <2>2. QED
    BY <1>9, <1>f, <1>d, <2>1 DEF TInv, TypeOK, Disconnect, WatchLost
<1>10. CASE LoopStops
  BY <1>10, <1>f, <1>d, <1>n DEF TInv, TypeOK, LoopStops
<1>11. CASE Ended \/ Crash
  <2>1. Vanish /\ committed' \in [Partitions -> Nat] /\ crashes' \in 0..MaxCrashes
    BY <1>11 DEF TInv, TypeOK, Ended, Crash
  <2>2. QED
    BY <1>11, <1>f, <1>d, <2>1, VanishType DEF TInv, Ended, Crash
<1>12. CASE \E tx \in pool : FinalizedOk(tx)
  <2>1. PICK tx \in pool : FinalizedOk(tx)
    BY <1>12
  <2>2. tx.item \in Items /\ tx.watched \in BOOLEAN
    BY DEF TInv, TypeOK, Extrinsics
  <2>3. tx.watched => loop = "watch" /\ \A ty \in pool \ {tx} : ~ty.watched
    BY OneIsWatched DEF TInv, TypeOK
  <2>4. QED
    BY <2>1, <2>2, <2>3, <1>f, <1>d DEF TInv, TypeOK, FinalizedOk
<1>13. CASE \E tx \in pool : FinalizedFailed(tx)
  <2>1. PICK tx \in pool : FinalizedFailed(tx)
    BY <1>13
  <2>2. tx.item \in Items
    BY DEF TInv, TypeOK, Extrinsics
  <2>3. CASE tx.watched /\ failed' = failed \cup {tx.item} /\ NextMessage
    <3>1. \A ty \in pool \ {tx} : ~ty.watched
      BY <2>3, OneIsWatched DEF TInv
    <3>2. QED
      BY <2>1, <2>2, <2>3, <3>1, <1>f, <1>d, NextMessageType DEF TInv, TypeOK, FinalizedFailed
  <2>4. CASE ~tx.watched /\ UNCHANGED <<failed, loop, current>>
    BY <2>1, <2>4, <1>f, <1>d DEF TInv, TypeOK, FinalizedFailed
  <2>5. QED
    BY <2>1, <2>3, <2>4 DEF FinalizedFailed
<1>14. CASE UNCHANGED vars
  BY <1>14, <1>f, <1>d DEF TInv, TypeOK, vars
<1>15. QED
  BY <1>1, <1>2, <1>3, <1>4, <1>5, <1>6, <1>7, <1>8, <1>9, <1>10, <1>11, <1>12,
     <1>13, <1>14 DEF Next, ServiceStep, ChainStep

\* The variables of blockchain-anchor stay in their types, and the service
\* watches at most the extrinsic of its current message.
THEOREM TypeCorrect == Spec => []TypeOK
<1>1. Spec => []TInv
  BY TypeInit, TypeNext, PTL DEF Spec
<1>2. TInv => TypeOK
  BY DEF TInv
<1>3. QED
  BY <1>1, <1>2, PTL

-----------------------------------------------------------------------------
(* No CID is passed over without a cause.                                  *)

\* What IInv says beyond types.
Safe == LossHasCause /\ HandedOverIsAccounted /\ CommittedIsHandedOver /\ CurrentIsLast

\* What is known of the message in hand.
LEMMA MessageInHand ==
  ASSUME IInv, Busy
  PROVE  /\ current \in Items /\ current = <<current[1], current[2]>>
         /\ current[1] \in Partitions
         /\ current[2] \in 1..Len(Log[current[1]])
         /\ current[2] = position[current[1]]
         /\ committed[current[1]] < current[2]
<1>1. current \in Items
  BY DEF IInv, TInv, TypeOK, Busy
<1>2. QED
  BY <1>1, ItemParts DEF IInv, CurrentIsLast

\* Steps that neither hand over a message nor commit one keep the invariant
\* if a message they lay down is accounted for.
LEMMA Progress ==
  ASSUME IInv, UNCHANGED <<committed, position, cut, missed>>,
         anchored \subseteq anchored', failed \subseteq failed',
         Busy' => Busy /\ current' = current /\ loop # "skip" /\ loop' # "skip",
         loop' = "commit" => current' \in anchored',
         Busy /\ ~Busy' /\ Kind(current) = "cid" => current \in anchored' \cup failed'
  PROVE  Safe'
<1>1. LossHasCause'
  BY DEF IInv, LossHasCause, Kind
<1>2. HandedOverIsAccounted'
  BY DEF IInv, HandedOverIsAccounted, Accounted, Lost, Kind
<1>3. CommittedIsHandedOver'
  BY DEF IInv, CommittedIsHandedOver
<1>4. CurrentIsLast'
  BY DEF IInv, CurrentIsLast, Kind
<1>5. QED
  BY <1>1, <1>2, <1>3, <1>4 DEF Safe

\* Steps that leave the message in hand alone keep the invariant.
LEMMA Aside ==
  ASSUME IInv, UNCHANGED <<committed, position, loop, current, failed, cut, missed>>,
         anchored \subseteq anchored'
  PROVE  Safe'
<1>1. Busy' = Busy
  BY DEF Busy
<1>2. LossHasCause'
  BY DEF IInv, LossHasCause, Kind
<1>3. HandedOverIsAccounted'
  BY <1>1 DEF IInv, HandedOverIsAccounted, Accounted, Lost, Kind
<1>4. CommittedIsHandedOver'
  BY DEF IInv, CommittedIsHandedOver
<1>5. CurrentIsLast'
  BY <1>1 DEF IInv, CurrentIsLast, Kind
<1>6. QED
  BY <1>2, <1>3, <1>4, <1>5 DEF Safe

\* A commit passes over messages that were handed over or passed over: all
\* below the one in hand are accounted for, and it is anchored or no CID.
LEMMA Committing ==
  ASSUME IInv, Busy,
         CommitOffset(current) \/ UNCHANGED committed,
         Kind(current) = "cid" => current \in anchored,
         Accounted \subseteq Accounted'
  PROVE  LossHasCause'
<1> SUFFICES ASSUME NEW p \in Partitions, NEW n \in 1..committed'[p]
             PROVE  /\ n <= Len(Log[p])
                    /\ Kind(<<p, n>>) = "cid" => <<p, n>> \in Accounted
  BY DEF LossHasCause, Accounted, Lost, Kind
<1>1. CASE n \in 1..committed[p]
  BY <1>1 DEF IInv, LossHasCause, Accounted, Lost
<1>2. CASE CommitOffset(current) /\ p = current[1]
  <2>1. committed'[p] = current[2]
    BY <1>2, MessageInHand DEF CommitOffset, IInv, TInv, TypeOK
  <2>2. n \in 1..position[p] /\ n <= Len(Log[p])
    BY <1>2, <2>1, MessageInHand
  <2>3. Kind(<<p, n>>) = "cid" => <<p, n>> \in Accounted
    BY <2>2 DEF IInv, HandedOverIsAccounted, Accounted
  <2>4. QED
    BY <2>2, <2>3
<1>3. CASE UNCHANGED committed \/ (CommitOffset(current) /\ p # current[1])
  <2>1. n \in 1..committed[p]
    BY <1>3, MessageInHand DEF CommitOffset, IInv, TInv, TypeOK
  <2>2. QED
    BY <1>1, <2>1
<1>4. QED
  BY <1>2, <1>3

\* What a commit of the message in hand moves stays behind the stream.
LEMMA CommitBehind ==
  ASSUME IInv, UNCHANGED position,
         UNCHANGED committed \/ (Busy /\ CommitOffset(current))
  PROVE  CommittedIsHandedOver'
<1>1. \A p \in Partitions : committed'[p] \in {committed[p], position[p]}
  BY MessageInHand DEF CommitOffset, IInv, TInv, TypeOK
<1>2. \A p \in Partitions : position[p] \in Nat
  BY DEF IInv, TInv, TypeOK
<1>3. QED
  BY <1>1, <1>2 DEF IInv, CommittedIsHandedOver

\* A CID in hand that nothing has come of is cut off with its process.
LEMMA CurrentIsAccounted ==
  ASSUME IInv, Busy, Kind(current) = "cid"
  PROVE  current \in anchored \cup failed \cup InHand
<1>1. loop \in {"submit", "watch", "commit"}
  BY DEF IInv, TInv, TypeOK, CurrentIsLast, Busy
<1>2. QED
  BY <1>1 DEF IInv, CurrentIsLast, InHand

LEMMA VanishSafe ==
  ASSUME IInv, Vanish, LossHasCause',
         UNCHANGED committed \/ (Busy /\ CommitOffset(current))
  PROVE  Safe'
<1>1. ~Busy'
  BY DEF Vanish, Busy
<1>2. HandedOverIsAccounted'
  <2> SUFFICES ASSUME NEW p \in Partitions, NEW n \in 1..position[p],
                      Kind(<<p, n>>) = "cid"
               PROVE  <<p, n>> \in Accounted'
    BY DEF Vanish, HandedOverIsAccounted, Kind
  <2>1. <<p, n>> \in Accounted \/ (Busy /\ current = <<p, n>>)
    BY DEF IInv, HandedOverIsAccounted
  <2>2. <<p, n>> \in Accounted \cup InHand
    BY <2>1, CurrentIsAccounted DEF Accounted
  <2>3. QED
    BY <2>2 DEF Vanish, Accounted, Lost
<1>3. CommittedIsHandedOver'
  BY CommitBehind DEF Vanish
<1>4. QED
  BY <1>1, <1>2, <1>3 DEF Safe, CurrentIsLast

LEMMA StartSafe ==
  ASSUME IInv, Start
  PROVE  Safe'
<1>1. ~Busy'
  BY DEF Start, NextMessage, Busy
<1>2. ~Busy /\ Accounted \subseteq Accounted'
  BY DEF Start, IInv, TInv, DownIsDone, Busy, Accounted, Lost
<1>3. LossHasCause'
  BY <1>2 DEF Start, IInv, LossHasCause, Accounted, Lost, Kind
<1>4. \A p \in Partitions : /\ position[p] \in Nat /\ position'[p] \in Nat
                            /\ position[p] <= position'[p] /\ position'[p] <= Len(Log[p])
  BY StartMoves DEF IInv, TInv
<1>5. HandedOverIsAccounted'
  <2> SUFFICES ASSUME NEW p \in Partitions, NEW n \in 1..position'[p],
                      Kind(<<p, n>>) = "cid"
               PROVE  <<p, n>> \in Accounted'
    BY DEF HandedOverIsAccounted, Kind
  <2>1. CASE n <= position[p]
    <3>1. n \in 1..position[p]
      BY <1>4, <2>1
    <3>2. QED
      BY <1>2, <3>1 DEF IInv, HandedOverIsAccounted
  <2>2. CASE position[p] < n
    <3>1. n \in 1..Len(Log[p]) /\ n <= position'[p]
      BY <1>4
    <3>2. <<p, n>> \in Items
      BY <3>1, ItemMember
    <3>3. <<p, n>> \in missed'
      BY <2>2, <3>1, <3>2 DEF Start
    <3>4. QED
      BY <3>3 DEF Accounted, Lost
  <2>3. QED
    BY <1>4, <2>1, <2>2
<1>6. CommittedIsHandedOver'
  <2>1. \A p \in Partitions : committed[p] \in Nat /\ committed[p] <= position[p]
    BY DEF IInv, TInv, TypeOK, CommittedIsHandedOver
  <2>2. \A p \in Partitions : committed[p] <= position'[p]
    BY <1>4, <2>1
  <2>3. QED
    BY <2>2 DEF Start, CommittedIsHandedOver
<1>7. QED
  BY <1>1, <1>3, <1>5, <1>6 DEF Safe, CurrentIsLast

\* The loop lays down the message it committed, or failed to.
LEMMA CommitSafe ==
  ASSUME IInv, Busy,
         CommitOffset(current) \/ UNCHANGED committed,
         LossHasCause', ~Busy',
         Kind(current) = "cid" => current \in anchored,
         Accounted \subseteq Accounted', UNCHANGED position
  PROVE  Safe'
<1>1. HandedOverIsAccounted'
  <2> SUFFICES ASSUME NEW p \in Partitions, NEW n \in 1..position[p],
                      Kind(<<p, n>>) = "cid"
               PROVE  <<p, n>> \in Accounted
    BY DEF HandedOverIsAccounted, Kind
  <2>1. <<p, n>> \in Accounted \/ current = <<p, n>>
    BY DEF IInv, HandedOverIsAccounted
  <2>2. QED
    BY <2>1 DEF Accounted
<1>2. CommittedIsHandedOver'
  BY CommitBehind
<1>3. QED
  BY <1>1, <1>2 DEF Safe, CurrentIsLast

LEMMA ReceiveSafe ==
  ASSUME IInv, NEW p \in Partitions, Receive(p)
  PROVE  Safe'
<1>1. /\ position[p] \in Nat /\ position' \in [Partitions -> Nat]
      /\ position'[p] = position[p] + 1
      /\ \A q \in Partitions \ {p} : position'[q] = position[q]
      /\ UNCHANGED <<committed, phase, pool, anchored, failed, fate, unheard, crashes>>
      /\ ~Busy /\ phase = "running"
  BY DEF IInv, TInv, TypeOK, Receive, Busy
<1>2. LET item == <<p, position[p] + 1>>
      IN  \/ Kind(item) = "other" /\ ~Busy'
          \/ Kind(item) = "malformed" /\ loop' = "skip" /\ current' = item
          \/ Kind(item) = "cid" /\ loop' = "submit" /\ current' = item
  BY DEF Receive, Busy
<1>3. LossHasCause'
  BY <1>1 DEF IInv, LossHasCause, Kind
<1>4. HandedOverIsAccounted'
  <2> SUFFICES ASSUME NEW q \in Partitions, NEW n \in 1..position'[q],
                      Kind(<<q, n>>) = "cid"
               PROVE  <<q, n>> \in Accounted \/ (Busy' /\ current' = <<q, n>>)
    BY <1>1 DEF HandedOverIsAccounted, Accounted, Lost, Kind
  <2>1. CASE n \in 1..position[q]
    BY <2>1, <1>1 DEF IInv, HandedOverIsAccounted
  <2>2. CASE q = p /\ n = position[p] + 1
    BY <2>2, <1>2 DEF Busy
  <2>3. QED
    BY <2>1, <2>2, <1>1
<1>5. CommittedIsHandedOver'
  <2>1. \A q \in Partitions : committed[q] \in Nat /\ position[q] \in Nat
    BY DEF IInv, TInv, TypeOK
  <2>2. \A q \in Partitions : committed[q] <= position[q]
    BY <1>1 DEF IInv, CommittedIsHandedOver
  <2>3. \A q \in Partitions : committed[q] <= position'[q]
    BY <1>1, <2>1, <2>2
  <2>4. QED
    BY <1>1, <2>3 DEF CommittedIsHandedOver
<1>6. CurrentIsLast'
  <2>1. committed[p] \in Nat /\ committed[p] <= position[p]
    BY <1>1 DEF IInv, TInv, TypeOK, CommittedIsHandedOver
  <2>2. SUFFICES ASSUME Busy'
                 PROVE  /\ current' = <<p, position[p] + 1>>
                        /\ loop' # "commit"
                        /\ Kind(current') = IF loop' = "skip" THEN "malformed" ELSE "cid"
    BY <1>1, <2>1 DEF CurrentIsLast, Kind
  <2>3. QED
    BY <1>2, <2>2 DEF Busy
<1>7. QED
  BY <1>3, <1>4, <1>5, <1>6 DEF Safe

LEMMA SafeInit == Init => Safe
BY DEF Init, Safe, LossHasCause, HandedOverIsAccounted, CommittedIsHandedOver,
       CurrentIsLast, Busy

LEMMA SafeNext == IInv /\ [Next]_vars => Safe'
<1> SUFFICES ASSUME IInv, [Next]_vars PROVE Safe'
  OBVIOUS
<1>w. \A tx \in pool : tx.watched => loop = "watch" /\ tx.item = current
  BY DEF IInv, TInv, TypeOK
<1>g. anchored \subseteq anchored' /\ failed \subseteq failed' /\ UNCHANGED <<cut, missed>>
        => Accounted \subseteq Accounted'
  BY DEF Accounted, Lost
<1>1. CASE Start
  BY <1>1, StartSafe
<1>2. CASE \E p \in Partitions : Receive(p)
  BY <1>2, ReceiveSafe
<1>3. CASE Submit
  BY <1>3, Progress DEF Submit, Busy
<1>4. CASE SubmitFails
  BY <1>4, Progress DEF SubmitFails, NextMessage, Busy
<1>5. CASE \E tx \in pool : WatchErrs(tx)
  BY <1>5, <1>w, Progress DEF WatchErrs, NextMessage, Busy
<1>6. CASE Commit \/ CommitFails \/ SkipMalformed
  <2>1. /\ Busy /\ ~Busy'
        /\ CommitOffset(current) \/ UNCHANGED committed
        /\ UNCHANGED position
        /\ Accounted \subseteq Accounted'
    BY <1>6, <1>g DEF Commit, CommitFails, SkipMalformed, NextMessage, Busy
  <2>2. Kind(current) = "cid" => current \in anchored
    BY <1>6, <2>1 DEF Commit, CommitFails, SkipMalformed, IInv, CurrentIsLast
  <2>3. LossHasCause'
    BY <2>1, <2>2, Committing
  <2>4. QED
    BY <2>1, <2>2, <2>3, CommitSafe
<1>8. CASE SkipFails
  <2>1. /\ Busy /\ (CommitOffset(current) \/ UNCHANGED committed)
        /\ Accounted \subseteq Accounted'
    BY <1>8 DEF SkipFails, Vanish, Busy, Accounted, Lost
  <2>2. Kind(current) # "cid"
    BY <1>8, <2>1 DEF SkipFails, IInv, CurrentIsLast
  <2>3. LossHasCause'
    BY <2>1, <2>2, Committing
  <2>4. CASE Vanish
    BY <2>1, <2>3, <2>4, VanishSafe
  <2>5. CASE UNCHANGED position /\ loop' = "done"
    BY <2>1, <2>2, <2>3, <2>5, CommitSafe DEF Busy
  <2>6. QED
    BY <1>8, <2>4, <2>5 DEF SkipFails
<1>9. CASE Stop \/ Disconnect \/ WatchLost
  BY <1>9, Aside DEF Stop, Disconnect, WatchLost
<1>10. CASE LoopStops
  BY <1>10, Progress DEF LoopStops, Busy
<1>11. CASE Ended \/ Crash
  <2>1. Vanish /\ UNCHANGED committed
    BY <1>11 DEF Ended, Crash
  <2>2. LossHasCause'
    BY <2>1 DEF Vanish, IInv, LossHasCause, Kind
  <2>3. QED
    BY <2>1, <2>2, VanishSafe
<1>12. CASE \E tx \in pool : FinalizedOk(tx)
  <2>1. PICK tx \in pool : FinalizedOk(tx)
    BY <1>12
  <2>2. CASE tx.watched
    BY <2>1, <2>2, <1>w, Progress DEF FinalizedOk, Busy
  <2>3. CASE ~tx.watched
    BY <2>1, <2>3, Aside DEF FinalizedOk
  <2>4. QED
    BY <2>2, <2>3
<1>13. CASE \E tx \in pool : FinalizedFailed(tx)
  <2>1. PICK tx \in pool : FinalizedFailed(tx)
    BY <1>13
  <2>2. CASE tx.watched /\ failed' = failed \cup {tx.item} /\ NextMessage
    BY <2>1, <2>2, <1>w, Progress DEF FinalizedFailed, NextMessage, Busy
  <2>3. CASE ~tx.watched /\ UNCHANGED <<failed, loop, current>>
    BY <2>1, <2>3, Aside DEF FinalizedFailed
  <2>4. QED
    BY <2>1, <2>2, <2>3 DEF FinalizedFailed
<1>14. CASE UNCHANGED vars
  BY <1>14, Aside DEF vars
<1>15. QED
  BY <1>1, <1>2, <1>3, <1>4, <1>5, <1>6, <1>8, <1>9, <1>10, <1>11, <1>12,
     <1>13, <1>14 DEF Next, ServiceStep, ChainStep

LEMMA Invariant == Spec => []IInv
<1>1. Init => IInv
  BY TypeInit, SafeInit DEF IInv, Safe
<1>2. IInv /\ [Next]_vars => IInv'
  BY TypeNext, SafeNext DEF IInv, Safe
<1>3. QED
  BY <1>1, <1>2, PTL DEF Spec

\* A CID below a committed offset that was neither anchored nor attempted in
\* vain was in the hands of a process that ended, or came before a process
\* started, whatever fails and wherever each process starts.
THEOREM LossesHaveCauses == Spec => []LossHasCause
<1>1. IInv => LossHasCause
  BY DEF IInv
<1>2. QED
  BY <1>1, Invariant, PTL

-----------------------------------------------------------------------------
(* What a step commits and submits.                                        *)

\* The steps that commit do so for the message in hand, which is anchored or
\* cannot be decoded.
LEMMA CommitStep ==
  ASSUME IInv, [Next]_vars, committed' # committed
  PROVE  /\ Busy /\ CommitOffset(current)
         /\ current \in anchored \/ Kind(current) = "malformed"
<1>1. Commit \/ CommitFails \/ SkipMalformed \/ SkipFails
  BY DEF Next, ServiceStep, ChainStep, vars, Start, Receive, Submit, SubmitFails,
     WatchErrs, Stop, Disconnect, LoopStops, Ended, Crash, FinalizedOk,
     FinalizedFailed, WatchLost
<1>2. Busy /\ CommitOffset(current) /\ loop \in {"commit", "skip"}
  BY <1>1 DEF Commit, CommitFails, SkipMalformed, SkipFails, Busy
<1>3. QED
  BY <1>2 DEF IInv, CurrentIsLast

\* An offset is committed for a message that is finalized with success or
\* cannot be decoded.
THEOREM CommitsFollowFinality == Spec => CommitFollowsFinality
<1>1. ASSUME IInv, [Next]_vars, NEW p \in Partitions, committed'[p] # committed[p]
      PROVE  \/ <<p, committed'[p]>> \in anchored
             \/ Kind(<<p, committed'[p]>>) = "malformed"
  <2>1. /\ Busy /\ CommitOffset(current)
        /\ current \in anchored \/ Kind(current) = "malformed"
    BY <1>1, CommitStep
  <2>2. p = current[1] /\ committed'[p] = current[2]
    BY <1>1, <2>1, MessageInHand DEF CommitOffset, IInv, TInv, TypeOK
  <2>3. current = <<p, committed'[p]>>
    BY <2>1, <2>2, MessageInHand, <1>1
  <2>4. QED
    BY <2>1, <2>3
<1>2. IInv /\ [Next]_vars =>
        [\A p \in Partitions :
           committed'[p] # committed[p] =>
             \/ <<p, committed'[p]>> \in anchored
             \/ Kind(<<p, committed'[p]>>) = "malformed"]_vars
  BY <1>1
<1>3. QED
  BY <1>2, Invariant, PTL DEF Spec, CommitFollowsFinality

\* Committed offsets never move back, and no extrinsic is submitted for a
\* message below one.
THEOREM CommittedAreNotSubmittedAgain == Spec => AnchorsOnlyUncommitted
<1>1. ASSUME IInv, [Next]_vars, NEW p \in Partitions
      PROVE  committed'[p] >= committed[p]
  <2>1. CASE committed' = committed
    BY <2>1, <1>1 DEF IInv, TInv, TypeOK
  <2>2. CASE committed' # committed
    <3>1. Busy /\ CommitOffset(current)
      BY <1>1, <2>2, CommitStep
    <3>2. QED
      BY <1>1, <3>1, MessageInHand DEF CommitOffset, IInv, TInv, TypeOK
  <2>3. QED
    BY <2>1, <2>2
<1>2. ASSUME IInv, [Next]_vars, NEW tx \in pool' \ pool, tx.watched
      PROVE  tx.item[2] > committed[tx.item[1]]
  <2>1. CASE Submit
    <3>1. tx.item = current /\ Busy
      BY <1>2, <2>1 DEF Submit, Busy
    <3>2. QED
      BY <1>2, <3>1, MessageInHand DEF IInv, TInv, TypeOK
  <2>2. CASE ~Submit
    <3>1. CASE \/ SubmitFails \/ Disconnect \/ WatchLost \/ SkipFails \/ Ended \/ Crash
               \/ \E ty \in pool : WatchErrs(ty)
      <4>1. \A ty \in pool' \ pool : ~ty.watched
        <5>1. \A txs : \A ty \in Unwatched(txs) : ~ty.watched
          BY DEF Unwatched
        <5>2. \A ty \in {[item |-> current, watched |-> FALSE]} : ~ty.watched
          OBVIOUS
        <5>3. CASE SubmitFails
          BY <5>2, <5>3 DEF SubmitFails
        <5>4. CASE \E ty \in pool : WatchErrs(ty)
          BY <5>1, <5>4 DEF WatchErrs
        <5>5. CASE Disconnect \/ WatchLost
          BY <5>1, <5>5 DEF Disconnect, WatchLost
        <5>6. CASE SkipFails \/ Ended \/ Crash
          BY <5>1, <5>6 DEF SkipFails, Ended, Crash, Vanish
        <5>7. QED
          BY <3>1, <5>3, <5>4, <5>5, <5>6
      <4>2. QED
        BY <1>2, <4>1
    <3>2. pool' \subseteq pool \/ SubmitFails \/ Disconnect \/ WatchLost \/ SkipFails
            \/ Ended \/ Crash \/ \E ty \in pool : WatchErrs(ty)
      BY <1>2, <2>2 DEF Next, ServiceStep, ChainStep, vars, Start, Receive, Commit,
         CommitFails, SkipMalformed, Stop, LoopStops, FinalizedOk, FinalizedFailed
    <3>3. QED
      BY <1>2, <3>1, <3>2
  <2>3. QED
    BY <2>1, <2>2
<1>3. IInv /\ [Next]_vars =>
        [/\ \A p \in Partitions : committed'[p] >= committed[p]
         /\ \A tx \in pool' \ pool :
              tx.watched => tx.item[2] > committed[tx.item[1]]]_vars
  BY <1>1, <1>2
<1>4. QED
  BY <1>3, Invariant, PTL DEF Spec, AnchorsOnlyUncommitted

-----------------------------------------------------------------------------
(* The service implements Relay.                                           *)

Settled == anchored \cup failed \cup {i \in Items : Kind(i) # "cid"}

LEMMA RelayInit == Init => Anchoring!Init
BY DEF Init, Anchoring!Init

\* Messages handed over or passed over are settled or lost, but for the one
\* in hand.
LEMMA SettledBelow ==
  ASSUME IInv, NEW p \in Partitions, NEW n \in 1..position[p]
  PROVE  <<p, n>> \in Settled \cup Lost \/ (Busy /\ current = <<p, n>>)
<1>1. position[p] \in Nat /\ position[p] <= Len(Log[p])
  BY DEF IInv, TInv, TypeOK
<1>2. <<p, n>> \in Items
  BY <1>1, ItemMember, LogAssumption
<1>3. QED
  BY <1>2 DEF IInv, HandedOverIsAccounted, Accounted, Settled

LEMMA SettledGrows ==
  ASSUME anchored \subseteq anchored', failed \subseteq failed'
  PROVE  Settled \subseteq Settled'
BY DEF Settled, Kind

\* What may be committed for the message in hand.
LEMMA CommitsSettled ==
  ASSUME IInv, Busy, CommitOffset(current) \/ UNCHANGED committed,
         Kind(current) = "cid" => current \in anchored
  PROVE  DOMAIN committed' = Partitions /\ Anchoring!Commits
<1>1. CASE UNCHANGED committed
  BY <1>1 DEF Anchoring!Commits, IInv, TInv, TypeOK
<1>2. CASE CommitOffset(current)
  <2>1. ASSUME NEW p \in Partitions
        PROVE  committed'[p] \in {committed[p]} \cup Anchoring!Committable(p)
    <3>1. CASE p # current[1]
      BY <1>2, <3>1 DEF CommitOffset, IInv, TInv, TypeOK
    <3>2. CASE p = current[1]
      <4>1. committed'[p] = position[p] /\ position[p] \in Nat
        BY <1>2, <3>2, MessageInHand DEF CommitOffset, IInv, TInv, TypeOK
      <4>2. current \in Settled
        BY MessageInHand DEF Settled
      <4>3. \A m \in 1..position[p] : <<p, m>> \in Settled \cup Lost
        BY <4>2, SettledBelow
      <4>4. Anchoring!Between(p, 0, position[p]) \subseteq Settled \cup Lost
        BY <4>3 DEF Anchoring!Between
      <4>5. QED
        BY <4>1, <4>4 DEF Anchoring!Committable, Settled, Lost
    <3>3. QED
      BY <3>1, <3>2
  <2>2. DOMAIN committed' = Partitions
    BY <1>2 DEF CommitOffset, IInv, TInv, TypeOK
  <2>3. QED
    BY <2>1, <2>2 DEF Anchoring!Commits
<1>3. QED
  BY <1>1, <1>2

\* The kinds of steps, as Relay sees them.
LEMMA RelayStutter ==
  ASSUME UNCHANGED <<committed, position, anchored, failed, cut, missed>>
  PROVE  UNCHANGED Anchoring!vars
BY DEF Anchoring!vars, Kind

LEMMA RelaySettle ==
  ASSUME UNCHANGED <<committed, position, cut, missed>>,
         anchored \subseteq anchored', failed \subseteq failed'
  PROVE  Anchoring!Settle
BY SettledGrows DEF Anchoring!Settle, Settled

LEMMA RelayCommit ==
  ASSUME IInv, Busy, CommitOffset(current) \/ UNCHANGED committed,
         Kind(current) = "cid" => current \in anchored,
         UNCHANGED <<position, cut, missed>>,
         anchored \subseteq anchored', failed \subseteq failed'
  PROVE  Anchoring!Commit
BY CommitsSettled, SettledGrows DEF Anchoring!Commit, Settled

\* What a process holds when it ends is what was handed over and is neither
\* settled nor lost before.
LEMMA RelayEnd ==
  ASSUME IInv, Vanish, DOMAIN committed' = Partitions, Anchoring!Commits
  PROVE  Anchoring!End
<1> DEFINE taken == Anchoring!Taken
<1>1. \A i : i \in taken <=> \E p \in Partitions : \E n \in 1..position[p] : i = <<p, n>>
  BY DEF Anchoring!Between, Anchoring!Taken
<1> HIDE DEF taken
<1>2. InHand \subseteq taken \ Settled
  <2> SUFFICES ASSUME NEW i \in InHand
               PROVE  i \in taken /\ i \notin Settled
    OBVIOUS
  <2>1. /\ loop \in {"submit", "watch"} /\ i = current
        /\ i \notin anchored \cup failed
    BY DEF InHand
  <2>2. Busy
    BY <2>1 DEF Busy
  <2>3. Kind(current) = "cid"
    BY <2>1, <2>2 DEF IInv, CurrentIsLast
  <2>4. current[1] \in Partitions /\ current[2] \in 1..position[current[1]]
    BY <2>2, MessageInHand
  <2>5. current = <<current[1], current[2]>>
    BY <2>2, MessageInHand
  <2>6. i \in taken
    BY <1>1, <2>1, <2>4, <2>5
  <2>7. QED
    BY <2>1, <2>3, <2>6 DEF Settled
<1>3. taken \ Settled \subseteq Lost \cup InHand
  <2>1. ASSUME NEW p \in Partitions, NEW n \in 1..position[p], <<p, n>> \notin Settled
        PROVE  <<p, n>> \in Lost \cup InHand
    <3>1. CASE <<p, n>> \in Settled \cup Lost
      BY <2>1, <3>1
    <3>2. CASE Busy /\ current = <<p, n>>
      <4>1. current \in Items
        BY <3>2, MessageInHand
      <4>2. Kind(current) = "cid"
        BY <2>1, <3>2, <4>1 DEF Settled
      <4>3. QED
        BY <2>1, <3>2, <4>2, CurrentIsAccounted DEF Settled
    <3>3. QED
      BY <3>1, <3>2, SettledBelow
  <2>2. QED
    BY <1>1, <2>1
<1>4. cut' \cup missed' = (cut \cup missed) \cup (taken \ Settled)
  BY <1>2, <1>3 DEF Vanish, Lost
<1>5. UNCHANGED <<position, anchored, failed>>
  BY DEF Vanish
<1>6. QED
  BY <1>4, <1>5 DEF Anchoring!End, taken, Settled, Kind

LEMMA RelayBegin ==
  ASSUME IInv, Start
  PROVE  Anchoring!Begin
<1> DEFINE gap == {i \in Items : position[i[1]] < i[2] /\ i[2] <= position'[i[1]]}
           passed == UNION {Anchoring!Between(p, position[p], position'[p]) : p \in Partitions}
<1>1. \A p \in Partitions : /\ position[p] \in Nat /\ position'[p] \in Nat
                            /\ position[p] <= position'[p] /\ position'[p] <= Len(Log[p])
  BY StartMoves DEF IInv, TInv
<1>2. \A i : i \in passed <=>
        \E p \in Partitions : \E n \in (position[p] + 1)..position'[p] : i = <<p, n>>
  BY DEF Anchoring!Between
<1>3. gap \subseteq passed
  <2>1. ASSUME NEW i \in Items, position[i[1]] < i[2], i[2] <= position'[i[1]]
        PROVE  \E p \in Partitions : \E n \in (position[p] + 1)..position'[p] : i = <<p, n>>
    <3>1. i[1] \in Partitions /\ i[2] \in 1..Len(Log[i[1]]) /\ i = <<i[1], i[2]>>
      BY ItemParts
    <3>2. i[2] \in (position[i[1]] + 1)..position'[i[1]]
      BY <1>1, <2>1, <3>1
    <3>3. QED
      BY <3>1, <3>2
  <2>2. QED
    BY <1>2, <2>1
<1>4. passed \subseteq gap
  <2>1. ASSUME NEW p \in Partitions, NEW n \in (position[p] + 1)..position'[p]
        PROVE  <<p, n>> \in gap
    <3>1. n \in 1..Len(Log[p]) /\ position[p] < n /\ n <= position'[p]
      BY <1>1
    <3>2. <<p, n>> \in Items
      BY <3>1, ItemMember
    <3>3. QED
      BY <3>1, <3>2
  <2>2. QED
    BY <1>2, <2>1
<1> HIDE DEF gap, passed
<1>5. cut' \cup missed' = (cut \cup missed) \cup passed
  BY <1>3, <1>4 DEF Start, gap
<1>6. DOMAIN position' = Partitions
  BY StartMoves DEF IInv, TInv
<1>7. \A p \in Partitions : position'[p] \in position[p]..Len(Log[p])
  BY <1>1
<1>8. UNCHANGED <<committed, anchored, failed>>
  BY DEF Start
<1>9. QED
  BY <1>5, <1>6, <1>7, <1>8 DEF Anchoring!Begin, passed, Kind

LEMMA RelayTake ==
  ASSUME IInv, NEW p \in Partitions, Receive(p)
  PROVE  Anchoring!Take(p)
BY DEF Receive, Anchoring!Take, Kind

LEMMA RelayNext == IInv /\ [Next]_vars => [Anchoring!Next]_(Anchoring!vars)
<1> SUFFICES ASSUME IInv, [Next]_vars PROVE [Anchoring!Next]_(Anchoring!vars)
  OBVIOUS
<1>1. CASE \/ Submit \/ Stop \/ Disconnect \/ LoopStops \/ WatchLost
           \/ UNCHANGED vars
  <2>1. UNCHANGED <<committed, position, anchored, failed, cut, missed>>
    BY <1>1 DEF Submit, Stop, Disconnect, LoopStops, WatchLost, vars
  <2>2. QED
    BY <2>1, RelayStutter
<1>2. CASE \E p \in Partitions : Receive(p)
  BY <1>2, RelayTake DEF Anchoring!Next
<1>3. CASE SubmitFails \/ \E tx \in pool : WatchErrs(tx) \/ FinalizedOk(tx) \/ FinalizedFailed(tx)
  <2>1. /\ UNCHANGED <<committed, position, cut, missed>>
        /\ anchored \subseteq anchored' /\ failed \subseteq failed'
    BY <1>3 DEF SubmitFails, WatchErrs, FinalizedOk, FinalizedFailed
  <2>2. QED
    BY <2>1, RelaySettle DEF Anchoring!Next
<1>4. CASE Commit \/ CommitFails \/ SkipMalformed
  <2>1. /\ Busy /\ (CommitOffset(current) \/ UNCHANGED committed)
        /\ Kind(current) = "cid" => current \in anchored
        /\ UNCHANGED <<position, cut, missed>>
        /\ anchored \subseteq anchored' /\ failed \subseteq failed'
    BY <1>4 DEF Commit, CommitFails, SkipMalformed, Busy, IInv, CurrentIsLast
  <2>2. QED
    BY <2>1, RelayCommit DEF Anchoring!Next
<1>5. CASE SkipFails
  <2>1. /\ Busy /\ (CommitOffset(current) \/ UNCHANGED committed)
        /\ Kind(current) # "cid"
    BY <1>5 DEF SkipFails, Busy, IInv, CurrentIsLast
  <2>2. CASE Vanish
    BY <2>1, <2>2, CommitsSettled, RelayEnd DEF Anchoring!Next
  <2>3. CASE UNCHANGED <<position, anchored, failed, cut, missed>>
    BY <2>1, <2>3, RelayCommit DEF Anchoring!Next
  <2>4. QED
    BY <1>5, <2>2, <2>3 DEF SkipFails
<1>6. CASE Ended \/ Crash
  <2>1. Vanish /\ UNCHANGED committed
    BY <1>6 DEF Ended, Crash
  <2>2. DOMAIN committed' = Partitions /\ Anchoring!Commits
    BY <2>1 DEF IInv, TInv, TypeOK, Anchoring!Commits
  <2>3. QED
    BY <2>1, <2>2, RelayEnd DEF Anchoring!Next
<1>7. CASE Start
  BY <1>7, RelayBegin DEF Anchoring!Next
<1>8. QED
  BY <1>1, <1>2, <1>3, <1>4, <1>5, <1>6, <1>7 DEF Next, ServiceStep, ChainStep

\* blockchain-anchor implements Relay for every topic, whatever fails and
\* whenever processes die: messages are taken in order and once, and what a
\* commit passes is settled, or was lost by the end or the start of a process.
THEOREM AnchorRelaysCids == Spec => RelaysCids
BY RelayInit, RelayNext, Invariant, PTL DEF Spec, RelaysCids, Anchoring!Spec

=============================================================================
