------------------------- MODULE RegistrySyncProofs -------------------------
(***************************************************************************)
(* Proofs about RegistrySync for every chain, retry limit and bound, and   *)
(* whether or not calls fail and heads are skipped.                        *)
(*                                                                         *)
(* None of the properties is inductive: they say nothing of a block half   *)
(* done.  BlockInv adds the events of the current block that are done, and *)
(* that every height up to the highest one opened, which the cursor never  *)
(* passes, is done, in process or given up.  It holds even where two       *)
(* events share an id.  IInv builds the accounting of events on it, for    *)
(* unique ids; OrderInv builds the order of the projection's writes on it, *)
(* and AgainInv that no event is written again, as Projection demands.     *)
(***************************************************************************)
EXTENDS RegistrySync, RegistryEventsProofs

USE MaxHeightAssumption, ChainAssumption, MaxRetriesAssumption,
    BoundsAssumption, TogglesAssumption DEF Heights

-----------------------------------------------------------------------------
(* Positions.                                                              *)

\* A position is a height and an index into its events.
LEMMA PositionMember ==
  ASSUME NEW h \in Heights, NEW i \in 1..Len(Chain[h])
  PROVE  <<h, i>> \in Position
BY DEF Position

LEMMA PositionParts ==
  ASSUME NEW p \in Position
  PROVE  /\ p[1] \in Heights
         /\ p[2] \in 1..Len(Chain[p[1]])
         /\ p = <<p[1], p[2]>>
<1>1. PICK h \in Heights : p \in {h} \X (1..Len(Chain[h]))
  BY DEF Position
<1>2. QED
  BY <1>1

\* Only an event that names a sensor is mapped to an update.
LEMMA MappedSensor ==
  ASSUME NEW p \in Position, Update(p) # "unmapped"
  PROVE  Event(p).sensor \in Sensors
<1>1. Event(p).sensor \in Sensors \cup {NoSensor}
  BY PositionParts DEF Event
<1>2. Event(p).sensor # NoSensor
  BY DEF Update, mapRegistryEventToUpdate
<1>3. QED
  BY <1>1, <1>2

-----------------------------------------------------------------------------
(* Type correctness.                                                       *)

\* What every step of a job needs: the new stage, height and index fit.
JobOK ==
  /\ stage \in Stages
  /\ stage = "idle" => height = 0 /\ index = 0
  /\ stage # "idle" => height \in Heights /\ index \in 1..(Len(Chain[height]) + 1)
  /\ stage \notin {"idle", "head"} => Current \in Position
  /\ stage \in {"apply", "mark", "commit"} => Update(Current) # "unmapped"
  /\ attempt \in 0..MaxRetries

LEMMA IdleJob == Idle => JobOK'
BY DEF Idle, JobOK, Stages

LEMMA GoToEventJob ==
  ASSUME NEW h \in Heights, NEW i \in 1..(Len(Chain[h]) + 1), GoToEvent(h, i)
  PROVE  JobOK'
<1>1. i <= Len(Chain[h]) => <<h, i>> \in Position
  BY PositionMember
<1>2. stage' \in {"check", "head"} /\ height' = h /\ index' = i /\ attempt' = 0
  BY DEF GoToEvent
<1>3. stage' = "check" => Current' \in Position
  BY <1>1, <1>2 DEF GoToEvent, Current
<1>4. QED
  BY <1>2, <1>3 DEF JobOK, Stages

\* Moving on to another stage of the same event.
LEMMA GoToJob ==
  ASSUME TypeOK, NEW s \in Stages \ {"idle", "head"}, GoTo(s),
         stage \notin {"idle", "head"},
         s \in {"apply", "mark", "commit"} => Update(Current) # "unmapped"
  PROVE  JobOK'
BY DEF TypeOK, GoTo, JobOK, Current

LEMMA AttemptFailedJob ==
  ASSUME TypeOK, AttemptFailed, stage \in {"apply", "mark", "commit"}
  PROVE  JobOK'
<1>1. stage' \in {"apply", "dlq"} /\ attempt' \in 0..MaxRetries
  BY DEF AttemptFailed, TypeOK
<1>2. Current' = Current /\ Update(Current) # "unmapped"
  BY DEF AttemptFailed, Current, TypeOK
<1>3. Update(Current)' # "unmapped"
  BY <1>2 DEF Update, Event
<1>4. height \in Heights /\ index \in 1..(Len(Chain[height]) + 1) /\ Current \in Position
  BY DEF TypeOK
<1>5. height' = height /\ index' = index
  BY DEF AttemptFailed
<1>6. QED
  BY <1>1, <1>2, <1>3, <1>4, <1>5 DEF JobOK, Stages

\* The other conjuncts of TypeOK: Redis with the applied history, and the run.
StoreOK ==
  /\ cursor \in 0..MaxHeight
  /\ processed \subseteq {EventId(p) : p \in Position}
  /\ sensorState \in [Sensors -> {NoRecord} \cup {RecordOf(p) : p \in Position}]
  /\ dlq \subseteq Position
  /\ applied \subseteq Position

RunOK ==
  /\ phase \in Phases
  /\ from \in 0..(MaxHeight + 1)
  /\ frontier \in 0..MaxHeight
  /\ seen \in 0..MaxHeight
  /\ heads \in Seq(Heights)
  /\ abandoned \subseteq Heights
  /\ crashes \in 0..MaxCrashes

LEMMA TypeParts == TypeOK <=> StoreOK /\ RunOK /\ JobOK
BY DEF TypeOK, StoreOK, RunOK, JobOK

LEMMA TypePartsNext == TypeOK' <=> StoreOK' /\ RunOK' /\ JobOK'
BY DEF TypeOK, StoreOK, RunOK, JobOK

LEMMA StoreSteps ==
  ASSUME TypeOK
  PROVE  /\ UNCHANGED <<store, applied>> => StoreOK'
         /\ Current \in Position /\ MarkProcessed(Current) /\ UNCHANGED applied => StoreOK'
         /\ Current \in Position /\ PublishDlq(Current) /\ UNCHANGED applied => StoreOK'
         /\ height \in Heights /\ CommitCursorHeight(height) /\ UNCHANGED applied => StoreOK'
         /\ Current \in Position /\ Update(Current) # "unmapped" /\ ApplyProjection(Current)
              => StoreOK'
<1> DEFINE p == Current
<1>1. UNCHANGED <<store, applied>> => StoreOK'
  BY DEF TypeOK, StoreOK, store
<1>2. p \in Position /\ MarkProcessed(p) /\ UNCHANGED applied => StoreOK'
  BY DEF TypeOK, StoreOK, MarkProcessed
<1>3. p \in Position /\ PublishDlq(p) /\ UNCHANGED applied => StoreOK'
  BY DEF TypeOK, StoreOK, PublishDlq
<1>4. height \in Heights /\ CommitCursorHeight(height) /\ UNCHANGED applied => StoreOK'
  BY DEF TypeOK, StoreOK, CommitCursorHeight, Larger
<1>5. ASSUME p \in Position, Update(p) # "unmapped", ApplyProjection(p)
      PROVE  StoreOK'
  <2>1. Event(p).sensor \in Sensors
    BY <1>5, MappedSensor
  <2>2. RecordOf(p) \in {RecordOf(q) : q \in Position}
    BY <1>5
  <2>3. sensorState' \in [Sensors -> {NoRecord} \cup {RecordOf(q) : q \in Position}]
    BY <1>5, <2>2 DEF ApplyProjection, TypeOK
  <2>4. applied' \subseteq Position
    BY <1>5 DEF ApplyProjection, TypeOK
  <2>5. QED
    BY <1>5, <2>3, <2>4 DEF ApplyProjection, TypeOK, StoreOK
<1>6. QED
  BY <1>1, <1>2, <1>3, <1>4, <1>5

LEMMA AbortType ==
  ASSUME TypeOK, Abort, stage # "idle", UNCHANGED crashes
  PROVE  RunOK' /\ JobOK'
BY IdleJob DEF Abort, TypeOK, RunOK, Phases

\* The heights a head passes over are heights, and so is the new frontier.
LEMMA PassedOver ==
  ASSUME NEW f \in 0..MaxHeight, NEW h \in Heights, NEW A \in SUBSET Heights
  PROVE  /\ A \cup ((f + 1)..(h - 1)) \subseteq Heights
         /\ A \cup ((f + 1)..h) \subseteq Heights
         /\ Larger(f, h) \in 0..MaxHeight
         /\ f <= Larger(f, h)
         /\ h <= Larger(f, h)
         /\ Larger(f, h) \in {f, h}
BY DEF Larger

\* Opening and closing a block is well typed.
LEMMA TypeOpen ==
  ASSUME TypeOK,
         \/ Start \/ StartFails \/ OpenBackfill \/ BackfillReadFails \/ Subscribe
         \/ DeliverHead \/ SkipHead \/ OpenHead \/ HeadReadFails
         \/ Stop \/ Stopped \/ Crash
  PROVE  TypeOK'
<1> USE TypePartsNext, StoreSteps
<1> DEFINE SameJob == UNCHANGED job
<1>0. SameJob => JobOK'
  BY DEF TypeOK, JobOK, job, Current, Update, Event
<1>1. CASE Start
  BY <1>0, <1>1 DEF Start, TypeOK, RunOK, Phases
<1>2. CASE StartFails
  <2>1. /\ UNCHANGED <<store, applied, job, from, frontier, seen, heads, abandoned, crashes>>
        /\ phase' \in Phases
    BY <1>2 DEF StartFails, Phases
  <2>2. RunOK'
    BY <2>1 DEF TypeOK, RunOK
  <2>3. QED
    BY <1>0, <2>1, <2>2
<1>3. CASE OpenBackfill
  <2>1. frontier + 1 \in Heights /\ 1 \in 1..(Len(Chain[frontier + 1]) + 1)
    <3>1. frontier \in 0..MaxHeight /\ seen \in 0..MaxHeight /\ frontier < seen
      BY <1>3 DEF OpenBackfill, TypeOK
    <3>2. frontier + 1 \in Heights
      BY <3>1
    <3>3. Len(Chain[frontier + 1]) \in Nat
      BY <3>2
    <3>4. QED
      BY <3>2, <3>3
  <2>2. JobOK'
    BY <1>3, <2>1, GoToEventJob DEF OpenBackfill
  <2>3. QED
    BY <1>3, <2>1, <2>2 DEF OpenBackfill, TypeOK, RunOK
<1>4. CASE BackfillReadFails
  BY <1>0, <1>4 DEF BackfillReadFails, TypeOK, RunOK, Phases
<1>5. CASE Subscribe
  BY <1>0, <1>5 DEF Subscribe, TypeOK, RunOK, Phases
<1>6. CASE DeliverHead
  <2>1. PICK h \in seen..MaxHeight : h > 0 /\ heads' = Append(heads, h) /\ seen' = h
    BY <1>6 DEF DeliverHead
  <2>2. h \in Heights
    BY <2>1 DEF TypeOK
  <2>3. heads' \in Seq(Heights) /\ seen' \in 0..MaxHeight
    BY <2>1, <2>2 DEF TypeOK
  <2>4. QED
    BY <1>0, <1>6, <2>3 DEF DeliverHead, TypeOK, RunOK
<1>7. CASE SkipHead
  <2>1. Tail(heads) \in Seq(Heights)
    BY <1>7 DEF SkipHead, TypeOK
  <2>2. QED
    BY <1>0, <1>7, <2>1 DEF SkipHead, TypeOK, RunOK
<1>8. CASE OpenHead
  <2>1. Head(heads) \in Heights /\ Tail(heads) \in Seq(Heights)
    BY <1>8 DEF OpenHead, TypeOK
  <2>2. 1 \in 1..(Len(Chain[Head(heads)]) + 1)
    BY <2>1
  <2>3. JobOK'
    BY <1>8, <2>1, <2>2, GoToEventJob DEF OpenHead
  <2>4. abandoned' \subseteq Heights /\ frontier' \in 0..MaxHeight
    <3>1. frontier' = Larger(frontier, Head(heads))
          /\ abandoned' = abandoned \cup ((frontier + 1)..(Head(heads) - 1))
      BY <1>8 DEF OpenHead
    <3>2. frontier \in 0..MaxHeight /\ abandoned \in SUBSET Heights
      BY DEF TypeOK
    <3>3. QED
      BY <2>1, <3>1, <3>2, PassedOver
  <2>5. QED
    BY <1>8, <2>1, <2>3, <2>4 DEF OpenHead, TypeOK, RunOK
<1>9. CASE HeadReadFails
  <2>1. Head(heads) \in Heights /\ Tail(heads) \in Seq(Heights)
    BY <1>9 DEF HeadReadFails, TypeOK
  <2>2. abandoned' \subseteq Heights /\ frontier' \in 0..MaxHeight
    <3>1. frontier' = Larger(frontier, Head(heads))
          /\ abandoned' = abandoned \cup ((frontier + 1)..Head(heads))
      BY <1>9 DEF HeadReadFails
    <3>2. frontier \in 0..MaxHeight /\ abandoned \in SUBSET Heights
      BY DEF TypeOK
    <3>3. QED
      BY <2>1, <3>1, <3>2, PassedOver
  <2>3. QED
    BY <1>0, <1>9, <2>1, <2>2 DEF HeadReadFails, TypeOK, RunOK
<1>10. CASE Stop
  BY <1>0, <1>10 DEF Stop, TypeOK, RunOK, Phases
<1>11. CASE Stopped
  <2>1. /\ phase' \in Phases /\ from' = 0 /\ seen' = 0 /\ SameJob
        /\ UNCHANGED <<store, frontier, heads, applied, abandoned, crashes>>
    BY <1>11 DEF Stopped, Phases
  <2>2. RunOK'
    BY <2>1 DEF TypeOK, RunOK
  <2>3. QED
    BY <1>0, <2>1, <2>2
<1>12. CASE Crash
  <2>1. abandoned' \subseteq Heights
    BY <1>12 DEF Crash, TypeOK, Stages
  <2>2. JobOK'
    BY <1>12, IdleJob DEF Crash
  <2>3. heads' \in Seq(Heights) /\ crashes' \in 0..MaxCrashes
    <3>1. heads' = << >> /\ << >> \in Seq(Heights)
      BY <1>12 DEF Crash
    <3>2. crashes' \in 0..MaxCrashes
      <4>1. crashes < MaxCrashes /\ crashes' = crashes + 1
        BY <1>12 DEF Crash
      <4>2. crashes \in 0..MaxCrashes
        BY DEF TypeOK
      <4>3. QED
        BY <4>1, <4>2
    <3>3. QED
      BY <3>1, <3>2
  <2>4. phase' \in Phases /\ from' = 0 /\ seen' = 0 /\ frontier' = frontier
    BY <1>12 DEF Crash, Phases
  <2>5. StoreOK'
    BY <1>12 DEF Crash
  <2>6. RunOK'
    <3>1. frontier \in 0..MaxHeight
      BY DEF TypeOK
    <3>2. QED
      BY <2>1, <2>3, <2>4, <3>1 DEF RunOK
  <2>7. QED
    BY <2>2, <2>5, <2>6
<1>13. QED
  BY <1>1, <1>2, <1>3, <1>4, <1>5, <1>6, <1>7, <1>8, <1>9, <1>10, <1>11, <1>12

\* So is every step of processEvent.
LEMMA TypeProcess ==
  ASSUME TypeOK,
         \/ CheckProcessed \/ Apply \/ ApplyFails \/ Mark \/ Commit
         \/ RetriedCallFails \/ DeadLetter \/ FinishBlock \/ CallFails
  PROVE  TypeOK'
<1> USE TypePartsNext, StoreSteps
<1>0. UNCHANGED <<run, abandoned, crashes>> => RunOK'
  BY DEF TypeOK, RunOK, run
<1>00. stage \notin {"idle", "head"} => Current \in Position
  BY DEF TypeOK
<1>1. CASE CheckProcessed
  <2>1. CASE GoTo("tailCommit") \/ GoTo("dlq")
    BY <1>0, <1>1, <2>1, GoToJob DEF CheckProcessed, Stages
  <2>2. CASE /\ stage' = "apply" /\ attempt' = 1 /\ UNCHANGED <<height, index>>
             /\ Update(Current) # "unmapped"
    <3>1. Current \in Position /\ Current' = Current /\ Update(Current)' # "unmapped"
      BY <1>1, <2>2 DEF CheckProcessed, TypeOK, Current, Update, Event
    <3>2. JobOK'
      BY <1>1, <2>2, <3>1 DEF CheckProcessed, TypeOK, JobOK, Stages
    <3>3. QED
      BY <1>0, <1>1, <3>2 DEF CheckProcessed
  <2>3. QED
    BY <1>1, <2>1, <2>2 DEF CheckProcessed
<1>2. CASE Apply
  <2>1. Current \in Position /\ Update(Current) # "unmapped"
    BY <1>2 DEF Apply, TypeOK
  <2>2. JobOK'
    BY <1>2, <2>1, GoToJob DEF Apply, Stages
  <2>3. QED
    BY <1>0, <1>2, <2>1, <2>2 DEF Apply
<1>3. CASE ApplyFails
  <2>1. Current \in Position /\ Update(Current) # "unmapped"
    BY <1>3 DEF ApplyFails, TypeOK
  <2>2. JobOK'
    BY <1>3, AttemptFailedJob DEF ApplyFails
  <2>3. QED
    BY <1>0, <1>3, <2>1, <2>2 DEF ApplyFails
<1>4. CASE Mark
  <2>1. Current \in Position
    BY <1>4 DEF Mark, TypeOK
  <2>2. stage = "mark" => Update(Current) # "unmapped"
    BY DEF TypeOK
  <2>3. JobOK'
    BY <1>4, <2>2, GoToJob DEF Mark, Stages
  <2>4. QED
    BY <1>0, <1>4, <2>1, <2>3 DEF Mark
<1>5. CASE Commit
  <2>1. height \in Heights /\ Current \in Position
    BY <1>5 DEF Commit, TypeOK
  <2>2. index + 1 \in 1..(Len(Chain[height]) + 1)
    BY <2>1, PositionParts DEF Current
  <2>3. JobOK'
    BY <1>5, <2>1, <2>2, GoToEventJob DEF Commit
  <2>4. QED
    BY <1>0, <1>5, <2>1, <2>3 DEF Commit
<1>6. CASE RetriedCallFails
  <2>1. Current \in Position /\ height \in Heights
    BY <1>6 DEF RetriedCallFails, TypeOK
  <2>2. JobOK'
    BY <1>6, AttemptFailedJob DEF RetriedCallFails
  <2>3. QED
    BY <1>0, <1>6, <2>1, <2>2 DEF RetriedCallFails
<1>7. CASE DeadLetter
  <2>1. JobOK'
    BY <1>7, GoToJob DEF DeadLetter, Stages
  <2>2. QED
    BY <1>0, <1>00, <1>7, <2>1 DEF DeadLetter
<1>8. CASE FinishBlock
  <2>1. height \in Heights
    BY <1>8 DEF FinishBlock, TypeOK
  <2>2. RunOK'
    BY <1>8 DEF FinishBlock, TypeOK, RunOK, run
  <2>3. QED
    BY <1>8, <2>1, <2>2, IdleJob DEF FinishBlock
<1>9. CASE CallFails
  <2>1. height \in Heights
    BY <1>9 DEF CallFails, TypeOK
  <2>2. RunOK' /\ JobOK'
    BY <1>9, AbortType DEF CallFails
  <2>3. QED
    BY <1>00, <1>9, <2>1, <2>2 DEF CallFails
<1>10. QED
  BY <1>1, <1>2, <1>3, <1>4, <1>5, <1>6, <1>7, <1>8, <1>9

LEMMA TypeInit == Init => TypeOK
BY DEF Init, TypeOK, Phases, Stages

LEMMA TypeStep == TypeOK /\ [Next]_vars => TypeOK'
<1> SUFFICES ASSUME TypeOK, [Next]_vars PROVE TypeOK'
  OBVIOUS
<1>1. CASE Next
  BY <1>1, TypeOpen, TypeProcess DEF Next, ProcessStep
<1>2. CASE UNCHANGED vars
  BY <1>2 DEF vars, store, run, job, TypeOK, Current, Update, Event
<1>3. QED
  BY <1>1, <1>2

\* The shape of Redis and of the process is kept by every step (the state of
\* index.ts, chain-source.ts and projection-store.ts).
THEOREM TypeCorrect == Spec => []TypeOK
BY TypeInit, TypeStep, PTL DEF Spec

-----------------------------------------------------------------------------
(* How far the blocks are.                                                 *)

\* Every event of the block is in the idempotency set.
Done(h) == \A i \in 1..Len(Chain[h]) : EventId(<<h, i>>) \in processed

\* Done, in process, or given up.
Settled(h) == Done(h) \/ h = height \/ h \in abandoned

Bounds ==
  /\ cursor <= frontier
  /\ height <= frontier
  /\ phase \in {"down", "failed"} => stage = "idle"

\* Every height opened is settled, and the cursor never passes the last one.
FrontierIsSettled == \A h \in 1..frontier : Settled(h)

\* The events of the block before the current one are in the idempotency set,
\* and so is the current one when its height is committed.
EarlierIsDone ==
  /\ stage # "idle" => \A i \in 1..(index - 1) :
                         i <= Len(Chain[height]) => EventId(<<height, i>>) \in processed
  /\ stage \in {"commit", "tailCommit"} => EventId(Current) \in processed
  /\ stage = "head" => index = Len(Chain[height]) + 1

BlockInv ==
  /\ TypeOK
  /\ Bounds
  /\ FrontierIsSettled
  /\ EarlierIsDone

ProcessEvent ==
  \/ CheckProcessed \/ Apply \/ ApplyFails \/ Mark \/ Commit
  \/ RetriedCallFails \/ DeadLetter \/ FinishBlock \/ CallFails

\* The steps that open a block, or start and end the process.
OpenOrEnd ==
  \/ Start \/ StartFails \/ OpenBackfill \/ BackfillReadFails \/ Subscribe
  \/ DeliverHead \/ SkipHead \/ OpenHead \/ HeadReadFails
  \/ Stop \/ Stopped \/ Crash

LEMMA StepKinds == Next => ProcessEvent \/ OpenOrEnd
BY DEF Next, ProcessStep, ProcessEvent, OpenOrEnd

\* What a step of processEvent may do to Redis: mark and dead-letter the
\* current event at their stages, project it at its own, and move the cursor
\* no further than the current block.
CallEffects ==
  /\ UNCHANGED frontier
  /\ \/ UNCHANGED processed
     \/ stage \in {"mark", "tailMark"} /\ processed' = processed \cup {EventId(Current)}
  /\ \/ UNCHANGED cursor
     \/ stage \in {"commit", "tailCommit", "head"} /\ cursor' = Larger(cursor, height)
  /\ \/ UNCHANGED dlq
     \/ stage = "dlq" /\ dlq' = dlq \cup {Current}
  /\ \/ UNCHANGED sensorState /\ UNCHANGED applied
     \/ /\ stage = "apply"
        /\ sensorState' = [sensorState EXCEPT ![Event(Current).sensor] = RecordOf(Current)]
        /\ applied' = applied \cup {Current}

LEMMA ProcessEffects ==
  ASSUME ProcessEvent
  PROVE  CallEffects
<1> USE DEF CallEffects, store, run
<1>1. CASE CheckProcessed
  BY <1>1 DEF CheckProcessed
<1>2. CASE Apply
  BY <1>2 DEF Apply, ApplyProjection
<1>3. CASE ApplyFails
  BY <1>3 DEF ApplyFails, ApplyProjection
<1>4. CASE Mark
  BY <1>4 DEF Mark, MarkProcessed
<1>5. CASE Commit
  BY <1>5 DEF Commit, CommitCursorHeight
<1>6. CASE RetriedCallFails
  BY <1>6 DEF RetriedCallFails, MarkProcessed, CommitCursorHeight
<1>7. CASE DeadLetter
  BY <1>7 DEF DeadLetter, PublishDlq
<1>8. CASE FinishBlock
  BY <1>8 DEF FinishBlock, CommitCursorHeight
<1>9. CASE CallFails
  BY <1>9 DEF CallFails, Abort, PublishDlq, MarkProcessed, CommitCursorHeight
<1>10. QED
  BY <1>1, <1>2, <1>3, <1>4, <1>5, <1>6, <1>7, <1>8, <1>9 DEF ProcessEvent

\* Nothing is taken out of the idempotency set, and nothing is forgotten.
LEMMA EffectsGrow ==
  ASSUME CallEffects
  PROVE  /\ processed \subseteq processed'
         /\ applied \subseteq applied'
         /\ dlq \subseteq dlq'
BY DEF CallEffects

\* Such a step stays at its event, goes on to the next one, or leaves the
\* block, done or given up.
AttemptsAreUsedUp == attempt' = attempt /\ ~ (attempt < MaxRetries)

Stays ==
  /\ UNCHANGED <<phase, height, index, abandoned>>
  /\ stage \in {"check", "apply", "mark", "commit", "dlq", "tailMark"}
  /\ stage' \in {"apply", "mark", "commit", "dlq", "tailMark", "tailCommit"}
  /\ stage' = "mark" => Current \in applied'
  /\ stage' = "tailMark" => Current \in dlq'
  /\ stage' = "dlq" => Update(Current) = "unmapped" \/ AttemptsAreUsedUp
  /\ stage \in {"dlq", "tailMark"} => stage' \in {"tailMark", "tailCommit"}
  /\ stage' \in {"commit", "tailCommit"} => EventId(Current) \in processed'
  /\ stage = "check" /\ EventId(Current) \in processed => stage' = "tailCommit"

Advances ==
  /\ UNCHANGED <<phase, abandoned>>
  /\ stage \in {"commit", "tailCommit"}
  /\ GoToEvent(height, index + 1)

Leaves ==
  /\ stage # "idle"
  /\ Idle
  /\ \/ stage = "head" /\ abandoned' = abandoned \ {height}
     \/ abandoned' = abandoned \cup {height}

LEMMA ProcessMoves ==
  ASSUME ProcessEvent
  PROVE  Stays \/ Advances \/ Leaves
<1>1. CASE CheckProcessed
  BY <1>1 DEF CheckProcessed, GoTo, Stays, store, run
<1>2. CASE Apply
  BY <1>2 DEF Apply, ApplyProjection, GoTo, Stays, run
<1>3. CASE ApplyFails
  BY <1>3 DEF ApplyFails, AttemptFailed, AttemptsAreUsedUp, Stays, run
<1>4. CASE Mark
  BY <1>4 DEF Mark, MarkProcessed, GoTo, Stays, run
<1>5. CASE Commit
  BY <1>5 DEF Commit, Advances, run
<1>6. CASE RetriedCallFails
  BY <1>6 DEF RetriedCallFails, AttemptFailed, AttemptsAreUsedUp, Stays, run
<1>7. CASE DeadLetter
  BY <1>7 DEF DeadLetter, PublishDlq, GoTo, Stays, run
<1>8. CASE FinishBlock
  BY <1>8 DEF FinishBlock, Leaves
<1>9. CASE CallFails
  BY <1>9 DEF CallFails, Abort, Leaves
<1>10. QED
  BY <1>1, <1>2, <1>3, <1>4, <1>5, <1>6, <1>7, <1>8, <1>9 DEF ProcessEvent

\* The other steps rest, open block h, or end the process.
Rests ==
  /\ UNCHANGED <<job, abandoned>>
  /\ \/ frontier' = frontier
     \/ frontier' = cursor /\ stage = "idle"
  /\ phase' \in {"down", "failed"} => stage = "idle"

PassesTo(h) ==
  /\ stage = "idle"
  /\ phase' = phase /\ phase \notin {"down", "failed"}
  /\ frontier' = Larger(frontier, h)
  /\ abandoned \subseteq abandoned'

Opens(h) ==
  /\ PassesTo(h)
  /\ GoToEvent(h, 1)
  /\ abandoned' = abandoned \cup ((frontier + 1)..(h - 1))

Skips(h) ==
  /\ PassesTo(h)
  /\ UNCHANGED job
  /\ abandoned' = abandoned \cup ((frontier + 1)..h)

Ends ==
  /\ Idle
  /\ UNCHANGED frontier
  /\ \/ stage = "idle" /\ UNCHANGED abandoned
     \/ Leaves

LEMMA OpenOrEndMoves ==
  ASSUME TypeOK, Bounds, OpenOrEnd
  PROVE  /\ UNCHANGED store /\ UNCHANGED applied
         /\ Rests \/ (\E h \in Heights : Opens(h) \/ Skips(h)) \/ Ends
<1>1. CASE Start
  BY <1>1 DEF Start, Rests, Bounds, job
<1>2. CASE StartFails \/ BackfillReadFails \/ Stopped
  BY <1>2 DEF StartFails, BackfillReadFails, Stopped, Rests, Bounds
<1>3. CASE Subscribe \/ DeliverHead \/ SkipHead \/ Stop
  BY <1>3 DEF Subscribe, DeliverHead, SkipHead, Stop, Rests
<1>4. CASE OpenBackfill
  <2>1. frontier + 1 \in Heights /\ frontier + 1 = Larger(frontier, frontier + 1)
    BY <1>4 DEF OpenBackfill, TypeOK, Larger
  <2>2. (frontier + 1)..(frontier + 1 - 1) = {}
    BY DEF TypeOK
  <2>3. Opens(frontier + 1)
    BY <1>4, <2>1, <2>2 DEF OpenBackfill, Opens, PassesTo
  <2>4. QED
    BY <1>4, <2>1, <2>3 DEF OpenBackfill
<1>5. CASE OpenHead
  <2>1. Head(heads) \in Heights
    BY <1>5 DEF OpenHead, TypeOK
  <2>2. Opens(Head(heads))
    BY <1>5 DEF OpenHead, Opens, PassesTo
  <2>3. QED
    BY <1>5, <2>1, <2>2 DEF OpenHead
<1>6. CASE HeadReadFails
  <2>1. Head(heads) \in Heights
    BY <1>6 DEF HeadReadFails, TypeOK
  <2>2. Skips(Head(heads))
    BY <1>6 DEF HeadReadFails, Skips, PassesTo
  <2>3. QED
    BY <1>6, <2>1, <2>2 DEF HeadReadFails
<1>7. CASE Crash
  BY <1>7 DEF Crash, Ends, Leaves
<1>8. QED
  BY <1>1, <1>2, <1>3, <1>4, <1>5, <1>6, <1>7 DEF OpenOrEnd

\* A block that reached onFinalizedHead is done.
LEMMA HeadIsDone ==
  ASSUME BlockInv, stage = "head"
  PROVE  Done(height)
<1>1. index = Len(Chain[height]) + 1 /\ height \in Heights /\ Len(Chain[height]) \in Nat
  BY DEF BlockInv, EarlierIsDone, TypeOK
<1>2. 1..(index - 1) = 1..Len(Chain[height])
  BY <1>1
<1>3. QED
  BY <1>2 DEF BlockInv, EarlierIsDone, Done

\* What is settled stays settled, unless the block is opened again.
LEMMA SettledStays ==
  ASSUME BlockInv, processed \subseteq processed', NEW h \in Heights, Settled(h),
         \/ height' = height /\ abandoned' = abandoned
         \/ height = 0 /\ abandoned \subseteq abandoned'
         \/ Leaves
  PROVE  Settled(h)'
<1>1. Done(h) => Done(h)'
  BY DEF Done, EventId, Event
<1>2. CASE Leaves
  <2>1. h = height /\ stage = "head" => Done(h)
    BY HeadIsDone
  <2>2. QED
    BY <1>1, <1>2, <2>1 DEF Leaves, Settled
<1>3. QED
  BY <1>1, <1>2 DEF Settled


\* The steps of processEvent.
LEMMA ProcessSettled ==
  ASSUME BlockInv, ProcessEvent, NEW h \in Heights, Settled(h)
  PROVE  Settled(h)'
<1>1. processed \subseteq processed'
  BY ProcessEffects, EffectsGrow
<1>2. CASE Stays \/ Advances
  <2>1. height' = height /\ abandoned' = abandoned
    BY <1>2 DEF Stays, Advances, GoToEvent
  <2>2. QED
    BY <1>1, <2>1, SettledStays
<1>3. CASE Leaves
  BY <1>1, <1>3, SettledStays
<1>4. QED
  BY <1>2, <1>3, ProcessMoves

LEMMA ProcessBounds ==
  ASSUME BlockInv, ProcessEvent
  PROVE  Bounds'
<1>1. cursor \in Nat /\ height \in Nat /\ frontier \in Nat
      /\ cursor <= frontier /\ height <= frontier
  BY DEF BlockInv, TypeOK, Bounds
<1>2. frontier' = frontier /\ (cursor' = cursor \/ cursor' = Larger(cursor, height))
  BY ProcessEffects DEF CallEffects
<1>3. cursor' <= frontier'
  BY <1>1, <1>2 DEF Larger
<1>4. stage # "idle" /\ phase \notin {"down", "failed"}
  BY ProcessMoves DEF Stays, Advances, Leaves, BlockInv, Bounds
<1>5. CASE Stays \/ Advances
  <2>1. height' = height /\ phase' = phase
    BY <1>5 DEF Stays, Advances, GoToEvent
  <2>2. QED
    BY <1>1, <1>2, <1>3, <1>4, <2>1 DEF Bounds
<1>6. CASE Leaves
  <2>1. height' = 0 /\ stage' = "idle"
    BY <1>6 DEF Leaves, Idle
  <2>2. QED
    BY <1>1, <1>2, <1>3, <2>1 DEF Bounds
<1>7. QED
  BY <1>5, <1>6, ProcessMoves

LEMMA ProcessEarlier ==
  ASSUME BlockInv, ProcessEvent
  PROVE  EarlierIsDone'
<1>1. processed \subseteq processed'
  BY ProcessEffects, EffectsGrow
<1>2. stage # "idle" => \A i \in 1..(index - 1) :
         i <= Len(Chain[height]) => EventId(<<height, i>>) \in processed
  BY DEF BlockInv, EarlierIsDone
<1>3. CASE Stays
  <2>1. /\ height' = height /\ index' = index /\ Current' = Current
        /\ stage # "idle" /\ stage' \notin {"idle", "head"}
        /\ stage' \in {"commit", "tailCommit"} => EventId(Current) \in processed'
    BY <1>3 DEF Stays, Current
  <2>2. QED
    BY <1>1, <1>2, <2>1 DEF EarlierIsDone, EventId, Event
<1>4. CASE Advances
  <2>1. /\ EventId(Current) \in processed
        /\ stage \notin {"idle", "head"} /\ Current \in Position
    BY <1>4 DEF Advances, BlockInv, EarlierIsDone, TypeOK
  <2>2. height \in Heights /\ index \in 1..Len(Chain[height]) /\ Len(Chain[height]) \in Nat
    BY <2>1, PositionParts DEF Current
  <2>3. height' = height /\ index' = index + 1 /\ stage' \in {"check", "head"}
    BY <1>4 DEF Advances, GoToEvent
  <2>4. stage' = "head" => index' = Len(Chain[height]) + 1
    BY <1>4, <2>2 DEF Advances, GoToEvent
  <2>5. ASSUME NEW i \in 1..index, i <= Len(Chain[height])
        PROVE  EventId(<<height, i>>) \in processed'
    <3>1. CASE i = index
      BY <1>1, <2>1, <3>1 DEF Current
    <3>2. CASE i # index
      <4>1. i \in 1..(index - 1)
        BY <2>2, <3>2
      <4>2. QED
        BY <1>1, <1>2, <2>1, <2>5, <4>1
    <3>3. QED
      BY <3>1, <3>2
  <2>6. 1..(index' - 1) = 1..index
    BY <2>2, <2>3
  <2>7. QED
    BY <2>3, <2>4, <2>5, <2>6 DEF EarlierIsDone, EventId, Event
<1>5. CASE Leaves
  BY <1>5 DEF Leaves, Idle, EarlierIsDone
<1>6. QED
  BY <1>3, <1>4, <1>5, ProcessMoves

LEMMA ProcessBlock ==
  ASSUME BlockInv, ProcessEvent
  PROVE  BlockInv'
<1>1. TypeOK'
  BY TypeProcess DEF BlockInv, ProcessEvent
<1>2. frontier' = frontier /\ frontier \in 0..MaxHeight
  BY ProcessEffects DEF CallEffects, BlockInv, TypeOK
<1>3. ASSUME NEW h \in 1..frontier PROVE Settled(h)'
  <2>1. h \in Heights /\ Settled(h)
    BY <1>2 DEF BlockInv, FrontierIsSettled
  <2>2. QED
    BY <2>1, ProcessSettled
<1>4. FrontierIsSettled'
  BY <1>2, <1>3 DEF FrontierIsSettled
<1>5. QED
  BY <1>1, <1>4, ProcessBounds, ProcessEarlier DEF BlockInv

\* The steps that open a block, or start and end the process.
LEMMA OpenOrEndSettled ==
  ASSUME BlockInv, OpenOrEnd, NEW h \in Heights, Settled(h)
  PROVE  Settled(h)'
<1>1. processed' = processed
  BY OpenOrEndMoves DEF store, BlockInv
<1>2. stage = "idle" => height = 0
  BY DEF BlockInv, TypeOK
<1>3. CASE Rests
  BY <1>1, <1>3, SettledStays DEF Rests, job
<1>4. ASSUME NEW k \in Heights, PassesTo(k) PROVE Settled(h)'
  <2>1. height = 0 /\ abandoned \subseteq abandoned'
    BY <1>2, <1>4 DEF PassesTo
  <2>2. QED
    BY <1>1, <2>1, SettledStays
<1>5. CASE Ends
  <2>1. (height = 0 /\ abandoned \subseteq abandoned') \/ Leaves
    BY <1>2, <1>5 DEF Ends
  <2>2. QED
    BY <1>1, <2>1, SettledStays
<1>6. QED
  BY <1>3, <1>4, <1>5, OpenOrEndMoves DEF Opens, Skips, BlockInv

LEMMA OpenOrEndBounds ==
  ASSUME BlockInv, OpenOrEnd
  PROVE  /\ Bounds'
         /\ \A k \in 1..frontier' : k \in 1..frontier \/ k = height' \/ k \in abandoned'
<1>1. cursor' = cursor
  BY OpenOrEndMoves DEF store, BlockInv
<1>2. cursor \in Nat /\ height \in Nat /\ frontier \in 0..MaxHeight /\ frontier \in Nat
      /\ cursor <= frontier /\ height <= frontier
  BY DEF BlockInv, TypeOK, Bounds
<1>3. stage = "idle" => height = 0
  BY DEF BlockInv, TypeOK
<1> DEFINE Covered == \A k \in 1..frontier' : k \in 1..frontier \/ k = height' \/ k \in abandoned'
<1>4. CASE Rests
  <2>1. stage' = stage /\ height' = height /\ (phase' \in {"down", "failed"} => stage = "idle")
    BY <1>4 DEF Rests, job
  <2>2. frontier' = frontier \/ (frontier' = cursor /\ height = 0)
    BY <1>3, <1>4 DEF Rests
  <2>3. cursor <= frontier' /\ height <= frontier' /\ Covered
    BY <1>2, <2>2
  <2>4. QED
    BY <1>1, <2>1, <2>3 DEF Bounds
<1>5. ASSUME NEW h \in Heights, PassesTo(h), height' \in {0, h},
             \A k \in (frontier + 1)..h : k = height' \/ k \in abandoned'
      PROVE  Bounds' /\ Covered
  <2>1. /\ frontier' = Larger(frontier, h) /\ phase' = phase
        /\ phase \notin {"down", "failed"}
    BY <1>5 DEF PassesTo
  <2>2. /\ frontier <= frontier' /\ h <= frontier' /\ frontier' \in {frontier, h}
        /\ frontier' \in Nat /\ h \in Nat
    BY <1>2, <2>1 DEF Larger
  <2>3. cursor <= frontier' /\ height' <= frontier'
    BY <1>2, <1>5, <2>2
  <2>4. ASSUME NEW k \in 1..frontier'
        PROVE  k \in 1..frontier \/ k = height' \/ k \in abandoned'
    <3>1. k \in 1..frontier \/ k \in (frontier + 1)..h
      BY <1>2, <2>2
    <3>2. QED
      BY <1>5, <3>1
  <2>5. QED
    BY <1>1, <2>1, <2>3, <2>4 DEF Bounds
<1>6. ASSUME NEW h \in Heights, Opens(h) PROVE Bounds' /\ Covered
  <2>1. PassesTo(h) /\ height' = h /\ (frontier + 1)..(h - 1) \subseteq abandoned'
    BY <1>6 DEF Opens, GoToEvent
  <2>2. ASSUME NEW k \in (frontier + 1)..h PROVE k = height' \/ k \in abandoned'
    <3>1. k = h \/ k \in (frontier + 1)..(h - 1)
      BY <1>2
    <3>2. QED
      BY <2>1, <3>1
  <2>3. QED
    BY <1>5, <2>1, <2>2
<1>7. ASSUME NEW h \in Heights, Skips(h) PROVE Bounds' /\ Covered
  <2>1. PassesTo(h) /\ height' = 0 /\ (frontier + 1)..h \subseteq abandoned'
    BY <1>3, <1>7 DEF Skips, PassesTo, job
  <2>2. QED
    BY <1>5, <2>1
<1>8. CASE Ends
  <2>1. height' = 0 /\ stage' = "idle" /\ frontier' = frontier
    BY <1>8 DEF Ends, Idle
  <2>2. QED
    BY <1>1, <1>2, <2>1 DEF Bounds
<1>9. QED
  BY <1>4, <1>6, <1>7, <1>8, OpenOrEndMoves DEF BlockInv

LEMMA OpenOrEndEarlier ==
  ASSUME BlockInv, OpenOrEnd
  PROVE  EarlierIsDone'
<1>1. processed' = processed
  BY OpenOrEndMoves DEF store, BlockInv
<1>2. CASE UNCHANGED job
  <2>1. stage' = stage /\ height' = height /\ index' = index /\ Current' = Current
    BY <1>2 DEF job, Current
  <2>2. QED
    BY <1>1, <2>1 DEF BlockInv, EarlierIsDone, EventId, Event
<1>3. ASSUME NEW h \in Heights, Opens(h) PROVE EarlierIsDone'
  <2>1. /\ stage' \in {"check", "head"} /\ height' = h /\ index' = 1
        /\ stage' = "head" => ~ (1 <= Len(Chain[h]))
    BY <1>3 DEF Opens, GoToEvent
  <2>2. stage' = "head" => index' = Len(Chain[height'])  + 1
    BY <2>1
  <2>3. 1..(index' - 1) = {}
    BY <2>1
  <2>4. QED
    BY <2>1, <2>2, <2>3 DEF EarlierIsDone
<1>4. CASE Ends
  BY <1>4 DEF Ends, Idle, EarlierIsDone
<1>5. QED
  BY <1>2, <1>3, <1>4, OpenOrEndMoves DEF BlockInv, Rests, Skips

LEMMA OpenOrEndBlock ==
  ASSUME BlockInv, OpenOrEnd
  PROVE  BlockInv'
<1>1. TypeOK'
  BY TypeOpen DEF BlockInv, OpenOrEnd
<1>2. frontier \in 0..MaxHeight /\ frontier' \in 0..MaxHeight
  BY <1>1 DEF BlockInv, TypeOK
<1>3. ASSUME NEW h \in 1..frontier' PROVE Settled(h)'
  <2>1. CASE h \in 1..frontier
    <3>1. h \in Heights /\ Settled(h)
      BY <1>2, <2>1 DEF BlockInv, FrontierIsSettled
    <3>2. QED
      BY <3>1, OpenOrEndSettled
  <2>2. CASE h = height' \/ h \in abandoned'
    BY <2>2 DEF Settled
  <2>3. QED
    BY <2>1, <2>2, OpenOrEndBounds
<1>4. FrontierIsSettled'
  BY <1>3 DEF FrontierIsSettled
<1>5. QED
  BY <1>1, <1>4, OpenOrEndBounds, OpenOrEndEarlier DEF BlockInv

LEMMA BlockInit == Init => BlockInv
<1> SUFFICES ASSUME Init PROVE BlockInv
  OBVIOUS
<1>1. Bounds /\ EarlierIsDone
  BY DEF Init, Bounds, EarlierIsDone
<1>2. FrontierIsSettled
  BY DEF Init, FrontierIsSettled
<1>3. QED
  BY <1>1, <1>2, TypeInit DEF BlockInv

LEMMA BlockStep == BlockInv /\ [Next]_vars => BlockInv'
<1> SUFFICES ASSUME BlockInv, [Next]_vars PROVE BlockInv'
  OBVIOUS
<1>1. CASE ProcessEvent \/ OpenOrEnd
  BY <1>1, ProcessBlock, OpenOrEndBlock
<1>2. CASE UNCHANGED vars
  <2>1. TypeOK'
    BY TypeStep DEF BlockInv
  <2>2. Bounds' /\ FrontierIsSettled' /\ EarlierIsDone'
    BY <1>2 DEF vars, store, run, job, BlockInv, Bounds, FrontierIsSettled, Settled, Done,
                EarlierIsDone, Current, EventId, Event
  <2>3. QED
    BY <2>1, <2>2 DEF BlockInv
<1>3. QED
  BY <1>1, <1>2, StepKinds

LEMMA BlockInvariant == Spec => []BlockInv
BY BlockInit, BlockStep, PTL DEF Spec

-----------------------------------------------------------------------------
(* What is processed, and what the cursor has passed, is accounted for.    *)

\* The current event is accounted for before it is marked.
MarkIsAccounted == stage \in {"mark", "tailMark"} => Accounted(Current)

IInv ==
  /\ BlockInv
  /\ ProcessedIsAccounted
  /\ MarkIsAccounted

\* Marking keeps ProcessedIsAccounted because event ids are unique.
LEMMA ProcessedStep ==
  ASSUME UniqueIds, IInv, ProcessEvent
  PROVE  ProcessedIsAccounted'
<1> SUFFICES ASSUME NEW p \in Position, EventId(p) \in processed'
             PROVE  p \in applied' \/ p \in dlq'
  BY DEF ProcessedIsAccounted, Accounted, EventId, Event
<1>1. applied \subseteq applied' /\ dlq \subseteq dlq'
  BY ProcessEffects, EffectsGrow
<1>2. CASE EventId(p) \in processed
  BY <1>1, <1>2 DEF IInv, ProcessedIsAccounted, Accounted
<1>3. CASE EventId(p) \notin processed
  <2>1. stage \in {"mark", "tailMark"} /\ EventId(p) = EventId(Current)
    BY <1>3, ProcessEffects DEF CallEffects
  <2>2. Current \in Position /\ Accounted(Current)
    BY <2>1 DEF IInv, BlockInv, TypeOK, MarkIsAccounted
  <2>3. p = Current
    BY <2>1, <2>2 DEF UniqueIds
  <2>4. QED
    BY <1>1, <2>2, <2>3 DEF Accounted
<1>4. QED
  BY <1>2, <1>3

LEMMA MarkStep ==
  ASSUME IInv, ProcessEvent \/ OpenOrEnd
  PROVE  MarkIsAccounted'
<1>1. CASE Stays
  BY <1>1 DEF Stays, MarkIsAccounted, Accounted, Current
<1>2. CASE Idle
  BY <1>2 DEF Idle, MarkIsAccounted
<1>3. ASSUME NEW h, NEW i, GoToEvent(h, i) PROVE MarkIsAccounted'
  BY <1>3 DEF GoToEvent, MarkIsAccounted
<1>4. CASE OpenOrEnd /\ UNCHANGED job
  <2>1. UNCHANGED <<applied, dlq>>
    BY <1>4, OpenOrEndMoves DEF IInv, BlockInv, store
  <2>2. QED
    BY <1>4, <2>1 DEF job, IInv, MarkIsAccounted, Accounted, Current
<1>5. QED
  BY <1>1, <1>2, <1>3, <1>4, ProcessMoves, OpenOrEndMoves
  DEF IInv, BlockInv, Advances, Leaves, Rests, Opens, Skips, Ends

LEMMA InvInit == Init => IInv
BY BlockInit DEF Init, IInv, ProcessedIsAccounted, MarkIsAccounted

LEMMA InvStep ==
  ASSUME UniqueIds
  PROVE  IInv /\ [Next]_vars => IInv'
<1> SUFFICES ASSUME IInv, [Next]_vars PROVE IInv'
  OBVIOUS
<1>1. BlockInv'
  BY BlockStep DEF IInv
<1>2. CASE ProcessEvent
  BY <1>1, <1>2, ProcessedStep, MarkStep DEF IInv
<1>3. CASE OpenOrEnd
  <2>1. UNCHANGED <<applied, dlq, processed>>
    BY <1>3, OpenOrEndMoves DEF IInv, BlockInv, store
  <2>2. ProcessedIsAccounted'
    BY <2>1 DEF IInv, ProcessedIsAccounted, Accounted, EventId, Event
  <2>3. QED
    BY <1>1, <1>3, <2>2, MarkStep DEF IInv
<1>4. CASE UNCHANGED vars
  BY <1>1, <1>4
  DEF vars, store, job, IInv, ProcessedIsAccounted, MarkIsAccounted,
      Accounted, Current, EventId, Event
<1>5. QED
  BY <1>2, <1>3, <1>4, StepKinds

\* Below the cursor every height is settled, so its events are in the
\* idempotency set unless the block is in process or given up.
LEMMA InvImplies == IInv => CursorIsAccounted
<1> SUFFICES ASSUME IInv, NEW p \in Position, p[1] <= cursor
             PROVE  Accounted(p) \/ p[1] = height \/ p[1] \in abandoned
  BY DEF CursorIsAccounted
<1>1. p[1] \in Heights /\ p[2] \in 1..Len(Chain[p[1]]) /\ p = <<p[1], p[2]>>
  BY PositionParts
<1>2. p[1] \in 1..frontier
  BY <1>1 DEF IInv, BlockInv, Bounds, TypeOK
<1>3. CASE Done(p[1])
  <2>1. EventId(p) \in processed
    BY <1>1, <1>3 DEF Done
  <2>2. QED
    BY <2>1 DEF IInv, ProcessedIsAccounted
<1>4. QED
  BY <1>2, <1>3 DEF IInv, BlockInv, FrontierIsSettled, Settled

\* An event the idempotency set makes a replay skip was projected or
\* dead-lettered, provided event ids are unique (processEvent in index.ts).
THEOREM ProcessedEventsAreAccounted ==
  ASSUME UniqueIds
  PROVE  Spec => []ProcessedIsAccounted
<1>1. IInv => ProcessedIsAccounted
  BY DEF IInv
<1>2. QED
  BY <1>1, InvInit, InvStep, PTL DEF Spec

\* Below the saved cursor an event is lost only in a block the service gave
\* up or passed over, provided event ids are unique (the commits of index.ts
\* against the heights chain-source.ts opens).
THEOREM CursorPassesOnlyAccountedEvents ==
  ASSUME UniqueIds
  PROVE  Spec => []CursorIsAccounted
BY InvImplies, InvInit, InvStep, PTL DEF Spec

\* Every block of the chain is what normalizeRegistryEvents makes of records
\* that fit.
IsNormalized(Blocks, Addresses) ==
  \A h \in Heights :
    /\ IsBlock(Blocks[h], Addresses)
    /\ \A r \in DOMAIN Blocks[h] : Fits(Blocks[h][r], r)
    /\ Chain[h] = normalizeRegistryEvents(Blocks[h])

\* In such a chain no two events share the id under which the service knows
\* them (normalizeRegistryEvents and toChainEventId): UniqueIds is not an
\* assumption about the node but follows from the records' sizes.
THEOREM IdsAreUnique ==
  ASSUME NEW Addresses, NEW Blocks, IsNormalized(Blocks, Addresses)
  PROVE  UniqueIds
<1> SUFFICES ASSUME NEW p \in Position, NEW q \in Position, EventId(p) = EventId(q)
             PROVE  p = q
  BY DEF UniqueIds
<1>1. /\ p[1] \in Heights /\ p[2] \in 1..Len(Chain[p[1]]) /\ p = <<p[1], p[2]>>
      /\ q[1] \in Heights /\ q[2] \in 1..Len(Chain[q[1]]) /\ q = <<q[1], q[2]>>
  BY PositionParts
<1>2. p[1] = q[1] /\ Event(p).index = Event(q).index
  BY DEF EventId, toChainEventId
<1> DEFINE h == p[1]
           events == normalizeRegistryEvents(Blocks[h])
<1>3. /\ IsBlock(Blocks[h], Addresses)
      /\ \A r \in DOMAIN Blocks[h] : Fits(Blocks[h][r], r)
      /\ Chain[h] = events
  BY <1>1 DEF IsNormalized
<1> HIDE DEF h
<1>4. \A j, l \in DOMAIN events : events[j].index = events[l].index => j = l
  BY <1>3, NormalizedIndicesAreUnique
<1>5. DOMAIN events = 1..Len(events)
  BY <1>3, NormalizedInOrder
<1> HIDE DEF events
<1>6. p[2] \in DOMAIN events /\ q[2] \in DOMAIN events
  BY <1>1, <1>2, <1>3, <1>5 DEF h
<1>7. events[p[2]].index = events[q[2]].index
  BY <1>2, <1>3 DEF h, Event
<1>8. p[2] = q[2]
  BY <1>4, <1>6, <1>7
<1>9. QED
  BY <1>1, <1>2, <1>8

\* So for the chains the service reads nothing processed and nothing below the
\* cursor is lost, but for the blocks given up.
THEOREM FittingChainsAreAccounted ==
  ASSUME NEW Addresses, NEW Blocks, IsNormalized(Blocks, Addresses)
  PROVE  Spec => []ProcessedIsAccounted /\ []CursorIsAccounted
<1>1. UniqueIds
  BY IdsAreUnique
<1>2. Spec => []ProcessedIsAccounted
  BY <1>1, ProcessedEventsAreAccounted
<1>3. Spec => []CursorIsAccounted
  BY <1>1, CursorPassesOnlyAccountedEvents
<1>4. QED
  BY <1>2, <1>3, PTL

-----------------------------------------------------------------------------
(* The order of the writes to the projection.                              *)

\* Position p is not after position q.
NotAfter(p, q) == p[1] < q[1] \/ (p[1] = q[1] /\ p[2] <= q[2])

LEMMA NotAfterTransitive ==
  ASSUME NEW p, NEW q, NEW r, NotAfter(p, q), NotAfter(q, r),
         p[1] \in Nat, p[2] \in Nat, q[1] \in Nat, q[2] \in Nat,
         r[1] \in Nat, r[2] \in Nat
  PROVE  NotAfter(p, r)
BY DEF NotAfter

\* Below the height of a record every height is settled as well.
RecordsFollowDone ==
  \A s \in Sensors : \A h \in 1..sensorState[s].at[1] : Settled(h)

\* A block that was never given up is either run for the first time, ahead of
\* all records, or again, with nothing left to apply.
FirstOrAgain ==
  (stage # "idle" /\ height \notin abandoned) =>
    \/ \A s \in Sensors : NotAfter(sensorState[s].at, Current)
    \/ /\ stage \in {"check", "tailCommit", "head"}
       /\ \A i \in index..Len(Chain[height]) : EventId(<<height, i>>) \in processed

OrderInv ==
  /\ BlockInv
  /\ RecordsFollowDone
  /\ FirstOrAgain

\* The two numbers a record's updated_at fields hold.
LEMMA RecordNumbers ==
  ASSUME TypeOK, NEW s \in Sensors
  PROVE  sensorState[s].at[1] \in 0..MaxHeight /\ sensorState[s].at[2] \in Nat
<1>1. sensorState[s] \in {NoRecord} \cup {RecordOf(p) : p \in Position}
  BY DEF TypeOK
<1>2. CASE sensorState[s] = NoRecord
  BY <1>2 DEF NoRecord
<1>3. ASSUME NEW p \in Position, sensorState[s] = RecordOf(p)
      PROVE  sensorState[s].at[1] \in 0..MaxHeight /\ sensorState[s].at[2] \in Nat
  <2>1. sensorState[s].at = p
    BY <1>3 DEF RecordOf
  <2>2. p[1] \in Heights /\ p[2] \in 1..Len(Chain[p[1]])
    BY PositionParts
  <2>3. QED
    BY <2>1, <2>2
<1>4. QED
  BY <1>1, <1>2, <1>3

\* A step of processEvent leaves a record as it is, or writes it at its stage.
LEMMA RecordWrites ==
  ASSUME TypeOK, ProcessEvent, NEW s \in Sensors
  PROVE  \/ sensorState'[s] = sensorState[s]
         \/ stage = "apply" /\ sensorState'[s] = RecordOf(Current)
BY ProcessEffects DEF CallEffects, TypeOK

LEMMA RecordsFollowStep ==
  ASSUME OrderInv, ProcessEvent \/ OpenOrEnd
  PROVE  RecordsFollowDone'
<1> SUFFICES ASSUME NEW s \in Sensors, NEW h \in 1..sensorState'[s].at[1]
             PROVE  Settled(h)'
  BY DEF RecordsFollowDone
<1>1. CASE sensorState'[s] = sensorState[s]
  <2>1. h \in Heights /\ Settled(h)
    BY <1>1, RecordNumbers DEF OrderInv, BlockInv, RecordsFollowDone
  <2>2. QED
    BY <2>1, ProcessSettled, OpenOrEndSettled DEF OrderInv
<1>2. CASE ProcessEvent /\ stage = "apply" /\ sensorState'[s] = RecordOf(Current)
  <2>1. sensorState'[s].at[1] = height
    BY <1>2 DEF RecordOf, Current
  <2>2. h \in 1..frontier /\ frontier \in 0..MaxHeight
    BY <2>1 DEF OrderInv, BlockInv, Bounds, TypeOK
  <2>3. h \in Heights /\ Settled(h)
    BY <2>2 DEF OrderInv, BlockInv, FrontierIsSettled
  <2>4. QED
    BY <1>2, <2>3, ProcessSettled DEF OrderInv
<1>3. CASE OpenOrEnd
  BY <1>1, <1>3, OpenOrEndMoves DEF OrderInv, BlockInv, store
<1>4. QED
  BY <1>1, <1>2, <1>3, RecordWrites DEF OrderInv, BlockInv

\* A block of which no record is ahead, or of which nothing is left to apply,
\* stays so until it is left.
LEMMA FirstOrAgainProcess ==
  ASSUME OrderInv, ProcessEvent
  PROVE  FirstOrAgain'
<1>1. processed \subseteq processed'
  BY ProcessEffects, EffectsGrow
<1>2. CASE Stays
  <2>1. /\ height' = height /\ index' = index /\ abandoned' = abandoned
        /\ Current' = Current /\ stage # "idle"
    BY <1>2 DEF Stays, Current
  <2>2. index \in Nat /\ height \in Nat
    BY <2>1 DEF OrderInv, BlockInv, TypeOK
  <2>3. CASE \A s \in Sensors : NotAfter(sensorState[s].at, Current)
    <3>1. ASSUME NEW s \in Sensors PROVE NotAfter(sensorState'[s].at, Current)
      <4>1. RecordOf(Current).at = Current /\ NotAfter(Current, Current)
        BY <2>2 DEF RecordOf, NotAfter, Current
      <4>2. QED
        BY <2>3, <4>1, RecordWrites DEF OrderInv, BlockInv
    <3>2. QED
      BY <2>1, <3>1 DEF FirstOrAgain, NotAfter
  <2>4. CASE /\ stage \in {"check", "tailCommit", "head"}
             /\ \A i \in index..Len(Chain[height]) : EventId(<<height, i>>) \in processed
    <3>1. stage = "check" /\ Current \in Position
      BY <1>2, <2>4 DEF Stays, OrderInv, BlockInv, TypeOK
    <3>2. index \in index..Len(Chain[height])
      BY <3>1, PositionParts DEF Current
    <3>3. EventId(Current) \in processed
      BY <2>4, <3>2 DEF Current
    <3>4. stage' = "tailCommit"
      BY <1>2, <3>1, <3>3 DEF Stays
    <3>5. QED
      BY <1>1, <2>1, <2>4, <3>4 DEF FirstOrAgain, EventId, Event
  <2>5. QED
    BY <2>1, <2>3, <2>4 DEF OrderInv, FirstOrAgain
<1>3. CASE Advances
  <2>1. /\ height' = height /\ index' = index + 1 /\ abandoned' = abandoned
        /\ stage \in {"commit", "tailCommit"} /\ stage' \in {"check", "head"}
    BY <1>3 DEF Advances, GoToEvent
  <2>2. index \in Nat /\ height \in Nat /\ Len(Chain[height]) \in Nat
    BY <2>1 DEF OrderInv, BlockInv, TypeOK
  <2>3. CASE \A s \in Sensors : NotAfter(sensorState[s].at, Current)
    <3>1. ASSUME NEW s \in Sensors PROVE NotAfter(sensorState'[s].at, <<height, index + 1>>)
      <4>1. sensorState'[s] = sensorState[s]
        BY <2>1, RecordWrites DEF OrderInv, BlockInv
      <4>2. QED
        BY <2>2, <2>3, <4>1, RecordNumbers DEF OrderInv, BlockInv, NotAfter, Current
    <3>2. Current' = <<height, index + 1>>
      BY <2>1 DEF Current
    <3>3. QED
      BY <3>1, <3>2 DEF FirstOrAgain, NotAfter
  <2>4. CASE \A i \in index..Len(Chain[height]) : EventId(<<height, i>>) \in processed
    <3>1. ASSUME NEW i \in (index + 1)..Len(Chain[height])
          PROVE  EventId(<<height, i>>) \in processed'
      <4>1. i \in index..Len(Chain[height])
        BY <2>2
      <4>2. QED
        BY <1>1, <2>4, <4>1
    <3>2. QED
      BY <2>1, <3>1 DEF FirstOrAgain, EventId, Event
  <2>5. QED
    BY <2>1, <2>3, <2>4 DEF OrderInv, FirstOrAgain
<1>4. CASE Leaves
  BY <1>4 DEF Leaves, Idle, FirstOrAgain
<1>5. QED
  BY <1>2, <1>3, <1>4, ProcessMoves

\* A block is opened ahead of all records unless it is done or given up.
LEMMA FirstOrAgainOpens ==
  ASSUME OrderInv, NEW h \in Heights, Opens(h), UNCHANGED store
  PROVE  FirstOrAgain'
<1>1. /\ stage' \in {"check", "head"} /\ height' = h /\ index' = 1
      /\ stage = "idle" /\ abandoned \subseteq abandoned'
  BY DEF Opens, PassesTo, GoToEvent
<1>2. sensorState' = sensorState /\ processed' = processed /\ Current' = <<h, 1>>
  BY <1>1 DEF store, Current
<1>3. SUFFICES ASSUME h \notin abandoned' PROVE FirstOrAgain'
  BY <1>1 DEF FirstOrAgain
<1>4. height = 0 /\ h # height
  BY <1>1 DEF OrderInv, BlockInv, TypeOK
<1>5. CASE \A s \in Sensors : sensorState[s].at[1] < h
  BY <1>2, <1>5 DEF FirstOrAgain, NotAfter
<1>6. ASSUME NEW s \in Sensors, ~ (sensorState[s].at[1] < h)
      PROVE  FirstOrAgain'
  <2>1. h \in 1..sensorState[s].at[1]
    BY <1>6, RecordNumbers DEF OrderInv, BlockInv
  <2>2. Settled(h)
    BY <2>1 DEF OrderInv, RecordsFollowDone
  <2>3. Done(h)
    BY <1>1, <1>3, <1>4, <2>2 DEF Settled
  <2>4. QED
    BY <1>1, <1>2, <2>3 DEF FirstOrAgain, Done, EventId, Event
<1>7. QED
  BY <1>5, <1>6

LEMMA FirstOrAgainOpenOrEnd ==
  ASSUME OrderInv, OpenOrEnd
  PROVE  FirstOrAgain'
<1>1. UNCHANGED store
  BY OpenOrEndMoves DEF OrderInv, BlockInv
<1>2. CASE Rests
  BY <1>1, <1>2 DEF Rests, store, job, OrderInv, FirstOrAgain, Current, EventId, Event
<1>3. ASSUME NEW h \in Heights, Skips(h) PROVE FirstOrAgain'
  BY <1>3 DEF Skips, PassesTo, job, FirstOrAgain
<1>4. CASE Ends
  BY <1>4 DEF Ends, Idle, FirstOrAgain
<1>5. QED
  BY <1>1, <1>2, <1>3, <1>4, FirstOrAgainOpens, OpenOrEndMoves DEF OrderInv, BlockInv

LEMMA OrderInit == Init => OrderInv
<1> SUFFICES ASSUME Init PROVE OrderInv
  OBVIOUS
<1>1. RecordsFollowDone
  BY DEF Init, RecordsFollowDone, NoRecord
<1>2. FirstOrAgain
  BY DEF Init, FirstOrAgain
<1>3. QED
  BY <1>1, <1>2, BlockInit DEF OrderInv

LEMMA OrderStep == OrderInv /\ [Next]_vars => OrderInv'
<1> SUFFICES ASSUME OrderInv, [Next]_vars PROVE OrderInv'
  OBVIOUS
<1>1. BlockInv'
  BY BlockStep DEF OrderInv
<1>2. CASE ProcessEvent \/ OpenOrEnd
  BY <1>1, <1>2, RecordsFollowStep, FirstOrAgainProcess, FirstOrAgainOpenOrEnd DEF OrderInv
<1>3. CASE UNCHANGED vars
  BY <1>1, <1>3
  DEF vars, store, job, OrderInv, RecordsFollowDone, Settled, Done, FirstOrAgain,
      Current, EventId, Event
<1>4. QED
  BY <1>2, <1>3, StepKinds

LEMMA OrderInvariant == Spec => []OrderInv
BY OrderInit, OrderStep, PTL DEF Spec

\* No write goes back while a block not given up is in process.
LEMMA WritesGoForward ==
  ASSUME OrderInv, ProcessEvent, height \notin abandoned, NEW s \in Sensors
  PROVE  NotAfter(sensorState[s].at, sensorState'[s].at)
<1>1. CASE sensorState'[s] = sensorState[s]
  BY <1>1, RecordNumbers DEF OrderInv, BlockInv, NotAfter
<1>2. CASE stage = "apply" /\ sensorState'[s] = RecordOf(Current)
  <2>1. NotAfter(sensorState[s].at, Current)
    BY <1>2 DEF OrderInv, FirstOrAgain
  <2>2. QED
    BY <1>2, <2>1 DEF RecordOf
<1>3. QED
  BY <1>1, <1>2, RecordWrites DEF OrderInv, BlockInv

\* A record goes back to an older event only while a block given up is run
\* again, for every chain and whatever fails: also where two events share an
\* id (the promise chain and the backfill of chain-source.ts).
THEOREM GoesBackOnlyInReplayHolds == Spec => GoesBackOnlyInReplay
<1> DEFINE GoesBack(s) == ~ NotAfter(sensorState[s].at, sensorState'[s].at)
<1>1. ASSUME OrderInv, [Next]_vars, NEW s \in Sensors
      PROVE  GoesBack(s) => height \in abandoned
  <2>1. CASE ProcessEvent
    BY <1>1, <2>1, WritesGoForward
  <2>2. CASE OpenOrEnd \/ UNCHANGED vars
    <3>1. sensorState' = sensorState
      BY <1>1, <2>2, OpenOrEndMoves DEF vars, store, OrderInv, BlockInv
    <3>2. QED
      BY <1>1, <3>1, RecordNumbers DEF OrderInv, BlockInv, NotAfter
  <2>3. QED
    BY <1>1, <2>1, <2>2, StepKinds
<1>2. OrderInv /\ [Next]_vars =>
        [\A s \in Sensors :
           LET old == sensorState[s].at
               new == sensorState'[s].at
           IN \/ old[1] < new[1]
              \/ old[1] = new[1] /\ old[2] <= new[2]
              \/ height \in abandoned]_vars
  BY <1>1 DEF NotAfter
<1>3. QED
  BY <1>2, OrderInvariant, PTL DEF Spec, GoesBackOnlyInReplay

\* An event on its way to the dead-letter queue has a cause to go there.
DlqHasCause ==
  stage = "dlq" => Update(Current) = "unmapped" \/ attempt = MaxRetries

LEMMA DlqCauseStep ==
  ASSUME OrderInv, DlqHasCause, [Next]_vars
  PROVE  DlqHasCause'
<1>1. CASE Stays
  <2>1. attempt \in 0..MaxRetries /\ Current' = Current
    BY <1>1 DEF OrderInv, BlockInv, TypeOK, Stays, Current
  <2>2. stage' = "dlq" => Update(Current) = "unmapped" \/ attempt' = MaxRetries
    BY <1>1, <2>1 DEF Stays, AttemptsAreUsedUp
  <2>3. QED
    BY <2>1, <2>2 DEF DlqHasCause, Update, Event
<1>2. CASE Idle
  BY <1>2 DEF Idle, DlqHasCause
<1>3. ASSUME NEW h, NEW i, GoToEvent(h, i) PROVE DlqHasCause'
  BY <1>3 DEF GoToEvent, DlqHasCause
<1>4. CASE UNCHANGED job
  BY <1>4 DEF job, DlqHasCause, Current, Update, Event
<1>5. QED
  BY <1>1, <1>2, <1>3, <1>4, StepKinds, ProcessMoves, OpenOrEndMoves
  DEF OrderInv, BlockInv, Advances, Leaves, Rests, Opens, Skips, Ends, vars

\* An event reaches the dead-letter queue only when it exhausted its attempts
\* or maps to no update (the retry loop of processEvent in index.ts).
THEOREM DeadLetteredForCauseHolds == Spec => DeadLetteredForCause
<1>1. Init => DlqHasCause
  BY DEF Init, DlqHasCause
<1>2. ASSUME OrderInv, DlqHasCause, [Next]_vars, NEW p \in dlq' \ dlq
      PROVE  Update(p) = "unmapped" \/ attempt = MaxRetries
  <2>1. CASE ProcessEvent
    <3>1. stage = "dlq" /\ p = Current
      BY <1>2, <2>1, ProcessEffects DEF CallEffects
    <3>2. QED
      BY <1>2, <3>1 DEF DlqHasCause
  <2>2. CASE OpenOrEnd \/ UNCHANGED vars
    <3>1. dlq' = dlq
      BY <2>2, <1>2, OpenOrEndMoves DEF vars, store, OrderInv, BlockInv
    <3>2. QED
      BY <1>2, <3>1
  <2>3. QED
    BY <1>2, <2>1, <2>2, StepKinds
<1>3. OrderInv /\ DlqHasCause /\ [Next]_vars =>
        [\A p \in dlq' \ dlq :
           \/ Update(p) = "unmapped"
           \/ attempt = MaxRetries]_vars
  BY <1>2
<1>4. OrderInv /\ DlqHasCause /\ [Next]_vars => DlqHasCause'
  BY DlqCauseStep
<1>5. QED
  BY <1>1, <1>3, <1>4, OrderInvariant, PTL DEF Spec, DeadLetteredForCause

-----------------------------------------------------------------------------
(* The service implements Projection.                                      *)

\* An event accounted for is in the idempotency set, or its block was given
\* up, or it is the one at hand.
AccountedIsDone ==
  \A p \in Position :
    Accounted(p) => \/ EventId(p) \in processed
                    \/ p[1] \in abandoned
                    \/ p = Current /\ stage \notin {"idle", "check"}

\* Within the retry loop the event at hand is not accounted for yet, or its
\* sensor's record is from it, unless its block was given up before.
AppliedIsRecorded ==
  (stage \in {"apply", "mark", "commit"} /\ height \notin abandoned) =>
    \/ ~ Accounted(Current)
    \/ sensorState[Event(Current).sensor] = RecordOf(Current)

AgainInv ==
  /\ BlockInv
  /\ AccountedIsDone
  /\ AppliedIsRecorded

\* An event that may have been dealt with just now is at hand, marked, or in
\* a block that is given up.
LEMMA AtHandIsDone ==
  ASSUME BlockInv, Stays \/ Advances \/ Leaves, Current \in Position,
         stage \notin {"idle", "check"}
  PROVE  \/ EventId(Current) \in processed
         \/ height \in abandoned'
         \/ Current' = Current /\ stage' \notin {"idle", "check"}
<1>1. CASE Stays
  BY <1>1 DEF Stays, Current
<1>2. CASE Advances
  BY <1>2 DEF Advances, BlockInv, EarlierIsDone
<1>3. CASE Leaves
  <2>1. stage # "head"
    <3>1. SUFFICES ASSUME stage = "head" PROVE FALSE
      OBVIOUS
    <3>2. index = Len(Chain[height]) + 1
      BY <3>1 DEF BlockInv, EarlierIsDone
    <3>3. height \in Heights /\ index \in 1..Len(Chain[height]) /\ Len(Chain[height]) \in Nat
      BY PositionParts DEF Current
    <3>4. QED
      BY <3>2, <3>3
  <2>2. QED
    BY <1>3, <2>1 DEF Leaves
<1>4. QED
  BY <1>1, <1>2, <1>3

\* What was dealt with earlier.
LEMMA EarlierAccounted ==
  ASSUME BlockInv, Stays \/ Advances \/ Leaves, processed \subseteq processed',
         NEW p \in Position, EventId(p) \in processed \/ p[1] \in abandoned
  PROVE  EventId(p) \in processed' \/ p[1] \in abandoned'
<1>1. CASE p[1] \notin abandoned \/ Stays \/ Advances
  BY <1>1 DEF Stays, Advances
<1>2. CASE p[1] \in abandoned /\ Leaves
  <2>1. CASE p[1] = height /\ stage = "head"
    <3>1. Done(height)
      BY <2>1, HeadIsDone
    <3>2. p[2] \in 1..Len(Chain[height]) /\ p = <<height, p[2]>>
      BY <2>1, PositionParts
    <3>3. EventId(<<height, p[2]>>) \in processed
      BY <3>1, <3>2 DEF Done
    <3>4. QED
      BY <3>2, <3>3
  <2>2. QED
    BY <1>2, <2>1 DEF Leaves
<1>3. QED
  BY <1>1, <1>2

LEMMA AccountedStep ==
  ASSUME AgainInv, Stays \/ Advances \/ Leaves, processed \subseteq processed',
         \A p \in Position : p \in applied' \cup dlq' =>
           \/ Accounted(p)
           \/ p = Current /\ stage \notin {"idle", "check"}
  PROVE  AccountedIsDone'
<1> SUFFICES ASSUME NEW p \in Position, p \in applied' \cup dlq'
             PROVE  \/ EventId(p) \in processed'
                    \/ p[1] \in abandoned'
                    \/ p = Current' /\ stage' \notin {"idle", "check"}
  BY DEF AccountedIsDone, Accounted, EventId, Event
<1>1. CASE EventId(p) \in processed \/ p[1] \in abandoned
  BY <1>1, EarlierAccounted DEF AgainInv
<1>2. CASE p = Current /\ stage \notin {"idle", "check"}
  <2>1. p[1] = height
    BY <1>2 DEF Current
  <2>2. \/ EventId(p) \in processed
        \/ p[1] \in abandoned'
        \/ p = Current' /\ stage' \notin {"idle", "check"}
    BY <1>2, <2>1, AtHandIsDone DEF AgainInv
  <2>3. QED
    BY <2>2
<1>3. QED
  BY <1>1, <1>2 DEF AgainInv, AccountedIsDone

LEMMA RecordedStep ==
  ASSUME AgainInv, ProcessEvent
  PROVE  AppliedIsRecorded'
<1>1. CASE Stays
  <2>1. SUFFICES ASSUME stage' \in {"apply", "mark", "commit"}, height \notin abandoned
                 PROVE  \/ ~ (Current \in applied' \/ Current \in dlq')
                        \/ sensorState'[Event(Current).sensor] = RecordOf(Current)
    <3>1. Current' = Current /\ height' = height /\ abandoned' = abandoned
      BY <1>1 DEF Stays, Current
    <3>2. Event(Current)' = Event(Current) /\ RecordOf(Current)' = RecordOf(Current)
      BY <3>1 DEF Event, RecordOf, Update
    <3>3. QED
      BY <2>1, <3>1, <3>2 DEF AppliedIsRecorded, Accounted
  <2>2. stage \in {"check", "apply", "mark", "commit"} /\ dlq' = dlq
    BY <1>1, <2>1, ProcessEffects DEF Stays, CallEffects
  <2>3. Current \in Position /\ height = Current[1]
    BY <2>2 DEF AgainInv, BlockInv, TypeOK, Current
  <2>4. CASE stage = "apply" /\ sensorState' = [sensorState EXCEPT ![Event(Current).sensor] = RecordOf(Current)]
    <3>1. Event(Current).sensor \in Sensors
      BY <2>3, <2>4, MappedSensor DEF AgainInv, BlockInv, TypeOK
    <3>2. QED
      BY <2>4, <3>1 DEF AgainInv, BlockInv, TypeOK
  <2>5. CASE UNCHANGED <<sensorState, applied>>
    <3>1. CASE stage = "check"
      <4>1. EventId(Current) \notin processed
        BY <1>1, <2>1, <3>1 DEF Stays
      <4>2. ~ Accounted(Current)
        BY <2>1, <2>3, <3>1, <4>1 DEF AgainInv, AccountedIsDone
      <4>3. QED
        BY <2>2, <2>5, <4>2 DEF Accounted
    <3>2. CASE stage \in {"apply", "mark", "commit"}
      BY <2>1, <2>2, <2>5, <3>2 DEF AgainInv, AppliedIsRecorded, Accounted
    <3>3. QED
      BY <2>2, <3>1, <3>2
  <2>6. QED
    BY <2>4, <2>5, ProcessEffects DEF CallEffects
<1>2. CASE Advances \/ Leaves
  BY <1>2 DEF Advances, Leaves, GoToEvent, Idle, AppliedIsRecorded
<1>3. QED
  BY <1>1, <1>2, ProcessMoves

LEMMA AgainOpenOrEnd ==
  ASSUME AgainInv, OpenOrEnd
  PROVE  AccountedIsDone' /\ AppliedIsRecorded'
<1>1. UNCHANGED store /\ UNCHANGED applied
  BY OpenOrEndMoves DEF AgainInv, BlockInv
<1>2. CASE Rests
  BY <1>1, <1>2 DEF Rests, store, job, AgainInv, AccountedIsDone, AppliedIsRecorded,
                    Accounted, Current, EventId, Event, RecordOf, Update
<1>3. CASE stage = "idle" /\ abandoned \subseteq abandoned' /\ stage' \in {"idle", "check", "head"}
  BY <1>1, <1>3 DEF store, AgainInv, AccountedIsDone, AppliedIsRecorded, Accounted,
                    EventId, Event
<1>4. CASE Leaves
  <2>1. AccountedIsDone'
    BY <1>1, <1>4, AccountedStep DEF store, Accounted
  <2>2. QED
    BY <1>4, <2>1 DEF Leaves, Idle, AppliedIsRecorded
<1>5. QED
  BY <1>2, <1>3, <1>4, OpenOrEndMoves
  DEF AgainInv, BlockInv, Opens, Skips, PassesTo, Ends, Idle, GoToEvent, job

LEMMA AgainStep == AgainInv /\ [Next]_vars => AgainInv'
<1> SUFFICES ASSUME AgainInv, [Next]_vars PROVE AgainInv'
  OBVIOUS
<1>1. BlockInv'
  BY BlockStep DEF AgainInv
<1>2. CASE ProcessEvent
  <2>1. processed \subseteq processed'
    BY <1>2, ProcessEffects, EffectsGrow
  <2>2. \A p \in Position : p \in applied' \cup dlq' =>
           Accounted(p) \/ (p = Current /\ stage \notin {"idle", "check"})
    BY <1>2, ProcessEffects DEF CallEffects, Accounted
  <2>3. AccountedIsDone'
    BY <1>2, <2>1, <2>2, AccountedStep, ProcessMoves
  <2>4. QED
    BY <1>1, <1>2, <2>3, RecordedStep DEF AgainInv
<1>3. CASE OpenOrEnd
  BY <1>1, <1>3, AgainOpenOrEnd DEF AgainInv
<1>4. CASE UNCHANGED vars
  BY <1>1, <1>4
  DEF vars, store, job, AgainInv, AccountedIsDone, AppliedIsRecorded, Accounted,
      Current, EventId, Event, RecordOf, Update
<1>5. QED
  BY <1>2, <1>3, <1>4, StepKinds

LEMMA AgainInvariant == Spec => []AgainInv
<1>1. Init => AgainInv
  BY BlockInit DEF Init, AgainInv, AccountedIsDone, AppliedIsRecorded, Accounted
<1>2. QED
  BY <1>1, AgainStep, PTL DEF Spec

\* The event at hand as Projection sees it.
LEMMA AtHand ==
  ASSUME BlockInv, stage \notin {"idle", "head"}
  PROVE  Current \in Position /\ height \in Heights
         /\ index \in Nat /\ Len(Chain[height]) \in Nat /\ index <= Len(Chain[height])
<1>1. Current \in Position
  BY DEF BlockInv, TypeOK
<1>2. height \in Heights /\ index \in 1..Len(Chain[height]) /\ Len(Chain[height]) \in Nat
  BY <1>1, PositionParts DEF Current
<1>3. QED
  BY <1>1, <1>2

LEMMA AtHead ==
  ASSUME BlockInv, stage = "head"
  PROVE  index > Len(Chain[height])
<1>1. index = Len(Chain[height]) + 1 /\ Len(Chain[height]) \in Nat
  BY DEF BlockInv, EarlierIsDone, TypeOK
<1>2. QED
  BY <1>1

\* A call on Redis shows as one effect, or as none.
LEMMA CallIsEffect ==
  ASSUME IInv, AgainInv, ProcessEvent
  PROVE  Promise!Effect
<1>1. BlockInv /\ TypeOK
  BY DEF IInv, BlockInv
<1>2. CASE /\ stage = "apply"
           /\ sensorState' = [sensorState EXCEPT ![Event(Current).sensor] = RecordOf(Current)]
           /\ applied' = applied \cup {Current}
  <2>1. /\ index <= Len(Chain[height]) /\ Event(Current).sensor \in Sensors
        /\ Event(Current) = Chain[height][index]
    <3>1. Current \in Position /\ index <= Len(Chain[height])
      BY <1>1, <1>2, AtHand
    <3>2. Event(Current).sensor \in Sensors
      BY <1>1, <1>2, <3>1, MappedSensor DEF TypeOK
    <3>3. QED
      BY <3>1, <3>2 DEF Event, Current
  <2>2. UNCHANGED <<cursor, dlq>>
    BY <1>2, ProcessEffects DEF CallEffects
  <2>3. [s \in Sensors |-> sensorState'[s].at]
          = [[s \in Sensors |-> sensorState[s].at] EXCEPT ![Event(Current).sensor] = Current]
    <3>1. RecordOf(Current).at = Current
      BY DEF RecordOf
    <3>2. ASSUME NEW s \in Sensors
          PROVE  sensorState'[s].at = IF s = Event(Current).sensor THEN Current ELSE sensorState[s].at
      BY <1>1, <1>2, <3>1 DEF TypeOK
    <3>3. QED
      BY <3>2
  <2>4. \/ Current \notin applied \cup dlq
        \/ sensorState[Event(Current).sensor].at = Current
        \/ height \in abandoned
    BY <1>2 DEF AgainInv, AppliedIsRecorded, Accounted, RecordOf
  <2>5. applied' \cup dlq' = (applied \cup dlq) \cup {Current}
    BY <1>2, <2>2
  <2>6. Promise!Write
    BY <2>1, <2>2, <2>3, <2>4, <2>5 DEF Promise!Write, Promise!Current, Promise!Subject, Current
  <2>7. QED
    BY <2>6 DEF Promise!Effect
<1>3. CASE stage = "dlq" /\ dlq' = dlq \cup {Current} /\ UNCHANGED <<sensorState, applied>>
  <2>1. index <= Len(Chain[height])
    BY <1>1, <1>3, AtHand
  <2>2. cursor' = cursor /\ applied' \cup dlq' = (applied \cup dlq) \cup {Current}
    BY <1>3, ProcessEffects DEF CallEffects
  <2>3. Promise!DeadLetter
    BY <1>3, <2>1, <2>2 DEF Promise!DeadLetter, Promise!Current, Current
  <2>4. QED
    BY <2>3 DEF Promise!Effect
<1>4. CASE /\ stage \in {"commit", "tailCommit", "head"}
           /\ cursor' = Larger(cursor, height)
           /\ UNCHANGED <<dlq, sensorState, applied>>
  <2>1. index > Len(Chain[height]) \/ Current \in applied \cup dlq
    <3>1. CASE stage = "head"
      BY <1>1, <3>1, AtHead
    <3>2. CASE stage \in {"commit", "tailCommit"}
      <4>1. Current \in Position /\ EventId(Current) \in processed
        BY <1>1, <3>2, AtHand DEF BlockInv, EarlierIsDone
      <4>2. QED
        BY <4>1 DEF IInv, ProcessedIsAccounted, Accounted
    <3>3. QED
      BY <1>4, <3>1, <3>2
  <2>2. Promise!MoveCursor
    BY <1>4, <2>1 DEF Promise!MoveCursor, Promise!Current, Current, Larger
  <2>3. QED
    BY <2>2 DEF Promise!Effect
<1>5. CASE UNCHANGED <<cursor, dlq, sensorState, applied>>
  BY <1>5 DEF Promise!Effect
<1>6. QED
  BY <1>2, <1>3, <1>4, <1>5, ProcessEffects DEF CallEffects

LEMMA MoveIsWork ==
  ASSUME IInv, Stays \/ Advances \/ Leaves
  PROVE  /\ height # 0
         /\ Promise!Stay \/ Promise!Advance \/ Promise!Finish \/ Promise!GiveUp
<1>1. BlockInv /\ TypeOK
  BY DEF IInv, BlockInv
<1>2. stage # "idle" /\ height # 0
  <2>1. stage # "idle"
    BY DEF Stays, Advances, Leaves
  <2>2. height \in Heights
    BY <1>1, <2>1 DEF TypeOK
  <2>3. QED
    BY <2>1, <2>2
<1>3. CASE Stays
  BY <1>2, <1>3 DEF Stays, Promise!Stay
<1>4. CASE Advances
  <2>1. Current \in Position /\ EventId(Current) \in processed /\ index <= Len(Chain[height])
    BY <1>1, <1>4, AtHand DEF Advances, BlockInv, EarlierIsDone
  <2>2. Current \in applied \cup dlq
    BY <2>1 DEF IInv, ProcessedIsAccounted, Accounted
  <2>3. Promise!Advance
    BY <1>4, <2>1, <2>2 DEF Advances, GoToEvent, Promise!Advance, Promise!Current, Current
  <2>4. QED
    BY <1>2, <2>3
<1>5. CASE Leaves
  <2>1. stage = "head" => index > Len(Chain[height])
    BY <1>1, AtHead
  <2>2. QED
    BY <1>2, <1>5, <2>1 DEF Leaves, Idle, Promise!Leave, Promise!Finish, Promise!GiveUp
<1>6. QED
  BY <1>3, <1>4, <1>5

\* A height at or below the frontier is complete or given up while no block
\* is open.
LEMMA FrontierIsComplete ==
  ASSUME IInv, height = 0, NEW k \in 1..frontier
  PROVE  Promise!Complete(k) \/ k \in abandoned
<1>1. k \in Heights /\ k # height
  BY DEF IInv, BlockInv, TypeOK
<1>2. CASE Done(k)
  <2>1. ASSUME NEW i \in 1..Len(Chain[k])
        PROVE  <<k, i>> \in applied \cup dlq
    <3>1. <<k, i>> \in Position
      BY <1>1 DEF Position
    <3>2. QED
      BY <1>2, <3>1 DEF Done, IInv, ProcessedIsAccounted, Accounted
  <2>2. QED
    BY <2>1 DEF Promise!Complete
<1>3. QED
  BY <1>1, <1>2 DEF IInv, BlockInv, FrontierIsSettled, Settled

LEMMA PassesOver ==
  ASSUME IInv, height = 0, NEW h \in Nat, abandoned' = abandoned \cup ((frontier + 1)..(h - 1))
  PROVE  Promise!PassOver(h)
<1>1. cursor \in Nat /\ frontier \in Nat /\ cursor <= frontier
  BY DEF IInv, BlockInv, TypeOK, Bounds
<1>2. (frontier + 1)..(h - 1) \subseteq (cursor + 1)..(h - 1)
  BY <1>1
<1>3. ASSUME NEW k \in 1..(h - 1)
      PROVE  Promise!Complete(k) \/ k \in abandoned'
  <2>1. k \in 1..frontier \/ k \in (frontier + 1)..(h - 1)
    BY <1>1
  <2>2. QED
    BY <2>1, FrontierIsComplete
<1>4. QED
  BY <1>2, <1>3 DEF Promise!PassOver

LEMMA OpenOrEndProjects ==
  ASSUME IInv, OpenOrEnd
  PROVE  Promise!Next \/ UNCHANGED Promise!vars
<1>1. BlockInv /\ TypeOK /\ (stage = "idle" => height = 0 /\ index = 0)
  BY DEF IInv, BlockInv, TypeOK
<1>2. UNCHANGED <<cursor, sensorState, applied, dlq>>
  BY <1>1, OpenOrEndMoves DEF store, BlockInv
<1>3. CASE Rests
  BY <1>2, <1>3 DEF Rests, job, Promise!vars
<1>4. ASSUME NEW h \in Heights, Opens(h)
      PROVE  Promise!Next
  <2>1. height = 0 /\ height' = h /\ index' = 1
    BY <1>1, <1>4 DEF Opens, PassesTo, GoToEvent
  <2>2. Promise!PassOver(h)
    BY <1>4, <2>1, PassesOver DEF Opens
  <2>3. Promise!Open(h)
    BY <1>2, <2>1, <2>2 DEF Promise!Open
  <2>4. QED
    BY <2>3, ChainAssumption DEF Promise!Next, Promise!Heights
<1>5. ASSUME NEW h \in Heights, Skips(h)
      PROVE  Promise!Next
  <2>1. height = 0 /\ UNCHANGED <<height, index>>
    BY <1>1, <1>5 DEF Skips, PassesTo, job
  <2>2. h + 1 \in Nat /\ (h + 1) - 1 = h
    OBVIOUS
  <2>3. abandoned' = abandoned \cup ((frontier + 1)..((h + 1) - 1))
    BY <1>5, <2>2 DEF Skips
  <2>4. Promise!PassOver(h + 1)
    BY <2>1, <2>2, <2>3, PassesOver
  <2>5. Promise!Miss(h)
    BY <1>2, <2>1, <2>4 DEF Promise!Miss
  <2>6. QED
    BY <2>5, ChainAssumption DEF Promise!Next, Promise!Heights
<1>6. CASE Ends
  <2>1. CASE stage = "idle" /\ UNCHANGED abandoned
    BY <1>1, <1>2, <1>6, <2>1 DEF Ends, Idle, Promise!vars
  <2>2. CASE Leaves
    <3>1. Promise!Effect
      BY <1>2 DEF Promise!Effect
    <3>2. QED
      BY <2>2, <3>1, MoveIsWork DEF Leaves, Idle, Promise!Work, Promise!Next
  <2>3. QED
    BY <1>6, <2>1, <2>2 DEF Ends
<1>7. QED
  BY <1>1, <1>3, <1>4, <1>5, <1>6, OpenOrEndMoves DEF BlockInv

LEMMA ProjectionNext ==
  ASSUME IInv, AgainInv, [Next]_vars
  PROVE  [Promise!Next]_(Promise!vars)
<1>1. CASE ProcessEvent
  BY <1>1, CallIsEffect, MoveIsWork, ProcessMoves DEF AgainInv, Promise!Work, Promise!Next
<1>2. CASE OpenOrEnd
  BY <1>2, OpenOrEndProjects
<1>3. CASE UNCHANGED vars
  BY <1>3 DEF vars, store, job, Promise!vars
<1>4. QED
  BY <1>1, <1>2, <1>3, StepKinds

\* registry-sync implements Projection for every chain whose event ids are
\* unique, whatever fails and whenever processes die: the retries of
\* processEvent, the promise chain of startFrom and the restarts show only as
\* blocks given up.
THEOREM ServiceProjectsChain ==
  ASSUME UniqueIds
  PROVE  Spec => ProjectsChain
<1>1. Init => Promise!Init
  BY DEF Init, Promise!Init, NoRecord
<1>2. IInv /\ AgainInv /\ [Next]_vars => [Promise!Next]_(Promise!vars)
  BY ProjectionNext
<1>3. QED
  BY <1>1, <1>2, InvInit, InvStep, AgainInvariant, PTL DEF Spec, ProjectsChain, Promise!Spec

\* So it does for the chains the service reads.
THEOREM FittingChainsAreProjected ==
  ASSUME NEW Addresses, NEW Blocks, IsNormalized(Blocks, Addresses)
  PROVE  Spec => ProjectsChain
BY IdsAreUnique, ServiceProjectsChain

-----------------------------------------------------------------------------
(* Where the projection settles after all.                                 *)

\* Every sensor's record is that of the last event applied to it, in the
\* order of the chain.
InOrder ==
  \A p \in applied : /\ Event(p).sensor \in Sensors
                     /\ NotAfter(p, sensorState[Event(p).sensor].at)

LEMMA InOrderStep ==
  ASSUME OrderInv, InOrder, [Next]_vars, height \notin abandoned
  PROVE  InOrder'
<1>1. CASE ProcessEvent
  <2>1. TypeOK
    BY DEF OrderInv, BlockInv
  <2>2. ASSUME NEW p \in applied
        PROVE  /\ Event(p).sensor \in Sensors
               /\ NotAfter(p, sensorState'[Event(p).sensor].at)
    <3>1. /\ Event(p).sensor \in Sensors
          /\ NotAfter(p, sensorState[Event(p).sensor].at)
      BY DEF InOrder
    <3>2. NotAfter(sensorState[Event(p).sensor].at, sensorState'[Event(p).sensor].at)
      BY <1>1, <3>1, WritesGoForward
    <3>3. p[1] \in Nat /\ p[2] \in Nat
      BY <2>1, PositionParts DEF TypeOK
    <3>4. /\ sensorState[Event(p).sensor].at[1] \in Nat
          /\ sensorState[Event(p).sensor].at[2] \in Nat
      BY <2>1, <3>1, RecordNumbers
    <3>5. /\ sensorState'[Event(p).sensor].at[1] \in Nat
          /\ sensorState'[Event(p).sensor].at[2] \in Nat
      <4>1. CASE sensorState'[Event(p).sensor] = sensorState[Event(p).sensor]
        BY <3>4, <4>1
      <4>2. CASE stage = "apply" /\ sensorState'[Event(p).sensor] = RecordOf(Current)
        <5>1. height \in Nat /\ index \in Nat
          BY <2>1, <4>2 DEF TypeOK
        <5>2. sensorState'[Event(p).sensor].at = <<height, index>>
          BY <4>2 DEF RecordOf, Current
        <5>3. QED
          BY <5>1, <5>2
      <4>3. QED
        BY <1>1, <2>1, <3>1, <4>1, <4>2, RecordWrites
    <3>6. QED
      BY <3>1, <3>2, <3>3, <3>4, <3>5, NotAfterTransitive
  <2>3. CASE applied' = applied
    BY <2>2, <2>3 DEF InOrder, NotAfter, Event
  <2>4. CASE /\ stage = "apply"
             /\ sensorState' = [sensorState EXCEPT ![Event(Current).sensor] = RecordOf(Current)]
             /\ applied' = applied \cup {Current}
    <3>1. Current \in Position /\ Event(Current).sensor \in Sensors
      BY <2>1, <2>4, MappedSensor DEF TypeOK
    <3>2. sensorState'[Event(Current).sensor].at = Current
      BY <2>1, <2>4, <3>1 DEF TypeOK, RecordOf
    <3>3. NotAfter(Current, sensorState'[Event(Current).sensor].at)
      BY <3>1, <3>2, PositionParts DEF NotAfter
    <3>4. QED
      BY <2>2, <2>4, <3>1, <3>3 DEF InOrder, NotAfter, Event
  <2>5. QED
    BY <1>1, <2>3, <2>4, ProcessEffects DEF CallEffects
<1>2. CASE OpenOrEnd \/ UNCHANGED vars
  <2>1. applied' = applied /\ sensorState' = sensorState
    BY <1>2, OpenOrEndMoves DEF vars, store, OrderInv, BlockInv
  <2>2. QED
    BY <2>1 DEF InOrder, NotAfter, Event
<1>3. QED
  BY <1>1, <1>2, StepKinds

\* As long as no block given up is run again, the projection is at every
\* moment that of the events applied so far, in the order of the chain, which
\* is more than ProjectionSettles asks: of all the failures only such a replay
\* violates it (commitCursorHeight moves no cursor back, and a restart
\* resumes above it).
THEOREM SettlesUnlessReplayed ==
  Spec /\ [](height \notin abandoned) => []InOrder /\ []ProjectionSettles
<1>1. Init => InOrder
  BY DEF Init, InOrder
<1>2. OrderInv /\ InOrder /\ [Next]_vars /\ height \notin abandoned => InOrder'
  BY InOrderStep
<1>3. InOrder => ProjectionSettles
  BY DEF InOrder, NotAfter, ProjectionSettles
<1>4. QED
  BY <1>1, <1>2, <1>3, OrderInvariant, PTL DEF Spec

=============================================================================
