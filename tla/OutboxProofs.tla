---------------------------- MODULE OutboxProofs ----------------------------
(* Theorems of module Outbox, for every set of events and processors.      *)
EXTENDS Outbox, FiniteSetTheorems, TLAPS

LEMMA TypeInit == Init => TypeOK
  BY OutboxAssumption DEF Init, TypeOK

LEMMA TypeStep == TypeOK /\ [Next]_vars => TypeOK'
<1> SUFFICES ASSUME TypeOK, [Next]_vars
             PROVE  TypeOK'
  OBVIOUS
<1> USE DEF TypeOK
<1>1. ASSUME NEW e \in Events, Store(e)
      PROVE  TypeOK'
  BY <1>1 DEF Store, process, round
<1>2. ASSUME NEW e \in Events, CoolDown(e)
      PROVE  TypeOK'
  BY <1>2 DEF CoolDown, process, round
<1>3. ASSUME DeleteProcessed
      PROVE  TypeOK'
  BY <1>3 DEF DeleteProcessed, process, round
<1>4. ASSUME NEW p \in Processors, PollNothing(p)
      PROVE  TypeOK'
  BY <1>4 DEF PollNothing, vars, table, process, round
<1>5. ASSUME NEW p \in Processors, Fetch(p)
      PROVE  TypeOK'
  BY <1>5 DEF Fetch, Batches, Oldest, Eligible, table, process
<1>6. ASSUME NEW p \in Processors, NEW e \in batch[p],
             NEW outcome \in {"mark", "retry"}, Handle(p, e, outcome)
      PROVE  /\ pc' \in [Processors -> {"poll", "loop", "mark", "retry", "ended"}]
             /\ batch' \in [Processors -> SUBSET Events]
             /\ current' \in [Processors -> SUBSET Events]
             /\ UNCHANGED <<table, process, done, failed, waiting, ahead, aborted>>
  BY <1>6 DEF Handle
<1>7. ASSUME NEW p \in Processors, NothingToPublish(p)
      PROVE  TypeOK'
  BY <1>6, <1>7 DEF NothingToPublish, table, process
<1>8. ASSUME NEW p \in Processors, Publish(p)
      PROVE  TypeOK'
  BY <1>6, <1>8 DEF Publish, table, process
<1>9. ASSUME NEW p \in Processors, ProducerNotStarted(p)
      PROVE  TypeOK'
  BY <1>6, <1>9 DEF ProducerNotStarted, table, process
<1>10. ASSUME NEW p \in Processors, PublishFails(p)
       PROVE  TypeOK'
  BY <1>6, <1>10 DEF PublishFails, Fault, table, process
<1>11. ASSUME NEW p \in Processors, MarkProcessed(p)
       PROVE  TypeOK'
  BY <1>11 DEF MarkProcessed, table, process
<1>12. ASSUME NEW p \in Processors, IncrementRetry(p)
       PROVE  TypeOK'
  BY <1>12 DEF IncrementRetry, table, process
<1>13. ASSUME NEW p \in Processors, WaitForLock(p)
       PROVE  TypeOK'
  BY <1>13 DEF WaitForLock, Ahead, table, process
<1>14. ASSUME NEW p \in Processors, Abort(p), faults' \in Nat
       PROVE  TypeOK'
  BY <1>14 DEF Abort, Release, Lost, table, process
<1>15. ASSUME NEW p \in Processors, NEW next \in {"poll", "ended"}, CloseRound(p, next)
       PROVE  /\ pc' \in [Processors -> {"poll", "loop", "mark", "retry", "ended"}]
              /\ batch' \in [Processors -> SUBSET Events]
              /\ current' \in [Processors -> SUBSET Events]
              /\ done' \in [Processors -> SUBSET Events]
              /\ failed' \in [Processors -> SUBSET Events]
              /\ waiting' \subseteq Processors
              /\ ahead' \in [Processors -> SUBSET Processors]
              /\ aborted' \in [Processors -> BOOLEAN]
  BY <1>15 DEF CloseRound, Release
<1>16. ASSUME NEW p \in Processors, Commit(p)
       PROVE  TypeOK'
  BY <1>15, <1>16 DEF Commit, RetriesAfter, Locks, process
<1>17. ASSUME NEW p \in Processors, CommitFails(p)
       PROVE  TypeOK'
  BY <1>15, <1>17 DEF CommitFails, Fault, Lost, table, process
<1>18. ASSUME NEW p \in Processors, Terminate(p), faults' \in Nat
       PROVE  TypeOK'
  BY <1>15, <1>18 DEF Terminate, Lost, table
<1>19. ASSUME NEW p \in Processors, Boot(p) \/ StartProducer(p) \/ Stop(p) \/ StopProducer(p)
       PROVE  TypeOK'
<2>1. CASE Boot(p)
    BY <2>1, OutboxAssumption DEF Boot, table, round
<2>2. CASE StartProducer(p)
    BY <2>2 DEF StartProducer, table, round
<2>3. CASE Stop(p)
    BY <2>3 DEF Stop, Fault, table, round
<2>4. CASE StopProducer(p)
    BY <2>4 DEF StopProducer, table, round
<2> QED
    BY <1>19, <2>1, <2>2, <2>3, <2>4
<1>20. ASSUME NEW p \in Processors, LoopEnds(p)
       PROVE  TypeOK'
  BY <1>20 DEF LoopEnds, table, process
<1>21. ASSUME NEW p \in Processors,
              StatementFails(p) \/ DeadlockVictim(p) \/ Exit(p) \/ Crash(p)
       PROVE  TypeOK'
  BY <1>14, <1>18, <1>21 DEF StatementFails, DeadlockVictim, Exit, Crash, Fault
<1>22. ASSUME UNCHANGED vars
       PROVE  TypeOK'
  BY <1>22 DEF vars, table, process, round
<1> QED
  BY <1>1, <1>2, <1>3, <1>4, <1>5, <1>7, <1>8, <1>9, <1>10, <1>11, <1>12, <1>13, <1>16,
   <1>17, <1>19, <1>20, <1>21, <1>22
  DEF Next, RoundStep, LifeStep, FaultStep

\* Every variable of the outbox stays in its range.
THEOREM TypeCorrect == Spec => []TypeOK
  BY TypeInit, TypeStep, PTL DEF Spec

-----------------------------------------------------------------------------
(* NothingLost.  A row is settled by the commit of a batch that marked it, *)
(* so the argument follows the mark backwards: what a batch has marked, or *)
(* is about to mark, was sent - also when the batch's transaction is gone. *)

SentBeforeMarked ==
    /\ \A p \in Processors : \A e \in done[p] \cap MustPublish : sent[e] > 0
    /\ \A p \in Processors : pc[p] = "mark" =>
          \A e \in current[p] \cap MustPublish : sent[e] > 0

LossInv == TypeOK /\ NothingLost /\ SentBeforeMarked

\* The publication counts only grow.
LEMMA SentGrows ==
    ASSUME TypeOK, [Next]_vars, NEW e \in Events
    PROVE  sent'[e] >= sent[e]
<1> USE DEF TypeOK
<1>1. ASSUME NEW p \in Processors, Publish(p)
      PROVE  sent'[e] >= sent[e]
  BY <1>1 DEF Publish
<1>2. ASSUME NEW p \in Processors, PublishFails(p)
      PROVE  sent'[e] >= sent[e]
  BY <1>2 DEF PublishFails
<1>3. ASSUME sent' = sent
      PROVE  sent'[e] >= sent[e]
  BY <1>3
<1> QED
  BY <1>1, <1>2, <1>3
  DEF Next, RoundStep, LifeStep, FaultStep, Store, CoolDown, DeleteProcessed, PollNothing,
      Fetch, NothingToPublish, ProducerNotStarted, MarkProcessed, IncrementRetry, WaitForLock,
      DeadlockVictim, StatementFails, Abort, Commit, CommitFails, Boot, StartProducer,
      LoopEnds, StopProducer, Exit, Crash, Terminate, Stop, vars

\* A step that marks nothing new and adds no row to those settled preserves the rest.
LEMMA QuietStep ==
    ASSUME LossInv, [Next]_vars,
           processed' \cup purged' \subseteq processed \cup purged,
           \A p \in Processors : done'[p] \subseteq done[p],
           \A p \in Processors : pc'[p] = "mark" =>
               pc[p] = "mark" /\ current'[p] \subseteq current[p]
    PROVE  NothingLost' /\ SentBeforeMarked'
<1>1. /\ processed \cup purged \subseteq Events
      /\ \A p \in Processors : done[p] \subseteq Events /\ current[p] \subseteq Events
      /\ sent \in [Events -> Nat]
  BY DEF LossInv, TypeOK
<1>2. \A e \in Events : sent[e] > 0 => sent'[e] > 0
  BY <1>1, SentGrows, TypeStep DEF LossInv, TypeOK
<1> QED
  BY <1>1, <1>2 DEF LossInv, NothingLost, SentBeforeMarked

LEMMA LossInit == Init => LossInv
  BY TypeInit DEF Init, LossInv, NothingLost, SentBeforeMarked

LEMMA LossStep == LossInv /\ [Next]_vars => LossInv'
<1> SUFFICES ASSUME LossInv, [Next]_vars
             PROVE  NothingLost' /\ SentBeforeMarked'
  BY TypeStep DEF LossInv
<1>0. TypeOK /\ TypeOK'
  BY TypeStep DEF LossInv
<1>1. ASSUME UNCHANGED <<processed, purged, round>>
      PROVE  NothingLost' /\ SentBeforeMarked'
  BY <1>1, QuietStep DEF round
<1>2. ASSUME DeleteProcessed
      PROVE  NothingLost' /\ SentBeforeMarked'
  BY <1>2, QuietStep DEF DeleteProcessed, round
<1>3. ASSUME NEW p \in Processors,
             Fetch(p) \/ ProducerNotStarted(p) \/ PublishFails(p) \/ IncrementRetry(p)
               \/ WaitForLock(p) \/ LoopEnds(p)
      PROVE  NothingLost' /\ SentBeforeMarked'
  BY <1>0, <1>3, QuietStep
  DEF Fetch, ProducerNotStarted, PublishFails, Handle, IncrementRetry, WaitForLock, LoopEnds,
      table, TypeOK
<1>4. ASSUME NEW p \in Processors, Abort(p)
      PROVE  NothingLost' /\ SentBeforeMarked'
  BY <1>0, <1>4, QuietStep DEF Abort, table, TypeOK
<1>5. ASSUME NEW p \in Processors, CommitFails(p) \/ Terminate(p)
      PROVE  NothingLost' /\ SentBeforeMarked'
  BY <1>0, <1>5, QuietStep DEF CommitFails, Terminate, CloseRound, table, TypeOK
<1>6. ASSUME NEW p \in Processors, NothingToPublish(p)
      PROVE  NothingLost' /\ SentBeforeMarked'
  BY <1>0, <1>6 DEF NothingToPublish, Handle, LossInv, NothingLost, SentBeforeMarked, table,
                    TypeOK
<1>7. ASSUME NEW p \in Processors, Publish(p)
      PROVE  NothingLost' /\ SentBeforeMarked'
  <2>1. PICK e \in batch[p] \cap MustPublish :
            Handle(p, e, "mark") /\ sent' = [sent EXCEPT ![e] = @ + 1]
    BY <1>7 DEF Publish
  <2>2. /\ sent'[e] > 0
        /\ \A f \in Events : sent[f] > 0 => sent'[f] > 0
    BY <1>0, <2>1 DEF TypeOK
  <2>3. /\ UNCHANGED <<processed, purged, done>>
        /\ current'[p] = {e} /\ \A q \in Processors \ {p} :
               current'[q] = current[q] /\ pc'[q] = pc[q]
    BY <1>0, <2>1 DEF Handle, table, TypeOK
  <2> QED
    BY <1>0, <2>2, <2>3 DEF LossInv, NothingLost, SentBeforeMarked, TypeOK
<1>8. ASSUME NEW p \in Processors, MarkProcessed(p)
      PROVE  NothingLost' /\ SentBeforeMarked'
  BY <1>0, <1>8 DEF MarkProcessed, LossInv, NothingLost, SentBeforeMarked, table, TypeOK
<1>9. ASSUME NEW p \in Processors, Commit(p)
      PROVE  NothingLost' /\ SentBeforeMarked'
  BY <1>0, <1>9 DEF Commit, CloseRound, LossInv, NothingLost, SentBeforeMarked, TypeOK
<1> QED
  <2>1. ASSUME NEW e \in Events, Store(e) \/ CoolDown(e)
        PROVE  UNCHANGED <<processed, purged, round>>
    BY <2>1 DEF Store, CoolDown
  <2>2. ASSUME NEW p \in Processors,
               PollNothing(p) \/ Boot(p) \/ StartProducer(p) \/ Stop(p) \/ StopProducer(p)
        PROVE  UNCHANGED <<processed, purged, round>>
    BY <2>2 DEF PollNothing, Boot, StartProducer, Stop, StopProducer, vars, table
  <2>3. ASSUME UNCHANGED vars
        PROVE  UNCHANGED <<processed, purged, round>>
    BY <2>3 DEF vars, table
  <2> QED
    BY <1>1, <1>2, <1>3, <1>4, <1>5, <1>6, <1>7, <1>8, <1>9, <2>1, <2>2, <2>3
    DEF Next, RoundStep, LifeStep, FaultStep, DeadlockVictim, StatementFails, Exit, Crash

\* A row counts as processed, or is deleted, only after its event reached Kafka.
THEOREM NoEventLost == Spec => []NothingLost
<1>1. LossInv => NothingLost
  BY DEF LossInv
<1> QED
  BY <1>1, LossInit, LossStep, PTL DEF Spec

-----------------------------------------------------------------------------
(* RetryBound.  The limit is checked when a batch is read.  From then on a *)
(* processor owes the row at most one more attempt, so the attempts made   *)
(* and the processors that hold the row are counted together.              *)

RetryBudget ==
    \A e \in Events :
        retries[e] + Cardinality(Holders(e)) < MaxRetries + Cardinality(Processors)

RetryInv == TypeOK /\ RetryBudget

LEMMA HoldersBounded ==
    ASSUME NEW S \in SUBSET Processors
    PROVE  Cardinality(S) \in Nat /\ Cardinality(S) <= Cardinality(Processors)
                                 /\ Cardinality(Processors) \in Nat
  BY FS_Subset, FS_CardinalityType, OutboxAssumption

\* The row e keeps its budget when no attempt is added and nobody else takes it up.
LEMMA BudgetKept ==
    ASSUME RetryInv, TypeOK', NEW e \in Events,
           retries'[e] <= retries[e], Holders(e)' \subseteq Holders(e)
    PROVE  retries'[e] + Cardinality(Holders(e)') < MaxRetries + Cardinality(Processors)
<1>1. Holders(e) \in SUBSET Processors /\ Holders(e)' \in SUBSET Processors
  BY DEF Holders
<1>2. IsFiniteSet(Holders(e))
  BY <1>1, FS_Subset, OutboxAssumption
<1>3. Cardinality(Holders(e)') <= Cardinality(Holders(e))
  BY <1>2, FS_Subset
<1>4. retries[e] \in Nat /\ retries'[e] \in Nat
  BY DEF RetryInv, TypeOK
<1>5. retries[e] + Cardinality(Holders(e)) < MaxRetries + Cardinality(Processors)
  BY DEF RetryInv, RetryBudget
<1> QED
  BY <1>1, <1>3, <1>4, <1>5, HoldersBounded, OutboxAssumption

\* A step of p on its own round: it takes up no row, the other rounds stay as they are.
LEMMA NothingTakenUp ==
    ASSUME RetryInv, TypeOK', NEW p \in Processors, retries' = retries,
           batch'[p] \cup current'[p] \cup failed'[p]
               \subseteq batch[p] \cup current[p] \cup failed[p],
           \A q \in Processors \ {p} :
               batch'[q] = batch[q] /\ current'[q] = current[q] /\ failed'[q] = failed[q]
    PROVE  RetryBudget'
<1> SUFFICES ASSUME NEW e \in Events
             PROVE  retries'[e] + Cardinality(Holders(e)') < MaxRetries + Cardinality(Processors)
  BY DEF RetryBudget
<1>1. Holders(e)' \subseteq Holders(e)
  BY DEF Holders
<1> QED
  BY <1>1, BudgetKept DEF RetryInv, TypeOK

LEMMA RetryInit == Init => RetryInv
<1> SUFFICES ASSUME Init, NEW e \in Events
             PROVE  retries[e] + Cardinality(Holders(e)) < MaxRetries + Cardinality(Processors)
  BY TypeInit DEF RetryInv, RetryBudget
<1>1. retries[e] = 0 /\ Holders(e) = {}
  BY DEF Init, Holders
<1> QED
  BY <1>1, FS_EmptySet, FS_CardinalityType, OutboxAssumption

LEMMA RetryStep == RetryInv /\ [Next]_vars => RetryInv'
<1> SUFFICES ASSUME RetryInv, [Next]_vars
             PROVE  RetryBudget'
  BY TypeStep DEF RetryInv
<1>0. TypeOK /\ TypeOK'
  BY TypeStep DEF RetryInv
<1>1. ASSUME UNCHANGED <<retries, batch, current, failed>>
      PROVE  RetryBudget'
  BY <1>1 DEF RetryInv, RetryBudget, Holders
<1>2. ASSUME NEW p \in Processors, Fetch(p)
      PROVE  RetryBudget'
  <2> SUFFICES ASSUME NEW e \in Events
               PROVE  retries'[e] + Cardinality(Holders(e)')
                          < MaxRetries + Cardinality(Processors)
    BY DEF RetryBudget
  <2>1. /\ retries' = retries /\ current' = current /\ failed' = failed
        /\ batch'[p] \subseteq Eligible
        /\ \A q \in Processors \ {p} : batch'[q] = batch[q]
    BY <1>0, <1>2 DEF Fetch, Batches, Oldest, table, TypeOK
  <2>2. CASE e \in Eligible
    <3>1. retries'[e] < MaxRetries /\ retries'[e] \in Nat
      BY <1>0, <2>1, <2>2 DEF Eligible, TypeOK
    <3>2. Holders(e)' \in SUBSET Processors
      BY DEF Holders
    <3> QED
      BY <3>1, <3>2, HoldersBounded, OutboxAssumption
  <2>3. CASE e \notin Eligible
    <3>1. Holders(e)' \subseteq Holders(e)
      BY <2>1, <2>3 DEF Holders
    <3> QED
      BY <1>0, <2>1, <3>1, BudgetKept DEF TypeOK
  <2> QED
    BY <2>2, <2>3
<1>3. ASSUME NEW p \in Processors,
             NothingToPublish(p) \/ Publish(p) \/ ProducerNotStarted(p) \/ PublishFails(p)
      PROVE  RetryBudget'
  <2>1. PICK e \in batch[p], outcome \in {"mark", "retry"} : Handle(p, e, outcome)
    BY <1>3 DEF NothingToPublish, Publish, ProducerNotStarted, PublishFails
  <2> QED
    BY <1>0, <2>1, NothingTakenUp DEF Handle, table, TypeOK
<1>4. ASSUME NEW p \in Processors, MarkProcessed(p) \/ IncrementRetry(p) \/ Abort(p)
      PROVE  RetryBudget'
  BY <1>0, <1>4, NothingTakenUp DEF MarkProcessed, IncrementRetry, Abort, table, TypeOK
<1>5. ASSUME NEW p \in Processors, CommitFails(p) \/ Terminate(p)
      PROVE  RetryBudget'
  BY <1>0, <1>5, NothingTakenUp DEF CommitFails, Terminate, CloseRound, table, TypeOK
<1>6. ASSUME NEW p \in Processors, Commit(p)
      PROVE  RetryBudget'
  <2> SUFFICES ASSUME NEW e \in Events
               PROVE  retries'[e] + Cardinality(Holders(e)')
                          < MaxRetries + Cardinality(Processors)
    BY DEF RetryBudget
  <2>1. /\ retries' = RetriesAfter(p)
        /\ Holders(e)' = Holders(e) \ {p}
    BY <1>0, <1>6 DEF Commit, CloseRound, Holders, TypeOK
  <2>2. Holders(e) \in SUBSET Processors /\ Holders(e)' \in SUBSET Processors
    BY DEF Holders
  <2>3. CASE e \in Locks(p) \cap done[p]
    <3>1. retries'[e] = 0
      BY <2>1, <2>3 DEF RetriesAfter
    <3>2. Cardinality(Holders(e)') <= Cardinality(Processors)
      BY <2>2, HoldersBounded
    <3> QED
      BY <2>2, <3>1, <3>2, HoldersBounded, OutboxAssumption
  <2>4. CASE e \in (Locks(p) \cap failed[p]) \ done[p]
    <3>1. retries'[e] = retries[e] + 1 /\ p \in Holders(e)
      BY <2>1, <2>4 DEF RetriesAfter, Holders
    <3>2. IsFiniteSet(Holders(e))
      BY <2>2, FS_Subset, OutboxAssumption
    <3>3. Cardinality(Holders(e)') = Cardinality(Holders(e)) - 1
      BY <2>1, <3>1, <3>2, FS_RemoveElement
    <3>4. retries[e] + Cardinality(Holders(e)) < MaxRetries + Cardinality(Processors)
      BY DEF RetryInv, RetryBudget
    <3>5. retries[e] \in Nat
      BY <1>0 DEF TypeOK
    <3> QED
      BY <2>2, <3>1, <3>3, <3>4, <3>5, HoldersBounded, OutboxAssumption
  <2>5. CASE e \notin Locks(p) \cap (done[p] \cup failed[p])
    <3>1. retries'[e] = retries[e]
      BY <2>1, <2>5 DEF RetriesAfter
    <3>2. retries'[e] <= retries[e] /\ Holders(e)' \subseteq Holders(e)
      BY <1>0, <2>1, <3>1 DEF TypeOK
    <3> QED
      BY <1>0, <3>2, BudgetKept
  <2> QED
    BY <2>3, <2>4, <2>5
<1> QED
  <2>1. ASSUME NEW e \in Events, Store(e) \/ CoolDown(e)
        PROVE  UNCHANGED <<retries, batch, current, failed>>
    BY <2>1 DEF Store, CoolDown, round
  <2>2. ASSUME NEW p \in Processors,
               PollNothing(p) \/ WaitForLock(p) \/ LoopEnds(p)
                 \/ Boot(p) \/ StartProducer(p) \/ Stop(p) \/ StopProducer(p)
        PROVE  UNCHANGED <<retries, batch, current, failed>>
    BY <2>2 DEF PollNothing, WaitForLock, LoopEnds, Boot, StartProducer, Stop, StopProducer,
                vars, table, round
  <2>3. ASSUME DeleteProcessed \/ UNCHANGED vars
        PROVE  UNCHANGED <<retries, batch, current, failed>>
    BY <2>3 DEF DeleteProcessed, vars, table, round
  <2> QED
    BY <1>1, <1>2, <1>3, <1>4, <1>5, <1>6, <2>1, <2>2, <2>3
    DEF Next, RoundStep, LifeStep, FaultStep, DeadlockVictim, StatementFails, Exit, Crash

\* Whatever the interleaving, retry_count exceeds MAX_RETRIES by less than the number of
\* processors on the table.
THEOREM RetriesBounded == Spec => []RetryBound
<1>1. RetryInv => RetryBound
  <2> SUFFICES ASSUME RetryInv, NEW e \in Events
               PROVE  retries[e] < MaxRetries + Cardinality(Processors)
    BY DEF RetryBound
  <2>1. Holders(e) \in SUBSET Processors
    BY DEF Holders
  <2> QED
    BY <2>1, HoldersBounded, OutboxAssumption DEF RetryInv, RetryBudget, TypeOK
<1> QED
  BY <1>1, RetryInit, RetryStep, PTL DEF Spec

-----------------------------------------------------------------------------
(* The outbox implements EventDelivery: at-least-once publication.         *)

\* A batch holds rows that were stored, though they may have been deleted since.
BatchStored == \A p \in Processors : batch[p] \subseteq rows \cup purged

DeliveryInv == LossInv /\ BatchStored

LEMMA DeliveryInvInit == Init => DeliveryInv
  BY LossInit DEF Init, DeliveryInv, BatchStored

LEMMA DeliveryInvStep == DeliveryInv /\ [Next]_vars => DeliveryInv'
<1> SUFFICES ASSUME DeliveryInv, [Next]_vars
             PROVE  BatchStored'
  BY LossStep DEF DeliveryInv
<1>0. TypeOK /\ TypeOK'
  BY TypeStep DEF DeliveryInv, LossInv
<1>1. ASSUME rows \cup purged \subseteq rows' \cup purged',
             \A p \in Processors : batch'[p] \subseteq batch[p]
      PROVE  BatchStored'
  BY <1>1 DEF DeliveryInv, BatchStored
<1>2. ASSUME NEW p \in Processors, Fetch(p)
      PROVE  BatchStored'
  BY <1>0, <1>2 DEF Fetch, Batches, Oldest, Eligible, DeliveryInv, BatchStored, table, TypeOK
<1>3. ASSUME NEW p \in Processors,
             NothingToPublish(p) \/ Publish(p) \/ ProducerNotStarted(p) \/ PublishFails(p)
      PROVE  BatchStored'
  <2>1. PICK e \in batch[p], outcome \in {"mark", "retry"} : Handle(p, e, outcome)
    BY <1>3 DEF NothingToPublish, Publish, ProducerNotStarted, PublishFails
  <2> QED
    BY <1>0, <1>1, <2>1 DEF Handle, table, TypeOK
<1>4. ASSUME NEW p \in Processors, Commit(p) \/ CommitFails(p) \/ Terminate(p)
      PROVE  BatchStored'
  BY <1>0, <1>1, <1>4 DEF Commit, CommitFails, Terminate, CloseRound, table, TypeOK
<1>5. ASSUME NEW p \in Processors, MarkProcessed(p) \/ IncrementRetry(p) \/ Abort(p)
      PROVE  BatchStored'
  BY <1>0, <1>1, <1>5 DEF MarkProcessed, IncrementRetry, Abort, table
<1>6. ASSUME NEW p \in Processors,
             PollNothing(p) \/ WaitForLock(p) \/ LoopEnds(p)
               \/ Boot(p) \/ StartProducer(p) \/ Stop(p) \/ StopProducer(p)
      PROVE  BatchStored'
  BY <1>0, <1>1, <1>6 DEF PollNothing, WaitForLock, LoopEnds, Boot, StartProducer, Stop,
                          StopProducer, vars, table, round
<1>7. ASSUME NEW e \in Events, Store(e) \/ CoolDown(e)
      PROVE  BatchStored'
  BY <1>1, <1>7 DEF Store, CoolDown, round
<1>8. ASSUME DeleteProcessed \/ UNCHANGED vars
      PROVE  BatchStored'
  BY <1>1, <1>8 DEF DeleteProcessed, vars, table, round
<1> QED
  BY <1>2, <1>3, <1>4, <1>5, <1>6, <1>7, <1>8
  DEF Next, RoundStep, LifeStep, FaultStep, DeadlockVictim, StatementFails, Exit, Crash

LEMMA DeliveryInitial == Init => Delivery!Init
  BY DEF Init, Delivery!Init

\* Every step of the outbox is a step of EventDelivery, or one it does not see.
LEMMA DeliveryStep == DeliveryInv /\ [Next]_vars => [Delivery!Next]_(Delivery!vars)
<1> SUFFICES ASSUME DeliveryInv, [Next]_vars
             PROVE  Delivery!Next \/ UNCHANGED Delivery!vars
  OBVIOUS
<1>0. TypeOK
  BY DEF DeliveryInv, LossInv
<1>1. ASSUME UNCHANGED <<rows, processed, purged, sent>>
      PROVE  UNCHANGED Delivery!vars
  BY <1>1 DEF Delivery!vars
<1>2. ASSUME NEW e \in Events, Store(e)
      PROVE  Delivery!Next
  <2> DEFINE S == {f \in Events : CreatedAt[f] = CreatedAt[e]} \ (rows \cup purged)
  <2>1. /\ S \in SUBSET (Events \ (rows \cup purged))
        /\ rows' \cup purged' = (rows \cup purged) \cup S
        /\ UNCHANGED <<processed, purged, sent>>
    BY <1>2 DEF Store
  <2>2. Delivery!Store
    BY <2>1 DEF Delivery!Store
  <2> QED
    BY <2>2 DEF Delivery!Next
<1>3. ASSUME NEW p \in Processors, NEW e \in batch[p] \cap MustPublish, NEW n \in Nat,
             sent' = [sent EXCEPT ![e] = @ + n], UNCHANGED <<rows, processed, purged>>
      PROVE  Delivery!Next \/ UNCHANGED Delivery!vars
  <2>1. e \in Events /\ e \in (rows \cup purged) \cap MustPublish
    BY <1>0, <1>3 DEF DeliveryInv, BatchStored, TypeOK
  <2>2. CASE n = 0
    <3>1. sent' = sent
      BY <1>0, <1>3, <2>1, <2>2 DEF TypeOK
    <3> QED
      BY <1>1, <1>3, <3>1
  <2>3. CASE n > 0
    <3>1. {f \in Events : sent'[f] > 0} = {f \in Events : sent[f] > 0} \cup {e}
      BY <1>0, <1>3, <2>1, <2>3 DEF TypeOK
    <3>2. Delivery!Deliver
      BY <1>3, <2>1, <3>1 DEF Delivery!Deliver
    <3> QED
      BY <3>2 DEF Delivery!Next
  <2> QED
    BY <2>2, <2>3
<1>4. ASSUME NEW p \in Processors, Commit(p)
      PROVE  Delivery!Next
  <2> DEFINE S == Locks(p) \cap done[p]
  <2>1. S \subseteq rows /\ S \subseteq done[p] /\ S \subseteq Events
    BY <1>0 DEF Locks, TypeOK
  <2>2. S \cap MustPublish \subseteq {f \in Events : sent[f] > 0}
    BY <2>1 DEF DeliveryInv, LossInv, SentBeforeMarked
  <2>3. /\ processed' \cup purged' = (processed \cup purged) \cup S
        /\ UNCHANGED <<rows, purged, sent>>
    BY <1>4 DEF Commit
  <2>4. Delivery!Settle
    BY <2>1, <2>2, <2>3 DEF Delivery!Settle
  <2> QED
    BY <2>4 DEF Delivery!Next
<1>5. ASSUME DeleteProcessed
      PROVE  UNCHANGED Delivery!vars
  BY <1>0, <1>5 DEF DeleteProcessed, Delivery!vars, TypeOK
<1>6. ASSUME NEW p \in Processors, Publish(p) \/ PublishFails(p)
      PROVE  Delivery!Next \/ UNCHANGED Delivery!vars
  <2>1. PICK e \in batch[p] \cap MustPublish, n \in {0, 1} :
            /\ sent' = [sent EXCEPT ![e] = @ + n]
            /\ UNCHANGED <<rows, processed, purged>>
    BY <1>6 DEF Publish, PublishFails, Handle, table
  <2> QED
    BY <1>3, <2>1
<1> QED
  <2>1. ASSUME NEW p \in Processors,
               Fetch(p) \/ NothingToPublish(p) \/ ProducerNotStarted(p) \/ MarkProcessed(p)
                 \/ IncrementRetry(p) \/ WaitForLock(p) \/ Abort(p) \/ CommitFails(p)
                 \/ Terminate(p) \/ PollNothing(p) \/ LoopEnds(p) \/ Boot(p)
                 \/ StartProducer(p) \/ Stop(p) \/ StopProducer(p)
        PROVE  UNCHANGED <<rows, processed, purged, sent>>
    BY <2>1 DEF Fetch, NothingToPublish, ProducerNotStarted, Handle, MarkProcessed,
                IncrementRetry, WaitForLock, Abort, CommitFails, Terminate, PollNothing,
                LoopEnds, Boot, StartProducer, Stop, StopProducer, vars, table
  <2>2. ASSUME (\E e \in Events : CoolDown(e)) \/ UNCHANGED vars
        PROVE  UNCHANGED <<rows, processed, purged, sent>>
    BY <2>2 DEF CoolDown, vars, table
  <2> QED
    BY <1>1, <1>2, <1>4, <1>5, <1>6, <2>1, <2>2
    DEF Next, RoundStep, LifeStep, FaultStep, DeadlockVictim, StatementFails, Exit, Crash

\* The detailed outbox implements at-least-once delivery.
THEOREM AtLeastOnce == Spec => DeliverySpec
  BY DeliveryInvInit, DeliveryInvStep, DeliveryInitial, DeliveryStep, PTL
  DEF Spec, DeliverySpec, Delivery!Spec

-----------------------------------------------------------------------------
(* DuplicateBound.  As long as an event is not settled, every copy of it   *)
(* that Kafka holds belongs to a round that still covers it - it has       *)
(* marked the event, or is about to, in a transaction that can commit - or *)
(* to an outcome that was lost and counted in redos.  A round whose        *)
(* transaction is aborted was counted when it aborted, and can still send  *)
(* the event: it owes a copy.  Once the event is settled nobody takes it   *)
(* up any more, and only the rounds that hold it can still send it, at     *)
(* most once each.                                                         *)

Covers(p, e) == ~aborted[p] /\ (e \in done[p] \/ (pc[p] = "mark" /\ e \in current[p]))
Owes(p, e)   == aborted[p] /\ e \in batch[p]
Holds(p, e)  == e \in batch[p]

Covering(e) == {p \in Processors : Covers(p, e)}
Owing(e)    == {p \in Processors : Owes(p, e)}
Holding(e)  == {p \in Processors : Holds(p, e)}

Settled(e) == e \in processed \cup purged

\* The form of a round: nothing outside of one, no event in it twice, stored rows only.
RoundShape ==
    \A p \in Processors :
        /\ pc[p] \in {"poll", "ended"} =>
              batch[p] = {} /\ current[p] = {} /\ done[p] = {} /\ ~aborted[p]
        /\ batch[p] \cap (done[p] \cup current[p]) = {}
        /\ batch[p] \cup done[p] \cup current[p] \subseteq rows \cup purged

\* A purged row never comes back: requests store their rows all at once, and only once.
TableShape ==
    /\ rows \cap purged = {}
    /\ \A f \in rows \cup purged : \A g \in Events :
          CreatedAt[f] = CreatedAt[g] => g \in rows \cup purged

SendBudget ==
    \A e \in Events :
        IF Settled(e)
        THEN sent[e] + Cardinality(Holding(e)) <= Cardinality(Processors) + redos
        ELSE sent[e] + Cardinality(Owing(e)) <= Cardinality(Covering(e)) + redos

DuplicateInv == TypeOK /\ RoundShape /\ TableShape /\ SendBudget

-----------------------------------------------------------------------------
(* Counting processors.                                                    *)

One(b) == IF b THEN 1 ELSE 0

\* Two sets of processors that differ in p alone.
LEMMA OneChange ==
    ASSUME NEW S \in SUBSET Processors, NEW T \in SUBSET Processors, NEW p \in Processors,
           S \ {p} = T \ {p}
    PROVE  /\ Cardinality(S) \in Nat /\ Cardinality(T) \in Nat
           /\ Cardinality(T) + One(p \in S) = Cardinality(S) + One(p \in T)
<1>1. ASSUME NEW R \in SUBSET Processors
      PROVE  /\ Cardinality(R) \in Nat /\ Cardinality(R \ {p}) \in Nat
             /\ Cardinality(R) = Cardinality(R \ {p}) + One(p \in R)
  <2>1. IsFiniteSet(R) /\ IsFiniteSet(R \ {p})
    BY FS_Subset, OutboxAssumption
  <2>2. Cardinality(R) \in Nat /\ Cardinality(R \ {p}) \in Nat
    BY <2>1, FS_CardinalityType
  <2>3. CASE p \in R
    BY <2>1, <2>2, <2>3, FS_RemoveElement DEF One
  <2>4. CASE p \notin R
    <3>1. R \ {p} = R
      BY <2>4
    <3> QED
      BY <2>2, <2>4, <3>1 DEF One
  <2> QED
    BY <2>2, <2>3, <2>4
<1>2. /\ Cardinality(S) \in Nat /\ Cardinality(S \ {p}) \in Nat
      /\ Cardinality(S) = Cardinality(S \ {p}) + One(p \in S)
  BY <1>1
<1>3. /\ Cardinality(T) \in Nat
      /\ Cardinality(T) = Cardinality(S \ {p}) + One(p \in T)
  BY <1>1
<1> QED
  BY <1>2, <1>3 DEF One

\* A step of p that leaves every other round and the settled events alone keeps the
\* budget, if it keeps p's share of it.
LEMMA ShareKept ==
    ASSUME DuplicateInv, TypeOK', NEW p \in Processors,
           processed' \cup purged' = processed \cup purged,
           \A q \in Processors \ {p} :
               /\ batch'[q] = batch[q] /\ current'[q] = current[q] /\ done'[q] = done[q]
               /\ pc'[q] = pc[q] /\ aborted'[q] = aborted[q],
           \A e \in Events :
               /\ Settled(e) =>
                    sent'[e] + One(Holds(p, e)') + redos
                        <= sent[e] + One(Holds(p, e)) + redos'
               /\ ~Settled(e) =>
                    sent'[e] + One(Owes(p, e)') + One(Covers(p, e)) + redos
                        <= sent[e] + One(Owes(p, e)) + One(Covers(p, e)') + redos'
    PROVE  SendBudget'
<1> SUFFICES ASSUME NEW e \in Events
             PROVE  IF Settled(e)'
                    THEN sent'[e] + Cardinality(Holding(e)') <= Cardinality(Processors) + redos'
                    ELSE sent'[e] + Cardinality(Owing(e)') <= Cardinality(Covering(e)') + redos'
  BY DEF SendBudget
<1>1. Settled(e)' <=> Settled(e)
  BY DEF Settled
<1>2. /\ sent[e] \in Nat /\ sent'[e] \in Nat /\ redos \in Nat /\ redos' \in Nat
      /\ Cardinality(Processors) \in Nat
  BY HoldersBounded DEF DuplicateInv, TypeOK
<1>3. /\ Cardinality(Holding(e)) \in Nat /\ Cardinality(Holding(e)') \in Nat
      /\ Cardinality(Holding(e)') + One(Holds(p, e)) = Cardinality(Holding(e)) + One(Holds(p, e)')
  <2>1. Holding(e) \in SUBSET Processors /\ Holding(e)' \in SUBSET Processors
    BY DEF Holding
  <2>2. Holding(e) \ {p} = Holding(e)' \ {p}
    BY DEF Holding, Holds
  <2>3. (p \in Holding(e) <=> Holds(p, e)) /\ (p \in Holding(e)' <=> Holds(p, e)')
    BY DEF Holding
  <2> QED
    BY <2>1, <2>2, <2>3, OneChange DEF One
<1>4. /\ Cardinality(Owing(e)) \in Nat /\ Cardinality(Owing(e)') \in Nat
      /\ Cardinality(Owing(e)') + One(Owes(p, e)) = Cardinality(Owing(e)) + One(Owes(p, e)')
  <2>1. Owing(e) \in SUBSET Processors /\ Owing(e)' \in SUBSET Processors
    BY DEF Owing
  <2>2. Owing(e) \ {p} = Owing(e)' \ {p}
    BY DEF Owing, Owes
  <2>3. (p \in Owing(e) <=> Owes(p, e)) /\ (p \in Owing(e)' <=> Owes(p, e)')
    BY DEF Owing
  <2> QED
    BY <2>1, <2>2, <2>3, OneChange DEF One
<1>5. /\ Cardinality(Covering(e)) \in Nat /\ Cardinality(Covering(e)') \in Nat
      /\ Cardinality(Covering(e)') + One(Covers(p, e))
            = Cardinality(Covering(e)) + One(Covers(p, e)')
  <2>1. Covering(e) \in SUBSET Processors /\ Covering(e)' \in SUBSET Processors
    BY DEF Covering
  <2>2. Covering(e) \ {p} = Covering(e)' \ {p}
    BY DEF Covering, Covers
  <2>3. (p \in Covering(e) <=> Covers(p, e)) /\ (p \in Covering(e)' <=> Covers(p, e)')
    BY DEF Covering
  <2> QED
    BY <2>1, <2>2, <2>3, OneChange DEF One
<1>6. /\ One(Holds(p, e)) \in Nat /\ One(Holds(p, e)') \in Nat
      /\ One(Owes(p, e)) \in Nat /\ One(Owes(p, e)') \in Nat
      /\ One(Covers(p, e)) \in Nat /\ One(Covers(p, e)') \in Nat
  BY DEF One
<1>7. IF Settled(e)
      THEN sent[e] + Cardinality(Holding(e)) <= Cardinality(Processors) + redos
      ELSE sent[e] + Cardinality(Owing(e)) <= Cardinality(Covering(e)) + redos
  BY DEF DuplicateInv, SendBudget
<1>8. CASE Settled(e)
  BY <1>1, <1>2, <1>3, <1>6, <1>7, <1>8
<1>9. CASE ~Settled(e)
  BY <1>1, <1>2, <1>4, <1>5, <1>6, <1>7, <1>9
<1> QED
  BY <1>8, <1>9

-----------------------------------------------------------------------------
(* The form of the rounds.                                                 *)

\* A row that was ever stored is in the table or was purged.
LEMMA StoredGrows ==
    ASSUME TypeOK, [Next]_vars
    PROVE  rows \cup purged \subseteq rows' \cup purged'
<1>1. ASSUME NEW e \in Events, Store(e)
      PROVE  rows \cup purged \subseteq rows' \cup purged'
  BY <1>1 DEF Store
<1>2. ASSUME DeleteProcessed
      PROVE  rows \cup purged \subseteq rows' \cup purged'
  BY <1>2 DEF DeleteProcessed
<1>3. ASSUME UNCHANGED <<rows, purged>>
      PROVE  rows \cup purged \subseteq rows' \cup purged'
  BY <1>3
<1> QED
  BY <1>1, <1>2, <1>3
  DEF Next, RoundStep, LifeStep, FaultStep, CoolDown, PollNothing, Fetch, NothingToPublish,
      Publish, PublishFails, Handle, ProducerNotStarted, MarkProcessed, IncrementRetry,
      WaitForLock, DeadlockVictim, StatementFails, Abort, Commit, CommitFails, Boot,
      StartProducer, LoopEnds, StopProducer, Exit, Crash, Terminate, Stop, vars, table

\* The rounds of the other processors keep their form, since they do not change.
LEMMA OneRound ==
    ASSUME TypeOK, TypeOK', RoundShape, [Next]_vars, NEW p \in Processors,
           \A q \in Processors \ {p} :
               /\ batch'[q] = batch[q] /\ current'[q] = current[q] /\ done'[q] = done[q]
               /\ pc'[q] = pc[q] /\ aborted'[q] = aborted[q],
           pc'[p] \in {"poll", "ended"} =>
               batch'[p] = {} /\ current'[p] = {} /\ done'[p] = {} /\ ~aborted'[p],
           batch'[p] \cap (done'[p] \cup current'[p]) = {},
           batch'[p] \cup done'[p] \cup current'[p] \subseteq rows \cup purged
    PROVE  RoundShape'
<1> SUFFICES ASSUME NEW q \in Processors
             PROVE  /\ pc'[q] \in {"poll", "ended"} =>
                          batch'[q] = {} /\ current'[q] = {} /\ done'[q] = {} /\ ~aborted'[q]
                    /\ batch'[q] \cap (done'[q] \cup current'[q]) = {}
                    /\ batch'[q] \cup done'[q] \cup current'[q] \subseteq rows' \cup purged'
  BY DEF RoundShape
<1>1. CASE q = p
  BY <1>1, StoredGrows
<1>2. CASE q # p
  BY <1>2, StoredGrows DEF RoundShape
<1> QED
  BY <1>1, <1>2

LEMMA TableShapeStep ==
    ASSUME TypeOK, TableShape, [Next]_vars
    PROVE  TableShape'
<1>1. ASSUME NEW e \in Events, Store(e)
      PROVE  TableShape'
  <2>1. /\ rows' = rows \cup {f \in Events : CreatedAt[f] = CreatedAt[e]} /\ purged' = purged
        /\ e \notin rows \cup purged
    BY <1>1 DEF Store
  <2>2. \A f \in Events : CreatedAt[f] = CreatedAt[e] => f \notin purged
    BY <2>1 DEF TableShape
  <2> QED
    BY <2>1, <2>2 DEF TableShape
<1>2. ASSUME DeleteProcessed
      PROVE  TableShape'
  <2>1. PICK S \in SUBSET processed : rows' = rows \ S /\ purged' = purged \cup S
    BY <1>2 DEF DeleteProcessed
  <2>2. rows' \cup purged' = rows \cup purged
    BY <2>1 DEF TypeOK
  <2> QED
    BY <2>1, <2>2 DEF TableShape
<1>3. ASSUME UNCHANGED <<rows, purged>>
      PROVE  TableShape'
  BY <1>3 DEF TableShape
<1> QED
  BY <1>1, <1>2, <1>3
  DEF Next, RoundStep, LifeStep, FaultStep, CoolDown, PollNothing, Fetch, NothingToPublish,
      Publish, PublishFails, Handle, ProducerNotStarted, MarkProcessed, IncrementRetry,
      WaitForLock, DeadlockVictim, StatementFails, Abort, Commit, CommitFails, Boot,
      StartProducer, LoopEnds, StopProducer, Exit, Crash, Terminate, Stop, vars, table

LEMMA ShapeStep ==
    ASSUME TypeOK, RoundShape, [Next]_vars
    PROVE  RoundShape'
<1>0. TypeOK'
  BY TypeStep
<1>1. ASSUME UNCHANGED <<pc, batch, current, done, aborted>>
      PROVE  RoundShape'
  BY <1>1, StoredGrows DEF RoundShape
<1>2. ASSUME NEW p \in Processors, Fetch(p)
      PROVE  RoundShape'
  <2>1. batch'[p] \subseteq rows
    BY <1>2 DEF Fetch, Batches, Oldest, Eligible, TypeOK
  <2>2. \A q \in Processors \ {p} :
            /\ batch'[q] = batch[q] /\ current'[q] = current[q] /\ done'[q] = done[q]
            /\ pc'[q] = pc[q] /\ aborted'[q] = aborted[q]
    BY <1>2 DEF Fetch, TypeOK
  <2>3. pc'[p] = "loop" /\ current'[p] = {} /\ done'[p] = {}
    BY <1>2 DEF Fetch, RoundShape, TypeOK
  <2> QED
    BY <1>0, <2>1, <2>2, <2>3, OneRound
<1>3. ASSUME NEW p \in Processors, NEW e \in Events, NEW outcome \in {"mark", "retry"},
             Handle(p, e, outcome)
      PROVE  RoundShape'
  <2>1. \A q \in Processors \ {p} :
            /\ batch'[q] = batch[q] /\ current'[q] = current[q] /\ done'[q] = done[q]
            /\ pc'[q] = pc[q] /\ aborted'[q] = aborted[q]
    BY <1>3 DEF Handle, TypeOK
  <2>2. /\ pc'[p] = outcome /\ done'[p] = done[p]
        /\ batch'[p] = batch[p] \ {e} /\ current'[p] = {e} /\ e \in batch[p]
    BY <1>3 DEF Handle, Heads, TypeOK
  <2>3. /\ batch'[p] \cap (done'[p] \cup current'[p]) = {}
        /\ batch'[p] \cup done'[p] \cup current'[p] \subseteq rows \cup purged
    BY <2>2 DEF RoundShape
  <2> QED
    BY <1>0, <2>1, <2>2, <2>3, OneRound
<1>4. ASSUME NEW p \in Processors, MarkProcessed(p) \/ IncrementRetry(p) \/ Abort(p)
      PROVE  RoundShape'
  <2>1. \A q \in Processors \ {p} :
            /\ batch'[q] = batch[q] /\ current'[q] = current[q] /\ done'[q] = done[q]
            /\ pc'[q] = pc[q] /\ aborted'[q] = aborted[q]
    BY <1>4 DEF MarkProcessed, IncrementRetry, Abort, TypeOK
  <2>2. /\ pc'[p] = "loop" /\ batch'[p] = batch[p] /\ current'[p] = {}
        /\ done'[p] \subseteq done[p] \cup current[p]
    BY <1>4 DEF MarkProcessed, IncrementRetry, Abort, TypeOK
  <2>3. /\ batch'[p] \cap (done'[p] \cup current'[p]) = {}
        /\ batch'[p] \cup done'[p] \cup current'[p] \subseteq rows \cup purged
    BY <2>2 DEF RoundShape
  <2> QED
    BY <1>0, <2>1, <2>2, <2>3, OneRound
<1>5. ASSUME NEW p \in Processors, CloseRound(p, "poll")
      PROVE  RoundShape'
  <2>1. \A q \in Processors \ {p} :
            /\ batch'[q] = batch[q] /\ current'[q] = current[q] /\ done'[q] = done[q]
            /\ pc'[q] = pc[q] /\ aborted'[q] = aborted[q]
    BY <1>5 DEF CloseRound, TypeOK
  <2>2. batch'[p] = {} /\ current'[p] = {} /\ done'[p] = {} /\ ~aborted'[p]
    BY <1>5 DEF CloseRound, TypeOK
  <2> QED
    BY <1>0, <2>1, <2>2, OneRound
<1>6. ASSUME NEW p \in Processors, LoopEnds(p)
      PROVE  RoundShape'
  BY <1>0, <1>6, OneRound DEF LoopEnds, RoundShape, TypeOK
<1> QED
  <2>1. ASSUME NEW e \in Events, Store(e) \/ CoolDown(e)
        PROVE  UNCHANGED <<pc, batch, current, done, aborted>>
    BY <2>1 DEF Store, CoolDown, round
  <2>2. ASSUME NEW p \in Processors,
               PollNothing(p) \/ WaitForLock(p)
                 \/ Boot(p) \/ StartProducer(p) \/ Stop(p) \/ StopProducer(p)
        PROVE  UNCHANGED <<pc, batch, current, done, aborted>>
    BY <2>2 DEF PollNothing, WaitForLock, Boot, StartProducer, Stop, StopProducer, vars, round
  <2>3. ASSUME DeleteProcessed \/ UNCHANGED vars
        PROVE  UNCHANGED <<pc, batch, current, done, aborted>>
    BY <2>3 DEF DeleteProcessed, vars, round
  <2>4. ASSUME NEW p \in Processors,
               NothingToPublish(p) \/ Publish(p) \/ ProducerNotStarted(p) \/ PublishFails(p)
        PROVE  RoundShape'
    <3>1. PICK e \in batch[p], outcome \in {"mark", "retry"} : Handle(p, e, outcome)
      BY <2>4 DEF NothingToPublish, Publish, ProducerNotStarted, PublishFails
    <3> QED
      BY <1>3, <3>1 DEF TypeOK
  <2>5. ASSUME NEW p \in Processors, Commit(p) \/ CommitFails(p) \/ Exit(p) \/ Crash(p)
        PROVE  RoundShape'
    BY <1>5, <2>5 DEF Commit, CommitFails, Exit, Crash, Terminate
  <2> QED
    BY <1>1, <1>2, <1>4, <1>6, <2>1, <2>2, <2>3, <2>4, <2>5
    DEF Next, RoundStep, LifeStep, FaultStep, DeadlockVictim, StatementFails

-----------------------------------------------------------------------------
(* The budget.                                                             *)

LEMMA DuplicateInit == Init => DuplicateInv
<1> SUFFICES ASSUME Init
             PROVE  RoundShape /\ TableShape /\ SendBudget
  BY TypeInit DEF DuplicateInv
<1>1. RoundShape /\ TableShape
  BY DEF Init, RoundShape, TableShape
<1>2. ASSUME NEW e \in Events
      PROVE  /\ ~Settled(e)
             /\ sent[e] + Cardinality(Owing(e)) <= Cardinality(Covering(e)) + redos
  <2>1. sent[e] = 0 /\ redos = 0 /\ Owing(e) = {} /\ Covering(e) = {}
    BY DEF Init, Owing, Owes, Covering, Covers
  <2> QED
    BY <2>1, FS_EmptySet DEF Init, Settled
<1> QED
  BY <1>1, <1>2 DEF SendBudget

\* Nobody's round, publication or settled event changes.
LEMMA BudgetUntouched ==
    ASSUME SendBudget, processed' \cup purged' = processed \cup purged,
           UNCHANGED <<pc, batch, current, done, aborted, sent, redos>>
    PROVE  SendBudget'
  BY DEF SendBudget, Settled, Holding, Holds, Owing, Owes, Covering, Covers

\* p takes an event from its batch: it is sent or not, and marked or to be retried; what
\* is sent and not marked is a lost outcome.
LEMMA BudgetOfHandle ==
    ASSUME DuplicateInv, TypeOK', NEW p \in Processors, NEW e \in Events,
           NEW outcome \in {"mark", "retry"}, NEW copies \in {0, 1},
           Handle(p, e, outcome),
           sent' = [sent EXCEPT ![e] = @ + copies],
           redos' = redos + IF outcome = "mark" THEN 0 ELSE copies
    PROVE  SendBudget'
<1>1. TypeOK /\ RoundShape
  BY DEF DuplicateInv
<1>2. \A q \in Processors \ {p} :
            /\ batch'[q] = batch[q] /\ current'[q] = current[q] /\ done'[q] = done[q]
            /\ pc'[q] = pc[q] /\ aborted'[q] = aborted[q]
  BY <1>1 DEF Handle, TypeOK
<1>3. processed' \cup purged' = processed \cup purged
  BY DEF Handle, table
<1>4. /\ pc[p] = "loop" /\ pc'[p] = outcome /\ aborted' = aborted /\ done' = done
      /\ e \in batch[p] /\ batch'[p] = batch[p] \ {e} /\ current'[p] = {e}
  BY <1>1 DEF Handle, Heads, TypeOK
<1>5. e \notin done[p]
  BY <1>1, <1>4 DEF RoundShape
<1>6. redos \in Nat /\ \A f \in Events : sent[f] \in Nat
  BY <1>1 DEF TypeOK
<1>7. ASSUME NEW f \in Events
      PROVE  /\ sent'[f] + One(Holds(p, f)') + redos <= sent[f] + One(Holds(p, f)) + redos'
             /\ sent'[f] + One(Owes(p, f)') + One(Covers(p, f)) + redos
                    <= sent[f] + One(Owes(p, f)) + One(Covers(p, f)') + redos'
  <2>1. CASE f = e
    <3>1. /\ sent'[f] = sent[f] + copies
          /\ Holds(p, f) /\ ~Holds(p, f)' /\ ~Owes(p, f)' /\ ~Covers(p, f)
          /\ Owes(p, f) <=> aborted[p]
          /\ Covers(p, f)' <=> ~aborted[p] /\ outcome = "mark"
      BY <1>1, <1>4, <1>5, <2>1 DEF Holds, Owes, Covers, TypeOK
    <3> QED
      BY <1>6, <3>1 DEF One
  <2>2. CASE f # e
    <3>1. /\ sent'[f] = sent[f]
          /\ Holds(p, f)' <=> Holds(p, f)
          /\ Owes(p, f)' <=> Owes(p, f)
          /\ Covers(p, f)' <=> Covers(p, f)
      BY <1>1, <1>4, <2>2 DEF Holds, Owes, Covers, TypeOK
    <3> QED
      BY <1>6, <3>1 DEF One
  <2> QED
    BY <2>1, <2>2
<1> QED
  BY <1>2, <1>3, <1>7, ShareKept

\* The round of p loses its transaction, or ends without a commit.
LEMMA BudgetOfLoss ==
    ASSUME DuplicateInv, TypeOK', NEW p \in Processors,
           processed' \cup purged' = processed \cup purged, sent' = sent,
           redos' = redos + Lost(p),
           \A q \in Processors \ {p} :
               /\ batch'[q] = batch[q] /\ current'[q] = current[q] /\ done'[q] = done[q]
               /\ pc'[q] = pc[q] /\ aborted'[q] = aborted[q],
           batch'[p] \subseteq batch[p], batch'[p] # {} => aborted'[p] /\ ~aborted[p]
    PROVE  SendBudget'
<1>1. TypeOK /\ RoundShape
  BY DEF DuplicateInv
<1>2. redos \in Nat /\ redos' \in Nat /\ \A f \in Events : sent[f] \in Nat
  BY <1>1 DEF TypeOK
<1>3. ASSUME NEW f \in Events
      PROVE  /\ sent'[f] + One(Holds(p, f)') + redos <= sent[f] + One(Holds(p, f)) + redos'
             /\ sent'[f] + One(Owes(p, f)') + One(Covers(p, f)) + redos
                    <= sent[f] + One(Owes(p, f)) + One(Covers(p, f)') + redos'
  <2>1. Holds(p, f)' => Holds(p, f)
    BY DEF Holds
  <2>2. ~(Holds(p, f) /\ Covers(p, f))
    BY <1>1 DEF Holds, Covers, RoundShape
  <2>3. Owes(p, f)' => Holds(p, f) /\ ~aborted[p]
    BY DEF Owes, Holds
  <2>4. (Covers(p, f) \/ Owes(p, f)') => Lost(p) = 1
    <3>1. Covers(p, f) => pc[p] \in {"loop", "mark", "retry"} /\ ~aborted[p]
      BY <1>1 DEF Covers, RoundShape, TypeOK
    <3>2. Owes(p, f)' => pc[p] \in {"loop", "mark", "retry"} /\ ~aborted[p]
      BY <1>1, <2>3 DEF Holds, RoundShape, TypeOK
    <3> QED
      BY <3>1, <3>2 DEF Lost
  <2>5. Lost(p) \in {0, 1}
    BY DEF Lost
  <2> QED
    BY <1>2, <2>1, <2>2, <2>3, <2>4, <2>5 DEF One
<1> QED
  BY <1>3, ShareKept

\* p takes up a batch, and no settled event with it.
LEMMA BudgetOfFetch ==
    ASSUME DuplicateInv, TypeOK', NEW p \in Processors, Fetch(p)
    PROVE  SendBudget'
<1>1. TypeOK /\ RoundShape /\ TableShape
  BY DEF DuplicateInv
<1>2. \A q \in Processors \ {p} :
            /\ batch'[q] = batch[q] /\ current'[q] = current[q] /\ done'[q] = done[q]
            /\ pc'[q] = pc[q] /\ aborted'[q] = aborted[q]
  BY <1>1 DEF Fetch, TypeOK
<1>3. processed' \cup purged' = processed \cup purged /\ sent' = sent /\ redos' = redos
  BY DEF Fetch, table
<1>4. /\ pc[p] = "poll" /\ pc'[p] = "loop" /\ done' = done /\ current' = current
      /\ aborted' = aborted /\ ~aborted[p] /\ batch'[p] \subseteq Eligible
  BY <1>1 DEF Fetch, Batches, Oldest, RoundShape, TypeOK
<1>5. redos \in Nat /\ \A f \in Events : sent[f] \in Nat
  BY <1>1 DEF TypeOK
<1>6. ASSUME NEW f \in Events
      PROVE  /\ Settled(f) =>
                  sent'[f] + One(Holds(p, f)') + redos <= sent[f] + One(Holds(p, f)) + redos'
             /\ sent'[f] + One(Owes(p, f)') + One(Covers(p, f)) + redos
                    <= sent[f] + One(Owes(p, f)) + One(Covers(p, f)') + redos'
  <2>1. Settled(f) => ~Holds(p, f)'
    BY <1>1, <1>4 DEF Settled, Holds, Eligible, TableShape
  <2>2. ~Owes(p, f)' /\ (Covers(p, f)' <=> Covers(p, f))
    BY <1>4 DEF Owes, Covers
  <2> QED
    BY <1>3, <1>5, <2>1, <2>2 DEF One
<1> QED
  BY <1>2, <1>3, <1>6, ShareKept

\* p records the outcome of its current event, or its loop ends.
LEMMA BudgetOfRecord ==
    ASSUME DuplicateInv, TypeOK', NEW p \in Processors,
           MarkProcessed(p) \/ IncrementRetry(p) \/ LoopEnds(p)
    PROVE  SendBudget'
<1>1. TypeOK
  BY DEF DuplicateInv
<1>2. \A q \in Processors \ {p} :
            /\ batch'[q] = batch[q] /\ current'[q] = current[q] /\ done'[q] = done[q]
            /\ pc'[q] = pc[q] /\ aborted'[q] = aborted[q]
  BY <1>1 DEF MarkProcessed, IncrementRetry, LoopEnds, TypeOK
<1>3. processed' \cup purged' = processed \cup purged /\ sent' = sent /\ redos' = redos
  BY DEF MarkProcessed, IncrementRetry, LoopEnds, table
<1>4. redos \in Nat /\ \A f \in Events : sent[f] \in Nat
  BY <1>1 DEF TypeOK
<1>5. ASSUME NEW f \in Events
      PROVE  /\ sent'[f] + One(Holds(p, f)') + redos <= sent[f] + One(Holds(p, f)) + redos'
             /\ sent'[f] + One(Owes(p, f)') + One(Covers(p, f)) + redos
                    <= sent[f] + One(Owes(p, f)) + One(Covers(p, f)') + redos'
  <2>1. (Holds(p, f)' <=> Holds(p, f)) /\ (Owes(p, f)' <=> Owes(p, f))
    BY DEF MarkProcessed, IncrementRetry, LoopEnds, Holds, Owes
  <2>2. Covers(p, f)' <=> Covers(p, f)
    BY <1>1 DEF MarkProcessed, IncrementRetry, LoopEnds, Covers, TypeOK
  <2> QED
    BY <1>3, <1>4, <2>1, <2>2 DEF One
<1> QED
  BY <1>2, <1>3, <1>5, ShareKept

\* Disjoint sets of processors.
LEMMA Disjoint ==
    ASSUME NEW S \in SUBSET Processors, NEW T \in SUBSET Processors, S \cap T = {}
    PROVE  Cardinality(S) + Cardinality(T) <= Cardinality(Processors)
<1>1. IsFiniteSet(S) /\ IsFiniteSet(T) /\ S \cup T \in SUBSET Processors
  BY FS_Subset, OutboxAssumption
<1>2. Cardinality(S \cup T) = Cardinality(S) + Cardinality(T) - Cardinality(S \cap T)
  BY <1>1, FS_Union
<1>3. Cardinality(S \cap T) = 0
  BY FS_EmptySet
<1> QED
  BY <1>1, <1>2, <1>3, HoldersBounded

\* The commit settles what it covered; from then on only the other holders can send it.
LEMMA BudgetOfCommit ==
    ASSUME DuplicateInv, TypeOK', NEW p \in Processors, Commit(p)
    PROVE  SendBudget'
<1> SUFFICES ASSUME NEW e \in Events
             PROVE  IF Settled(e)'
                    THEN sent'[e] + Cardinality(Holding(e)') <= Cardinality(Processors) + redos'
                    ELSE sent'[e] + Cardinality(Owing(e)') <= Cardinality(Covering(e)') + redos'
  BY DEF SendBudget
<1>1. TypeOK /\ RoundShape /\ TableShape
  BY DEF DuplicateInv
<1>2. /\ \A q \in Processors \ {p} :
            /\ batch'[q] = batch[q] /\ current'[q] = current[q] /\ done'[q] = done[q]
            /\ pc'[q] = pc[q] /\ aborted'[q] = aborted[q]
      /\ pc[p] = "loop" /\ batch[p] = {}
      /\ batch'[p] = {} /\ done'[p] = {} /\ current'[p] = {} /\ ~aborted'[p]
  BY <1>1 DEF Commit, CloseRound, TypeOK
<1>3. /\ sent' = sent /\ redos' = redos /\ purged' = purged
      /\ processed' = processed \cup (Locks(p) \cap done[p])
  BY DEF Commit
<1>4. redos \in Nat /\ sent[e] \in Nat
  BY <1>1 DEF TypeOK
<1>5. IF Settled(e)
      THEN sent[e] + Cardinality(Holding(e)) <= Cardinality(Processors) + redos
      ELSE sent[e] + Cardinality(Owing(e)) <= Cardinality(Covering(e)) + redos
  BY DEF DuplicateInv, SendBudget
<1>6. Holding(e)' = Holding(e)
  BY <1>2 DEF Holding, Holds
<1>7. CASE Settled(e)
  BY <1>3, <1>5, <1>6, <1>7 DEF Settled
<1>8. CASE ~Settled(e) /\ Settled(e)'
  <2>1. /\ Holding(e) \in SUBSET Processors /\ Covering(e) \in SUBSET Processors
        /\ Owing(e) \in SUBSET Processors
    BY DEF Holding, Covering, Owing
  <2>2. Holding(e) \cap Covering(e) = {}
    BY <1>1 DEF Holding, Covering, Holds, Covers, RoundShape
  <2>3. Cardinality(Holding(e)) + Cardinality(Covering(e)) <= Cardinality(Processors)
    BY <2>1, <2>2, Disjoint
  <2>4. /\ Cardinality(Holding(e)) \in Nat /\ Cardinality(Covering(e)) \in Nat
        /\ Cardinality(Owing(e)) \in Nat /\ Cardinality(Processors) \in Nat
    BY <2>1, HoldersBounded
  <2> QED
    BY <1>3, <1>4, <1>5, <1>6, <1>8, <2>3, <2>4
<1>9. CASE ~Settled(e) /\ ~Settled(e)'
  <2>1. ~Covers(p, e)
    <3>1. SUFFICES ASSUME ~aborted[p], e \in done[p]
                   PROVE  FALSE
      BY <1>2 DEF Covers
    <3>2. e \in rows
      BY <1>1, <1>9, <3>1 DEF RoundShape, Settled
    <3> QED
      BY <1>3, <1>9, <3>1, <3>2 DEF Locks, Settled
  <2>2. ~Covers(p, e)' /\ ~Owes(p, e) /\ ~Owes(p, e)'
    BY <1>2 DEF Covers, Owes
  <2>3. Owing(e)' = Owing(e) /\ Covering(e)' = Covering(e)
    BY <1>2, <2>1, <2>2 DEF Owing, Covering, Owes, Covers
  <2> QED
    BY <1>3, <1>5, <1>9, <2>3
<1> QED
  BY <1>7, <1>8, <1>9

LEMMA DuplicateStep == DuplicateInv /\ [Next]_vars => DuplicateInv'
<1> SUFFICES ASSUME DuplicateInv, [Next]_vars
             PROVE  SendBudget'
  BY TypeStep, ShapeStep, TableShapeStep DEF DuplicateInv
<1>0. TypeOK /\ TypeOK'
  BY TypeStep DEF DuplicateInv
<1>1. ASSUME NEW e \in Events, Store(e) \/ CoolDown(e)
      PROVE  SendBudget'
  <2>1. /\ processed' \cup purged' = processed \cup purged
        /\ UNCHANGED <<pc, batch, current, done, aborted, sent, redos>>
    BY <1>1 DEF Store, CoolDown, round
  <2> QED
    BY <2>1, BudgetUntouched DEF DuplicateInv
<1>2. ASSUME DeleteProcessed
      PROVE  SendBudget'
  <2>1. /\ processed' \cup purged' = processed \cup purged
        /\ UNCHANGED <<pc, batch, current, done, aborted, sent, redos>>
    BY <1>2 DEF DeleteProcessed, round
  <2> QED
    BY <2>1, BudgetUntouched DEF DuplicateInv
<1>3. ASSUME NEW p \in Processors,
             PollNothing(p) \/ WaitForLock(p)
               \/ Boot(p) \/ StartProducer(p) \/ Stop(p) \/ StopProducer(p)
      PROVE  SendBudget'
  <2>1. /\ processed' \cup purged' = processed \cup purged
        /\ UNCHANGED <<pc, batch, current, done, aborted, sent, redos>>
    BY <1>3 DEF PollNothing, WaitForLock, Boot, StartProducer, Stop, StopProducer,
                vars, table, round
  <2> QED
    BY <2>1, BudgetUntouched DEF DuplicateInv
<1>4. ASSUME UNCHANGED vars
      PROVE  SendBudget'
  BY <1>4, BudgetUntouched DEF vars, table, round, DuplicateInv
<1>5. ASSUME NEW p \in Processors,
             NothingToPublish(p) \/ Publish(p) \/ ProducerNotStarted(p) \/ PublishFails(p)
      PROVE  SendBudget'
  <2>1. CASE NothingToPublish(p) \/ ProducerNotStarted(p)
    <3>1. PICK e \in batch[p], outcome \in {"mark", "retry"} : Handle(p, e, outcome)
      BY <2>1 DEF NothingToPublish, ProducerNotStarted
    <3>2. sent' = sent /\ redos' = redos
      BY <2>1 DEF NothingToPublish, ProducerNotStarted
    <3>3. PICK copies \in {0, 1} : copies = 0
      OBVIOUS
    <3>4. sent' = [sent EXCEPT ![e] = @ + copies]
      BY <1>0, <3>2, <3>3 DEF TypeOK
    <3>5. redos' = redos + IF outcome = "mark" THEN 0 ELSE copies
      BY <1>0, <3>2, <3>3 DEF TypeOK
    <3>6. e \in Events
      BY <1>0, <3>1 DEF TypeOK
    <3> QED
      BY <1>0, <3>1, <3>4, <3>5, <3>6, BudgetOfHandle
  <2>2. CASE Publish(p)
    <3>1. PICK e \in batch[p] : /\ Handle(p, e, "mark")
                                /\ sent' = [sent EXCEPT ![e] = @ + 1]
      BY <2>2 DEF Publish
    <3>2. redos' = redos + IF "mark" = "mark" THEN 0 ELSE 1
      BY <1>0, <2>2 DEF Publish, TypeOK
    <3> QED
      BY <1>0, <3>1, <3>2, BudgetOfHandle DEF TypeOK
  <2>3. CASE PublishFails(p)
    <3>1. PICK e \in batch[p], copies \in {0, 1} :
              /\ Handle(p, e, "retry")
              /\ sent' = [sent EXCEPT ![e] = @ + copies]
              /\ redos' = redos + copies
      BY <2>3 DEF PublishFails
    <3>2. redos' = redos + IF "retry" = "mark" THEN 0 ELSE copies
      BY <3>1
    <3> QED
      BY <1>0, <3>1, <3>2, BudgetOfHandle DEF TypeOK
  <2> QED
    BY <1>5, <2>1, <2>2, <2>3
<1>6. ASSUME NEW p \in Processors, Abort(p)
      PROVE  SendBudget'
  <2>1. \A q \in Processors \ {p} :
            /\ batch'[q] = batch[q] /\ current'[q] = current[q] /\ done'[q] = done[q]
            /\ pc'[q] = pc[q] /\ aborted'[q] = aborted[q]
    BY <1>0, <1>6 DEF Abort, TypeOK
  <2>2. /\ processed' \cup purged' = processed \cup purged /\ sent' = sent
        /\ redos' = redos + Lost(p)
        /\ batch'[p] = batch[p] /\ aborted'[p] /\ ~aborted[p]
    BY <1>0, <1>6 DEF Abort, table, TypeOK
  <2> QED
    BY <1>0, <2>1, <2>2, BudgetOfLoss
<1>7. ASSUME NEW p \in Processors, CommitFails(p) \/ Terminate(p)
      PROVE  SendBudget'
  <2>1. \A q \in Processors \ {p} :
            /\ batch'[q] = batch[q] /\ current'[q] = current[q] /\ done'[q] = done[q]
            /\ pc'[q] = pc[q] /\ aborted'[q] = aborted[q]
    BY <1>0, <1>7 DEF CommitFails, Terminate, CloseRound, TypeOK
  <2>2. /\ processed' \cup purged' = processed \cup purged /\ sent' = sent
        /\ redos' = redos + Lost(p)
        /\ batch'[p] = {}
    BY <1>0, <1>7 DEF CommitFails, Terminate, CloseRound, table, TypeOK
  <2> QED
    BY <1>0, <2>1, <2>2, BudgetOfLoss
<1> QED
  BY <1>0, <1>1, <1>2, <1>3, <1>4, <1>5, <1>6, <1>7, BudgetOfFetch, BudgetOfRecord, BudgetOfCommit
  DEF Next, RoundStep, LifeStep, FaultStep, DeadlockVictim, StatementFails, Exit, Crash

\* Every processor on the table publishes an event at most once, apart from the rounds
\* whose outcome was lost and the acknowledgements that were.
THEOREM DuplicatesBounded == Spec => []DuplicateBound
<1>1. DuplicateInv => DuplicateBound
  <2> SUFFICES ASSUME DuplicateInv, NEW e \in Events
               PROVE  sent[e] <= Cardinality(Processors) + redos
    BY DEF DuplicateBound
  <2>1. /\ Holding(e) \in SUBSET Processors /\ Covering(e) \in SUBSET Processors
        /\ Owing(e) \in SUBSET Processors
    BY DEF Holding, Covering, Owing
  <2>2. /\ Cardinality(Holding(e)) \in Nat /\ Cardinality(Owing(e)) \in Nat
        /\ Cardinality(Covering(e)) \in Nat /\ Cardinality(Processors) \in Nat
        /\ Cardinality(Covering(e)) <= Cardinality(Processors)
    BY <2>1, HoldersBounded
  <2>3. sent[e] \in Nat /\ redos \in Nat
    BY DEF DuplicateInv, TypeOK
  <2> QED
    BY <2>2, <2>3 DEF DuplicateInv, SendBudget
<1> QED
  BY <1>1, DuplicateInit, DuplicateStep, PTL DEF Spec

-----------------------------------------------------------------------------
(* RetriesNeedFaults.  Where the producer is started before the loop, a    *)
(* processor without one is on its way out.  The fault that stopped it     *)
(* pays one attempt for every event of the batch it was stopped in: until  *)
(* the attempt is committed, the processor is charged for the event.       *)

Charged(p, e) ==
    \/ e \in failed[p]
    \/ pc[p] = "retry" /\ e \in current[p]
    \/ life[p] = "stopping" /\ e \in batch[p]

Charging(e) == {p \in Processors : Charged(p, e)}

\* Nobody works without a producer, except while shutting down.
ProducerShape ==
    \A p \in Processors :
        /\ life[p] = "up" => producer[p]
        /\ life[p] = "down" => batch[p] = {}

FaultBudget == \A e \in Events : retries[e] + Cardinality(Charging(e)) <= faults

FaultInv == TypeOK /\ ProducerShape /\ FaultBudget

LEMMA FaultInit == Init => FaultInv
<1>1. Init => ProducerShape
  BY DEF Init, ProducerShape
<1>2. ASSUME Init, NEW e \in Events
      PROVE  retries[e] + Cardinality(Charging(e)) <= faults
  <2>1. Charging(e) = {} /\ retries[e] = 0 /\ faults = 0
    BY <1>2 DEF Init, Charging, Charged
  <2> QED
    BY <2>1, FS_EmptySet
<1> QED
  BY <1>1, <1>2, TypeInit DEF FaultInv, FaultBudget

LEMMA ProducerShapeStep ==
    ASSUME ProducerFirst, TypeOK, ProducerShape, [Next]_vars
    PROVE  ProducerShape'
<1> USE DEF TypeOK, ProducerShape
<1>1. ASSUME NEW p \in Processors, Boot(p) \/ StartProducer(p) \/ Stop(p) \/ StopProducer(p)
      PROVE  ProducerShape'
  BY <1>1 DEF Boot, StartProducer, Stop, StopProducer, round
<1>2. ASSUME NEW p \in Processors, Fetch(p)
      PROVE  ProducerShape'
  BY <1>2 DEF Fetch, process
<1>3. ASSUME NEW p \in Processors, NEW e \in batch[p], NEW outcome \in {"mark", "retry"},
             Handle(p, e, outcome)
      PROVE  ProducerShape'
  BY <1>3 DEF Handle, process
<1>4. ASSUME NEW p \in Processors, Terminate(p)
      PROVE  ProducerShape'
  BY <1>4 DEF Terminate, CloseRound
<1>5. ASSUME NEW p \in Processors, Commit(p) \/ CommitFails(p)
      PROVE  ProducerShape'
  BY <1>5 DEF Commit, CommitFails, CloseRound, process
<1>6. ASSUME UNCHANGED <<process, batch>>
      PROVE  ProducerShape'
  BY <1>6 DEF process
<1> QED
  BY <1>1, <1>2, <1>3, <1>4, <1>5, <1>6
  DEF Next, RoundStep, LifeStep, FaultStep, Store, CoolDown, DeleteProcessed, PollNothing,
      NothingToPublish, Publish, PublishFails, ProducerNotStarted, MarkProcessed,
      IncrementRetry, WaitForLock, DeadlockVictim, StatementFails, Abort, LoopEnds, Exit,
      Crash, vars, round

\* A step of p alone keeps the budget, if each attempt it commits was charged to it and
\* each charge it takes is paid for by a fault.
LEMMA ChargeKept ==
    ASSUME FaultInv, TypeOK', NEW p \in Processors,
           \A q \in Processors \ {p} :
               /\ failed'[q] = failed[q] /\ current'[q] = current[q] /\ batch'[q] = batch[q]
               /\ pc'[q] = pc[q] /\ life'[q] = life[q],
           \A e \in Events :
               retries'[e] + One(Charged(p, e)') + faults
                   <= retries[e] + One(Charged(p, e)) + faults'
    PROVE  FaultBudget'
<1> SUFFICES ASSUME NEW e \in Events
             PROVE  retries'[e] + Cardinality(Charging(e)') <= faults'
  BY DEF FaultBudget
<1>1. /\ Charging(e) \in SUBSET Processors /\ Charging(e)' \in SUBSET Processors
      /\ Charging(e) \ {p} = Charging(e)' \ {p}
      /\ (p \in Charging(e) <=> Charged(p, e)) /\ (p \in Charging(e)' <=> Charged(p, e)')
  BY DEF Charging, Charged
<1>2. /\ Cardinality(Charging(e)) \in Nat /\ Cardinality(Charging(e)') \in Nat
      /\ Cardinality(Charging(e)') + One(Charged(p, e))
            = Cardinality(Charging(e)) + One(Charged(p, e)')
  BY <1>1, OneChange DEF One
<1>3. /\ retries[e] \in Nat /\ retries'[e] \in Nat /\ faults \in Nat /\ faults' \in Nat
      /\ One(Charged(p, e)) \in Nat /\ One(Charged(p, e)') \in Nat
  BY DEF FaultInv, TypeOK, One
<1>4. retries[e] + Cardinality(Charging(e)) <= faults
  BY DEF FaultInv, FaultBudget
<1> QED
  BY <1>2, <1>3, <1>4

\* The same of a step that commits no attempt: it charges p for nothing new, or is a fault.
LEMMA NoAttempt ==
    ASSUME FaultInv, TypeOK', NEW p \in Processors, retries' = retries,
           \A q \in Processors \ {p} :
               /\ failed'[q] = failed[q] /\ current'[q] = current[q] /\ batch'[q] = batch[q]
               /\ pc'[q] = pc[q] /\ life'[q] = life[q],
           \/ faults' = faults + 1
           \/ faults' = faults /\ \A e \in Events : Charged(p, e)' => Charged(p, e)
    PROVE  FaultBudget'
<1>1. retries \in [Events -> Nat] /\ faults \in Nat
  BY DEF FaultInv, TypeOK
<1>2. ASSUME NEW e \in Events
      PROVE  retries'[e] + One(Charged(p, e)') + faults
                 <= retries[e] + One(Charged(p, e)) + faults'
  BY <1>1 DEF One
<1> QED
  BY <1>2, ChargeKept

LEMMA FaultStepKept == FaultInv /\ ProducerFirst /\ [Next]_vars => FaultInv'
<1> SUFFICES ASSUME FaultInv, ProducerFirst, [Next]_vars
             PROVE  FaultBudget'
  BY TypeStep, ProducerShapeStep DEF FaultInv
<1>0. TypeOK /\ TypeOK' /\ ProducerShape
  BY TypeStep DEF FaultInv
<1>1. ASSUME UNCHANGED <<retries, life, round, faults>>
      PROVE  FaultBudget'
  BY <1>1 DEF FaultInv, FaultBudget, Charging, Charged, round
<1>2. ASSUME NEW p \in Processors, Fetch(p) \/ LoopEnds(p)
      PROVE  FaultBudget'
  BY <1>0, <1>2, NoAttempt DEF Fetch, LoopEnds, Charged, table, process, TypeOK
<1>3. ASSUME NEW p \in Processors, NothingToPublish(p) \/ Publish(p)
      PROVE  FaultBudget'
  <2>1. PICK e \in batch[p] : Handle(p, e, "mark")
    BY <1>3 DEF NothingToPublish, Publish
  <2>2. faults' = faults
    BY <1>3 DEF NothingToPublish, Publish
  <2> QED
    BY <1>0, <2>1, <2>2, NoAttempt DEF Handle, Charged, table, process, TypeOK
<1>4. ASSUME NEW p \in Processors, ProducerNotStarted(p)
      PROVE  FaultBudget'
  <2>1. PICK e \in batch[p] : Handle(p, e, "retry")
    BY <1>4 DEF ProducerNotStarted
  <2>2. faults' = faults /\ life[p] = "stopping"
    BY <1>0, <1>4, <2>1 DEF ProducerNotStarted, ProducerShape, TypeOK
  <2> QED
    BY <1>0, <2>1, <2>2, NoAttempt DEF Handle, Charged, table, process, TypeOK
<1>5. ASSUME NEW p \in Processors, PublishFails(p)
      PROVE  FaultBudget'
  <2>1. PICK e \in batch[p] : Handle(p, e, "retry")
    BY <1>5 DEF PublishFails
  <2>2. faults' = faults + 1
    BY <1>5 DEF PublishFails, Fault
  <2> QED
    BY <1>0, <2>1, <2>2, NoAttempt DEF Handle, table, process, TypeOK
<1>6. ASSUME NEW p \in Processors,
             MarkProcessed(p) \/ IncrementRetry(p) \/ WaitForLock(p) \/ DeadlockVictim(p)
      PROVE  FaultBudget'
  BY <1>0, <1>6, NoAttempt
  DEF MarkProcessed, IncrementRetry, WaitForLock, DeadlockVictim, Abort, Charged, table,
      process, TypeOK
<1>7. ASSUME NEW p \in Processors, StatementFails(p) \/ CommitFails(p) \/ Stop(p) \/ Crash(p)
      PROVE  FaultBudget'
  BY <1>0, <1>7, NoAttempt
  DEF StatementFails, Abort, CommitFails, Stop, Crash, Terminate, CloseRound, Fault, table,
      process, round, TypeOK
<1>8. ASSUME NEW p \in Processors,
             Boot(p) \/ StartProducer(p) \/ StopProducer(p) \/ Exit(p)
      PROVE  FaultBudget'
  BY <1>0, <1>8, NoAttempt
  DEF Boot, StartProducer, StopProducer, Exit, Terminate, CloseRound, Charged, table, round,
      TypeOK
<1>9. ASSUME NEW p \in Processors, Commit(p)
      PROVE  FaultBudget'
  <2>1. /\ \A q \in Processors \ {p} :
              /\ failed'[q] = failed[q] /\ current'[q] = current[q] /\ batch'[q] = batch[q]
              /\ pc'[q] = pc[q] /\ life'[q] = life[q]
        /\ \A e \in Events : ~Charged(p, e)'
        /\ retries' = RetriesAfter(p) /\ faults' = faults
    BY <1>0, <1>9 DEF Commit, CloseRound, Charged, process, TypeOK
  <2>2. ASSUME NEW e \in Events
        PROVE  retries'[e] + One(Charged(p, e)') + faults
                   <= retries[e] + One(Charged(p, e)) + faults'
    <3>1. retries[e] \in Nat /\ faults \in Nat
      BY <1>0 DEF TypeOK
    <3>2. CASE e \in failed[p]
      <4>1. retries'[e] <= retries[e] + 1 /\ Charged(p, e) /\ retries'[e] \in Nat
        BY <2>1, <3>1, <3>2 DEF RetriesAfter, Charged
      <4> QED
        BY <2>1, <3>1, <4>1 DEF One
    <3>3. CASE e \notin failed[p]
      <4>1. retries'[e] <= retries[e] /\ retries'[e] \in Nat
        BY <2>1, <3>1, <3>3 DEF RetriesAfter
      <4> QED
        BY <2>1, <3>1, <4>1 DEF One
    <3> QED
      BY <3>2, <3>3
  <2> QED
    BY <1>0, <2>1, <2>2, ChargeKept
<1> QED
  BY <1>1, <1>2, <1>3, <1>4, <1>5, <1>6, <1>7, <1>8, <1>9
  DEF Next, RoundStep, LifeStep, FaultStep, Store, CoolDown, DeleteProcessed, PollNothing,
      vars, table, process

\* A service that starts its producer before the loop spends an attempt at an event only
\* on a stop or a failure, however many processors share the table.
THEOREM RetriesAreFaults ==
    ASSUME ProducerFirst
    PROVE  Spec => []RetriesNeedFaults
<1>1. FaultInv => RetriesNeedFaults
  <2> SUFFICES ASSUME FaultInv, NEW e \in Events
               PROVE  retries[e] <= faults
    BY DEF RetriesNeedFaults
  <2>1. Charging(e) \in SUBSET Processors
    BY DEF Charging
  <2>2. /\ retries[e] \in Nat /\ faults \in Nat /\ Cardinality(Charging(e)) \in Nat
        /\ retries[e] + Cardinality(Charging(e)) <= faults
    BY <2>1, HoldersBounded DEF FaultInv, FaultBudget, TypeOK
  <2> QED
    BY <2>2
<1>2. FaultInv /\ [Next]_vars => FaultInv'
  BY FaultStepKept
<1> QED
  BY <1>1, <1>2, FaultInit, PTL DEF Spec
=============================================================================
