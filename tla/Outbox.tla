------------------------------- MODULE Outbox -------------------------------
(***************************************************************************)
(* The transactional outbox of one service (app/outbox): request handlers  *)
(* store events in the table outbox_event together with their business     *)
(* rows, and OutboxProcessors poll the table, hand every event to the      *)
(* first handler that supports it - which sends to Kafka - and record the  *)
(* outcome.  Several processes of a service can run a processor on the     *)
(* same table: every taskiq worker runs the lifespan of the transaction    *)
(* service (taskiq_broker.py:15).                                          *)
(*                                                                         *)
(* PostgreSQL is modelled as this code meets it: READ COMMITTED, a plain   *)
(* SELECT takes no lock, an UPDATE locks its row until the end of the      *)
(* transaction, a statement that fails makes every later statement of the  *)
(* transaction fail and turns its COMMIT into a rollback.  The service     *)
(* methods swallow these failures, so the batch goes on.                   *)
(***************************************************************************)
EXTENDS Naturals, FiniteSets, EventHandlers

CONSTANTS
    Events,         \* the rows that can ever be stored
    CreatedAt,      \* start of the storing transaction: equal for the events of one
    Kind,           \* event_type (with the new status of a status change)
    Handlers,       \* the handlers the service registers, in order
    Processors,     \* the processes that run an OutboxProcessor on this table
    BatchSize,      \* OutboxProcessor.batch_size
    MaxRetries,     \* OutboxService.MAX_RETRIES
    ProducerFirst,  \* lifespan awaits kafka_producer.start() before it starts the loop
    AwaitLoop,      \* lifespan awaits the loop's task after processor.stop()
    MaxFaults       \* bound on stops, crashes, broker and database failures

ASSUME OutboxAssumption ==
    /\ IsFiniteSet(Events) /\ IsFiniteSet(Processors)
    /\ CreatedAt \in [Events -> Nat]
    /\ BatchSize \in Nat \ {0} /\ MaxRetries \in Nat \ {0} /\ MaxFaults \in Nat
    /\ ProducerFirst \in BOOLEAN /\ AwaitLoop \in BOOLEAN

VARIABLES
    rows,           \* the rows of outbox_event
    processed,      \* rows with processed = true
    retries,        \* retry_count
    cooling,        \* rows whose next_retry_at lies in the future
    purged,         \* rows deleted after they were processed
    life,           \* "down", "up" (lifespan entered) or "stopping" (is_running = False)
    producer,       \* kafka_producer.producer is not None
    pc,             \* where start() and _process_batch() are
    batch,          \* events of the batch not looked at yet
    current,        \* the event being processed (a set of at most one)
    done,           \* events this batch has marked as processed, not committed
    failed,         \* events whose retry count this batch has raised, not committed
    waiting,        \* the processors whose UPDATE is queued for a row lock
    ahead,          \* the transactions it is queued behind
    aborted,        \* a statement of the batch's transaction has failed
    sent,           \* history: how often Kafka stored each event
    redos,          \* history: outcomes lost after they may have been published
    faults          \* history: faults so far

table   == <<rows, processed, retries, cooling, purged>>
process == <<life, producer>>
round   == <<pc, batch, current, done, failed, waiting, ahead, aborted>>
vars    == <<table, process, round, sent, redos, faults>>

MustPublish == {e \in Events : TopicsOf(Handlers, Kind[e]) # {}}

Init ==
    /\ rows = {} /\ processed = {} /\ cooling = {} /\ purged = {}
    /\ retries = [e \in Events |-> 0]
    /\ life = [p \in Processors |-> "down"]
    /\ producer = [p \in Processors |-> FALSE]
    /\ pc = [p \in Processors |-> "poll"]
    /\ batch = [p \in Processors |-> {}]
    /\ current = [p \in Processors |-> {}]
    /\ done = [p \in Processors |-> {}]
    /\ failed = [p \in Processors |-> {}]
    /\ waiting = {} /\ ahead = [p \in Processors |-> {}]
    /\ aborted = [p \in Processors |-> FALSE]
    /\ sent = [e \in Events |-> 0]
    /\ redos = 0 /\ faults = 0

\* An environment fault, as long as the bound allows one.
Fault == faults < MaxFaults /\ faults' = faults + 1

-----------------------------------------------------------------------------
(* The request handlers, time, and housekeeping.                           *)

\* add_event within a request, and the request's commit: all its events at once.
Store(e) ==
    /\ e \notin rows \cup purged
    /\ rows' = rows \cup {f \in Events : CreatedAt[f] = CreatedAt[e]}
    /\ UNCHANGED <<processed, retries, cooling, purged, process, round, sent, redos, faults>>

\* RETRY_DELAY_SECONDS have passed.
CoolDown(e) ==
    /\ e \in cooling
    /\ cooling' = cooling \ {e}
    /\ UNCHANGED <<rows, processed, retries, purged, process, round, sent, redos, faults>>

LocksOnMissingRows(p) == IF aborted[p] THEN {} ELSE done[p] \cup failed[p]

\* Row locks a processor holds: rows its open, healthy transaction has updated.
Locks(p) == IF aborted[p] THEN {} ELSE (done[p] \cup failed[p]) \cap rows

\* delete_processed_events.  Nothing in the repository calls it yet.
DeleteProcessed ==
    \E S \in (SUBSET processed) \ {{}} :
        /\ \A p \in Processors : S \cap Locks(p) = {}
        /\ rows' = rows \ S
        /\ processed' = processed \ S
        /\ purged' = purged \cup S
        /\ UNCHANGED <<retries, cooling, process, round, sent, redos, faults>>

-----------------------------------------------------------------------------
(* One round of a processor: _process_batch.                               *)

EligibleIgnoringProcessed == {e \in rows : retries[e] < MaxRetries /\ e \notin cooling}

EligibleIgnoringRetries == {e \in rows \ processed : e \notin cooling}

\* get_unprocessed_events, without its order and limit.
Eligible == {e \in rows \ processed : retries[e] < MaxRetries /\ e \notin cooling}

\* ORDER BY created_at LIMIT BatchSize of the rows S: ties fall either way.
Oldest(S) ==
    {B \in SUBSET S :
        /\ Cardinality(B) = IF Cardinality(S) < BatchSize THEN Cardinality(S) ELSE BatchSize
        /\ \A b \in B, e \in S \ B : CreatedAt[b] <= CreatedAt[e]}

BatchesLimitedFirst == {B \cap Eligible : B \in Oldest(rows \ processed)}

\* What get_unprocessed_events can return: the limit is taken of the rows it selects.
Batches == Oldest(Eligible)

\* The loop polls and finds nothing: the session is closed, nothing changes.
PollNothing(p) ==
    /\ life[p] = "up" /\ pc[p] = "poll" /\ Eligible = {}
    /\ UNCHANGED vars

Fetch(p) ==
    /\ life[p] = "up" /\ pc[p] = "poll" /\ Eligible # {}
    /\ \E B \in Batches : batch' = [batch EXCEPT ![p] = B]
    /\ pc' = [pc EXCEPT ![p] = "loop"]
    /\ UNCHANGED <<table, process, current, done, failed, waiting, ahead, aborted, sent, redos, faults>>

\* The events that can come next: created_at orders the batch.
Heads(p) == {e \in batch[p] : \A f \in batch[p] : CreatedAt[e] <= CreatedAt[f]}

\* _process_single_event takes e from the batch and will record `outcome`.
Handle(p, e, outcome) ==
    /\ pc[p] = "loop" /\ e \in Heads(p)
    /\ batch' = [batch EXCEPT ![p] = @ \ {e}]
    /\ current' = [current EXCEPT ![p] = {e}]
    /\ pc' = [pc EXCEPT ![p] = outcome]
    /\ UNCHANGED <<table, process, done, failed, waiting, ahead, aborted>>

SwallowAnyEvent(p) ==
    /\ \E e \in batch[p] : Handle(p, e, "mark")
    /\ UNCHANGED <<sent, redos, faults>>

\* No handler, or one that only logs.
NothingToPublish(p) ==
    /\ \E e \in batch[p] \ MustPublish : Handle(p, e, "mark")
    /\ UNCHANGED <<sent, redos, faults>>

\* send_event, acknowledged by the broker.
Publish(p) ==
    /\ producer[p]
    /\ \E e \in batch[p] \cap MustPublish :
        /\ Handle(p, e, "mark")
        /\ sent' = [sent EXCEPT ![e] = @ + 1]
    /\ UNCHANGED <<redos, faults>>

ProducerNotStartedIsSwallowed(p) ==
    /\ ~producer[p]
    /\ \E e \in batch[p] \cap MustPublish : Handle(p, e, "mark")
    /\ UNCHANGED <<sent, redos, faults>>

\* send_event raises "Producer not started. Call start() first".
ProducerNotStarted(p) ==
    /\ ~producer[p]
    /\ \E e \in batch[p] \cap MustPublish : Handle(p, e, "retry")
    /\ UNCHANGED <<sent, redos, faults>>

\* send_and_wait raises, before or after the broker stored the message.
PublishFails(p) ==
    /\ producer[p] /\ Fault
    /\ \E e \in batch[p] \cap MustPublish, stored \in {0, 1} :
        /\ Handle(p, e, "retry")
        /\ sent' = [sent EXCEPT ![e] = @ + stored]
        /\ redos' = redos + stored

\* Whoever holds, or has asked for, the lock on the row that p is about to update.
Ahead(p) ==
    {q \in Processors \ {p} :
        current[p] \cap (Locks(q) \cup IF q \in waiting THEN current[q] ELSE {}) # {}}

Blocked(p) ==
    /\ ~aborted[p]
    /\ IF p \in waiting THEN ahead[p] # {} ELSE Ahead(p) # {}

\* The UPDATE joins the lock queue of its row.
WaitForLock(p) ==
    /\ pc[p] \in {"mark", "retry"} /\ p \notin waiting /\ Blocked(p)
    /\ waiting' = waiting \cup {p}
    /\ ahead' = [ahead EXCEPT ![p] = Ahead(p)]
    /\ UNCHANGED <<table, process, pc, batch, current, done, failed, aborted, sent, redos, faults>>

\* A transaction is over: nobody waits for it, it waits for nobody.
Release(p) ==
    /\ waiting' = waiting \ {p}
    /\ ahead' = [q \in Processors |-> IF q = p THEN {} ELSE ahead[q] \ {p}]

\* mark_as_processed; without effect when the transaction is aborted.
MarkProcessed(p) ==
    /\ pc[p] = "mark" /\ ~Blocked(p)
    /\ done' = [done EXCEPT ![p] = @ \cup current[p]]
    /\ current' = [current EXCEPT ![p] = {}]
    /\ waiting' = waiting \ {p}
    /\ pc' = [pc EXCEPT ![p] = "loop"]
    /\ UNCHANGED <<table, process, batch, failed, ahead, aborted, sent, redos, faults>>

\* increment_retry_count; without effect when the transaction is aborted.
IncrementRetry(p) ==
    /\ pc[p] = "retry" /\ ~Blocked(p)
    /\ failed' = [failed EXCEPT ![p] = @ \cup current[p]]
    /\ current' = [current EXCEPT ![p] = {}]
    /\ waiting' = waiting \ {p}
    /\ pc' = [pc EXCEPT ![p] = "loop"]
    /\ UNCHANGED <<table, process, batch, done, ahead, aborted, sent, redos, faults>>

\* What is lost when the transaction of an open round does not commit.
Lost(p) == IF pc[p] \in {"loop", "mark", "retry"} /\ ~aborted[p] THEN 1 ELSE 0

\* The UPDATE fails, the service method returns False, the batch goes on.
Abort(p) ==
    /\ pc[p] \in {"mark", "retry"} /\ ~aborted[p]
    /\ aborted' = [aborted EXCEPT ![p] = TRUE]
    /\ Release(p)
    /\ current' = [current EXCEPT ![p] = {}]
    /\ pc' = [pc EXCEPT ![p] = "loop"]
    /\ redos' = redos + Lost(p)
    /\ UNCHANGED <<table, process, batch, done, failed, sent>>

StatementFails(p) == Abort(p) /\ Fault

NeverAVictim(p) == FALSE

\* PostgreSQL ends a cycle of waiting transactions by failing one of them.
DeadlockVictim(p) ==
    /\ \E W \in SUBSET Processors :
        p \in W /\ \A q \in W : ahead[q] \cap W # {}
    /\ Abort(p)
    /\ UNCHANGED faults

\* The session is closed: what the round holds in memory is gone.
CloseRound(p, next) ==
    /\ pc' = [pc EXCEPT ![p] = next]
    /\ batch' = [batch EXCEPT ![p] = {}]
    /\ current' = [current EXCEPT ![p] = {}]
    /\ done' = [done EXCEPT ![p] = {}]
    /\ failed' = [failed EXCEPT ![p] = {}]
    /\ Release(p)
    /\ aborted' = [aborted EXCEPT ![p] = FALSE]

\* retry_count once the updates of the round are committed.
RetriesAfter(p) ==
    [e \in Events |-> IF e \in Locks(p) \cap done[p] THEN 0
                      ELSE IF e \in Locks(p) \cap failed[p] THEN retries[e] + 1
                      ELSE retries[e]]

\* session.commit(): the locked rows take their new values; none if it was aborted.
Commit(p) ==
    /\ pc[p] = "loop" /\ batch[p] = {}
    /\ processed' = processed \cup (Locks(p) \cap done[p])
    /\ retries' = RetriesAfter(p)
    /\ cooling' = cooling \cup (Locks(p) \cap failed[p])
    /\ CloseRound(p, "poll")
    /\ UNCHANGED <<rows, purged, process, sent, redos, faults>>

\* session.commit() raises; _process_batch logs it and the session rolls back.
CommitFails(p) ==
    /\ pc[p] = "loop" /\ batch[p] = {} /\ Fault
    /\ redos' = redos + Lost(p)
    /\ CloseRound(p, "poll")
    /\ UNCHANGED <<table, process, sent>>

-----------------------------------------------------------------------------
(* The process around the loop: lifespan.                                  *)

BootLoopFirst(p) ==
    /\ life[p] = "down"
    /\ life' = [life EXCEPT ![p] = "up"]
    /\ UNCHANGED <<table, producer, round, sent, redos, faults>>

Boot(p) ==
    /\ life[p] = "down"
    /\ life' = [life EXCEPT ![p] = "up"]
    /\ producer' = [producer EXCEPT ![p] = ProducerFirst]
    /\ UNCHANGED <<table, round, sent, redos, faults>>

\* The transaction service starts its producer last, the loop already runs.
StartProducer(p) ==
    /\ life[p] = "up" /\ ~producer[p]
    /\ producer' = [producer EXCEPT ![p] = TRUE]
    /\ UNCHANGED <<table, life, round, sent, redos, faults>>

\* processor.stop(), first step of the shutdown.
Stop(p) ==
    /\ life[p] = "up" /\ producer[p] /\ Fault
    /\ life' = [life EXCEPT ![p] = "stopping"]
    /\ UNCHANGED <<table, producer, round, sent, redos>>

\* start() sees is_running = False and returns.
LoopEnds(p) ==
    /\ life[p] = "stopping" /\ pc[p] = "poll"
    /\ pc' = [pc EXCEPT ![p] = "ended"]
    /\ UNCHANGED <<table, process, batch, current, done, failed, waiting, ahead, aborted, sent, redos, faults>>

\* kafka_producer.stop(); only one of the services has waited for the loop by then.
StopProducer(p) ==
    /\ life[p] = "stopping" /\ producer[p]
    /\ AwaitLoop => pc[p] = "ended"
    /\ producer' = [producer EXCEPT ![p] = FALSE]
    /\ UNCHANGED <<table, life, round, sent, redos, faults>>

\* The process ends, an unfinished round with it.
Terminate(p) ==
    /\ life' = [life EXCEPT ![p] = "down"]
    /\ producer' = [producer EXCEPT ![p] = FALSE]
    /\ redos' = redos + Lost(p)
    /\ CloseRound(p, "poll")
    /\ UNCHANGED <<table, sent>>

Exit(p) ==
    /\ life[p] = "stopping" /\ ~producer[p]
    /\ Terminate(p)
    /\ UNCHANGED faults

\* A crash, or a start-up step of lifespan that raises.
Crash(p) ==
    /\ life[p] # "down" /\ Fault
    /\ Terminate(p)

-----------------------------------------------------------------------------

RoundStep(p) ==
    \/ Fetch(p)
    \/ NothingToPublish(p) \/ Publish(p) \/ ProducerNotStarted(p)
    \/ MarkProcessed(p) \/ IncrementRetry(p) \/ WaitForLock(p) \/ DeadlockVictim(p)
    \/ Commit(p)

LifeStep(p) ==
    \/ Boot(p) \/ (~ProducerFirst /\ StartProducer(p))
    \/ LoopEnds(p) \/ StopProducer(p) \/ Exit(p)

FaultStep(p) ==
    PublishFails(p) \/ StatementFails(p) \/ CommitFails(p) \/ Stop(p) \/ Crash(p)

Next ==
    \/ \E e \in Events : Store(e) \/ CoolDown(e)
    \/ DeleteProcessed
    \/ \E p \in Processors : PollNothing(p) \/ RoundStep(p) \/ LifeStep(p) \/ FaultStep(p)

Spec == Init /\ [][Next]_vars

(* The event loop keeps running every task, PostgreSQL resolves deadlocks, *)
(* the clock advances and docker restarts the container                    *)
(* (restart: unless-stopped).  No fault, request or purge is ever owed.    *)
Fairness ==
    /\ \A p \in Processors : WF_vars(RoundStep(p)) /\ WF_vars(LifeStep(p))
    /\ \A e \in Events : WF_vars(CoolDown(e))

FairSpec == Spec /\ Fairness

-----------------------------------------------------------------------------
(* Properties.                                                             *)

\* Every variable stays in its range; only rows of the table can be processed.
TypeOK ==
    /\ rows \subseteq Events /\ processed \subseteq rows
    /\ cooling \subseteq Events /\ purged \subseteq Events
    /\ retries \in [Events -> Nat] /\ sent \in [Events -> Nat]
    /\ life \in [Processors -> {"down", "up", "stopping"}]
    /\ producer \in [Processors -> BOOLEAN]
    /\ pc \in [Processors -> {"poll", "loop", "mark", "retry", "ended"}]
    /\ batch \in [Processors -> SUBSET Events]
    /\ current \in [Processors -> SUBSET Events]
    /\ done \in [Processors -> SUBSET Events]
    /\ failed \in [Processors -> SUBSET Events]
    /\ waiting \subseteq Processors /\ ahead \in [Processors -> SUBSET Processors]
    /\ aborted \in [Processors -> BOOLEAN]
    /\ redos \in Nat /\ faults \in Nat

\* A row counts as processed, or is purged, only after Kafka stored its event, whatever
\* fails between the send, the two updates and the commit of any processor.
NothingLost == \A e \in (processed \cup purged) \cap MustPublish : sent[e] > 0

\* Processors that read e as eligible and may still raise its retry_count.
Holders(e) == {p \in Processors : e \in batch[p] \cup current[p] \cup failed[p]}

\* MAX_RETRIES is checked when the batch is read, not when the count is raised: each
\* further processor can push a row one past the limit, and no more than that.
RetryBound == \A e \in Events : retries[e] < MaxRetries + Cardinality(Processors)

\* Without row claims every processor may publish an event once; beyond that a duplicate
\* needs a batch whose outcome was lost, or a lost acknowledgement.
DuplicateBound == \A e \in Events : sent[e] <= Cardinality(Processors) + redos

\* An attempt is spent only on a stop or a failure, never by the service's own
\* start-up: it takes MAX_RETRIES of them to give an event up.
RetriesNeedFaults == \A e \in Events : retries[e] <= faults

\* The outbox implements at-least-once delivery.
Delivery == INSTANCE EventDelivery WITH
    stored    <- rows \cup purged,
    delivered <- {e \in Events : sent[e] > 0},
    settled   <- processed \cup purged

DeliverySpec == Delivery!Spec

\* Every stored event is eventually processed or has used up its attempts: no row is
\* starved behind older rows that keep failing or were given up, although the limit of a
\* batch is taken from the oldest, nor by a row lock, a deadlock or a restart.
EventuallySettled ==
    \A e \in Events :
        e \in rows ~> (e \in processed \cup purged \/ retries[e] >= MaxRetries)

\* A shutdown ends, although the loop may be in the middle of a batch and waiting for
\* a lock that another process holds.
ShutdownCompletes == \A p \in Processors : life[p] = "stopping" ~> life[p] = "down"
=============================================================================
