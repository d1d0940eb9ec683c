# Verification of the users and transactions services

Two FastAPI services (`src/app/users`, `src/app/transactions`) keep users with
balances and their transactions in two PostgreSQL databases. They talk through
Kafka with a transactional outbox (`src/app/outbox`). This directory holds TLA+
models of the parts where order, failure and concurrency decide whether money and
events survive, the TLC configurations that check them, and TLAPS proofs.

- [1. The system](#1-the-system)
- [2. Modules](#2-modules)
- [3. Runs and bounds](#3-runs-and-bounds)
- [4. What the violations say](#4-what-the-violations-say)
- [5. Fairness](#5-fairness)
- [6. Proofs](#6-proofs)
- [7. Plan](#7-plan)
- [8. Not modelled](#8-not-modelled)

## 1. The system

```
 client -> TransactionService --- one commit ---> transaction, outbox_event
                                                        |
                          OutboxProcessor (API process, each taskiq worker)
                                                        |  Kafka: balance.updated
 user_balance <- handle_balance_updated <- KafkaConsumer (user service)

 client -> UserService -> user, user_balance | outbox_event
                          OutboxProcessor -> Kafka: user.created, user.blocked
                                          -> KafkaConsumer (transaction service)
```

| component | state | operations | what is hard | correct when |
|---|---|---|---|---|
| transactional outbox (`outbox_service.py`, `outbox_processor.py`) | `outbox_event`: processed, retry_count, next_retry_at; per processor a session, its batch and its uncommitted updates | add_event, get_unprocessed_events, mark_as_processed, increment_retry_count, delete_processed_events, the loop of the processor | several processors on one table without row claims; a crash between send and commit; failed statements that are swallowed; row locks | every stored event is published at least once; duplicates and attempts are bounded; no row starves |
| event handlers (`*_event_handler.py`) | none | supports, handle | the first match wins, kinds overlap | each kind goes to its topic, or knowingly to none |
| Kafka producer (`kafka_producer.py`) | the client object, or None | start, stop, send_event | used before start and after stop; a lost acknowledgement | it is used only while started |
| lifespans (`*/main.py`) | tasks and clients | start-up, shutdown | their order; a shutdown in the middle of a batch | a normal start costs no attempts, a shutdown ends |
| Kafka consumer (`kafka_consumer.py`) | position, committed offset, tasks of the batch | start, listen, stop | concurrent tasks, auto-commit, redelivery | no message is skipped without a trace |
| balance updates (`update_balance.py`, `users_dao.py`) | `user_balance.amount` | handle_balance_updated | read - add - write without a lock; swallowed failures | the balance is the sum of what was applied |
| transaction service (`transaction_service.py`) | `transaction`; reads `user_balance` | create_transaction, update_transaction | the balance it checks lags behind what it has accepted | no overdraft; rows and balances agree |
| user service (`user_service.py`) | `user`, `user_balance` | create_user, change_status | two commits in one request; check-then-act | a created user is announced; one event per change |
| payments (the four above together) | all of the above; `user_balance` is read by one service and written by the other | from create_transaction to handle_balance_updated | copies of an event, attempts that run out, the balance that is checked changing under the check | no accepted payment vanishes untraced; one payment changes the balance once |
| analytics (`queries.py`, `analyze_task.py`) | the week, the offset and the counts of a running task; reads `transaction` | get_transaction_analysis, calculate_metrics | offset paging in an order with ties while rows arrive; 52 windows | no user is missed, the weeks add up, the task ends |
| service tokens (`auth.py`, `service_token_dependency.py`) | none: what holds, holds because of what a token says and of the clock | login, exchange, check | a user token can be exchanged again and again and for any audience; anything can be registered as an e-mail | access ends some lifetimes after a login |

Facts that matter for the models and are easy to overlook:

- Every taskiq worker runs the lifespan of the transaction service
  (`taskiq_broker.py:15`), so the API process and the workers poll one outbox table.
- All events of one request carry the same `created_at`, because `now()` is the start
  of the transaction; `ORDER BY created_at` orders them in no particular way.
- `mark_as_processed` and `increment_retry_count` swallow database errors. In
  PostgreSQL the transaction is then aborted: the rest of the batch is published, all
  its updates fail, and `COMMIT` rolls back.
- `KafkaConsumer` starts a task per message of a batch and commits offsets in the
  background whatever the tasks are doing.

## 2. Modules

| module | models | specification |
|---|---|---|
| `EventHandlers` | which handler takes an event, and its topic | operators only |
| `EventDelivery` | the promise of an outbox: at-least-once publication | abstract: Store, Deliver, Settle |
| `Outbox` | table, processors, producer, lifespan of one service | `Spec`, `FairSpec` |
| `BalanceUpdates` | consumer group, its tasks, `user_balance` | `Spec`, `FairSpec` |
| `Transactions` | creations and rollbacks over a lagging balance | `Spec` |
| `Users` | registrations and changes of status | `Spec`, `FairSpec` |
| `Payments` | `Transactions` and `BalanceUpdates` with an outbox between them | `Spec`, `FairSpec` |
| `Analytics` | the weekly analysis over a growing table | `Spec`, `FairSpec` |
| `Access` | login, exchange and check of tokens | `Spec` |
| `Sums` | lemmas about sums over finite sets, for the modules below | |
| `OutboxProofs` | theorems about `Outbox` | |
| `BalanceProofs` | theorems about `BalanceUpdates` | |
| `TransactionsProofs` | theorems about `Transactions` | |
| `UsersProofs` | theorems about `Users` | |
| `PaymentsProofs` | theorems about `Payments`, citing those about its parts | |
| `AnalyticsProofs`, `AccessProofs` | theorems about `Analytics` and `Access` | |
| `MC*` | values of the constants for TLC | |

**Outbox.** One action for each place where the code can be interrupted: the SELECT
(`Fetch`), the send (`Publish`, `PublishFails`, `ProducerNotStarted`,
`NothingToPublish`), the UPDATE (`MarkProcessed`, `IncrementRetry`, `StatementFails`,
`WaitForLock`, `DeadlockVictim`), the commit (`Commit`, `CommitFails`), the steps of
the lifespan (`Boot`, `StartProducer`, `Stop`, `LoopEnds`, `StopProducer`, `Exit`)
and the end of the process (`Crash`). Columns are functions or sets of rows
(`processed`, `retries`, `cooling`). What a round has updated but not committed is
`done` and `failed`; other processors see it only as row locks (`Locks`). `waiting`
and `ahead` are PostgreSQL's lock queues. `sent`, `redos` and `faults` are history
variables that no guard of the program reads (`faults` only bounds the run).
`next_retry_at` is the set of rows that still cool down. The polls' sleep, payloads
and logs are left out. The same module is both services: `Handlers`,
`ProducerFirst` (does the lifespan start the producer before the loop?) and
`AwaitLoop` (does the shutdown await the loop?) are what differs between
`users/main.py` and `transactions/main.py`. A status change is two kinds of event,
because `UserEventHandler` publishes only a blocking.

**BalanceUpdates.** `Poll` hands out a batch, `ReadBalance`, `WriteBalance` and
`HandlerFails` are the two database steps and the end of a task, `AutoCommit` is the
client's background commit, `Stop`, `Exit`, `Crash`, `Start` the life of the process.
One partition, one member of the group, as deployed. `applied`, `dropped`, `lost`,
`ledger`, `contended` are history.

**Transactions.** A creation reads the balance (`ReadBalance`) and later commits row
and events (`Commit`) or refuses (`RefuseZero`, `RefuseNegative`), or the database
fails (`DatabaseFails`). Amounts count tenths of a cent, so that the column
`Numeric(18, 2)` can round them. `Apply` is the whole way through outbox, Kafka and
handler in one exact step: duplicates and lost updates are the other modules' matter.
A rollback (`RequestRollback`) has three outcomes in the code, none of them a success:
`update_transaction` gives `session.execute` a `User` instead of a statement, and what follows
that line is never reached. For a database
without `user_balance` - the deployed `transaction_db`, whose migration creates
`transaction` and `outbox_event` only - every creation that gets past the zero check
ends in `DatabaseFails`.

**Users.** A registration looks the e-mail up (`LookUp`), flushes the row (`Insert`, which
waits for a rival's uncommitted row and fails on a committed one), commits it
(`CommitUser`) and, in a second transaction, the `USER_CREATED` event (`Announce`). A
change begins its transaction (`Begin`), reads the user and checks (`ReadUser`,
`RefuseChange`), updates the row by its key under the row lock (`Update`) and commits row and
event together (`CommitChange`): four round trips, between any of which another change can do
all of its own. `Fail` ends one request anywhere; a crash is a `Fail` of each. `createdAt` is
the event's column, `now()`, which PostgreSQL fixes at the `BEGIN`; `committedAt`, `replaced`, `overtaken` and
`clock` are history. Passwords, currencies and the listing of users are left out.

**Payments.** The two services are instances of the modules above, with their actions as
they are (`Create`, `Consume`, `TaskStep`); they share `user_balance` - both import
`UsersDAO`, and only with one table behind it does a creation succeed at all, see
`Transactions` -, so that a payment is checked against the balance its own event changes later.
`pending` of `Transactions` becomes the events the outbox still polls. Between the services
stands the part of `EventDelivery` that `Outbox` is proved to implement: `Publish` appends a
copy of the event to the topic, also after another processor has settled it; `Settle`
needs a copy; `GiveUp` is the last attempt. `origin` remembers which transaction a message
of the topic is about. `Transactions!Apply`, the one exact step, is not an action here: it
is what the whole pipeline is shown to implement while nothing repeats or mixes up
updates. Rollbacks are left out, because no outcome of theirs changes state.

**Analytics.** One action per statement of the task: `CountPage` (a page with rows),
`FinishWeek` (the empty page, the report of the week, the step to the next), `FinishTask`,
and `Fail` (a query raises). `Insert` is the commit of a creation, at any moment; its
`created` may be a day old when midnight passes. Under READ COMMITTED every page has a
snapshot of its own, and `ORDER BY user_uuid` leaves the rows of a user in no order: `Pages`
is the set of all answers PostgreSQL may give. Days are numbers. Of the metrics the module
keeps the number of rows, the users, and how often each row went into the sums (`counted`),
from which every other metric of the schema is made.

**Access.** Tokens are records of their claims; nobody remembers them. `Login` issues a
token for whatever is typed (no password is compared), `Exchange` trades it for a
service token, looking the e-mail up and not the status, and `Request` is the check before
`create_transaction`. `Tick` is the clock, in minutes. `blocked` is the status column. The
e-mail of a registration is any string, a uuid too (`user_schemas.py:18`): uuids and e-mails
may be the same, except that nobody can register with a uuid that is only drawn later
(`Register`). A service token, whose subject is a uuid, can then be exchanged once more if
it was asked for with the audience of user tokens.

## 3. Runs and bounds

| run | module, cfg | checks | bounds |
|---|---|---|---|
| `outbox_users` | `MCOutboxUsers` | `RetriesNeedFaults`, `DeliverySpec`, `EventuallySettled` | one process, three events (a creation, a blocking, an unblocking), batch 2, `MaxRetries` 3 (the real limit), 4 faults |
| `outbox_transactions` | `MCOutboxTransactions` | `TypeOK`, `NothingLost`, `RetryBound`, `DuplicateBound`, `EventuallySettled`, `ShutdownCompletes` | two processes, one request with two rows, batch 2, `MaxRetries` 2, 2 faults |
| `balance_updates` | `MCBalanceUpdates` | `TypeOK`, `UncontendedExact`, `NothingSkipped`, `AppliedBound`, `OneBatchInFlight`, `EventuallyHandled` | topics of up to 3 of 3 messages, two accounts (one without a row), batch 2, 2 faults |
| `balance_adds_up` | `MCBalanceAddsUp.cfg` | violates `AppliedAddsUp` | no fault |
| `transactions` | `MCTransactions` | `TypeOK`, `NothingForgotten`, `OverdraftBound`, `RoundingDrift` | three creations, any account and amount |
| `transactions_rollback` | `MCRollback.cfg` | violates `RollbacksAnswered` | one deposit |
| `transactions_overdraft` | `MCOverdraft.cfg` | violates `BalanceNotNegative` | two withdrawals |
| `users` | `MCUsers` | `TypeOK`, `OneUserPerEmail`, `UnannouncedExplained`, `ChangesAsAnnounced`, `LatestEventTellsStatus`, `EventuallyAnswered` | two registrations of one e-mail, three changes of any of the two users, up to names |
| `payments` | `MCPayments` | `TypeOK`, `BalanceTraced`, `AcceptedTraced`, `StepsAsTransactions`, `RepeatedPaymentBound`, `BalanceOverdraftBound`, `EventuallyPaid` | two payments of two users, one of them without a balance row; an event is published up to twice, 3 messages, batch 2, 1 fault |
| `analytics` | `MCAnalytics` | `TypeOK`, `CountBetween`, `NoUserMissed`, `QuietUserRowsExact`, `WeeksAddUp`, `TaskEnds` | eight rows of three users, two weeks, pages of two rows |
| `access` | `MCAccess` | `TypeOK`, `AdmittedAfterLogin` | two users, one with the uuid of the other as e-mail, lifetimes of 2 and 3 minutes, 8 minutes, three tokens |
| `access_blocked_user` | `MCBlockedUser.cfg` | violates `BlockedUsersRefused` | the same |

Why these bounds reach what matters:

- `outbox_users` has three rows of three requests and a batch of two, so that the limit
  leaves a row out: the newest, while there are two older ones that are selected. Four faults
  can give two rows up (three stops under a batch of two) and have one to spare; a limit
  that counted such rows would starve the third, which is the mutant of `EventuallySettled`.
- `outbox_transactions` has two processors, the fewest that duplicate, race on `retry_count`
  and deadlock, and two rows with one `created_at`, the fewest that can be locked in opposite
  orders; there the limit cuts nothing. `MaxRetries` 2 with two processors lets `retry_count`
  overshoot (to 3) and a row be given up; the start order alone spends attempts, and two
  faults come on top. The theorems hold for any number.
- Topics of three messages with batches of two: a second batch exists, and a crash can
  fall in the first or the second; two faults allow a crash during the recovery from
  another, or a stop after a failed handler.
- The opening balance 20 covers -15 once but not twice, and the amounts
  contain a half cent (-15 is stored as -20), roundings down and up (14 and 16), a
  whole-cent amount and zero.
- Three changes: one can stall between its `BEGIN` and its read, or between its read and its
  update, while the other two block and unblock the user. The run starts from one of the
  initial states that differ in the names of requests alone (`MCInit`): TLC's own symmetry
  reduction does not go with liveness. Two registrations are rivals; a user with another e-mail has
  nothing in common with them.
- Two payments on one account can both be under way, collide in a batch, or be checked
  one before and one after the other was applied; one event may have two copies and the
  other none or one, in every order, before and after its settling. With two events of at
  most two copies, three messages leave room for the first copy of each, whatever is
  published first. One fault is a crash, a stop, or a failing handler. The payments are
  withdrawals: the balance covers one but not two, and the decisions of the service depend
  on their order. Rounding and other amounts are the matter of the run `transactions`; the
  theorems hold for any number of payments, copies and faults, and any amounts.
- The rows of the analysis lie on the first and the last day of each week and on the day
  after the start, so that windows that overlap, leave a gap or reach too far are
  noticed. Pages of two rows cut the rows of one user, a user can have more rows than a page, and rows
  may arrive before, in and after the page being read.
- The clock stops at the first moment at which access has to have ended for the user who
  registered with a uuid: one user token and two service tokens (2 + 2 * 3 minutes). Three
  tokens are that chain: a login with the first user's e-mail, its exchange for the audience of
  user tokens (`"client"`), and the exchange of that, which finds the second user.

What the passing runs show:

- `NothingLost`, `DeliverySpec`: an event is settled only after Kafka stored it, in
  spite of crashes, aborted transactions, purges and a second processor.
- `RetryBound`, `DuplicateBound`: missing row claims cost at most one extra attempt and
  one extra copy per additional processor; everything beyond needs a lost outcome.
- `RetriesNeedFaults`: in the user service an attempt is spent only by a fault or a
  stop. (The transaction service does not have this property, see below.)
- `EventuallySettled`: no row starves, neither behind older rows that take up the limit of
  the batch (`outbox_users`) nor in a deadlock of two processors, which PostgreSQL resolves
  (`outbox_transactions`). `ShutdownCompletes`: no shutdown hangs on such a wait.
- `UncontendedExact`: balances are exact unless two tasks of one batch were at work on
  one account. `NothingSkipped`: messages vanish in exactly two ways, a handler's
  swallowed failure and a crash after an early offset commit. `AppliedBound`: messages
  are applied twice only after a crash. `OneBatchInFlight`: gather is the barrier.
- `NothingForgotten`, `OverdraftBound`, `RoundingDrift`: what is accepted arrives; an
  account is overdrawn by no more than the withdrawals that were checked against an
  outdated balance; rows and balances differ by half a cent per fractional amount.
- `OneUserPerEmail`: of several registrations that found the e-mail free one gets it.
  `UnannouncedExplained`: a user without `USER_CREATED` comes from a registration that
  failed between its two commits, and its client was told of an error.
  `ChangesAsAnnounced`: an event tells what happened unless another change committed between
  the read and the commit of its own. `LatestEventTellsStatus`: the latest event by
  `created_at`, the order in which the outbox reads, tells the status; the one exception is a
  change that ran from `BEGIN` to `COMMIT` within another one. That happens although nobody
  is overtaken: the outer change begins, the inner one begins, blocks and commits, and the
  outer one then reads the new status and reverses it under the older `created_at`. `EventuallyAnswered`: waiting for an e-mail or a row lock ends.
- `BalanceTraced`: end to end, a balance is the opening amount and the accepted amounts, each
  as often as copies of its event were applied, unless two tasks collided on the account.
  `AcceptedTraced`: an accepted payment is polled, given up, or has a copy whose fate is
  known; there is no fourth way to lose it. `StepsAsTransactions`: until a crash, a second
  copy or a collision happens, the pipeline implements `Transactions`; so the overdraft bound
  found there is not an artefact of its exact step. `RepeatedPaymentBound`: a payment is
  repeated at most once per copy of its event and crash. `BalanceOverdraftBound` is the bound of
  `Transactions` for the balance itself, and holds through crashes and copies: beyond outdated checks
  a balance is short of nothing but deposits that did not arrive and withdrawals that were
  repeated. `EventuallyPaid`: a payment does not
  stay under way for ever.
- `CountBetween`, `NoUserMissed`: rows that arrive shift the pages, and a single row may be
  counted twice or never, but the number of rows stays between the table before and the
  table after, and no user who was there is left out. `QuietUserRowsExact`: a table at rest is counted
  exactly per user, although ties are ordered anew in each page. `WeeksAddUp`: the
  windows, closed at both ends, meet without gap or overlap. `TaskEnds`: the offset outgrows
  what arrives.
- `AdmittedAfterLogin`: nobody creates a transaction in the name of the user whose e-mail was
  typed at a login later after it than the two lifetimes together, however often and for
  whatever audience tokens are exchanged. Where a uuid was registered as an e-mail, the
  login leads on to that registration's user, for one more lifetime of a service token; each
  such registration on the way adds one (`LeadsTo`), and nothing else prolongs access.

Symmetry is used in one run without liveness, `transactions`, over the transaction
identifiers. Deadlock checking is on everywhere.

## 4. What the violations say

- **Two updates in one batch lose one of them.** Two tasks read the same balance and
  write absolute sums. No fault is needed.
- **Overdraft.** Two withdrawals are checked against the same balance; also a single
  client gets there, because the balance lags behind the accepted transactions.
- **A rollback ends in an error.** `update_transaction` passes what `get_by_uuid` returned, a
  `User` or `None`, to `session.execute` (`transaction_service.py:95-96`). The service's tests
  run on a real session, with only `OutboxService` mocked (`tests/conftest.py:42-44`), and
  expect otherwise: "assert rollbacked_transaction.status == TransactionStatusEnum.roll_backed"
  (`tests/service/transactions_service_tests.py:135`), `NegativeBalanceException` (185),
  `TransactionAlreadyRollbackedException` (221).
- **A blocked user creates transactions.** Neither the exchange of tokens nor
  `create_transaction` looks at the status; the refusal "Cannot create transaction for
  blocked user" (`users/exceptions.py:28`) is raised only for a rollback by a user who is
  missing.

Further disagreements between code and documentation, seen while modelling, that no
run states: the transaction service starts its outbox loop (`main.py:38`) before the
producer (`main.py:55`), so that a poll in between costs each row an attempt with "Producer not
started" (`Outbox` models it by `ProducerFirst`); the tests of the transaction service expect a
withdrawal right after a deposit to be accepted (`transactions_service_tests.py:32-47`), while
the deposit reaches the balance only through the event that they mock; two concurrent blockings of
one user both succeed and announce one change twice, because the update does not look again
(`user_service.py:84`); a login takes the e-mail as it is typed while a registration normalizes
it, so that another spelling gets a token that no exchange accepts
(`auth_schemas.py:10`); a registration that loses the race for an e-mail ends in an unhandled
`IntegrityError` (500) instead of "User already exists"; a user can be blocked before
its `USER_CREATED` event is written, so that `user.blocked` precedes `user.created`;
the filters of `get_users` are passed under the key `kwargs` and
ignored (`users_dao.py:22`); a task whose result is not there yet is reported as "processing"
only if the result backend raises `TaskiqResultTimeoutError` (`api/v1/analytics.py:41`).

## 5. Fairness

`Outbox!Fairness`: `WF` of a processor's own steps and of its lifespan's steps, and of
the clock. The event loop runs every ready task, PostgreSQL detects deadlocks (so a
cycle of waiting transactions does not last), and `restart: unless-stopped` in the
compose files starts a process that ended. Nothing is assumed about requests, purges
and faults, which are bounded by `MaxFaults`: with unboundedly many faults a row is
given up (`EventuallySettled` allows that) or a batch never ends.
`WF` of the disjunction of a processor's steps is enough: its steps are sequential,
and its lock queue is first come, first served.

`BalanceUpdates!Fairness`: `WF` of the poll, of each task, of the end of the shutdown
and of the restart. `AutoCommit` is not fair: nothing depends on it happening.

`Users!Fairness`: `WF` of every request that has arrived. A wait for a row lock ends
because the transaction that holds it is such a request; whether a request arrives, and
whether it fails, is left open.

`Payments!Fairness`: for each event, `WF` of "publish the first copy, settle, or give up",
which is what `Outbox!EventuallySettled` shows the outbox to do; and the fairness of
`BalanceUpdates`. Second copies, crashes and failures are not owed.

`Analytics!FairSpec`: `WF` of the task's own steps, because the worker runs on; new rows and
failures are not owed. `Access` has no liveness.

## 6. Proofs

`OutboxProofs` proves, for every set of events and processors, all limits, any
handlers and either start order:

| theorem | statement | argument |
|---|---|---|
| `TypeCorrect` | `Spec => []TypeOK` | `TypeOK` is inductive; one step per action |
| `NoEventLost` | `Spec => []NothingLost` | with `SentBeforeMarked`: what a round has marked, or is about to mark, was sent or need not be. `NothingLost` alone is not inductive: `Commit` copies `done` into `processed` |
| `RetriesBounded` | `Spec => []RetryBound` | with `RetryBudget`: for an eligible row, `retry_count` stays below the limit plus the number of processors that still hold the row. A processor takes a row only while the count is below the limit, and each raise uses one holder up |
| `AtLeastOnce` | `Spec => DeliverySpec` | refinement: `stored` is `rows \cup purged`, `delivered` what was sent, `settled` is `processed \cup purged`. Fetching, locking, retrying and restarting are stutters; `Commit` settles, and needs the invariant of `NoEventLost` and that a batch consists of stored rows |
| `DuplicatesBounded` | `Spec => []DuplicateBound` | with `SendBudget`, see below |
| `RetriesAreFaults` | `ProducerFirst` implies `Spec => []RetriesNeedFaults` | with `FaultBudget`, see below |

`SendBudget` weighs, for every event, what was sent against who may still send it or
record it:

- *while the event is not settled*: its copies are at most the lost outcomes (`redos`)
  plus the rounds that will record a copy if their commit succeeds (`Covering`). A row
  of an aborted transaction (`Owing`) is counted as sent in advance: its round goes on
  publishing, and `StatementFails` has already put the loss into `redos`.
- *once it is settled*: its copies plus the rounds that still hold it (`Holding`) are at
  most the number of processors plus `redos`; no new round can fetch it.

`Commit` moves an event from the first account to the second, and there
`Covering` and `Holding` are disjoint sets of processors - which is where the number of
processors comes from. That, and that nobody fetches or stores a settled event again,
are `RoundShape` and `TableShape`. `OneChange` is the only fact about cardinalities: a
step of one processor changes each of those sets by that processor at most.

`RetriesNeedFaults` is about a service whose lifespan starts the producer before the loop,
as `users/main.py` does; that is the hypothesis `ProducerFirst` of the theorem, and the
value the run `outbox_users` gives it. The invariant `FaultBudget` adds to `retry_count` the
processors that are charged for the event (`Charging`): those whose uncommitted updates have
raised it, those about to raise it, and those that are shutting down with the event in their
batch. A fault, and a stop counts as one, pays for one more charge of each event, whatever
the batch; committing a raise moves a charge into `retry_count`. `ProducerShape` says why
nothing else is charged: a processor without a producer is on its way out.

`BalanceProofs`, for every topic, batch size, set of accounts and number of crashes:

| theorem | statement | argument |
|---|---|---|
| `TypeCorrect` | `Spec => []TypeOK` | with "no process, no tasks": otherwise a restart would move the position below tasks in flight |
| `OneBatch` | `Spec => []OneBatchInFlight` | inductive by itself |
| `ExactUnlessContended` | `Spec => []UncontendedExact` | with `LoneTask` (of an account that is not contended one task at most has read its balance) and `FreshSnapshot` (what that task has read is still the balance) |
| `CommittedMessagesTraced` | `Spec => []NothingSkipped` | with `PolledTraced`: while the process runs, the same holds up to its position, which is the offset a commit stores |
| `AppliedBounded` | `Spec => []AppliedBound` | with `AppliedShare`: what is in flight or still to be read was applied at most once per crash; a stopping process has committed its position, so that only a crash sends messages again |

`TransactionsProofs`, for every set of accounts, creations and amounts:

| theorem | statement | argument |
|---|---|---|
| `TypeCorrect` | `Spec => []TypeOK` | one step per action |
| `OverdraftsExplained` | `Spec => []OverdraftBound` | inductive by itself: a creation that was checked against the current total leaves it covered; any other adds itself to the debt |
| `NothingIsForgotten` | `Spec => []NothingForgotten` | with `StoredOnce` (rows are finitely many, and a stored creation has been answered): a commit adds a new member to the sum, an `Apply` takes one out |
| `DriftIsRounding` | `Spec => []RoundingDrift` | with `StoredOnce` and `RoundingError`: a commit changes the drift of its account by half a cent at most, and not at all when the amount is in whole cents |

`UsersProofs`, for any number of registrations and changes:

| theorem | statement | argument |
|---|---|---|
| `TypeCorrect` | `Spec => []TypeOK` | with `RowsThere`: a stored or read row is there, and rows never go |
| `EmailsUnique` | `Spec => []OneUserPerEmail` | an uncommitted insertion counts as taking the e-mail |
| `OnlyFailuresUnannounced` | `Spec => []UnannouncedExplained` | a registration has no row before its first commit |
| `AnnouncedAsHappened` | `Spec => []ChangesAsAnnounced` | `OneWriter` (the row lock) and `OpenChange`: as long as nobody overtakes it, a change has the row as it read it |
| `LatestTells` | `Spec => []LatestEventTellsStatus` | `RowTold`: one committed change of the user is the last to have committed, and the row has its status. If the latest event is another one, its change began after that one and committed before it, which is `Within`. `MomentsApart` (no two begins or commits share a moment) makes both orders strict |

`PaymentsProofs`, for any number of payments, copies, messages and faults:

| theorem | statement | argument |
|---|---|---|
| `TypeCorrect` | `Spec => []TypeOK` | with `Linked`: an event can be published only after its transaction is stored and its request answered, so that account and amount of a message never change |
| `PaymentsTraced` | `Spec => []AcceptedTraced` | with `Published` (what is settled was published or given up) and `BalanceProofs!TraceInv` for the topic |
| `PaidAsOneStep` | `Spec => StepsAsTransactions` | refinement under a condition: `pending` of `Transactions` is `Unpaid`. With `Sound` and `BalanceProofs!ExactInv`, `AppliedInv`, the write of an uncontended task is `Apply`: what it has read is the present balance, and no other copy was applied. A creation maps to itself, all else to a stutter |
| `BalancesTraced` | `Spec => []BalanceTraced` | with `LedgerTraced`: the ledger of an account is the sum of what its messages brought. A publication adds a message that has brought nothing, a write raises what one message has brought by its amount; `BalanceProofs!ExactInv` takes it from the ledger to the balance |
| `OverdraftsBounded` | `Spec => []BalanceOverdraftBound` | with `AstrayTraced`: what an account's messages brought (`ledger`) is what was accepted and what went astray (`Astray`: each amount as often as it was paid too often, or minus once when it was not paid). A commit adds the new amount to both sides, a write pays its transaction once more. With `BalanceProofs!ExactInv` for the balance, `TransactionsProofs` for the debt |
| `RepetitionsBounded` | `Spec => []RepeatedPaymentBound` | `BalanceProofs!AppliedInv` for each copy, and `SumBounded` |

The module composes proofs as `Payments` composes modules: it takes `BalanceProofs` and
`TransactionsProofs` as instances, shows that each step of the composition is a step or a
stutter of the part, and cites the lemmas of the part for its own invariant.

`AnalyticsProofs`, for any finite set of rows, any days, page size and number of weeks:

| theorem | statement | argument |
|---|---|---|
| `TypeCorrect` | `Spec => []TypeOK` | a page is a finite set, and a reported count is not zero |
| `CountsBetween` | `Spec => []CountBetween` | `CountInv`: the count is at most the offset and the table, and at least the offset or the table at the beginning. A page is full or reaches the end of the table |
| `NoUserIsMissed` | `Spec => []NoUserMissed` | `UserInv`: a user who is not counted yet has all rows of smaller users beyond the offset; a page that comes to the user's first row shows a row of the user |
| `QuietWeeksExact` | `Spec => []QuietUserRowsExact` | `QuietInv`: in a table at rest the sums contain as many rows of a user as the first `offset` rows of the week (`Reached`). Every page cuts an order in which smaller users come first: what the page is made of may vary, but not how many of its rows are a user's |
| `WeeksAddedUp` | `Days = 6` implies `Spec => []WeeksAddUp` | `ReportInv`: the reports of the weeks that are over add up to a number between the rows of those weeks in the table before and in the table now (`Past`); `CountsBetween` supplies the week that ends, and with seven days from closed end to closed end it joins those before without gap or overlap |

`AccessProofs`, for any users, e-mails, services and lifetimes:

| theorem | statement | argument |
|---|---|---|
| `TypeCorrect` | `Spec => []TypeOK` | with `TokensTraced`, which says whose name a token can carry |
| `AccessEnds` | `Spec => []AdmittedAfterLogin` | `TokensTraced`: a token comes from a login and names what was typed, or was exchanged for one that had not expired; then its login leads to its subject by a finite set of users, and it expires within their lifetimes. `UuidsFirst` (of any users the first to register has none of their uuids for an e-mail, as uuids are drawn at registration) makes each exchange lead to a user who is new on the way (`LeadsOn`), so that the number of users on it grows by one with each lifetime |

The proofs use the assumptions on the constants (`OutboxAssumption`,
`BalanceAssumption`, `TransactionsAssumption`, `UsersAssumption`, `PaymentsAssumption`,
`AnalyticsAssumption`, `AccessAssumption`); TLC evaluates them in
every run of those modules. Two theorems have a hypothesis on top: `ProducerFirst`, the start
order of the user service - the transaction service has the other order, and the property
fails there -, and `Days = 6`, the value of `DAYS` in
`src/app/config/default.toml:2`, without which weeks would overlap or leave gaps. The runs
have the same values.

`Sums` proves what a sum over a finite set (`SumFunctionOnSet` of the community modules)
is, although the definition is recursive: whatever is wrong of a finite set is wrong of a
least subset of it (`LeastSubset`, from the well-foundedness of the strict subset ordering in
`FiniteSetTheorems`), and that subset cannot exist. In this way the recursive function inside
the definition exists and is unique (`AddsExists`, `AddsAgree`), the sum satisfies its
equation (`SumDefined`), and it does not depend on the order of the elements: hence the sum with
one member more, with one value changed, with some raised by one, of equal values, of
zeros, and of bounded values.

Every invariant and every action property that a passing run checks is proved. Model-checked
only are the liveness properties `EventuallySettled`, `ShutdownCompletes`,
`EventuallyHandled`, `EventuallyAnswered`, `EventuallyPaid` and `TaskEnds`: liveness under
fairness and `ENABLED` are beyond the proof system. Modules with theorems use no `RECURSIVE`
operator.

## 7. Plan

Done: `EventHandlers`, `EventDelivery`, `Outbox`, `BalanceUpdates`, `Transactions`,
`Users`, `Payments`, `Analytics`, `Access`, seven modules of proofs and `Sums`.

Next, in this order:

1. The promise of `EventDelivery` for the outbox of `Payments`, so that `Outbox` and its
   stand-in are tied by one specification.
2. What a balance owes to contended accounts: how far a lost update can take it from what
   was accepted.

## 8. Not modelled

- Listing users and transactions: reads only. The filter builder of `BaseDAO` decides what
  they show, and changes nothing.
- The sums of deposits and withdrawals in the analysis: `counted` tells how often each row
  enters them. Its filter compares dates of the database's time zone in SQL and of
  UTC in Python; the database runs in UTC.
- The queue of tasks, the result backend and `api/v1/analytics.py`: libraries that `src/`
  only calls.
- `user_comm_service.py`: no route calls it. Signatures of tokens are taken as given: both
  services are configured with one key. Passwords are hashed and never compared.
- `delete_processed_events` is an action of `Outbox`, but nothing in the repository calls it.
- Deposits in the composition are model-checked in `Transactions` only: with liveness, the state
  space of `Payments` with both signs exceeds the time of a run. Its theorems hold for any amounts.
- Rebalances of a consumer group and several partitions: one member and one partition
  are deployed. The one-by-one mode of `listen` is not used.
- The handlers for `user.created` and `user.blocked` in the transaction service only
  write log lines.
- HTTP routing, schemas, settings, logging, migrations, nginx and pgbouncer: no state
  of their own; they supply the constants (processes per table, restart policy).
- aiokafka's own retries of a send, which without idempotence may store a message twice, and a
  last offset commit that fails while the consumer stops: matters of the library.
- Failures of `get_unprocessed_events` look like an empty poll (`PollNothing` without
  its guard) and change nothing.
