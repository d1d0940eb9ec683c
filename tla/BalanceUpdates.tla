--------------------------- MODULE BalanceUpdates ---------------------------
(***************************************************************************)
(* The user service's consumer of topic balance.updated: KafkaConsumer     *)
(* (app/outbox/kafka_consumer.py) with the handler handle_balance_updated  *)
(* (app/users/events/update_balance.py), which reads a balance, adds the   *)
(* message's amount and writes the sum back.                               *)
(*                                                                         *)
(* A batch of messages is handled by concurrent tasks, offsets are         *)
(* committed in the background whether or not the handlers have finished,  *)
(* and no failure of a handler reaches the consumer.  The topic has one    *)
(* partition and the consumer group one member, as deployed.               *)
(***************************************************************************)
EXTENDS Integers, Sequences, FiniteSets

CONSTANTS
    Accounts,       \* pairs of a user and a currency
    WithRow,        \* the accounts with exactly one row in user_balance
    Opening,        \* their amounts at the start
    Messages,       \* the messages the outbox can publish
    BatchSize,      \* KafkaConsumer.batch_size
    MaxMessages,    \* bound on the length of the topic
    MaxFaults       \* bound on stops, crashes and failures of the database

ASSUME BalanceAssumption ==
    /\ WithRow \subseteq Accounts
    /\ Opening \in [Accounts -> Int]
    /\ Messages \subseteq [account : Accounts, amount : Int]
    /\ BatchSize \in Nat \ {0} /\ MaxMessages \in Nat /\ MaxFaults \in Nat

VARIABLES
    log,            \* the topic's partition
    committed,      \* the group's committed offset
    position,       \* the consumer's: how many messages getmany has returned
    life,           \* "down", "up" or "stopping"
    inflight,       \* offsets of the batch whose tasks have not finished
    started,        \* those among them that have read the balance
    snapshot,       \* what they read
    balance,        \* user_balance.amount
    applied,        \* history: how often each message's sum was written
    dropped,        \* history: messages whose handler failed
    lost,           \* history: messages in flight at a crash, their offset committed
    ledger,         \* history: the sum of the amounts applied to each account
    contended,      \* history: accounts two tasks worked on at the same time
    crashes, faults \* history: counts

consumer == <<position, life, inflight, started, snapshot>>
history  == <<applied, dropped, lost, ledger, contended>>
vars     == <<log, committed, consumer, balance, history, crashes, faults>>

Offsets == 1 .. MaxMessages

Init ==
    /\ log = <<>> /\ committed = 0 /\ position = 0 /\ life = "down"
    /\ inflight = {} /\ started = {} /\ snapshot = [i \in Offsets |-> 0]
    /\ balance = Opening
    /\ applied = [i \in Offsets |-> 0] /\ dropped = {} /\ lost = {}
    /\ ledger = [a \in Accounts |-> 0] /\ contended = {}
    /\ crashes = 0 /\ faults = 0

Fault == faults < MaxFaults /\ faults' = faults + 1

-----------------------------------------------------------------------------

\* The outbox publishes a message: possibly one it has published before.
Produce(m) ==
    /\ Len(log) < MaxMessages
    /\ log' = Append(log, m)
    /\ UNCHANGED <<committed, consumer, balance, history, crashes, faults>>

PollWithoutGather ==
    /\ life = "up"
    /\ \E n \in 1 .. BatchSize :
        /\ position + n <= Len(log)
        /\ inflight' = inflight \cup (position + 1 .. position + n)
        /\ position' = position + n
    /\ UNCHANGED <<log, committed, life, started, snapshot, balance, history, crashes, faults>>

\* getmany returns up to batch_size messages; the previous batch has been gathered.
Poll ==
    /\ life = "up" /\ inflight = {}
    /\ \E n \in 1 .. BatchSize :
        /\ position + n <= Len(log)
        /\ inflight' = position + 1 .. position + n
        /\ position' = position + n
    /\ UNCHANGED <<log, committed, life, started, snapshot, balance, history, crashes, faults>>

\* getmany returns nothing.
PollNothing ==
    /\ life = "up" /\ inflight = {} /\ position = Len(log)
    /\ UNCHANGED vars

\* get_by_user_and_currency in the task of message i.
ReadBalance(i) ==
    /\ i \in inflight \ started /\ log[i].account \in WithRow
    /\ started' = started \cup {i}
    /\ snapshot' = [snapshot EXCEPT ![i] = balance[log[i].account]]
    /\ contended' = contended \cup
         {log[j].account : j \in {k \in started : log[k].account = log[i].account}}
    /\ UNCHANGED <<log, committed, position, life, inflight, balance,
                   applied, dropped, lost, ledger, crashes, faults>>

\* The task of message i is over.
Finish(i) ==
    /\ inflight' = inflight \ {i}
    /\ started' = started \ {i}

OldAmount(i) == snapshot[i]

\* What update_balance stores.
NewAmount(i) == snapshot[i] + log[i].amount

\* update_balance writes the sum and commits.
WriteBalance(i) ==
    /\ i \in started
    /\ balance' = [balance EXCEPT ![log[i].account] = NewAmount(i)]
    /\ applied' = [applied EXCEPT ![i] = @ + 1]
    /\ ledger' = [ledger EXCEPT ![log[i].account] = @ + log[i].amount]
    /\ Finish(i)
    /\ UNCHANGED <<log, committed, position, life, snapshot, dropped, lost, contended,
                   crashes, faults>>

\* The database fails, or the account has no single row: the exception is logged, the
\* message counts as handled.
HandlerFails(i) ==
    /\ i \in inflight
    /\ \/ log[i].account \notin WithRow /\ UNCHANGED faults
       \/ log[i].account \in WithRow /\ Fault
    /\ dropped' = dropped \cup {i}
    /\ Finish(i)
    /\ UNCHANGED <<log, committed, position, life, snapshot, balance,
                   applied, lost, ledger, contended, crashes>>

AutoCommitOneMore ==
    /\ life = "up" /\ committed < position
    /\ committed' = position + 1
    /\ UNCHANGED <<log, consumer, balance, history, crashes, faults>>

\* enable_auto_commit: the position, not what the handlers have finished.
AutoCommit ==
    /\ life = "up" /\ committed < position
    /\ committed' = position
    /\ UNCHANGED <<log, consumer, balance, history, crashes, faults>>

StopWithoutCommit ==
    /\ life = "up" /\ Fault
    /\ life' = "stopping"
    /\ UNCHANGED <<log, committed, position, inflight, started, snapshot, balance, history,
                   crashes>>

\* consumer.stop() commits a last time; lifespan then awaits the batch in flight.
Stop ==
    /\ life = "up" /\ Fault
    /\ life' = "stopping"
    /\ committed' = position
    /\ UNCHANGED <<log, position, inflight, started, snapshot, balance, history, crashes>>

Exit ==
    /\ life = "stopping" /\ inflight = {}
    /\ life' = "down"
    /\ UNCHANGED <<log, committed, position, inflight, started, snapshot, balance, history,
                   crashes, faults>>

\* The process dies with its tasks; no update of theirs is committed.
Crash ==
    /\ life # "down" /\ Fault
    /\ crashes' = crashes + 1
    /\ life' = "down"
    /\ lost' = lost \cup {i \in inflight : i <= committed}
    /\ inflight' = {} /\ started' = {}
    /\ UNCHANGED <<log, committed, position, snapshot, balance,
                   applied, dropped, ledger, contended>>

ResumeAtEnd == Len(log)

\* Where the broker lets the group resume (auto_offset_reset: earliest).
ResumeAt == committed

Start ==
    /\ life = "down"
    /\ life' = "up"
    /\ position' = ResumeAt
    /\ UNCHANGED <<log, committed, inflight, started, snapshot, balance, history, crashes, faults>>

-----------------------------------------------------------------------------

TaskStep(i) == ReadBalance(i) \/ WriteBalance(i) \/ HandlerFails(i)

Next ==
    \/ \E m \in Messages : Produce(m)
    \/ Poll \/ PollNothing \/ AutoCommit \/ Stop \/ Exit \/ Crash \/ Start
    \/ \E i \in Offsets : TaskStep(i)

Spec == Init /\ [][Next]_vars

(* The event loop runs the poll loop and every task; the container is      *)
(* restarted.  AutoCommit, faults and new messages are not owed.           *)
Fairness ==
    /\ WF_vars(Poll) /\ WF_vars(Exit) /\ WF_vars(Start)
    /\ \A i \in Offsets : WF_vars(TaskStep(i))

FairSpec == Spec /\ Fairness

-----------------------------------------------------------------------------
(* Properties.                                                             *)

\* The variables stay in their ranges, and the tasks in flight are those of polled messages.
TypeOK ==
    /\ log \in Seq(Messages) /\ Len(log) <= MaxMessages
    /\ committed \in 0 .. Len(log) /\ position \in 0 .. Len(log)
    /\ life \in {"down", "up", "stopping"}
    /\ inflight \subseteq 1 .. position /\ started \subseteq inflight
    /\ snapshot \in [Offsets -> Int] /\ balance \in [Accounts -> Int]
    /\ applied \in [Offsets -> Nat]
    /\ dropped \subseteq Offsets /\ lost \subseteq Offsets
    /\ ledger \in [Accounts -> Int] /\ contended \subseteq Accounts
    /\ crashes \in Nat /\ faults \in Nat

\* A balance is its opening amount plus everything applied to it, as long as no two tasks
\* of one batch worked on the account at the same time - across batches, redeliveries,
\* crashes and restarts.
UncontendedExact == \A a \in Accounts \ contended : balance[a] = Opening[a] + ledger[a]

\* "currency += delta" (update_balance.py:31): every amount applied is in the balance.
AppliedAddsUp == \A a \in Accounts : balance[a] = Opening[a] + ledger[a]

\* The group never commits past a message without a trace: below the committed offset a
\* message is applied, being worked on, or one of the two known losses.
NothingSkipped ==
    \A i \in 1 .. committed : applied[i] > 0 \/ i \in inflight \cup dropped \cup lost

\* Messages are applied again only because of a crash, at most once per crash; a graceful
\* restart repeats nothing.
AppliedBound == \A i \in Offsets : applied[i] <= 1 + crashes

\* The tasks in flight are those of one batch (gather is a barrier between batches).
OneBatchInFlight == inflight \subseteq position - BatchSize + 1 .. position

\* Every published message is eventually applied, dropped by its handler or lost in a crash.
EventuallyHandled ==
    \A i \in Offsets :
        i <= Len(log) ~> applied[i] > 0 \/ i \in dropped \cup lost
=============================================================================
