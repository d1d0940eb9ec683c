------------------------------ MODULE Payments ------------------------------
(***************************************************************************)
(* A payment from the client to the balance: the transaction service       *)
(* accepts it (module Transactions), its outbox publishes BALANCE_UPDATED  *)
(* at least once (app/outbox/outbox_processor.py, module Outbox), and the  *)
(* user service applies what the topic holds (module BalanceUpdates).  The *)
(* services share user_balance: a payment is checked against the very      *)
(* balance its own event changes later.                                    *)
(*                                                                         *)
(* Both services are composed as they are.  The outbox between them is     *)
(* what Outbox is proved to implement, EventDelivery, with the attempts    *)
(* that run out.  Rollbacks change no state and are left out.              *)
(***************************************************************************)
EXTENDS Integers, Sequences, FiniteSets, FiniteSetsExt

CONSTANTS
    Ids, Users, Currencies, WithRow, Opening, Amounts,  \* of Transactions
    BatchSize, MaxMessages, MaxFaults,                  \* of BalanceUpdates
    MaxCopies                                           \* bound on publications of an event

Accounts == Users \X Currencies

Messages == [account : Accounts, amount : Amounts]

ASSUME PaymentsAssumption ==
    /\ WithRow \subseteq Accounts
    /\ Opening \in [Accounts -> Nat] /\ \A a \in Accounts \ WithRow : Opening[a] = 0
    /\ Amounts \subseteq Int
    /\ BatchSize \in Nat \ {0} /\ MaxMessages \in Nat /\ MaxFaults \in Nat
    /\ MaxCopies \in Nat

VARIABLES
    phase, account, amount, seen, answer, stored, pending, total, debt,
    log, committed, position, life, inflight, started, snapshot,
    applied, dropped, lost, ledger, contended, crashes, faults,
    balance,        \* read by one service, written by the other
    origin,         \* history: the transaction each message of the topic is about
    abandoned       \* transactions whose event ran out of attempts

\* Of Transactions, pending are those whose event the outbox still polls.
Creation == INSTANCE Transactions WITH rollback <- [t \in Ids |-> "none"]
Consumer == INSTANCE BalanceUpdates

service  == <<phase, account, amount, seen, answer, stored, total, debt>>
outbox   == <<pending, origin, abandoned>>
consumer == <<committed, position, life, inflight, started, snapshot,
              applied, dropped, lost, ledger, contended, crashes, faults>>
vars     == <<service, outbox, log, consumer, balance>>

Init == Creation!Init /\ Consumer!Init /\ origin = <<>> /\ abandoned = {}

-----------------------------------------------------------------------------

\* create_transaction; its commit stores the event as pending.
Create(t) ==
    /\ \/ Creation!RefuseZero(t) \/ Creation!ReadBalance(t) \/ Creation!RefuseNegative(t)
       \/ Creation!DatabaseFails(t) \/ Creation!Commit(t)
    /\ UNCHANGED <<origin, abandoned, log, consumer>>

Copies(t) == {i \in DOMAIN origin : origin[i] = t}

\* What BalanceEventHandler sends for the event of transaction t.
Message(t) == [account |-> account[t], amount |-> Creation!EventAmount(t)]

\* A processor that has read the event sends it; one may still do so after another has
\* settled it.
Publish(t) ==
    /\ t \in DOMAIN stored /\ Cardinality(Copies(t)) < MaxCopies
    /\ Consumer!Produce(Message(t))
    /\ origin' = Append(origin, t)
    /\ UNCHANGED <<service, pending, abandoned>>

SettleUnpublished(t) ==
    /\ t \in pending
    /\ pending' = pending \ {t}
    /\ UNCHANGED <<service, origin, abandoned, log, consumer, balance>>

\* mark_as_processed is committed.
Settle(t) ==
    /\ t \in pending /\ Copies(t) # {}
    /\ pending' = pending \ {t}
    /\ UNCHANGED <<service, origin, abandoned, log, consumer, balance>>

\* retry_count reaches MAX_RETRIES: no poll returns the event any more.
GiveUp(t) ==
    /\ t \in pending
    /\ pending' = pending \ {t} /\ abandoned' = abandoned \cup {t}
    /\ UNCHANGED <<service, origin, log, consumer, balance>>

\* A step of the balance consumer or of the task of message i.
OfConsumer(A) == A /\ UNCHANGED <<service, outbox>>

Consume == OfConsumer(\/ Consumer!Poll \/ Consumer!PollNothing \/ Consumer!AutoCommit
                      \/ Consumer!Stop \/ Consumer!Exit \/ Consumer!Crash \/ Consumer!Start)

Next ==
    \/ \E t \in Ids : Create(t) \/ Publish(t) \/ Settle(t) \/ GiveUp(t)
    \/ Consume
    \/ \E i \in Consumer!Offsets : OfConsumer(Consumer!TaskStep(i))

Spec == Init /\ [][Next]_vars

(* The outbox gets every event it polls out or gives it up, as             *)
(* Outbox!EventuallySettled says; the consumer's fairness is its own.      *)
Deliver(t) == t \in pending /\ ((Copies(t) = {} /\ Publish(t)) \/ Settle(t) \/ GiveUp(t))

Fairness ==
    /\ \A t \in Ids : WF_vars(Deliver(t))
    /\ WF_vars(OfConsumer(Consumer!Poll)) /\ WF_vars(OfConsumer(Consumer!Exit))
    /\ WF_vars(OfConsumer(Consumer!Start))
    /\ \A i \in Consumer!Offsets : WF_vars(OfConsumer(Consumer!TaskStep(i)))

FairSpec == Spec /\ Fairness

-----------------------------------------------------------------------------
(* Properties.                                                             *)

\* The services' types, and each message carries the account and the amount of the
\* stored transaction it comes from.
TypeOK ==
    /\ Creation!TypeOK /\ Consumer!TypeOK
    /\ abandoned \subseteq DOMAIN stored \ pending
    /\ origin \in Seq(DOMAIN stored) /\ Len(origin) = Len(log)
    /\ \A i \in DOMAIN origin :
           log[i] = [account |-> account[origin[i]], amount |-> amount[origin[i]]]

MessagesOf(a) == {i \in DOMAIN origin : account[origin[i]] = a}

\* The balance is what the client's transactions make of it: the opening amount and, for
\* every copy of every event, the accepted amount as often as the copy was applied -
\* unless two tasks collided on the account.
BalanceTraced ==
    \A a \in Accounts \ contended :
        balance[a] = Opening[a]
            + SumFunctionOnSet([i \in DOMAIN origin |-> applied[i] * amount[origin[i]]],
                               MessagesOf(a))

\* What became of copy i of an event that is not to be published again.
Accounted(i) == i > committed \/ applied[i] > 0 \/ i \in inflight \cup dropped \cup lost

\* No accepted payment vanishes between the services: its event is polled, was given up, or
\* has a copy in the topic that is still to come, at work, applied, dropped or lost.
AcceptedTraced ==
    \A t \in DOMAIN stored : t \in pending \cup abandoned \/ \E i \in Copies(t) : Accounted(i)

Unpaid == {t \in DOMAIN stored : \A i \in Copies(t) : applied[i] = 0}

Abstract == INSTANCE Transactions
                WITH rollback <- [t \in Ids |-> "none"], pending <- Unpaid

\* Nothing has gone wrong that repeats or mixes up updates.
Undisturbed ==
    /\ crashes = 0 /\ contended = {}
    /\ \A t \in Ids : \A i, j \in Copies(t) : i = j

\* Until the consumer crashes, an event is published twice or two tasks collide, outbox,
\* topic and handler together do what Transactions takes for one step: an accepted amount
\* enters the balance once and as a whole.  Restarts, give-ups, failing handlers and early
\* offset commits do not disturb that.
StepsAsTransactions == [][Undisturbed' => [Abstract!Next]_(Abstract!vars)]_vars

PaymentsOf(a) == {t \in DOMAIN stored : account[t] = a}

\* How often the user service has added the amount of transaction t to the balance.
TimesPaid(t) == SumFunctionOnSet(applied, Copies(t))

\* No payment is repeated without a reason: each copy of its event is applied once, and once
\* more for a crash.
RepeatedPaymentBound ==
    \A t \in DOMAIN stored : TimesPaid(t) <= (1 + crashes) * Cardinality(Copies(t))

\* What the balance has too much of an accepted transaction, or too little.
Astray == [t \in DOMAIN stored |-> (TimesPaid(t) - 1) * amount[t]]

\* How far the balance itself can be overdrawn, not only what was accepted, whatever
\* crashes, is lost or is published again: by the withdrawals that were checked against an
\* outdated balance, by accepted deposits that did not arrive, and by withdrawals that were
\* taken more than once - unless two tasks collided on the account.
BalanceOverdraftBound ==
    \A a \in Accounts \ contended :
        balance[a] + debt[a] >= SumFunctionOnSet(Astray, PaymentsOf(a))

\* Every accepted payment is paid in the end, given up by the outbox, dropped by a handler
\* or lost in a crash.
EventuallyPaid ==
    \A t \in Ids :
        t \in DOMAIN stored ~>
            \/ t \in abandoned
            \/ \E i \in Copies(t) : applied[i] > 0 \/ i \in dropped \cup lost
=============================================================================
