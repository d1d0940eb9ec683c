---------------------------- MODULE Transactions ----------------------------
(***************************************************************************)
(* TransactionService (app/transactions/service/transaction_service.py):   *)
(* creating a transaction checks the balance it reads, then commits the    *)
(* transaction's row together with its outbox events.  The balance itself  *)
(* changes later, when the user service applies the BALANCE_UPDATED event; *)
(* here that is one step per event, its own module being BalanceUpdates.   *)
(*                                                                         *)
(* Amounts are in tenths of a cent, the smallest unit that shows what the  *)
(* column Numeric(18, 2) does to an amount of the request.                 *)
(***************************************************************************)
EXTENDS Integers, FiniteSets, FiniteSetsExt

CONSTANTS
    Ids,            \* the transactions clients can ask for
    Users, Currencies,
    WithRow,        \* accounts with a row in user_balance
    Opening,        \* their amounts at the start
    Amounts         \* what clients can ask for

Accounts == Users \X Currencies

ASSUME TransactionsAssumption ==
    /\ WithRow \subseteq Accounts
    /\ Opening \in [Accounts -> Nat] /\ \A a \in Accounts \ WithRow : Opening[a] = 0
    /\ Amounts \subseteq Int

VARIABLES
    phase,          \* of each creation: "new", "checking" (balance read) or "answered"
    account,        \* of the creation's user and currency
    amount,         \* transaction_data.amount
    seen,           \* current_amount, as the creation read it
    answer,         \* of the creation: "none", "created" or the error
    rollback,       \* latest answer to a request to roll it back
    stored,         \* the transaction rows: PROCESSED ones, amount as the column holds it
    pending,        \* transactions whose BALANCE_UPDATED event is not applied yet
    balance,        \* user_balance.amount
    total,          \* history: opening amount and all amounts of committed events
    debt            \* history: withdrawals accepted against an outdated balance

request == <<phase, account, amount, seen, answer>>
vars    == <<request, rollback, stored, pending, balance, total, debt>>

Init ==
    /\ phase = [t \in Ids |-> "new"]
    /\ account \in [Ids -> Accounts] /\ amount \in [Ids -> Amounts]
    /\ seen = [t \in Ids |-> 0] /\ answer = [t \in Ids |-> "none"]
    /\ rollback = [t \in Ids |-> "none"]
    /\ stored = [t \in {} |-> 0]
    /\ pending = {}
    /\ balance = Opening /\ total = Opening
    /\ debt = [a \in Accounts |-> 0]

-----------------------------------------------------------------------------
(* create_transaction                                                      *)

Answer(t, what) ==
    /\ phase' = [phase EXCEPT ![t] = "answered"]
    /\ answer' = [answer EXCEPT ![t] = what]

\* _validate_transaction_amount.
RefuseZero(t) ==
    /\ phase[t] = "new" /\ amount[t] = 0
    /\ Answer(t, "bad_request")
    /\ UNCHANGED <<account, amount, seen, rollback, stored, pending, balance, total, debt>>

\* get_by_user_and_currency; no row counts as nothing.
ReadBalance(t) ==
    /\ phase[t] = "new" /\ amount[t] # 0
    /\ seen' = [seen EXCEPT ![t] = IF account[t] \in WithRow THEN balance[account[t]] ELSE 0]
    /\ phase' = [phase EXCEPT ![t] = "checking"]
    /\ UNCHANGED <<account, amount, answer, rollback, stored, pending, balance, total, debt>>

CoveredByBalanceAlone(t) == seen[t] >= 0

\* _validate_balance_not_negative of current_amount + amount.
Covered(t) == seen[t] + amount[t] >= 0

\* A statement or the commit raises, and the session closes without effect.  This is how
\* every creation ends in a database that has no table user_balance.
DatabaseFails(t) ==
    /\ \/ phase[t] = "new" /\ amount[t] # 0
       \/ phase[t] = "checking" /\ Covered(t)
    /\ Answer(t, "error")
    /\ UNCHANGED <<account, amount, seen, rollback, stored, pending, balance, total, debt>>

RefuseNegativeTooLate(t) ==
    /\ phase[t] = "checking" /\ ~Covered(t)
    /\ Answer(t, "negative_balance")
    /\ pending' = pending \cup {t}
    /\ UNCHANGED <<account, amount, seen, rollback, stored, balance, total, debt>>

\* NegativeBalanceException, before anything is written.
RefuseNegative(t) ==
    /\ phase[t] = "checking" /\ ~Covered(t)
    /\ Answer(t, "negative_balance")
    /\ UNCHANGED <<account, amount, seen, rollback, stored, pending, balance, total, debt>>

TruncatedToCents(n) == IF n >= 0 THEN 10 * (n \div 10) ELSE -(10 * ((-n) \div 10))

\* What Numeric(18, 2) keeps of an amount: whole cents, halves away from zero.
Rounded(n) == IF n >= 0 THEN 10 * ((n + 5) \div 10) ELSE -(10 * ((5 - n) \div 10))

AbsoluteEventAmount(t) == IF amount[t] < 0 THEN -amount[t] ELSE amount[t]

\* The amount of the BALANCE_UPDATED event: the request's, not the row's.
EventAmount(t) == amount[t]

\* Whether the balance that was checked leaves out an accepted transaction.
Outdated(t) == seen[t] # total[account[t]]

\* The row, TRANSACTION_CREATED and BALANCE_UPDATED are committed together; the
\* connection can break before the commit is acknowledged.
Commit(t) ==
    /\ phase[t] = "checking" /\ Covered(t)
    /\ \E what \in {"created", "error"} : Answer(t, what)
    /\ stored' = [u \in DOMAIN stored \cup {t} |-> IF u = t THEN Rounded(amount[t]) ELSE stored[u]]
    /\ pending' = pending \cup {t}
    /\ total' = [total EXCEPT ![account[t]] = @ + amount[t]]
    /\ debt' = [debt EXCEPT ![account[t]] =
                   @ + IF amount[t] < 0 /\ Outdated(t) THEN -amount[t] ELSE 0]
    /\ UNCHANGED <<account, amount, seen, rollback, balance>>

-----------------------------------------------------------------------------
(* update_transaction: every path raises.  After the two checks the code   *)
(* passes a User, or None, to session.execute, which accepts neither; what *)
(* follows in the source is never reached, on a real session in a test     *)
(* as little as in the service.                                            *)

RollbackOutcome(u, t) ==
    IF t \notin DOMAIN stored      THEN "not_exists"
    ELSE IF account[t][1] # u THEN "not_of_user" ELSE "error"

RequestRollback(u, t) ==
    /\ rollback' = [rollback EXCEPT ![t] = RollbackOutcome(u, t)]
    /\ UNCHANGED <<request, stored, pending, balance, total, debt>>

-----------------------------------------------------------------------------
(* The user service, in the end.                                           *)

\* handle_balance_updated, undisturbed; without a row the update fails unseen.
Apply(t) ==
    /\ t \in pending
    /\ pending' = pending \ {t}
    /\ balance' = [balance EXCEPT ![account[t]] =
                      IF account[t] \in WithRow THEN @ + EventAmount(t) ELSE @]
    /\ UNCHANGED <<request, rollback, stored, total, debt>>

Next ==
    \/ \E t \in Ids :
        \/ RefuseZero(t) \/ ReadBalance(t) \/ RefuseNegative(t)
        \/ DatabaseFails(t) \/ Commit(t)
        \/ Apply(t)
    \/ \E u \in Users, t \in Ids : RequestRollback(u, t)

Spec == Init /\ [][Next]_vars

-----------------------------------------------------------------------------
(* Properties.                                                             *)

\* The variables stay in their ranges; only committed creations are pending, and no request
\* for a rollback succeeds (RollbacksAnswered is what it should do).
TypeOK ==
    /\ phase \in [Ids -> {"new", "checking", "answered"}]
    /\ account \in [Ids -> Accounts] /\ amount \in [Ids -> Amounts]
    /\ seen \in [Ids -> Int]
    /\ answer \in [Ids -> {"none", "created", "bad_request", "negative_balance", "error"}]
    /\ rollback \in [Ids -> {"none", "not_exists", "not_of_user", "error"}]
    /\ DOMAIN stored \subseteq Ids /\ stored \in [DOMAIN stored -> Int]
    /\ pending \subseteq DOMAIN stored
    /\ balance \in [Accounts -> Int] /\ total \in [Accounts -> Int]
    /\ debt \in [Accounts -> Nat]

InAccount(S, a) == {t \in S : account[t] = a}

\* No accepted amount is forgotten or counted twice on its way to the balance: what the
\* row holds and what is still under way add up to everything accepted.
NothingForgotten ==
    \A a \in WithRow :
        balance[a] + SumFunctionOnSet(amount, InAccount(pending, a)) = total[a]

\* How far an account can be overdrawn: by the withdrawals that were accepted while the
\* balance they were checked against was outdated, and by nothing else.
OverdraftBound == \A a \in Accounts : total[a] + debt[a] >= 0

Fractional(a) == {t \in InAccount(DOMAIN stored, a) : amount[t] % 10 # 0}

\* The transaction rows and the balance drift apart by the rounding of the amount column:
\* at most half a cent for each amount that is not in whole cents.
RoundingDrift ==
    \A a \in Accounts :
        LET drift == total[a] - Opening[a]
                     - SumFunctionOnSet(stored, InAccount(DOMAIN stored, a))
        IN  drift <= 5 * Cardinality(Fractional(a)) /\ -drift <= 5 * Cardinality(Fractional(a))

\* A rollback that gets as far as the user is done, or refused for a balance that would become
\* negative or because it was done before; the service's tests expect the three of them
\* (tests/service/transactions_service_tests.py:135, 185, 221).
RollbacksAnswered ==
    \A t \in Ids : rollback[t] \in {"none", "not_exists", "not_of_user",
                                    "rolled_back", "negative_balance", "already_rolled_back"}

\* "Validate that balance is not negative." (transaction_service.py:212)
BalanceNotNegative == \A a \in Accounts : balance[a] >= 0
=============================================================================
