------------------------- MODULE TransactionsProofs -------------------------
(* Theorems of module Transactions, for any users, currencies, amounts and *)
(* number of concurrent creations.                                         *)
EXTENDS Transactions, Sums, TLAPS

\* The owner and the currency of a creation are an account.
LEMMA AccountOfCreation ==
    ASSUME TypeOK, NEW t \in Ids
    PROVE  account[t] \in Accounts /\ amount[t] \in Int /\ seen[t] \in Int
  BY TransactionsAssumption DEF TypeOK

LEMMA RoundedIsInt ==
    ASSUME NEW n \in Int
    PROVE  Rounded(n) \in Int
  BY DEF Rounded

LEMMA TypeInit == Init => TypeOK
  BY TransactionsAssumption DEF Init, TypeOK

LEMMA TypeStep == TypeOK /\ [Next]_vars => TypeOK'
<1> SUFFICES ASSUME TypeOK, [Next]_vars
             PROVE  TypeOK'
  OBVIOUS
<1> USE DEF TypeOK
<1>1. ASSUME NEW t \in Ids, RefuseZero(t)
      PROVE  TypeOK'
  BY <1>1 DEF RefuseZero, Answer
<1>2. ASSUME NEW t \in Ids, ReadBalance(t)
      PROVE  TypeOK'
  BY <1>2, AccountOfCreation DEF ReadBalance
<1>3. ASSUME NEW t \in Ids, RefuseNegative(t) \/ DatabaseFails(t)
      PROVE  TypeOK'
  BY <1>3 DEF RefuseNegative, DatabaseFails, Answer
<1>4. ASSUME NEW t \in Ids, Commit(t)
      PROVE  TypeOK'
  <2>1. /\ phase' \in [Ids -> {"new", "checking", "answered"}]
        /\ answer' \in [Ids -> {"none", "created", "bad_request", "negative_balance", "error"}]
        /\ UNCHANGED <<account, amount, seen, rollback, balance>>
        /\ pending' = pending \cup {t}
    BY <1>4 DEF Commit, Answer
  <2>2. DOMAIN stored' = DOMAIN stored \cup {t} /\ stored' \in [DOMAIN stored' -> Int]
    BY <1>4, AccountOfCreation, RoundedIsInt DEF Commit
  <2>3. total' \in [Accounts -> Int]
    BY <1>4, AccountOfCreation DEF Commit
  <2>4. debt' \in [Accounts -> Nat]
    BY <1>4, AccountOfCreation DEF Commit
  <2> QED
    BY <2>1, <2>2, <2>3, <2>4
<1>5. ASSUME NEW t \in Ids, Apply(t)
      PROVE  TypeOK'
  <2>1. balance' \in [Accounts -> Int]
    BY <1>5, AccountOfCreation DEF Apply, EventAmount
  <2> QED
    BY <1>5, <2>1 DEF Apply, request
<1>6. ASSUME NEW u \in Users, NEW t \in Ids, RequestRollback(u, t)
      PROVE  TypeOK'
  BY <1>6 DEF RequestRollback, RollbackOutcome, request
<1>7. ASSUME UNCHANGED vars
      PROVE  TypeOK'
  BY <1>7 DEF vars, request
<1> QED
  BY <1>1, <1>2, <1>3, <1>4, <1>5, <1>6, <1>7 DEF Next

\* The variables stay in their ranges, and only stored transactions have events under way.
THEOREM TypeCorrect == Spec => []TypeOK
  BY TypeInit, TypeStep, PTL DEF Spec

-----------------------------------------------------------------------------
(* OverdraftBound.  A creation is accepted when the balance it has read    *)
(* covers it.  If that balance was the total, the new total is covered; if *)
(* it was not, a withdrawal is added to the debt.                          *)

LEMMA OverdraftInit == Init => OverdraftBound
  BY TransactionsAssumption DEF Init, OverdraftBound

LEMMA OverdraftStep == TypeOK /\ OverdraftBound /\ [Next]_vars => OverdraftBound'
<1> SUFFICES ASSUME TypeOK, OverdraftBound, [Next]_vars
             PROVE  OverdraftBound'
  OBVIOUS
<1>1. ASSUME NEW t \in Ids, Commit(t)
      PROVE  OverdraftBound'
  <2> SUFFICES ASSUME NEW a \in Accounts
               PROVE  total'[a] + debt'[a] >= 0
    BY DEF OverdraftBound
  <2>1. /\ total[a] \in Int /\ debt[a] \in Nat /\ total[a] + debt[a] >= 0
        /\ amount[t] \in Int /\ seen[t] \in Int
    BY AccountOfCreation DEF TypeOK, OverdraftBound
  <2>2. CASE a # account[t]
    BY <1>1, <2>1, <2>2 DEF Commit, TypeOK
  <2>3. CASE a = account[t]
    <3>1. /\ total'[a] = total[a] + amount[t]
          /\ debt'[a] = debt[a] + IF amount[t] < 0 /\ Outdated(t) THEN -amount[t] ELSE 0
          /\ seen[t] + amount[t] >= 0
      BY <1>1, <2>3 DEF Commit, Covered, TypeOK
    <3>2. CASE amount[t] >= 0
      BY <2>1, <3>1, <3>2
    <3>3. CASE amount[t] < 0 /\ Outdated(t)
      BY <2>1, <3>1, <3>3
    <3>4. CASE amount[t] < 0 /\ ~Outdated(t)
      <4>1. seen[t] = total[a]
        BY <2>3, <3>4 DEF Outdated
      <4> QED
        BY <2>1, <3>1, <3>4, <4>1
    <3> QED
      BY <2>1, <3>2, <3>3, <3>4
  <2> QED
    BY <2>2, <2>3
<1>2. ASSUME UNCHANGED <<total, debt>>
      PROVE  OverdraftBound'
  BY <1>2 DEF OverdraftBound
<1> QED
  BY <1>1, <1>2
  DEF Next, RefuseZero, ReadBalance, RefuseNegative, DatabaseFails, Apply, RequestRollback, vars

\* An account is overdrawn by no more than the withdrawals that were accepted against an
\* outdated balance.
THEOREM OverdraftsExplained == Spec => []OverdraftBound
  BY TypeInit, TypeStep, OverdraftInit, OverdraftStep, PTL DEF Spec

-----------------------------------------------------------------------------
(* NothingForgotten and RoundingDrift.  A transaction is stored once, when *)
(* its creation is answered, so that its amount enters every sum once.     *)

StoredOnce ==
    /\ IsFiniteSet(DOMAIN stored)
    /\ \A t \in DOMAIN stored : phase[t] = "answered"

LEMMA StoredOnceInit == Init => StoredOnce
  BY FS_EmptySet DEF Init, StoredOnce

LEMMA StoredOnceStep == TypeOK /\ StoredOnce /\ [Next]_vars => StoredOnce'
<1> SUFFICES ASSUME TypeOK, StoredOnce, [Next]_vars PROVE StoredOnce'
  OBVIOUS
<1>1. ASSUME NEW t \in Ids, Commit(t) PROVE StoredOnce'
  <2>1. DOMAIN stored' = DOMAIN stored \cup {t}
    BY <1>1 DEF Commit
  <2>2. phase' = [phase EXCEPT ![t] = "answered"] /\ phase \in [Ids -> {"new", "checking", "answered"}]
    BY <1>1 DEF Commit, Answer, TypeOK
  <2> QED
    BY <2>1, <2>2, FS_AddElement DEF StoredOnce, TypeOK
<1>2. ASSUME NEW t \in Ids, RefuseZero(t) \/ ReadBalance(t) \/ RefuseNegative(t) \/ DatabaseFails(t)
      PROVE  StoredOnce'
  BY <1>2 DEF RefuseZero, ReadBalance, RefuseNegative, DatabaseFails, Answer, StoredOnce, TypeOK
<1>3. ASSUME UNCHANGED <<phase, stored>> PROVE StoredOnce'
  BY <1>3 DEF StoredOnce
<1> QED
  BY <1>1, <1>2, <1>3 DEF Next, Apply, RequestRollback, request, vars

\* The sums in question are over finite sets of integers.
LEMMA SumsDefined ==
    ASSUME TypeOK, StoredOnce, NEW a
    PROVE  /\ IsFiniteSet(InAccount(pending, a)) /\ IsFiniteSet(InAccount(DOMAIN stored, a))
           /\ \A t \in InAccount(pending, a) : amount[t] \in Int
           /\ \A t \in InAccount(DOMAIN stored, a) : stored[t] \in Int
           /\ SumFunctionOnSet(amount, InAccount(pending, a)) \in Int
           /\ SumFunctionOnSet(stored, InAccount(DOMAIN stored, a)) \in Int
<1>1. /\ InAccount(pending, a) \in SUBSET DOMAIN stored
      /\ InAccount(DOMAIN stored, a) \in SUBSET DOMAIN stored
  BY DEF InAccount, TypeOK
<1>2. IsFiniteSet(InAccount(pending, a)) /\ IsFiniteSet(InAccount(DOMAIN stored, a))
  BY <1>1, FS_Subset DEF StoredOnce
<1>3. \A t \in DOMAIN stored : amount[t] \in Int /\ stored[t] \in Int
  BY AccountOfCreation DEF TypeOK
<1> QED
  BY <1>1, <1>2, <1>3, SumIsInt

LEMMA ForgottenInit == Init => NothingForgotten
<1> SUFFICES ASSUME Init, NEW a \in WithRow
             PROVE  balance[a] + SumFunctionOnSet(amount, InAccount(pending, a)) = total[a]
  BY DEF NothingForgotten
<1>1. InAccount(pending, a) = {}
  BY DEF Init, InAccount
<1>2. SumFunctionOnSet(amount, InAccount(pending, a)) = 0
  BY <1>1, SumOfEmpty, Zenon
<1> QED
  BY <1>2, TransactionsAssumption DEF Init

LEMMA ForgottenStep ==
    TypeOK /\ StoredOnce /\ NothingForgotten /\ [Next]_vars => NothingForgotten'
<1> SUFFICES ASSUME TypeOK, StoredOnce, NothingForgotten, [Next]_vars, NEW a \in WithRow
             PROVE  balance'[a] + SumFunctionOnSet(amount', InAccount(pending, a)') = total'[a]
  BY DEF NothingForgotten
<1> DEFINE P == InAccount(pending, a)
           Sum(S) == SumFunctionOnSet(amount, S)
<1>1. /\ balance[a] + Sum(P) = total[a]
      /\ balance[a] \in Int /\ total[a] \in Int /\ Sum(P) \in Int
      /\ IsFiniteSet(P) /\ \A t \in P : amount[t] \in Int
  BY SumsDefined, TransactionsAssumption DEF NothingForgotten, TypeOK
<1>2. ASSUME NEW t \in Ids, Commit(t)
      PROVE  balance'[a] + SumFunctionOnSet(amount', P') = total'[a]
  <2>1. /\ UNCHANGED <<account, amount, balance>> /\ pending' = pending \cup {t}
        /\ total' = [total EXCEPT ![account[t]] = @ + amount[t]]
        /\ t \notin pending /\ amount[t] \in Int
    BY <1>2, AccountOfCreation DEF Commit, StoredOnce, TypeOK
  <2>2. CASE a # account[t]
    <3>1. P' = P /\ total'[a] = total[a]
      BY <2>1, <2>2 DEF InAccount, TypeOK
    <3> QED
      BY <1>1, <2>1, <3>1, Zenon
  <2>3. CASE a = account[t]
    <3>1. P' = P \cup {t} /\ t \notin P
      BY <2>1, <2>3 DEF InAccount
    <3>2. Sum(P \cup {t}) = Sum(P) + amount[t]
      BY <1>1, <2>1, <3>1, SumWith
    <3>3. SumFunctionOnSet(amount', P') = Sum(P \cup {t})
      BY <2>1, <3>1, Zenon
    <3>4. total'[a] = total[a] + amount[t]
      BY <2>1, <2>3 DEF TypeOK
    <3> QED
      BY <1>1, <2>1, <3>2, <3>3, <3>4
  <2> QED
    BY <2>2, <2>3
<1>3. ASSUME NEW t \in Ids, Apply(t)
      PROVE  balance'[a] + SumFunctionOnSet(amount', P') = total'[a]
  <2>1. /\ UNCHANGED <<account, amount, total>> /\ pending' = pending \ {t} /\ t \in pending
        /\ balance' = [balance EXCEPT ![account[t]] =
                          IF account[t] \in WithRow THEN @ + amount[t] ELSE @]
        /\ amount[t] \in Int
    BY <1>3, AccountOfCreation DEF Apply, request, EventAmount
  <2>2. CASE a # account[t]
    <3>1. P' = P /\ balance'[a] = balance[a]
      BY <2>1, <2>2, TransactionsAssumption DEF InAccount, TypeOK
    <3> QED
      BY <1>1, <2>1, <3>1, Zenon
  <2>3. CASE a = account[t]
    <3>1. P' = P \ {t} /\ t \in P
      BY <2>1, <2>3 DEF InAccount
    <3>2. Sum(P) = amount[t] + Sum(P \ {t})
      BY <1>1, <3>1, SumWithout
    <3>3. SumFunctionOnSet(amount', P') = Sum(P \ {t})
      BY <2>1, <3>1, Zenon
    <3>4. balance'[a] = balance[a] + amount[t]
      BY <2>1, <2>3, TransactionsAssumption DEF TypeOK
    <3>5. Sum(P \ {t}) \in Int
      BY <1>1, SumIsInt, FS_RemoveElement
    <3> HIDE DEF Sum, P
    <3> QED
      BY <1>1, <2>1, <3>2, <3>3, <3>4, <3>5
  <2> QED
    BY <2>2, <2>3
<1>4. ASSUME UNCHANGED <<account, amount, pending, balance, total>>
      PROVE  balance'[a] + SumFunctionOnSet(amount', P') = total'[a]
  <2>1. P' = P
    BY <1>4 DEF InAccount
  <2> QED
    BY <1>1, <1>4, <2>1, Zenon
<1> QED
  BY <1>2, <1>3, <1>4
  DEF Next, RefuseZero, ReadBalance, RefuseNegative, DatabaseFails, RequestRollback, request, vars

\* What the row of an account holds and what is still under way add up to everything that
\* was accepted for it.
THEOREM NothingIsForgotten == Spec => []NothingForgotten
  BY TypeInit, TypeStep, StoredOnceInit, StoredOnceStep, ForgottenInit, ForgottenStep, PTL DEF Spec

-----------------------------------------------------------------------------

Drift(a) == total[a] - Opening[a] - SumFunctionOnSet(stored, InAccount(DOMAIN stored, a))

\* Half a cent is the most that the column takes off an amount or puts on it, and nothing
\* when the amount is in whole cents.
LEMMA RoundingError ==
    ASSUME NEW n \in Int
    PROVE  /\ n - Rounded(n) \in Int
           /\ n - Rounded(n) <= 5 /\ -(n - Rounded(n)) <= 5
           /\ n % 10 = 0 => n - Rounded(n) = 0
  BY DEF Rounded

LEMMA DriftInit == Init => RoundingDrift
<1> SUFFICES ASSUME Init, NEW a \in Accounts
             PROVE  /\ Drift(a) <= 5 * Cardinality(Fractional(a))
                    /\ -Drift(a) <= 5 * Cardinality(Fractional(a))
  BY DEF RoundingDrift, Drift
<1>1. InAccount(DOMAIN stored, a) = {} /\ Fractional(a) = {}
  BY DEF Init, InAccount, Fractional
<1>2. SumFunctionOnSet(stored, InAccount(DOMAIN stored, a)) = 0
  BY <1>1, SumOfEmpty, Zenon
<1>3. Drift(a) = 0
  BY <1>2, TransactionsAssumption DEF Init, Drift
<1> QED
  BY <1>1, <1>3, FS_EmptySet

LEMMA DriftStep ==
    TypeOK /\ StoredOnce /\ RoundingDrift /\ [Next]_vars => RoundingDrift'
<1> SUFFICES ASSUME TypeOK, StoredOnce, RoundingDrift, [Next]_vars, NEW a \in Accounts
             PROVE  /\ Drift(a)' <= 5 * Cardinality(Fractional(a)')
                    /\ -(Drift(a)') <= 5 * Cardinality(Fractional(a)')
  BY DEF RoundingDrift, Drift
<1> DEFINE S == InAccount(DOMAIN stored, a)
           F == Fractional(a)
<1>1. /\ Drift(a) <= 5 * Cardinality(F) /\ -Drift(a) <= 5 * Cardinality(F)
      /\ total[a] \in Int /\ Opening[a] \in Int /\ SumFunctionOnSet(stored, S) \in Int
      /\ IsFiniteSet(S) /\ \A t \in S : stored[t] \in Int
  BY SumsDefined, TransactionsAssumption DEF RoundingDrift, Drift, TypeOK
<1>2. IsFiniteSet(F) /\ Cardinality(F) \in Nat
  BY <1>1, FS_Subset, FS_CardinalityType DEF Fractional
<1>3. ASSUME NEW t \in Ids, Commit(t)
      PROVE  /\ Drift(a)' <= 5 * Cardinality(F') /\ -(Drift(a)') <= 5 * Cardinality(F')
  <2>1. /\ UNCHANGED <<account, amount>> /\ DOMAIN stored' = DOMAIN stored \cup {t}
        /\ stored'[t] = Rounded(amount[t]) /\ \A u \in DOMAIN stored : stored'[u] = stored[u]
        /\ total' = [total EXCEPT ![account[t]] = @ + amount[t]]
        /\ t \notin DOMAIN stored /\ amount[t] \in Int
    BY <1>3, AccountOfCreation DEF Commit, StoredOnce, TypeOK
  <2>2. CASE a # account[t]
    <3>1. S' = S /\ F' = F /\ total'[a] = total[a]
      BY <2>1, <2>2 DEF InAccount, Fractional, TypeOK
    <3>2. \A u \in S : stored[u] = stored'[u]
      BY <2>1 DEF InAccount
    <3>3. SumFunctionOnSet(stored, S) = SumFunctionOnSet(stored', S)
      BY <1>1, <3>2, SumAgrees
    <3>4. SumFunctionOnSet(stored', S') = SumFunctionOnSet(stored, S)
      BY <3>1, <3>3, Zenon
    <3>5. Drift(a)' = Drift(a)
      BY <3>1, <3>4 DEF Drift
    <3> QED
      BY <1>1, <3>1, <3>5, Zenon
  <2>3. CASE a = account[t]
    <3>1. S' = S \cup {t} /\ t \notin S
      BY <2>1, <2>3 DEF InAccount
    <3>2. \A u \in S : stored[u] = stored'[u]
      BY <2>1 DEF InAccount
    <3>3. SumFunctionOnSet(stored, S) = SumFunctionOnSet(stored', S)
      BY <1>1, <3>2, SumAgrees
    <3>4. stored'[t] \in Int /\ \A u \in S : stored'[u] \in Int
      BY <1>1, <2>1, <3>2 DEF Rounded
    <3>5. SumFunctionOnSet(stored', S \cup {t}) = SumFunctionOnSet(stored', S) + stored'[t]
      BY <1>1, <3>1, <3>4, SumWith
    <3>6. SumFunctionOnSet(stored', S') = SumFunctionOnSet(stored', S \cup {t})
      BY <3>1, Zenon
    <3>7. total'[a] = total[a] + amount[t]
      BY <2>1, <2>3 DEF TypeOK
    <3>8. Drift(a)' = Drift(a) + (amount[t] - Rounded(amount[t])) /\ Drift(a) \in Int
      BY <1>1, <2>1, <3>3, <3>5, <3>6, <3>7, <3>4 DEF Drift
    <3>9. F' = IF amount[t] % 10 = 0 THEN F ELSE F \cup {t}
      BY <2>1, <3>1 DEF Fractional
    <3>10. Cardinality(F') = IF amount[t] % 10 = 0 THEN Cardinality(F) ELSE Cardinality(F) + 1
      BY <1>2, <3>1, <3>9, FS_AddElement DEF Fractional
    <3> DEFINE n == amount[t]
               error == n - Rounded(n)
               old == Drift(a)
               new == Drift(a)'
    <3>11. /\ error \in Int /\ error <= 5 /\ -error <= 5
           /\ n % 10 = 0 => error = 0
      <4>1. n \in Int
        BY <2>1
      <4> HIDE DEF n
      <4> QED
        BY <4>1, RoundingError
    <3>12. new = old + error /\ old \in Int
      BY <3>8
    <3>13. old <= 5 * Cardinality(F) /\ -old <= 5 * Cardinality(F)
      BY <1>1
    <3>14. Cardinality(F') \in {Cardinality(F), Cardinality(F) + 1}
           /\ (Cardinality(F') = Cardinality(F) => error = 0)
      BY <1>2, <3>10, <3>11
    <3>15. new <= 5 * Cardinality(F') /\ -new <= 5 * Cardinality(F')
      <4> HIDE DEF S, F, n, error, old, new
      <4> QED
        BY <1>2, <3>11, <3>12, <3>13, <3>14
    <3> QED
      BY <3>15
  <2> QED
    BY <2>2, <2>3
<1>4. ASSUME UNCHANGED <<account, amount, stored, total>>
      PROVE  /\ Drift(a)' <= 5 * Cardinality(F') /\ -(Drift(a)') <= 5 * Cardinality(F')
  <2>1. S' = S /\ F' = F
    BY <1>4 DEF InAccount, Fractional
  <2>2. Drift(a)' = Drift(a)
    BY <1>4, <2>1, Zenon DEF Drift
  <2> QED
    BY <1>1, <2>1, <2>2, Zenon
<1> QED
  BY <1>3, <1>4
  DEF Next, RefuseZero, ReadBalance, RefuseNegative, DatabaseFails, Apply, RequestRollback,
      request, vars

\* The rows of an account and its accepted amounts differ by the rounding of the column
\* only: half a cent at most for each amount that is not in whole cents.
THEOREM DriftIsRounding == Spec => []RoundingDrift
  BY TypeInit, TypeStep, StoredOnceInit, StoredOnceStep, DriftInit, DriftStep, PTL DEF Spec
=============================================================================
