---------------------------- MODULE BalanceProofs ----------------------------
(* Theorems of module BalanceUpdates, for every set of accounts, every     *)
(* opening balance, and topics and batches of any size.                    *)
EXTENDS BalanceUpdates, TLAPS

-----------------------------------------------------------------------------
(* TypeOK.  A restart moves the position back, so TypeOK also needs that a *)
(* process that is down has no tasks.                                      *)

TypeInv == TypeOK /\ (life = "down" => inflight = {})

\* What the type invariant says of a message in flight.
LEMMA MessageInFlight ==
    ASSUME TypeInv, NEW i \in inflight
    PROVE  /\ i \in Offsets /\ i \in 1 .. Len(log) /\ i \in 1 .. position
           /\ log[i].account \in Accounts /\ log[i].amount \in Int
<1>1. /\ position \in 0 .. Len(log) /\ Len(log) \in Nat /\ Len(log) <= MaxMessages
      /\ i \in 1 .. position /\ log \in Seq(Messages)
  BY DEF TypeInv, TypeOK
<1>2. i \in Offsets /\ i \in 1 .. Len(log)
  BY <1>1, BalanceAssumption DEF Offsets
<1>3. log[i] \in Messages
  BY <1>1, <1>2
<1> QED
  BY <1>1, <1>2, <1>3, BalanceAssumption

LEMMA TypeInit == Init => TypeInv
  BY BalanceAssumption DEF Init, TypeInv, TypeOK, Offsets

LEMMA TypeStep == TypeInv /\ [Next]_vars => TypeInv'
<1> SUFFICES ASSUME TypeInv, [Next]_vars
             PROVE  TypeInv'
  OBVIOUS
<1> USE DEF TypeInv, TypeOK
<1>1. ASSUME NEW m \in Messages, Produce(m)
      PROVE  TypeInv'
  <2>1. /\ log' \in Seq(Messages) /\ Len(log') = Len(log) + 1 /\ Len(log') <= MaxMessages
        /\ Len(log) \in Nat
    BY <1>1, BalanceAssumption DEF Produce
  <2>2. committed \in 0 .. Len(log') /\ position \in 0 .. Len(log')
    BY <2>1
  <2> QED
    BY <1>1, <2>1, <2>2 DEF Produce, consumer, history
<1>2. ASSUME Poll
      PROVE  TypeInv'
  <2>1. PICK n \in 1 .. BatchSize : /\ position + n <= Len(log)
                                    /\ inflight' = position + 1 .. position + n
                                    /\ position' = position + n
    BY <1>2 DEF Poll
  <2>2. started = {} /\ life = "up"
    BY <1>2 DEF Poll
  <2>3. position' \in 0 .. Len(log) /\ inflight' \subseteq 1 .. position'
    BY <2>1, BalanceAssumption
  <2> QED
    BY <1>2, <2>2, <2>3 DEF Poll, history
<1>3. ASSUME NEW i \in Offsets, TaskStep(i)
      PROVE  TypeInv'
  <2>1. i \in inflight
    BY <1>3 DEF TaskStep, ReadBalance, WriteBalance, HandlerFails
  <2>2. log[i].account \in Accounts /\ log[i].amount \in Int
    BY <2>1, MessageInFlight
  <2>3. CASE ReadBalance(i)
    <3>1. contended' \subseteq Accounts
      <4>1. \A j \in started : log[j].account \in Accounts
        BY MessageInFlight
      <4> QED
        BY <2>3, <4>1 DEF ReadBalance
    <3> QED
      BY <2>1, <2>2, <2>3, <3>1 DEF ReadBalance
  <2>4. CASE WriteBalance(i)
    <3>1. /\ balance' \in [Accounts -> Int] /\ ledger' \in [Accounts -> Int]
          /\ applied' \in [Offsets -> Nat]
      BY <2>1, <2>2, <2>4 DEF WriteBalance, NewAmount
    <3> QED
      BY <2>4, <3>1 DEF WriteBalance, Finish
  <2>5. CASE HandlerFails(i)
    BY <2>5 DEF HandlerFails, Finish, Fault
  <2> QED
    BY <1>3, <2>3, <2>4, <2>5 DEF TaskStep
<1>4. ASSUME AutoCommit
      PROVE  TypeInv'
  BY <1>4 DEF AutoCommit, consumer, history
<1>5. ASSUME Stop
      PROVE  TypeInv'
  BY <1>5 DEF Stop, Fault, history
<1>6. ASSUME Exit
      PROVE  TypeInv'
  BY <1>6 DEF Exit, history
<1>7. ASSUME Crash
      PROVE  TypeInv'
  <2>1. lost' \subseteq Offsets
    BY <1>7, MessageInFlight DEF Crash
  <2> QED
    BY <1>7, <2>1 DEF Crash, Fault
<1>8. ASSUME Start
      PROVE  TypeInv'
  BY <1>8 DEF Start, ResumeAt, history
<1>9. ASSUME PollNothing \/ UNCHANGED vars
      PROVE  TypeInv'
  BY <1>9 DEF PollNothing, vars, consumer, history
<1> QED
  BY <1>1, <1>2, <1>3, <1>4, <1>5, <1>6, <1>7, <1>8, <1>9 DEF Next

\* The variables of the consumer stay in their ranges.
THEOREM TypeCorrect == Spec => []TypeOK
<1>1. TypeInv => TypeOK
  BY DEF TypeInv
<1> QED
  BY <1>1, TypeInit, TypeStep, PTL DEF Spec

-----------------------------------------------------------------------------
(* OneBatchInFlight.                                                       *)

\* The tasks in flight never belong to more than one batch.
THEOREM OneBatch == Spec => []OneBatchInFlight
<1>1. Init => OneBatchInFlight
  BY DEF Init, OneBatchInFlight
<1>2. TypeInv /\ OneBatchInFlight /\ [Next]_vars => OneBatchInFlight'
  <2> SUFFICES ASSUME TypeInv, OneBatchInFlight, [Next]_vars
               PROVE  OneBatchInFlight'
    OBVIOUS
  <2>1. CASE Poll
    <3>1. PICK n \in 1 .. BatchSize : /\ inflight' = position + 1 .. position + n
                                      /\ position' = position + n
      BY <2>1 DEF Poll
    <3> QED
      BY <3>1, BalanceAssumption DEF OneBatchInFlight, TypeInv, TypeOK
  <2>2. CASE inflight' = {}
    BY <2>2 DEF OneBatchInFlight
  <2>3. CASE position' = position /\ inflight' \subseteq inflight
    BY <2>3 DEF OneBatchInFlight
  <2> QED
    BY <2>1, <2>2, <2>3
    DEF Next, Produce, PollNothing, TaskStep, ReadBalance, WriteBalance, HandlerFails, Finish,
        AutoCommit, Stop, Exit, Crash, Start, TypeInv, vars, consumer
<1> QED
  BY <1>1, <1>2, TypeInit, TypeStep, PTL DEF Spec

-----------------------------------------------------------------------------
(* UncontendedExact.  The task that has read the balance of an account     *)
(* which is not contended is the only one, so that what it has read is     *)
(* still the balance when it writes.                                       *)

Account(i) == log[i].account

LoneTask ==
    \A i, j \in started : i # j /\ Account(i) = Account(j) => Account(i) \in contended

FreshSnapshot ==
    \A i \in started : Account(i) \notin contended => snapshot[i] = balance[Account(i)]

ExactInv == TypeInv /\ LoneTask /\ FreshSnapshot /\ UncontendedExact

LEMMA ExactInit == Init => ExactInv
  BY TypeInit, BalanceAssumption DEF Init, ExactInv, LoneTask, FreshSnapshot, UncontendedExact

\* A step that adds no task and touches no balance.
LEMMA ExactKept ==
    ASSUME ExactInv, started' \subseteq started,
           UNCHANGED <<snapshot, balance, ledger, contended>>,
           \A i \in started : Account(i)' = Account(i)
    PROVE  LoneTask' /\ FreshSnapshot' /\ UncontendedExact'
  BY DEF ExactInv, LoneTask, FreshSnapshot, UncontendedExact, Account

LEMMA ExactStep == ExactInv /\ [Next]_vars => ExactInv'
<1> SUFFICES ASSUME ExactInv, [Next]_vars
             PROVE  LoneTask' /\ FreshSnapshot' /\ UncontendedExact'
  BY TypeStep DEF ExactInv
<1>0. /\ TypeInv
      /\ started \subseteq inflight /\ snapshot \in [Offsets -> Int]
      /\ balance \in [Accounts -> Int] /\ ledger \in [Accounts -> Int]
      /\ \A i \in inflight : /\ i \in Offsets /\ i \in 1 .. Len(log)
                             /\ Account(i) \in Accounts /\ log[i].amount \in Int
  BY MessageInFlight DEF ExactInv, TypeInv, TypeOK, Account
<1>1. ASSUME NEW m \in Messages, Produce(m)
      PROVE  LoneTask' /\ FreshSnapshot' /\ UncontendedExact'
  <2>1. \A i \in started : Account(i)' = Account(i)
    BY <1>0, <1>1 DEF Produce, Account, TypeInv, TypeOK
  <2> QED
    BY <1>1, <2>1, ExactKept DEF Produce, consumer, history
<1>2. ASSUME NEW i \in Offsets, ReadBalance(i)
      PROVE  LoneTask' /\ FreshSnapshot' /\ UncontendedExact'
  <2>1. /\ i \in inflight /\ i \notin started
        /\ started' = started \cup {i} /\ balance' = balance /\ ledger' = ledger
        /\ snapshot' = [snapshot EXCEPT ![i] = balance[Account(i)]]
        /\ \A k : Account(k)' = Account(k)
        /\ contended \subseteq contended'
    BY <1>2 DEF ReadBalance, Account
  <2>2. \A j \in started : Account(j) = Account(i) => Account(i) \in contended'
    BY <1>2 DEF ReadBalance, Account
  <2>3. LoneTask'
    <3> SUFFICES ASSUME NEW j \in started', NEW k \in started', j # k,
                        Account(j) = Account(k)
                 PROVE  Account(j) \in contended'
      BY <2>1 DEF LoneTask
    <3>1. CASE j \in started /\ k \in started
      BY <2>1, <3>1 DEF ExactInv, LoneTask
    <3>2. CASE j = i \/ k = i
      BY <2>1, <2>2, <3>2
    <3> QED
      BY <2>1, <3>1, <3>2
  <2>4. FreshSnapshot'
    <3> SUFFICES ASSUME NEW j \in started', Account(j) \notin contended'
                 PROVE  snapshot'[j] = balance[Account(j)]
      BY <2>1 DEF FreshSnapshot
    <3>1. CASE j = i
      BY <1>0, <2>1, <3>1
    <3>2. CASE j # i
      BY <1>0, <2>1, <3>2 DEF ExactInv, FreshSnapshot
    <3> QED
      BY <3>1, <3>2
  <2>5. UncontendedExact'
    BY <2>1 DEF ExactInv, UncontendedExact
  <2> QED
    BY <2>3, <2>4, <2>5
<1>3. ASSUME NEW i \in Offsets, WriteBalance(i)
      PROVE  LoneTask' /\ FreshSnapshot' /\ UncontendedExact'
  <2>1. /\ i \in started /\ started' = started \ {i} /\ contended' = contended
        /\ snapshot' = snapshot /\ \A k : Account(k)' = Account(k)
        /\ balance' = [balance EXCEPT ![Account(i)] = snapshot[i] + log[i].amount]
        /\ ledger' = [ledger EXCEPT ![Account(i)] = @ + log[i].amount]
    BY <1>3 DEF WriteBalance, Finish, NewAmount, Account
  <2>2. LoneTask'
    BY <2>1 DEF ExactInv, LoneTask
  <2>3. FreshSnapshot'
    <3> SUFFICES ASSUME NEW j \in started', Account(j) \notin contended
                 PROVE  snapshot[j] = balance'[Account(j)]
      BY <2>1 DEF FreshSnapshot
    <3>1. Account(j) # Account(i)
      BY <2>1 DEF ExactInv, LoneTask
    <3> QED
      BY <1>0, <2>1, <3>1 DEF ExactInv, FreshSnapshot
  <2>4. UncontendedExact'
    <3> SUFFICES ASSUME NEW a \in Accounts \ contended
                 PROVE  balance'[a] = Opening[a] + ledger'[a]
      BY <2>1 DEF UncontendedExact
    <3>1. Opening[a] \in Int /\ balance[a] = Opening[a] + ledger[a]
      BY BalanceAssumption DEF ExactInv, UncontendedExact
    <3>2. CASE a = Account(i)
      <4>1. snapshot[i] = balance[a]
        BY <2>1, <3>2 DEF ExactInv, FreshSnapshot
      <4>2. /\ balance'[a] = snapshot[i] + log[i].amount
            /\ ledger'[a] = ledger[a] + log[i].amount
        BY <1>0, <2>1, <3>2
      <4>3. log[i].amount \in Int /\ ledger[a] \in Int
        BY <1>0, <2>1
      <4> QED
        BY <3>1, <4>1, <4>2, <4>3
    <3>3. CASE a # Account(i)
      BY <1>0, <2>1, <3>1, <3>3
    <3> QED
      BY <3>2, <3>3
  <2> QED
    BY <2>2, <2>3, <2>4
<1>4. ASSUME started' \subseteq started, UNCHANGED <<log, snapshot, balance, ledger, contended>>
      PROVE  LoneTask' /\ FreshSnapshot' /\ UncontendedExact'
  BY <1>4, ExactKept DEF Account
<1>5. ASSUME NEW i \in Offsets, HandlerFails(i)
      PROVE  LoneTask' /\ FreshSnapshot' /\ UncontendedExact'
  BY <1>4, <1>5 DEF HandlerFails, Finish
<1>6. ASSUME Poll \/ PollNothing \/ AutoCommit \/ Stop \/ Exit \/ Crash \/ Start \/ UNCHANGED vars
      PROVE  LoneTask' /\ FreshSnapshot' /\ UncontendedExact'
  <2>1. started' \subseteq started /\ UNCHANGED <<log, snapshot, balance, ledger, contended>>
    BY <1>6 DEF Poll, PollNothing, AutoCommit, Stop, Exit, Crash, Start, vars, consumer, history
  <2> QED
    BY <1>4, <2>1
<1> QED
  BY <1>1, <1>2, <1>3, <1>5, <1>6 DEF Next, TaskStep

\* Every balance is its opening amount plus what was applied, as long as no two tasks of a
\* batch met on the account.
THEOREM ExactUnlessContended == Spec => []UncontendedExact
<1>1. ExactInv => UncontendedExact
  BY DEF ExactInv
<1> QED
  BY <1>1, ExactInit, ExactStep, PTL DEF Spec

-----------------------------------------------------------------------------
(* NothingSkipped.  While the process runs, the same holds up to its       *)
(* position: that is what an offset commit relies on.                      *)

Traced(i) == applied[i] > 0 \/ i \in inflight \cup dropped \cup lost

PolledTraced == life # "down" => \A i \in 1 .. position : Traced(i)

TraceInv == TypeInv /\ PolledTraced /\ \A i \in 1 .. committed : Traced(i)

LEMMA TraceInit == Init => TraceInv
  BY TypeInit DEF Init, TraceInv, PolledTraced

LEMMA TraceStep == TraceInv /\ [Next]_vars => TraceInv'
<1> SUFFICES ASSUME TraceInv, [Next]_vars
             PROVE  PolledTraced' /\ \A i \in 1 .. committed' : Traced(i)'
  BY TypeStep DEF TraceInv
<1>0. /\ position \in Nat /\ committed \in Nat /\ applied \in [Offsets -> Nat]
      /\ \A i \in 1 .. position : i \in Offsets
      /\ \A i \in 1 .. committed : i \in Offsets
      /\ life = "down" => inflight = {}
  <2>1. /\ position \in 0 .. Len(log) /\ committed \in 0 .. Len(log)
        /\ Len(log) \in Nat /\ Len(log) <= MaxMessages
    BY DEF TraceInv, TypeInv, TypeOK
  <2> QED
    BY <2>1, BalanceAssumption DEF TraceInv, TypeInv, TypeOK, Offsets
<1>1. ASSUME NEW i \in Offsets, TaskStep(i)
      PROVE  PolledTraced' /\ \A j \in 1 .. committed' : Traced(j)'
  <2>1. life' = life /\ position' = position /\ committed' = committed
    BY <1>1 DEF TaskStep, ReadBalance, WriteBalance, HandlerFails
  <2>2. ASSUME NEW j \in Offsets, Traced(j)
        PROVE  Traced(j)'
    <3>1. CASE ReadBalance(i)
      BY <2>2, <3>1 DEF ReadBalance, Traced
    <3>2. CASE WriteBalance(i)
      BY <1>0, <2>2, <3>2 DEF WriteBalance, Finish, Traced
    <3>3. CASE HandlerFails(i)
      BY <2>2, <3>3 DEF HandlerFails, Finish, Traced
    <3> QED
      BY <1>1, <3>1, <3>2, <3>3 DEF TaskStep
  <2> QED
    BY <1>0, <2>1, <2>2 DEF TraceInv, PolledTraced
<1>2. ASSUME Poll
      PROVE  PolledTraced' /\ \A j \in 1 .. committed' : Traced(j)'
  <2>1. PICK n \in 1 .. BatchSize : /\ inflight = {} /\ life = "up"
                                    /\ inflight' = position + 1 .. position + n
                                    /\ position' = position + n
    BY <1>2 DEF Poll
  <2>2. UNCHANGED <<committed, applied, dropped, lost, life>>
    BY <1>2 DEF Poll, history
  <2>3. ASSUME NEW j \in 1 .. position'
        PROVE  Traced(j)'
    <3>1. j \in 1 .. position \/ j \in inflight'
      BY <1>0, <2>1, BalanceAssumption
    <3> QED
      BY <2>1, <2>2, <3>1 DEF TraceInv, PolledTraced, Traced
  <2> QED
    BY <2>1, <2>2, <2>3 DEF TraceInv, PolledTraced, Traced
<1>3. ASSUME AutoCommit \/ Stop
      PROVE  PolledTraced' /\ \A j \in 1 .. committed' : Traced(j)'
  <2>1. /\ life = "up" /\ committed' = position
        /\ UNCHANGED <<position, inflight, applied, dropped, lost>>
    BY <1>3 DEF AutoCommit, Stop, consumer, history
  <2> QED
    BY <2>1 DEF TraceInv, PolledTraced, Traced
<1>4. ASSUME Exit
      PROVE  PolledTraced' /\ \A j \in 1 .. committed' : Traced(j)'
  BY <1>4 DEF Exit, history, TraceInv, PolledTraced, Traced
<1>5. ASSUME Crash
      PROVE  PolledTraced' /\ \A j \in 1 .. committed' : Traced(j)'
  <2>1. /\ life' = "down" /\ committed' = committed /\ UNCHANGED <<applied, dropped>>
        /\ lost' = lost \cup {i \in inflight : i <= committed}
    BY <1>5 DEF Crash
  <2>2. ASSUME NEW j \in 1 .. committed
        PROVE  Traced(j)'
    BY <1>0, <2>1 DEF TraceInv, Traced
  <2> QED
    BY <2>1, <2>2 DEF PolledTraced
<1>6. ASSUME Start
      PROVE  PolledTraced' /\ \A j \in 1 .. committed' : Traced(j)'
  BY <1>6 DEF Start, ResumeAt, history, TraceInv, PolledTraced, Traced
<1>7. ASSUME UNCHANGED <<committed, consumer, history>>
      PROVE  PolledTraced' /\ \A j \in 1 .. committed' : Traced(j)'
  BY <1>7 DEF consumer, history, TraceInv, PolledTraced, Traced
<1>8. ASSUME NEW m \in Messages, Produce(m)
      PROVE  UNCHANGED <<committed, consumer, history>>
  BY <1>8 DEF Produce
<1>9. ASSUME PollNothing \/ UNCHANGED vars
      PROVE  UNCHANGED <<committed, consumer, history>>
  BY <1>9 DEF PollNothing, vars
<1> QED
  BY <1>1, <1>2, <1>3, <1>4, <1>5, <1>6, <1>7, <1>8, <1>9 DEF Next

\* The group never commits past a message without a trace of it.
THEOREM CommittedMessagesTraced == Spec => []NothingSkipped
<1>1. TraceInv => NothingSkipped
  BY DEF TraceInv, NothingSkipped, Traced
<1> QED
  BY <1>1, TraceInit, TraceStep, PTL DEF Spec

-----------------------------------------------------------------------------
(* AppliedBound.  What is in flight, and what the next process will read   *)
(* again or for the first time, has been applied at most once per crash.   *)

Unread == IF life = "down" THEN committed ELSE position

AppliedShare ==
    \A i \in Offsets :
        /\ applied[i] <= 1 + crashes
        /\ i \in inflight \/ i > Unread => applied[i] <= crashes

AppliedInv ==
    /\ TypeInv
    /\ life = "stopping" => committed = position
    /\ AppliedShare

LEMMA AppliedInit == Init => AppliedInv
  BY TypeInit DEF Init, AppliedInv, AppliedShare

LEMMA AppliedStep == AppliedInv /\ [Next]_vars => AppliedInv'
<1> SUFFICES ASSUME AppliedInv, [Next]_vars
             PROVE  (life = "stopping" => committed = position)' /\ AppliedShare'
  BY TypeStep DEF AppliedInv
<1> USE DEF AppliedInv, AppliedShare, Unread
<1>0. /\ position \in Nat /\ committed \in Nat /\ crashes \in Nat
      /\ applied \in [Offsets -> Nat] /\ Offsets \subseteq Nat
      /\ life = "down" => inflight = {}
      /\ \A i \in inflight : i <= position
  BY DEF TypeInv, TypeOK, Offsets
<1>1. ASSUME NEW i \in Offsets, TaskStep(i)
      PROVE  (life = "stopping" => committed = position)' /\ AppliedShare'
  <2>1. /\ UNCHANGED <<life, position, committed, crashes>>
        /\ inflight' \subseteq inflight /\ i \in inflight
        /\ \/ applied' = applied
           \/ applied' = [applied EXCEPT ![i] = @ + 1] /\ i \notin inflight'
    <3>1. CASE ReadBalance(i)
      BY <3>1 DEF ReadBalance
    <3>2. CASE WriteBalance(i)
      BY <3>2 DEF WriteBalance, Finish, TypeInv, TypeOK
    <3>3. CASE HandlerFails(i)
      BY <3>3 DEF HandlerFails, Finish
    <3> QED
      BY <1>1, <3>1, <3>2, <3>3 DEF TaskStep
  <2>2. life # "down" /\ i <= position
    BY <1>0, <2>1
  <2> QED
    BY <1>0, <2>1, <2>2
<1>2. ASSUME Poll
      PROVE  (life = "stopping" => committed = position)' /\ AppliedShare'
  <2>1. PICK n \in 1 .. BatchSize : /\ inflight = {} /\ life = "up"
                                    /\ inflight' = position + 1 .. position + n
                                    /\ position' = position + n
    BY <1>2 DEF Poll
  <2>2. UNCHANGED <<life, applied, crashes>>
    BY <1>2 DEF Poll, history
  <2>3. n \in Nat
    BY <2>1, BalanceAssumption
  <2> QED
    BY <1>0, <2>1, <2>2, <2>3
<1>3. ASSUME AutoCommit \/ Stop \/ Exit
      PROVE  (life = "stopping" => committed = position)' /\ AppliedShare'
  <2>1. UNCHANGED <<position, inflight, applied, crashes>>
    BY <1>3 DEF AutoCommit, Stop, Exit, consumer, history
  <2>2. CASE AutoCommit \/ Stop
    BY <2>1, <2>2 DEF AutoCommit, Stop, consumer
  <2>3. CASE Exit
    BY <2>1, <2>3 DEF Exit
  <2> QED
    BY <1>3, <2>2, <2>3
<1>4. ASSUME Crash
      PROVE  (life = "stopping" => committed = position)' /\ AppliedShare'
  BY <1>0, <1>4 DEF Crash
<1>5. ASSUME Start
      PROVE  (life = "stopping" => committed = position)' /\ AppliedShare'
  BY <1>0, <1>5 DEF Start, ResumeAt, history
<1>6. ASSUME UNCHANGED <<committed, consumer, history, crashes>>
      PROVE  (life = "stopping" => committed = position)' /\ AppliedShare'
  BY <1>6 DEF consumer, history
<1>7. ASSUME NEW m \in Messages, Produce(m)
      PROVE  UNCHANGED <<committed, consumer, history, crashes>>
  BY <1>7 DEF Produce
<1>8. ASSUME PollNothing \/ UNCHANGED vars
      PROVE  UNCHANGED <<committed, consumer, history, crashes>>
  BY <1>8 DEF PollNothing, vars
<1> QED
  BY <1>1, <1>2, <1>3, <1>4, <1>5, <1>6, <1>7, <1>8 DEF Next

\* No message is applied more often than once plus once per crash.
THEOREM AppliedBounded == Spec => []AppliedBound
<1>1. AppliedInv => AppliedBound
  BY DEF AppliedInv, AppliedShare, AppliedBound
<1> QED
  BY <1>1, AppliedInit, AppliedStep, PTL DEF Spec
=============================================================================
