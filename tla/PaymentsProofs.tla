--------------------------- MODULE PaymentsProofs ---------------------------
(***************************************************************************)
(* Theorems of module Payments, for any number of payments, copies,        *)
(* messages and faults.  The composition adds nothing to what the consumer *)
(* can do, so that the invariants of BalanceProofs hold of it; what is     *)
(* shown here is how they meet those of the transaction service.           *)
(***************************************************************************)
EXTENDS Payments, Sums, TLAPS

Updates == INSTANCE BalanceProofs
Service == INSTANCE TransactionsProofs WITH rollback <- [t \in Ids |-> "none"]

\* The consumer's assumption on its constants.
LEMMA ConsumerConstants ==
    /\ WithRow \subseteq Accounts
    /\ Opening \in [Accounts -> Int]
    /\ Messages \subseteq [account : Accounts, amount : Int]
    /\ BatchSize \in Nat \ {0} /\ MaxMessages \in Nat /\ MaxFaults \in Nat
<1>1. Messages \subseteq [account : Accounts, amount : Int]
  BY PaymentsAssumption DEF Messages
<1>2. Opening \in [Accounts -> Int]
  BY PaymentsAssumption
<1> QED
  BY <1>1, <1>2, PaymentsAssumption

\* The transaction service's.
LEMMA ServiceConstants ==
    /\ WithRow \subseteq Service!Accounts
    /\ Opening \in [Service!Accounts -> Nat]
    /\ \A a \in Service!Accounts \ WithRow : Opening[a] = 0
    /\ Amounts \subseteq Int
  BY PaymentsAssumption DEF Accounts, Service!Accounts

-----------------------------------------------------------------------------
(* Every step of a payment is one of the consumer, or leaves it alone.     *)

LEMMA ClientLeavesConsumer ==
    ASSUME NEW t \in Ids, Create(t) PROVE UNCHANGED <<log, consumer, balance, origin, abandoned>>
  BY DEF Create, Creation!RefuseZero, Creation!ReadBalance, Creation!RefuseNegative,
         Creation!DatabaseFails, Creation!Commit

LEMMA ConsumerLeavesService ==
    ASSUME Consume \/ \E i \in Consumer!Offsets : OfConsumer(Consumer!TaskStep(i))
    PROVE  Updates!Next /\ UNCHANGED <<service, outbox>>
<1>1. CASE Consume
  BY <1>1 DEF Consume, OfConsumer, Updates!Next,
     Consumer!Poll, Updates!Poll, Consumer!PollNothing, Updates!PollNothing,
     Consumer!AutoCommit, Updates!AutoCommit, Consumer!Stop, Updates!Stop,
     Consumer!Exit, Updates!Exit, Consumer!Crash, Updates!Crash,
     Consumer!Start, Updates!Start, Consumer!ResumeAt, Updates!ResumeAt,
     Consumer!Fault, Updates!Fault, Consumer!vars, Updates!vars,
     Consumer!consumer, Updates!consumer, Consumer!history, Updates!history
<1>2. ASSUME NEW i \in Consumer!Offsets, OfConsumer(Consumer!TaskStep(i))
      PROVE  Updates!Next /\ UNCHANGED <<service, outbox>>
  <2>1. i \in Updates!Offsets /\ Updates!TaskStep(i)
    BY <1>2 DEF OfConsumer, Consumer!Offsets, Updates!Offsets,
       Consumer!TaskStep, Updates!TaskStep, Consumer!ReadBalance, Updates!ReadBalance,
       Consumer!WriteBalance, Updates!WriteBalance, Consumer!HandlerFails, Updates!HandlerFails,
       Consumer!Finish, Updates!Finish, Consumer!Fault, Updates!Fault,
       Consumer!NewAmount, Updates!NewAmount
  <2> QED
    BY <1>2, <2>1 DEF OfConsumer, Updates!Next
<1> QED
  BY <1>1, <1>2
LEMMA ClientIsService ==
    ASSUME NEW t \in Ids, Create(t) PROVE Service!Next
  BY DEF Create, Service!Next,
         Creation!RefuseZero, Service!RefuseZero, Creation!ReadBalance, Service!ReadBalance,
         Creation!RefuseNegative, Service!RefuseNegative,
         Creation!DatabaseFails, Service!DatabaseFails, Creation!Commit, Service!Commit,
         Creation!Answer, Service!Answer, Creation!Covered, Service!Covered,
         Creation!Rounded, Service!Rounded, Creation!Outdated, Service!Outdated

-----------------------------------------------------------------------------
(* TypeOK.                                                                 *)

\* What ties the topic to the transactions.
Linked ==
    /\ \A t \in DOMAIN stored : phase[t] = "answered"
    /\ abandoned \subseteq DOMAIN stored \ pending
    /\ origin \in Seq(DOMAIN stored) /\ Len(origin) = Len(log)
    /\ \A i \in DOMAIN origin :
           log[i] = [account |-> account[origin[i]], amount |-> amount[origin[i]]]

TypeInv == Service!TypeOK /\ Updates!TypeInv /\ Linked

LEMMA TypeInvInit == Init => TypeInv
<1> SUFFICES ASSUME Init PROVE TypeInv
  OBVIOUS
<1>1. Service!TypeOK
  <2>1. Service!Init
    BY DEF Init, Creation!Init, Service!Init, Creation!Accounts, Service!Accounts
  <2> QED
    BY <2>1, ServiceConstants, Service!TypeInit
<1>2. Updates!TypeInv
  <2>1. Updates!Init
    BY DEF Init, Consumer!Init, Updates!Init, Consumer!Offsets, Updates!Offsets
  <2> QED
    BY <2>1, ConsumerConstants, Updates!TypeInit
<1>3. Linked
  BY DEF Init, Creation!Init, Consumer!Init, Linked
<1> QED
  BY <1>1, <1>2, <1>3 DEF TypeInv

\* A payment's message is one of the topic's.
LEMMA MessageOfStored ==
    ASSUME TypeInv, NEW t \in DOMAIN stored
    PROVE  /\ t \in Ids /\ Message(t) \in Messages
           /\ Message(t) = [account |-> account[t], amount |-> amount[t]]
<1>1. t \in Ids /\ account[t] \in Accounts /\ amount[t] \in Amounts
  BY DEF TypeInv, Service!TypeOK, Service!Accounts, Accounts
<1> QED
  BY <1>1 DEF Message, Messages, Creation!EventAmount

LEMMA PublicationIsProduce ==
    ASSUME TypeInv, NEW t \in Ids, Publish(t) PROVE Updates!Next
<1>1. Message(t) \in Messages
  BY MessageOfStored DEF Publish
<1>2. Updates!Produce(Message(t))
  BY DEF Publish, Consumer!Produce, Updates!Produce, Consumer!consumer, Updates!consumer,
         Consumer!history, Updates!history
<1> QED
  BY <1>1, <1>2 DEF Updates!Next

\* Seen from the consumer, every step is one of its own.
LEMMA StepOfConsumer ==
    ASSUME TypeInv, [Next]_vars
    PROVE  [Updates!Next]_(Updates!vars)
<1> USE DEF Updates!vars, Updates!consumer, Updates!history
<1>1. ASSUME NEW t \in Ids, Create(t) PROVE UNCHANGED Updates!vars
  BY <1>1, ClientLeavesConsumer DEF consumer
<1>2. ASSUME NEW t \in Ids, Publish(t) PROVE Updates!Next
  BY <1>2, PublicationIsProduce
<1>3. ASSUME NEW t \in Ids, Settle(t) \/ GiveUp(t) PROVE UNCHANGED Updates!vars
  BY <1>3 DEF Settle, GiveUp, consumer
<1>4. ASSUME Consume \/ \E i \in Consumer!Offsets : OfConsumer(Consumer!TaskStep(i))
      PROVE  Updates!Next
  BY <1>4, ConsumerLeavesService
<1>5. CASE UNCHANGED vars
  BY <1>5 DEF vars, consumer
<1> QED
  BY <1>1, <1>2, <1>3, <1>4, <1>5 DEF Next

LEMMA TypeInvStep == TypeInv /\ [Next]_vars => TypeInv'
<1> SUFFICES ASSUME TypeInv, [Next]_vars PROVE TypeInv'
  OBVIOUS
<1>1. Updates!TypeInv'
  BY StepOfConsumer, ConsumerConstants, Updates!TypeStep DEF TypeInv
<1>2. ASSUME NEW t \in Ids, Create(t) PROVE Service!TypeOK' /\ Linked'
  <2>1. Service!TypeOK'
    BY <1>2, ClientIsService, ServiceConstants, Service!TypeStep DEF TypeInv
  <2>2. UNCHANGED <<log, origin, abandoned, account, amount>>
    BY <1>2, ClientLeavesConsumer
    DEF Create, Creation!RefuseZero, Creation!ReadBalance, Creation!RefuseNegative,
        Creation!DatabaseFails, Creation!Commit
  <2>3. phase[t] # "answered" /\ phase \in [Ids -> {"new", "checking", "answered"}]
    BY <1>2 DEF Create, Creation!RefuseZero, Creation!ReadBalance, Creation!RefuseNegative,
                Creation!DatabaseFails, Creation!Commit, TypeInv, Service!TypeOK
  <2>4. t \notin DOMAIN stored
    BY <2>3 DEF TypeInv, Linked
  <2>5. CASE UNCHANGED <<stored, pending>>
    <3>1. phase' = [phase EXCEPT ![t] = "checking"] \/ phase' = [phase EXCEPT ![t] = "answered"]
      BY <1>2 DEF Create, Creation!RefuseZero, Creation!ReadBalance, Creation!RefuseNegative,
                  Creation!DatabaseFails, Creation!Commit, Creation!Answer
    <3>2. \A u \in DOMAIN stored : phase'[u] = "answered"
      BY <2>3, <2>4, <3>1 DEF TypeInv, Linked, Service!TypeOK
    <3> QED
      BY <2>1, <2>2, <2>5, <3>2 DEF TypeInv, Linked
  <2>6. CASE Creation!Commit(t)
    <3>1. /\ phase' = [phase EXCEPT ![t] = "answered"]
          /\ DOMAIN stored' = DOMAIN stored \cup {t} /\ pending' = pending \cup {t}
      BY <2>6 DEF Creation!Commit, Creation!Answer
    <3>2. \A u \in DOMAIN stored' : phase'[u] = "answered"
      BY <2>3, <3>1 DEF TypeInv, Linked, Service!TypeOK
    <3>3. origin \in Seq(DOMAIN stored')
      BY <3>1 DEF TypeInv, Linked
    <3>4. abandoned \subseteq DOMAIN stored' \ pending'
      BY <2>4, <3>1 DEF TypeInv, Linked
    <3> QED
      BY <2>1, <2>2, <3>2, <3>3, <3>4 DEF TypeInv, Linked
  <2> QED
    BY <1>2, <2>1, <2>5, <2>6
    DEF Create, Creation!RefuseZero, Creation!ReadBalance, Creation!RefuseNegative,
        Creation!DatabaseFails
<1>3. ASSUME NEW t \in Ids, Publish(t) PROVE Service!TypeOK' /\ Linked'
  <2>1. /\ UNCHANGED <<phase, account, amount, seen, answer, stored, total, debt, pending,
                        balance, abandoned>>
        /\ t \in DOMAIN stored /\ log' = Append(log, Message(t)) /\ origin' = Append(origin, t)
    BY <1>3 DEF Publish, Consumer!Produce, service
  <2>2. Service!TypeOK'
    BY <2>1 DEF TypeInv, Service!TypeOK
  <2>3. log \in Seq(Messages) /\ origin \in Seq(DOMAIN stored) /\ Len(origin) = Len(log)
    BY DEF TypeInv, Linked, Updates!TypeInv, Updates!TypeOK
  <2>4. Message(t) = [account |-> account[t], amount |-> amount[t]] /\ Message(t) \in Messages
    BY <2>1, MessageOfStored
  <2>5. origin' \in Seq(DOMAIN stored) /\ Len(origin') = Len(log')
    BY <2>1, <2>3, <2>4
  <2>6. ASSUME NEW i \in DOMAIN origin'
        PROVE  log'[i] = [account |-> account[origin'[i]], amount |-> amount[origin'[i]]]
    <3>1. CASE i \in DOMAIN origin
      <4>1. log'[i] = log[i] /\ origin'[i] = origin[i]
        BY <2>1, <2>3, <2>4, <3>1
      <4> QED
        BY <3>1, <4>1 DEF TypeInv, Linked
    <3>2. CASE i = Len(origin) + 1
      BY <2>1, <2>3, <2>4, <3>2
    <3> QED
      BY <2>1, <2>3, <3>1, <3>2
  <2> QED
    BY <2>1, <2>2, <2>5, <2>6 DEF TypeInv, Linked
<1>4. ASSUME NEW t \in Ids, Settle(t) \/ GiveUp(t) PROVE Service!TypeOK' /\ Linked'
  <2>1. t \in DOMAIN stored
    BY <1>4 DEF Settle, GiveUp, TypeInv, Service!TypeOK
  <2> QED
    BY <1>4, <2>1 DEF Settle, GiveUp, service, consumer, TypeInv, Service!TypeOK, Linked
<1>5. ASSUME Consume \/ \E i \in Consumer!Offsets : OfConsumer(Consumer!TaskStep(i))
      PROVE  Service!TypeOK' /\ Linked'
  <2>1. UNCHANGED <<service, outbox>>
    BY <1>5, ConsumerLeavesService
  <2>2. log' = log
    BY <1>5
    DEF Consume, OfConsumer, Consumer!Poll, Consumer!PollNothing, Consumer!AutoCommit,
        Consumer!Stop, Consumer!Exit, Consumer!Crash, Consumer!Start, Consumer!TaskStep,
        Consumer!ReadBalance, Consumer!WriteBalance, Consumer!HandlerFails, Consumer!vars
  <2>3. balance' \in [Service!Accounts -> Int]
    BY <1>1 DEF Updates!TypeInv, Updates!TypeOK, Service!Accounts, Accounts
  <2> QED
    BY <2>1, <2>2, <2>3 DEF service, outbox, TypeInv, Service!TypeOK, Linked
<1>6. ASSUME UNCHANGED vars PROVE Service!TypeOK' /\ Linked'
  BY <1>6 DEF vars, service, outbox, consumer, TypeInv, Service!TypeOK, Linked
<1>7. Service!TypeOK' /\ Linked'
  BY <1>2, <1>3, <1>4, <1>5, <1>6 DEF Next
<1> QED
  BY <1>1, <1>7 DEF TypeInv

LEMMA TypeInvType == TypeInv => TypeOK
  BY DEF TypeInv, Linked, TypeOK, Service!TypeOK, Creation!TypeOK, Service!Accounts,
         Creation!Accounts, Updates!TypeInv, Updates!TypeOK, Consumer!TypeOK,
         Updates!Offsets, Consumer!Offsets

\* Whatever fails, every message of the topic is about an accepted payment and carries its
\* account and its amount.
THEOREM TypeCorrect == Spec => []TypeOK
  BY TypeInvInit, TypeInvStep, TypeInvType, PTL DEF Spec

-----------------------------------------------------------------------------
(* AcceptedTraced.  The outbox settles what it has published, and what is  *)
(* in the topic the consumer never skips without a trace.                  *)

Published == \A t \in DOMAIN stored : t \in pending \cup abandoned \/ Copies(t) # {}

TraceInv == TypeInv /\ Updates!TraceInv /\ Published

LEMMA TraceInvInit == Init => TraceInv
<1> SUFFICES ASSUME Init PROVE Updates!TraceInv /\ Published
  BY TypeInvInit DEF TraceInv
<1>1. Updates!Init
  BY DEF Init, Consumer!Init, Updates!Init, Consumer!Offsets, Updates!Offsets
<1>2. Updates!TraceInv
  BY <1>1, ConsumerConstants, Updates!TraceInit
<1>3. Published
  BY DEF Init, Creation!Init, Published
<1> QED
  BY <1>2, <1>3

LEMMA TraceInvStep == TraceInv /\ [Next]_vars => TraceInv'
<1> SUFFICES ASSUME TraceInv, [Next]_vars PROVE Published'
  BY TypeInvStep, StepOfConsumer, ConsumerConstants, Updates!TraceStep DEF TraceInv
<1>1. ASSUME NEW t \in Ids, Create(t) PROVE Published'
  <2>1. UNCHANGED <<origin, abandoned>>
    BY <1>1, ClientLeavesConsumer
  <2>2. \/ UNCHANGED <<stored, pending>>
        \/ DOMAIN stored' = DOMAIN stored \cup {t} /\ pending' = pending \cup {t}
    BY <1>1 DEF Create, Creation!RefuseZero, Creation!ReadBalance, Creation!RefuseNegative,
                Creation!DatabaseFails, Creation!Commit
  <2> QED
    BY <2>1, <2>2 DEF TraceInv, Published, Copies
<1>2. ASSUME NEW t \in Ids, Publish(t) PROVE Published'
  <2>1. origin' = Append(origin, t) /\ UNCHANGED <<stored, pending, abandoned>>
    BY <1>2 DEF Publish, service
  <2>2. origin \in Seq(DOMAIN stored) /\ t \in DOMAIN stored
    BY <1>2 DEF Publish, TraceInv, TypeInv, Linked
  <2>3. \A u : Copies(u) \subseteq Copies(u)'
    BY <2>1, <2>2 DEF Copies
  <2>4. Len(origin) + 1 \in Copies(t)'
    BY <2>1, <2>2 DEF Copies
  <2> QED
    BY <2>1, <2>3, <2>4 DEF TraceInv, Published
<1>3. ASSUME NEW t \in Ids, Settle(t) \/ GiveUp(t) PROVE Published'
  BY <1>3 DEF Settle, GiveUp, service, TraceInv, Published, Copies
<1>4. ASSUME Consume \/ \E i \in Consumer!Offsets : OfConsumer(Consumer!TaskStep(i))
      PROVE  Published'
  BY <1>4, ConsumerLeavesService DEF service, outbox, TraceInv, Published, Copies
<1>5. ASSUME UNCHANGED vars PROVE Published'
  BY <1>5 DEF vars, service, outbox, TraceInv, Published, Copies
<1> QED
  BY <1>1, <1>2, <1>3, <1>4, <1>5 DEF Next

\* No accepted payment vanishes: it is polled, given up, or has a copy that is to come, at
\* work, applied, dropped by its handler or lost in a crash.
THEOREM PaymentsTraced == Spec => []AcceptedTraced
<1>1. TraceInv => AcceptedTraced
  <2> SUFFICES ASSUME TraceInv, NEW t \in DOMAIN stored, t \notin pending \cup abandoned
               PROVE  \E i \in Copies(t) : Accounted(i)
    BY DEF AcceptedTraced
  <2>1. PICK i \in Copies(t) : TRUE
    BY DEF TraceInv, Published
  <2>2. i \in Nat \ {0} /\ committed \in Nat
    BY DEF Copies, TraceInv, TypeInv, Linked, Updates!TypeInv, Updates!TypeOK
  <2>3. CASE i > committed
    BY <2>3 DEF Accounted
  <2>4. CASE i \in 1 .. committed
    BY <2>4 DEF Accounted, TraceInv, Updates!TraceInv, Updates!Traced
  <2> QED
    BY <2>2, <2>3, <2>4
<1> QED
  BY <1>1, TraceInvInit, TraceInvStep, PTL DEF Spec

-----------------------------------------------------------------------------
(* StepsAsTransactions.  The write of an uncontended task takes the amount *)
(* of one unpaid transaction into the balance it has read, which is the    *)
(* present one; everything else is a step of a creation or changes nothing *)
(* that Transactions knows of.                                             *)

\* Nothing is applied before it is published, and only tasks of accounts with a row
\* get as far as a write.
Sound ==
    /\ \A i \in Updates!Offsets : i > Len(log) => applied[i] = 0
    /\ \A i \in started : log[i].account \in WithRow

StepInv == TypeInv /\ Updates!ExactInv /\ Updates!AppliedInv /\ Sound

LEMMA StepInvInit == Init => StepInv
<1> SUFFICES ASSUME Init PROVE Updates!ExactInv /\ Updates!AppliedInv /\ Sound
  BY TypeInvInit DEF StepInv
<1>1. Updates!Init
  BY DEF Init, Consumer!Init, Updates!Init, Consumer!Offsets, Updates!Offsets
<1>2. Updates!ExactInv /\ Updates!AppliedInv
  BY <1>1, ConsumerConstants, Updates!ExactInit, Updates!AppliedInit
<1>3. Sound
  BY <1>1 DEF Updates!Init, Sound
<1> QED
  BY <1>2, <1>3

LEMMA SoundStep == Updates!TypeInv /\ Sound /\ [Updates!Next]_(Updates!vars) => Sound'
<1> SUFFICES ASSUME Updates!TypeInv, Sound, [Updates!Next]_(Updates!vars) PROVE Sound'
  OBVIOUS
<1>0. /\ log \in Seq(Messages) /\ Len(log) \in Nat /\ inflight \subseteq 1 .. Len(log)
      /\ started \subseteq inflight /\ applied \in [Updates!Offsets -> Nat]
      /\ Updates!Offsets \subseteq Int
  BY DEF Updates!TypeInv, Updates!TypeOK, Updates!Offsets
<1>1. ASSUME NEW x \in Messages, Updates!Produce(x) PROVE Sound'
  <2>1. /\ log' = Append(log, x) /\ started' = started /\ applied' = applied
    BY <1>1 DEF Updates!Produce, Updates!consumer, Updates!history
  <2>2. Len(log') = Len(log) + 1 /\ \A i \in 1 .. Len(log) : log'[i] = log[i]
    BY <1>0, <2>1
  <2>3. \A i \in started : i \in 1 .. Len(log)
    BY <1>0
  <2>4. \A i \in started' : log'[i].account \in WithRow
    BY <2>1, <2>2, <2>3 DEF Sound
  <2>5. \A i \in Updates!Offsets : i > Len(log') => i > Len(log)
    BY <1>0, <2>2
  <2>6. \A i \in Updates!Offsets : i > Len(log') => applied'[i] = 0
    BY <2>1, <2>5 DEF Sound
  <2> QED
    BY <2>4, <2>6 DEF Sound, Updates!Offsets
<1>2. ASSUME log' = log, applied' = applied, started' \subseteq started PROVE Sound'
  BY <1>2 DEF Sound
<1>3. ASSUME NEW i \in Updates!Offsets, Updates!ReadBalance(i) PROVE Sound'
  BY <1>3 DEF Updates!ReadBalance, Sound
<1>4. ASSUME NEW i \in Updates!Offsets, Updates!WriteBalance(i) PROVE Sound'
  <2>1. /\ log' = log /\ started' \subseteq started
        /\ applied' = [applied EXCEPT ![i] = @ + 1] /\ i <= Len(log) /\ i \in Int
    BY <1>0, <1>4 DEF Updates!WriteBalance, Updates!Finish
  <2>2. \A j \in Updates!Offsets : j > Len(log) => j # i
    BY <1>0, <2>1
  <2> QED
    BY <1>0, <2>1, <2>2 DEF Sound
<1> QED
  BY <1>1, <1>2, <1>3, <1>4
  DEF Updates!Next, Updates!Poll, Updates!PollNothing, Updates!AutoCommit, Updates!Stop,
      Updates!Exit, Updates!Crash, Updates!Start, Updates!TaskStep, Updates!HandlerFails,
      Updates!Finish, Updates!vars, Updates!consumer, Updates!history

LEMMA StepInvStep == StepInv /\ [Next]_vars => StepInv'
<1> SUFFICES ASSUME StepInv, [Next]_vars PROVE StepInv'
  OBVIOUS
<1>1. TypeInv' /\ [Updates!Next]_(Updates!vars)
  BY TypeInvStep, StepOfConsumer DEF StepInv
<1>2. Updates!ExactInv'
  BY <1>1, ConsumerConstants, Updates!ExactStep DEF StepInv
<1>3. Updates!AppliedInv'
  BY <1>1, ConsumerConstants, Updates!AppliedStep DEF StepInv
<1>4. Sound'
  BY <1>1, SoundStep DEF StepInv, TypeInv
<1> QED
  BY <1>1, <1>2, <1>3, <1>4 DEF StepInv

LEMMA UnpaidUntouched ==
    ASSUME StepInv, UNCHANGED <<stored, origin, applied>>
    PROVE  Unpaid' = Unpaid
  BY DEF Unpaid, Copies

\* A creation's step is the same one of Transactions; its commit makes it unpaid.
LEMMA CreationAsTransactions ==
    ASSUME StepInv, NEW t \in Ids, Create(t)
    PROVE  Abstract!Next
<1>1. UNCHANGED <<origin, applied>>
  BY ClientLeavesConsumer DEF consumer
<1>2. CASE Creation!Commit(t)
  <2>1. /\ DOMAIN stored' = DOMAIN stored \cup {t}
        /\ phase[t] = "checking"
    BY <1>2 DEF Creation!Commit
  <2>2. t \notin DOMAIN stored
    BY <2>1 DEF StepInv, TypeInv, Linked
  <2>3. Copies(t) = {}
    BY <2>2 DEF StepInv, TypeInv, Linked, Copies
  <2>4. Unpaid' = Unpaid \cup {t}
    BY <1>1, <2>1, <2>3 DEF Unpaid, Copies
  <2>5. Abstract!Commit(t)
    BY <1>2, <2>4 DEF Creation!Commit, Abstract!Commit, Creation!Answer, Abstract!Answer,
       Creation!Covered, Abstract!Covered, Creation!Rounded, Abstract!Rounded,
       Creation!Outdated, Abstract!Outdated
  <2> QED
    BY <2>5 DEF Abstract!Next
<1>3. CASE ~Creation!Commit(t)
  <2>1. stored' = stored
    BY <1>3 DEF Create, Creation!RefuseZero, Creation!ReadBalance, Creation!RefuseNegative,
                Creation!DatabaseFails
  <2>2. Unpaid' = Unpaid
    BY <1>1, <2>1, UnpaidUntouched
  <2> QED
    BY <1>3, <2>2 DEF Create, Abstract!Next,
       Creation!RefuseZero, Abstract!RefuseZero, Creation!ReadBalance, Abstract!ReadBalance,
       Creation!RefuseNegative, Abstract!RefuseNegative, Creation!DatabaseFails,
       Abstract!DatabaseFails, Creation!Answer, Abstract!Answer, Creation!Covered,
       Abstract!Covered
<1> QED
  BY <1>2, <1>3

\* A new copy of an event has not been applied.
LEMMA PublicationPaysNothing ==
    ASSUME StepInv, NEW t \in Ids, Publish(t)
    PROVE  Unpaid' = Unpaid
<1>1. /\ origin' = Append(origin, t) /\ UNCHANGED <<stored, applied>>
      /\ Len(log) < MaxMessages
  BY DEF Publish, Consumer!Produce, service, Consumer!history
<1>2. origin \in Seq(DOMAIN stored) /\ t \in DOMAIN stored /\ Len(origin) = Len(log)
  BY DEF Publish, StepInv, TypeInv, Linked
<1>3. Len(log) + 1 \in Updates!Offsets /\ Len(log) + 1 > Len(log)
  BY <1>1, <1>2, PaymentsAssumption DEF Updates!Offsets
<1>4. applied[Len(log) + 1] = 0
  BY <1>3 DEF StepInv, Sound
<1>5. \A u : Copies(u)' = IF u = t THEN Copies(u) \cup {Len(log) + 1} ELSE Copies(u)
  BY <1>1, <1>2 DEF Copies
<1> QED
  BY <1>1, <1>4, <1>5 DEF Unpaid

\* The write of a task that met no other is the one step of Transactions by which its
\* payment reaches the balance.
LEMMA WriteIsApply ==
    ASSUME StepInv, Undisturbed, NEW i \in Updates!Offsets, Updates!WriteBalance(i),
           UNCHANGED <<service, outbox>>
    PROVE  Abstract!Next
<1> DEFINE t == origin[i]
<1>1. /\ i \in started /\ i \in inflight /\ i \in 1 .. Len(log)
      /\ applied \in [Updates!Offsets -> Nat] /\ crashes = 0
  <2>1. i \in started /\ crashes = 0
    BY DEF Updates!WriteBalance, Undisturbed
  <2>2. /\ inflight \subseteq 1 .. position /\ started \subseteq inflight
        /\ position \in 0 .. Len(log) /\ applied \in [Updates!Offsets -> Nat]
        /\ log \in Seq(Messages)
    BY DEF StepInv, TypeInv, Updates!TypeInv, Updates!TypeOK
  <2> QED
    BY <2>1, <2>2
<1>2. i \in DOMAIN origin /\ t \in DOMAIN stored /\ t \in Ids /\ i \in Copies(t)
  <2>1. i \in DOMAIN origin /\ t \in DOMAIN stored
    BY <1>1 DEF StepInv, TypeInv, Linked
  <2> QED
    BY <2>1 DEF Copies, StepInv, TypeInv, Service!TypeOK
<1>3. log[i].account = account[t] /\ log[i].amount = amount[t]
  <2>1. log[i] = [account |-> account[t], amount |-> amount[t]]
    BY <1>2 DEF StepInv, TypeInv, Linked
  <2> QED
    BY <2>1
<1>4. account[t] \in WithRow
  BY <1>1, <1>3 DEF StepInv, Sound
<1>5. snapshot[i] = balance[account[t]]
  BY <1>1, <1>3 DEF StepInv, Updates!ExactInv, Updates!FreshSnapshot, Updates!Account,
                    Undisturbed
<1>6. applied[i] = 0
  <2>1. applied[i] <= crashes
    BY <1>1 DEF StepInv, Updates!AppliedInv, Updates!AppliedShare
  <2> QED
    BY <1>1, <2>1
<1>7. Copies(t) = {i}
  BY <1>2 DEF Undisturbed
<1>8. applied' = [applied EXCEPT ![i] = 1] /\ UNCHANGED <<stored, origin>>
  BY <1>1, <1>6 DEF Updates!WriteBalance, service, outbox
<1>9. t \in Unpaid /\ Unpaid' = Unpaid \ {t}
  <2>1. t \in Unpaid
    BY <1>2, <1>6, <1>7 DEF Unpaid
  <2>2. t \notin Unpaid'
    <3>1. i \in Copies(t)' /\ applied'[i] # 0
      BY <1>1, <1>2, <1>8 DEF Copies
    <3> QED
      BY <1>8, <3>1 DEF Unpaid
  <2>3. ASSUME NEW u, u # t PROVE u \in Unpaid' <=> u \in Unpaid
    <3>1. Copies(u)' = Copies(u) /\ i \notin Copies(u)
      BY <1>8, <2>3 DEF Copies
    <3>2. \A j \in Copies(u) : applied'[j] = applied[j]
      BY <1>1, <1>8, <3>1
    <3> QED
      BY <1>8, <3>1, <3>2 DEF Unpaid
  <2> QED
    BY <2>1, <2>2, <2>3
<1>10. balance' = [balance EXCEPT ![account[t]] =
                      IF account[t] \in WithRow THEN @ + amount[t] ELSE @]
  BY <1>3, <1>4, <1>5 DEF Updates!WriteBalance, Updates!NewAmount
<1>11. Abstract!Apply(t)
  BY <1>9, <1>10 DEF Abstract!Apply, Abstract!EventAmount, Abstract!request, service
<1> QED
  BY <1>2, <1>11 DEF Abstract!Next

\* What else the consumer does changes neither the balance nor what is paid.
LEMMA OtherConsumerSteps ==
    ASSUME StepInv, Updates!Next, UNCHANGED <<service, outbox>>
    PROVE  \/ UNCHANGED <<balance, applied>>
           \/ \E i \in Updates!Offsets : Updates!WriteBalance(i)
  BY DEF Updates!Next, Updates!Produce, Updates!Poll, Updates!PollNothing, Updates!AutoCommit,
         Updates!Stop, Updates!Exit, Updates!Crash, Updates!Start, Updates!TaskStep,
         Updates!ReadBalance, Updates!HandlerFails, Updates!vars, Updates!consumer,
         Updates!history

LEMMA Stutter ==
    ASSUME StepInv, UNCHANGED <<service, balance>>, Unpaid' = Unpaid
    PROVE  UNCHANGED Abstract!vars
  BY DEF Abstract!vars, Abstract!request, service

LEMMA StepAsTransactions ==
    ASSUME StepInv, [Next]_vars, Undisturbed'
    PROVE  [Abstract!Next]_(Abstract!vars)
<1>1. ASSUME NEW t \in Ids, Create(t) PROVE Abstract!Next
  BY <1>1, CreationAsTransactions
<1>2. ASSUME NEW t \in Ids, Publish(t) PROVE UNCHANGED Abstract!vars
  <2>1. UNCHANGED <<service, balance>>
    BY <1>2 DEF Publish, Consumer!Produce
  <2> QED
    BY <1>2, <2>1, PublicationPaysNothing, Stutter
<1>3. ASSUME NEW t \in Ids, Settle(t) \/ GiveUp(t) PROVE UNCHANGED Abstract!vars
  <2>1. UNCHANGED <<service, balance, stored, origin, applied>>
    BY <1>3 DEF Settle, GiveUp, service, consumer
  <2> QED
    BY <2>1, UnpaidUntouched, Stutter
<1>4. ASSUME Consume \/ \E i \in Consumer!Offsets : OfConsumer(Consumer!TaskStep(i))
      PROVE  [Abstract!Next]_(Abstract!vars)
  <2>1. Updates!Next /\ UNCHANGED <<service, outbox>>
    BY <1>4, ConsumerLeavesService
  <2>2. CASE UNCHANGED <<balance, applied>>
    <3>1. Unpaid' = Unpaid
      BY <2>1, <2>2, UnpaidUntouched DEF service, outbox
    <3> QED
      BY <2>1, <2>2, <3>1, Stutter
  <2>3. ASSUME NEW i \in Updates!Offsets, Updates!WriteBalance(i) PROVE Abstract!Next
    <3>1. Undisturbed
      BY <2>1, <2>3 DEF Undisturbed, Copies, outbox, Updates!WriteBalance
    <3> QED
      BY <2>1, <2>3, <3>1, WriteIsApply
  <2> QED
    BY <2>1, <2>2, <2>3, OtherConsumerSteps
<1>5. ASSUME UNCHANGED vars PROVE UNCHANGED Abstract!vars
  <2>1. UNCHANGED <<service, balance, stored, origin, applied>>
    BY <1>5 DEF vars, service, outbox, consumer
  <2> QED
    BY <2>1, UnpaidUntouched, Stutter
<1> QED
  BY <1>1, <1>2, <1>3, <1>4, <1>5 DEF Next

\* Until the consumer crashes, an event is published twice or two tasks collide, outbox,
\* topic and handler implement the single step by which Transactions pays.
THEOREM PaidAsOneStep == Spec => StepsAsTransactions
<1>1. StepInv /\ [Next]_vars => (Undisturbed' => [Abstract!Next]_(Abstract!vars))
  BY StepAsTransactions
<1>2. StepInv /\ [Next]_vars => [Undisturbed' => [Abstract!Next]_(Abstract!vars)]_vars
  BY <1>1
<1> QED
  BY <1>2, StepInvInit, StepInvStep, PTL DEF Spec, StepsAsTransactions

-----------------------------------------------------------------------------
(* BalanceTraced.  The consumer's ledger is the sum of what its messages   *)
(* made of the clients' transactions, contended or not; where no two tasks *)
(* met, BalanceProofs shows that the balance follows the ledger.           *)

\* What message i has brought to its account.
Brought == [i \in DOMAIN origin |-> applied[i] * amount[origin[i]]]

LedgerTraced ==
    \A a \in Accounts : ledger[a] = SumFunctionOnSet(Brought, MessagesOf(a))

\* The messages of an account are finitely many, and each brought an integer.
LEMMA BroughtInt ==
    ASSUME TypeInv, NEW a
    PROVE  /\ IsFiniteSet(MessagesOf(a))
           /\ \A i \in DOMAIN origin :
                  /\ i \in Updates!Offsets /\ i \in 1 .. Len(log) /\ origin[i] \in DOMAIN stored
                  /\ applied[i] \in Nat /\ amount[origin[i]] \in Int
                  /\ Brought[i] = applied[i] * amount[origin[i]] /\ Brought[i] \in Int
<1>1. /\ origin \in Seq(DOMAIN stored) /\ Len(origin) = Len(log) /\ Len(log) \in Nat
      /\ Len(log) <= MaxMessages
  BY DEF TypeInv, Linked, Updates!TypeInv, Updates!TypeOK
<1>2. DOMAIN origin = 1 .. Len(log)
  BY <1>1
<1>3. IsFiniteSet(MessagesOf(a))
  <2>1. IsFiniteSet(1 .. Len(log))
    BY <1>1, FS_Interval
  <2> QED
    BY <1>2, <2>1, FS_Subset DEF MessagesOf
<1>4. ASSUME NEW i \in DOMAIN origin
      PROVE  /\ i \in Updates!Offsets /\ i \in 1 .. Len(log) /\ origin[i] \in DOMAIN stored
             /\ applied[i] \in Nat /\ amount[origin[i]] \in Int
  <2>1. i \in Updates!Offsets /\ i \in 1 .. Len(log) /\ origin[i] \in DOMAIN stored
    BY <1>1, <1>2, PaymentsAssumption DEF Updates!Offsets
  <2>2. applied[i] \in Nat
    BY <2>1 DEF TypeInv, Updates!TypeInv, Updates!TypeOK
  <2>3. amount[origin[i]] \in Int
    BY <2>1, PaymentsAssumption DEF TypeInv, Service!TypeOK
  <2> QED
    BY <2>1, <2>2, <2>3
<1>5. ASSUME NEW i \in DOMAIN origin
      PROVE  Brought[i] = applied[i] * amount[origin[i]] /\ Brought[i] \in Int
  <2>1. Brought[i] = applied[i] * amount[origin[i]]
    BY DEF Brought
  <2>2. applied[i] \in Int /\ amount[origin[i]] \in Int
    BY <1>4
  <2>3. \A m, n \in Int : m * n \in Int
    OBVIOUS
  <2> QED
    BY <2>1, <2>2, <2>3
<1> QED
  BY <1>3, <1>4, <1>5

LEMMA LedgerInit == Init => LedgerTraced
<1> SUFFICES ASSUME Init, NEW a \in Accounts
             PROVE  ledger[a] = SumFunctionOnSet(Brought, MessagesOf(a))
  BY DEF LedgerTraced
<1>1. MessagesOf(a) = {} /\ ledger[a] = 0
  BY DEF Init, Consumer!Init, MessagesOf
<1>2. SumFunctionOnSet(Brought, MessagesOf(a)) = 0
  BY <1>1, SumOfEmpty, Zenon
<1> QED
  BY <1>1, <1>2

LEMMA LedgerUntouched ==
    ASSUME LedgerTraced, UNCHANGED <<account, amount, origin, applied, ledger>>
    PROVE  LedgerTraced'
<1> SUFFICES ASSUME NEW a \in Accounts
             PROVE  ledger'[a] = SumFunctionOnSet(Brought', MessagesOf(a)')
  BY DEF LedgerTraced
<1>1. Brought' = Brought /\ MessagesOf(a)' = MessagesOf(a)
  BY DEF Brought, MessagesOf
<1> QED
  BY <1>1, Zenon DEF LedgerTraced

\* The new message of a publication, not applied yet.
LEMMA NewMessage ==
    ASSUME StepInv, NEW t \in Ids, Publish(t)
    PROVE  /\ Len(log) + 1 \notin DOMAIN origin
           /\ DOMAIN origin' = DOMAIN origin \cup {Len(log) + 1} /\ origin'[Len(log) + 1] = t
           /\ \A i \in DOMAIN origin : origin'[i] = origin[i]
           /\ UNCHANGED <<account, amount, stored, total, applied, ledger>>
           /\ applied[Len(log) + 1] = 0 /\ t \in DOMAIN stored
<1> DEFINE n == Len(log) + 1
<1>1. /\ origin' = Append(origin, t) /\ Len(log) < MaxMessages
      /\ UNCHANGED <<account, amount, stored, total, applied, ledger>>
  BY DEF Publish, Consumer!Produce, service, Consumer!history
<1>2. /\ origin \in Seq(DOMAIN stored) /\ t \in DOMAIN stored /\ Len(origin) = Len(log)
      /\ Len(log) \in Nat /\ TypeInv
  BY DEF Publish, StepInv, TypeInv, Linked
<1>3. /\ n \notin DOMAIN origin /\ DOMAIN origin' = DOMAIN origin \cup {n} /\ origin'[n] = t
      /\ \A i \in DOMAIN origin : origin'[i] = origin[i]
  BY <1>1, <1>2
<1>4. n \in Updates!Offsets /\ n > Len(log)
  BY <1>1, <1>2, PaymentsAssumption DEF Updates!Offsets
<1>5. applied[n] = 0
  BY <1>4 DEF StepInv, Sound
<1> QED
  BY <1>1, <1>2, <1>3, <1>5

\* A message that was just published has brought nothing.
LEMMA LedgerOfPublication ==
    ASSUME StepInv, TypeInv', LedgerTraced, NEW t \in Ids, Publish(t)
    PROVE  LedgerTraced'
<1> SUFFICES ASSUME NEW a \in Accounts
             PROVE  ledger'[a] = SumFunctionOnSet(Brought', MessagesOf(a)')
  BY DEF LedgerTraced
<1> DEFINE M == MessagesOf(a)
           n == Len(log) + 1
<1>1. UNCHANGED <<account, amount, applied, ledger>>
  BY NewMessage
<1>2. t \in DOMAIN stored /\ TypeInv
  BY NewMessage DEF StepInv
<1>3. /\ n \notin DOMAIN origin /\ DOMAIN origin' = DOMAIN origin \cup {n} /\ origin'[n] = t
      /\ \A i \in DOMAIN origin : origin'[i] = origin[i]
  BY NewMessage
<1>5. applied[n] = 0
  BY NewMessage
<1>6. /\ IsFiniteSet(M) /\ M \subseteq DOMAIN origin
      /\ \A i \in M : Brought[i] = Brought'[i] /\ Brought'[i] \in Int
  <2>1. IsFiniteSet(M) /\ M \subseteq DOMAIN origin
    BY <1>2, BroughtInt DEF MessagesOf
  <2>2. \A i \in M : Brought[i] = Brought'[i]
    BY <1>1, <1>3, <2>1 DEF Brought
  <2> QED
    BY <1>2, <2>1, <2>2, BroughtInt
<1>7. SumFunctionOnSet(Brought, M) = SumFunctionOnSet(Brought', M)
  BY <1>6, SumAgrees
<1>8. ledger'[a] = SumFunctionOnSet(Brought, M)
  BY <1>1 DEF LedgerTraced
<1>9. CASE account[t] # a
  <2>1. MessagesOf(a)' = M
    BY <1>1, <1>3, <1>9 DEF MessagesOf
  <2> QED
    BY <1>7, <1>8, <2>1, Zenon
<1>10. CASE account[t] = a
  <2>1. MessagesOf(a)' = M \cup {n} /\ n \notin M
    BY <1>1, <1>3, <1>6, <1>10 DEF MessagesOf
  <2>2. Brought'[n] = 0
    <3>1. Brought'[n] = applied[n] * amount[t]
      BY <1>1, <1>3 DEF Brought
    <3>2. amount[t] \in Int
      BY <1>2, PaymentsAssumption DEF TypeInv, Service!TypeOK
    <3>3. \A m \in Int : 0 * m = 0
      OBVIOUS
    <3> QED
      BY <1>5, <3>1, <3>2, <3>3
  <2> HIDE DEF M, n
  <2>3. SumFunctionOnSet(Brought', M \cup {n}) = SumFunctionOnSet(Brought', M) + Brought'[n]
    BY <1>6, <2>1, <2>2, SumWith
  <2>4. SumFunctionOnSet(Brought', MessagesOf(a)') = SumFunctionOnSet(Brought', M \cup {n})
    BY <2>1, Zenon
  <2>5. SumFunctionOnSet(Brought', M) \in Int
    BY <1>6, SumIsInt
  <2> QED
    BY <1>7, <1>8, <2>2, <2>3, <2>4, <2>5
<1> QED
  BY <1>9, <1>10

\* What a write does, in terms of the transaction that its message is about.
LEMMA WriteOfMessage ==
    ASSUME TypeInv, NEW i \in Updates!Offsets, Updates!WriteBalance(i),
           UNCHANGED <<service, outbox>>
    PROVE  /\ i \in DOMAIN origin /\ origin[i] \in DOMAIN stored
           /\ account[origin[i]] \in Accounts
           /\ applied' = [applied EXCEPT ![i] = @ + 1]
           /\ ledger' = [ledger EXCEPT ![account[origin[i]]] = @ + amount[origin[i]]]
           /\ UNCHANGED <<account, amount, origin>>
<1> DEFINE t == origin[i]
<1>1. i \in DOMAIN origin
  <2>1. i \in started
    BY DEF Updates!WriteBalance
  <2>2. /\ inflight \subseteq 1 .. position /\ started \subseteq inflight
        /\ position \in 0 .. Len(log) /\ log \in Seq(Messages)
    BY DEF TypeInv, Updates!TypeInv, Updates!TypeOK
  <2>3. i \in 1 .. Len(log)
    BY <2>1, <2>2
  <2> QED
    BY <2>3 DEF TypeInv, Linked
<1>2. /\ log[i].account = account[t] /\ log[i].amount = amount[t] /\ account[t] \in Accounts
      /\ t \in DOMAIN stored
  <2>1. log[i] = [account |-> account[t], amount |-> amount[t]] /\ t \in DOMAIN stored
    BY <1>1 DEF TypeInv, Linked
  <2>2. account[t] \in Accounts
    BY <2>1 DEF TypeInv, Service!TypeOK, Service!Accounts, Accounts
  <2> QED
    BY <2>1, <2>2
<1>3. /\ applied' = [applied EXCEPT ![i] = @ + 1]
      /\ ledger' = [ledger EXCEPT ![account[t]] = @ + amount[t]]
      /\ UNCHANGED <<account, amount, origin>>
  BY <1>2 DEF Updates!WriteBalance, service, outbox
<1> QED
  BY <1>1, <1>2, <1>3

\* A write brings the amount of its message once more.
LEMMA LedgerOfWrite ==
    ASSUME TypeInv, LedgerTraced, NEW i \in Updates!Offsets, Updates!WriteBalance(i),
           UNCHANGED <<service, outbox>>
    PROVE  LedgerTraced'
<1> SUFFICES ASSUME NEW a \in Accounts
             PROVE  ledger'[a] = SumFunctionOnSet(Brought', MessagesOf(a)')
  BY DEF LedgerTraced
<1> DEFINE M == MessagesOf(a)
           t == origin[i]
<1>1. i \in DOMAIN origin
  BY WriteOfMessage
<1>2. account[t] \in Accounts /\ t \in DOMAIN stored
  BY WriteOfMessage
<1>3. /\ applied' = [applied EXCEPT ![i] = @ + 1]
      /\ ledger' = [ledger EXCEPT ![account[t]] = @ + amount[t]]
      /\ UNCHANGED <<account, amount, origin>>
  BY WriteOfMessage
<1>4. /\ IsFiniteSet(M) /\ M \subseteq DOMAIN origin /\ MessagesOf(a)' = M
      /\ applied \in [Updates!Offsets -> Nat] /\ ledger \in [Accounts -> Int]
      /\ applied[i] \in Nat /\ amount[t] \in Int
      /\ \A j \in DOMAIN origin : j \in Updates!Offsets /\ Brought[j] \in Int
      /\ Brought[i] = applied[i] * amount[t]
  <2>1. IsFiniteSet(M)
    BY BroughtInt
  <2>2. M \subseteq DOMAIN origin /\ MessagesOf(a)' = M
    BY <1>3 DEF MessagesOf
  <2>3. applied \in [Updates!Offsets -> Nat] /\ ledger \in [Accounts -> Int]
    BY DEF TypeInv, Updates!TypeInv, Updates!TypeOK
  <2>4. /\ applied[i] \in Nat /\ amount[t] \in Int
        /\ \A j \in DOMAIN origin : j \in Updates!Offsets /\ Brought[j] \in Int
        /\ Brought[i] = applied[i] * amount[t]
    BY <1>1, BroughtInt
  <2> QED
    BY <2>1, <2>2, <2>3, <2>4
<1>5. /\ \A j \in DOMAIN origin : j # i => Brought'[j] = Brought[j]
      /\ Brought'[i] = (applied[i] + 1) * amount[t]
  <2>1. \A j \in DOMAIN origin : j # i => applied'[j] = applied[j]
    BY <1>3, <1>4
  <2>2. applied'[i] = applied[i] + 1
    BY <1>3, <1>4
  <2> QED
    BY <1>1, <1>3, <2>1, <2>2 DEF Brought
<1>6. Brought'[i] = Brought[i] + amount[t] /\ Brought'[i] \in Int
  <2>1. \A m, k \in Int : (m + 1) * k = m * k + k /\ m * k \in Int
    OBVIOUS
  <2> QED
    BY <1>4, <1>5, <2>1
<1>7. ledger[a] = SumFunctionOnSet(Brought, M)
  BY DEF LedgerTraced
<1>8. CASE account[t] # a
  <2>1. i \notin M /\ ledger'[a] = ledger[a]
    BY <1>3, <1>4, <1>8 DEF MessagesOf
  <2>2. \A j \in M : Brought[j] = Brought'[j]
    BY <1>4, <1>5, <2>1
  <2>3. SumFunctionOnSet(Brought, M) = SumFunctionOnSet(Brought', M)
    BY <1>4, <2>2, SumAgrees
  <2> QED
    BY <1>4, <1>7, <2>1, <2>3, Zenon
<1>9. CASE account[t] = a
  <2>1. i \in M /\ ledger'[a] = ledger[a] + amount[t]
    BY <1>1, <1>3, <1>4, <1>9 DEF MessagesOf
  <2>2. /\ \A j \in M : Brought[j] \in Int /\ Brought'[j] \in Int
        /\ \A j \in M \ {i} : Brought[j] = Brought'[j]
    BY <1>4, <1>5, <1>6
  <2> HIDE DEF M, t
  <2>3. SumFunctionOnSet(Brought', M) = SumFunctionOnSet(Brought, M) - Brought[i] + Brought'[i]
    <3>1. IsFiniteSet(M) /\ i \in M
      BY <1>4, <2>1
    <3> QED
      BY <2>2, <3>1, SumChangedAt
  <2>4. SumFunctionOnSet(Brought', MessagesOf(a)') = SumFunctionOnSet(Brought', M)
    BY <1>4, Zenon
  <2>5. SumFunctionOnSet(Brought, M) \in Int /\ Brought[i] \in Int
    BY <1>4, <2>1, <2>2, SumIsInt
  <2> QED
    BY <1>4, <1>6, <1>7, <2>1, <2>3, <2>4, <2>5
<1> QED
  BY <1>8, <1>9

LEMMA OnlyWritesApply ==
    ASSUME Updates!Next
    PROVE  UNCHANGED <<applied, ledger>> \/ \E i \in Updates!Offsets : Updates!WriteBalance(i)
  BY DEF Updates!Next, Updates!Produce, Updates!Poll, Updates!PollNothing, Updates!AutoCommit,
         Updates!Stop, Updates!Exit, Updates!Crash, Updates!Start, Updates!TaskStep,
         Updates!ReadBalance, Updates!HandlerFails, Updates!vars, Updates!consumer,
         Updates!history

LEMMA LedgerStep == StepInv /\ StepInv' /\ LedgerTraced /\ [Next]_vars => LedgerTraced'
<1> SUFFICES ASSUME StepInv, StepInv', LedgerTraced, [Next]_vars PROVE LedgerTraced'
  OBVIOUS
<1>1. ASSUME NEW t \in Ids, Create(t) PROVE LedgerTraced'
  <2>1. UNCHANGED <<account, amount>>
    BY <1>1 DEF Create, Creation!RefuseZero, Creation!ReadBalance, Creation!RefuseNegative,
                Creation!DatabaseFails, Creation!Commit
  <2> QED
    BY <1>1, <2>1, ClientLeavesConsumer, LedgerUntouched DEF consumer
<1>2. ASSUME NEW t \in Ids, Publish(t) PROVE LedgerTraced'
  BY <1>2, LedgerOfPublication DEF StepInv
<1>3. ASSUME NEW t \in Ids, Settle(t) \/ GiveUp(t) PROVE LedgerTraced'
  BY <1>3, LedgerUntouched DEF Settle, GiveUp, service, consumer
<1>4. ASSUME Consume \/ \E i \in Consumer!Offsets : OfConsumer(Consumer!TaskStep(i))
      PROVE  LedgerTraced'
  <2>1. Updates!Next /\ UNCHANGED <<service, outbox>>
    BY <1>4, ConsumerLeavesService
  <2>2. CASE UNCHANGED <<applied, ledger>>
    BY <2>1, <2>2, LedgerUntouched DEF service, outbox
  <2>3. ASSUME NEW i \in Updates!Offsets, Updates!WriteBalance(i) PROVE LedgerTraced'
    BY <2>1, <2>3, LedgerOfWrite DEF StepInv
  <2> QED
    BY <2>1, <2>2, <2>3, OnlyWritesApply
<1>5. ASSUME UNCHANGED vars PROVE LedgerTraced'
  BY <1>5, LedgerUntouched DEF vars, service, outbox, consumer
<1> QED
  BY <1>1, <1>2, <1>3, <1>4, <1>5 DEF Next

\* Through crashes, restarts, redeliveries and repeated publications, the balance of an
\* account on which no two tasks collided is its opening amount and the accepted amounts,
\* each as often as its messages were applied.
THEOREM BalancesTraced == Spec => []BalanceTraced
<1>1. StepInv /\ LedgerTraced => BalanceTraced
  <2> SUFFICES ASSUME StepInv, LedgerTraced, NEW a \in Accounts \ contended
               PROVE  balance[a] = Opening[a] + SumFunctionOnSet(Brought, MessagesOf(a))
    BY DEF BalanceTraced, Brought
  <2>1. balance[a] = Opening[a] + ledger[a]
    BY DEF StepInv, Updates!ExactInv, Updates!UncontendedExact
  <2>2. ledger[a] = SumFunctionOnSet(Brought, MessagesOf(a))
    BY DEF LedgerTraced
  <2> QED
    BY <2>1, <2>2, Zenon
<1> QED
  BY <1>1, StepInvInit, StepInvStep, LedgerInit, LedgerStep, PTL DEF Spec

-----------------------------------------------------------------------------
(* BalanceOverdraftBound, RepeatedPaymentBound.  What messages brought,    *)
(* less what went astray, is what was accepted; and that is overdrawn by   *)
(* the debt at most, as TransactionsProofs shows.  A copy is applied once  *)
(* per crash and once besides, as BalanceProofs shows.                     *)

AstrayTraced ==
    \A a \in Accounts : Opening[a] + ledger[a] = total[a] + SumFunctionOnSet(Astray, PaymentsOf(a))

OverdraftInv ==
    /\ StepInv /\ Service!StoredOnce /\ Service!OverdraftBound
    /\ AstrayTraced

\* The copies of a transaction's event are finitely many, and so are the transactions.
LEMMA AstrayInt ==
    ASSUME TypeInv, Service!StoredOnce
    PROVE  /\ \A t \in DOMAIN stored :
                  /\ IsFiniteSet(Copies(t)) /\ \A i \in Copies(t) : applied[i] \in Int
                  /\ TimesPaid(t) \in Int /\ amount[t] \in Int
                  /\ Astray[t] = (TimesPaid(t) - 1) * amount[t] /\ Astray[t] \in Int
           /\ \A a : /\ IsFiniteSet(PaymentsOf(a)) /\ PaymentsOf(a) \subseteq DOMAIN stored
                     /\ SumFunctionOnSet(Astray, PaymentsOf(a)) \in Int
<1>1. ASSUME NEW t \in DOMAIN stored
      PROVE  /\ IsFiniteSet(Copies(t)) /\ \A i \in Copies(t) : applied[i] \in Int
             /\ TimesPaid(t) \in Int /\ amount[t] \in Int
             /\ Astray[t] = (TimesPaid(t) - 1) * amount[t] /\ Astray[t] \in Int
  <2>1. IsFiniteSet(Copies(t))
    <3>1. DOMAIN origin = 1 .. Len(origin) /\ Len(origin) \in Nat
      BY DEF TypeInv, Linked
    <3>2. IsFiniteSet(DOMAIN origin)
      BY <3>1, FS_Interval
    <3>3. Copies(t) \in SUBSET DOMAIN origin
      BY DEF Copies
    <3> QED
      BY <3>2, <3>3, FS_Subset
  <2>2. \A i \in Copies(t) : applied[i] \in Int
    BY BroughtInt DEF Copies
  <2>3. TimesPaid(t) \in Int
    BY <2>1, <2>2, SumIsInt DEF TimesPaid
  <2>4. amount[t] \in Int
    BY PaymentsAssumption DEF TypeInv, Service!TypeOK
  <2>5. Astray[t] = (TimesPaid(t) - 1) * amount[t]
    BY DEF Astray
  <2>6. \A m, n \in Int : (m - 1) * n \in Int
    OBVIOUS
  <2> QED
    BY <2>1, <2>2, <2>3, <2>4, <2>5, <2>6
<1>2. ASSUME NEW a
      PROVE  /\ IsFiniteSet(PaymentsOf(a)) /\ PaymentsOf(a) \subseteq DOMAIN stored
             /\ SumFunctionOnSet(Astray, PaymentsOf(a)) \in Int
  <2>1. IsFiniteSet(DOMAIN stored)
    BY DEF Service!StoredOnce, Service!IsFiniteSet, IsFiniteSet
  <2>2. IsFiniteSet(PaymentsOf(a)) /\ PaymentsOf(a) \subseteq DOMAIN stored
    BY <2>1, FS_Subset DEF PaymentsOf
  <2>3. \A t \in PaymentsOf(a) : Astray[t] \in Int
    BY <1>1, <2>2
  <2> QED
    BY <2>2, <2>3, SumIsInt
<1> QED
  BY <1>1, <1>2

LEMMA AstrayInit == Init => AstrayTraced
<1> SUFFICES ASSUME Init, NEW a \in Accounts
             PROVE  Opening[a] + ledger[a] = total[a] + SumFunctionOnSet(Astray, PaymentsOf(a))
  BY DEF AstrayTraced
<1>1. PaymentsOf(a) = {} /\ ledger[a] = 0 /\ total[a] = Opening[a] /\ Opening[a] \in Int
  BY PaymentsAssumption DEF Init, Creation!Init, Consumer!Init, PaymentsOf
<1>2. SumFunctionOnSet(Astray, PaymentsOf(a)) = 0
  BY <1>1, SumOfEmpty, Zenon
<1> QED
  BY <1>1, <1>2

LEMMA AstrayUntouched ==
    ASSUME AstrayTraced,
           UNCHANGED <<account, amount, stored, origin, applied, ledger, total>>
    PROVE  AstrayTraced'
<1> SUFFICES ASSUME NEW a \in Accounts
             PROVE  Opening[a] + ledger'[a] = total'[a] + SumFunctionOnSet(Astray', PaymentsOf(a)')
  BY DEF AstrayTraced
<1>1. \A t : TimesPaid(t)' = TimesPaid(t)
  BY DEF TimesPaid, Copies
<1>2. Astray' = Astray /\ PaymentsOf(a)' = PaymentsOf(a)
  BY <1>1 DEF Astray, PaymentsOf
<1> QED
  BY <1>2, Zenon DEF AstrayTraced

\* A transaction that was just accepted has not been paid: all of it is missing.
LEMMA AstrayOfCommit ==
    ASSUME OverdraftInv, NEW t \in Ids, Creation!Commit(t),
           UNCHANGED <<origin, abandoned, log, consumer>>
    PROVE  AstrayTraced'
<1> SUFFICES ASSUME NEW a \in Accounts
             PROVE  Opening[a] + ledger'[a] = total'[a] + SumFunctionOnSet(Astray', PaymentsOf(a)')
  BY DEF AstrayTraced
<1> DEFINE P == PaymentsOf(a)
<1> USE DEF OverdraftInv, StepInv
<1>1. /\ UNCHANGED <<account, amount, origin, applied, ledger>>
      /\ DOMAIN stored' = DOMAIN stored \cup {t} /\ t \notin DOMAIN stored
      /\ total' = [total EXCEPT ![account[t]] = @ + amount[t]]
  BY DEF Creation!Commit, consumer, TypeInv, Linked
<1>2. /\ total \in [Accounts -> Int] /\ account[t] \in Accounts /\ amount[t] \in Int
      /\ ledger[a] \in Int /\ Opening[a] \in Int
  <2>1. ledger \in [Accounts -> Int]
    BY DEF TypeInv, Updates!TypeInv, Updates!TypeOK
  <2> QED
    BY <2>1, PaymentsAssumption DEF TypeInv, Service!TypeOK, Service!Accounts, Accounts
<1>3. \A u : TimesPaid(u)' = TimesPaid(u)
  BY <1>1 DEF TimesPaid, Copies
<1>4. \A u \in DOMAIN stored : Astray[u] = Astray'[u]
  BY <1>1, <1>3 DEF Astray
<1>5. Astray'[t] = -amount[t]
  <2>1. Copies(t) = {}
    BY <1>1 DEF TypeInv, Linked, Copies
  <2>2. TimesPaid(t) = 0
    BY <2>1, SumOfEmpty, Zenon DEF TimesPaid
  <2>3. Astray'[t] = (0 - 1) * amount[t]
    BY <1>1, <1>3, <2>2 DEF Astray
  <2>4. \A m \in Int : (0 - 1) * m = -m
    OBVIOUS
  <2> QED
    BY <1>2, <2>3, <2>4
<1>6. /\ IsFiniteSet(P) /\ P \subseteq DOMAIN stored
      /\ \A u \in P : Astray'[u] \in Int /\ Astray[u] = Astray'[u]
      /\ SumFunctionOnSet(Astray, P) \in Int
  BY <1>4, AstrayInt
<1>7. SumFunctionOnSet(Astray, P) = SumFunctionOnSet(Astray', P)
  BY <1>6, SumAgrees
<1>8. Opening[a] + ledger[a] = total[a] + SumFunctionOnSet(Astray, P)
  BY DEF AstrayTraced
<1>9. CASE account[t] # a
  <2>1. PaymentsOf(a)' = P /\ total'[a] = total[a] /\ ledger'[a] = ledger[a]
    BY <1>1, <1>2, <1>9 DEF PaymentsOf
  <2> QED
    BY <1>7, <1>8, <2>1, Zenon
<1>10. CASE account[t] = a
  <2>1. PaymentsOf(a)' = P \cup {t} /\ t \notin P
    BY <1>1, <1>6, <1>10 DEF PaymentsOf
  <2>2. total'[a] = total[a] + amount[t] /\ ledger'[a] = ledger[a] /\ total[a] \in Int
    BY <1>1, <1>2, <1>10
  <2> HIDE DEF P
  <2>3. SumFunctionOnSet(Astray', P \cup {t}) = SumFunctionOnSet(Astray', P) + Astray'[t]
    BY <1>2, <1>5, <1>6, <2>1, SumWith
  <2>4. SumFunctionOnSet(Astray', PaymentsOf(a)') = SumFunctionOnSet(Astray', P \cup {t})
    BY <2>1, Zenon
  <2> QED
    BY <1>2, <1>5, <1>6, <1>7, <1>8, <2>2, <2>3, <2>4
<1> QED
  BY <1>9, <1>10

\* A copy that was just published pays nothing yet.
LEMMA AstrayOfPublication ==
    ASSUME OverdraftInv, NEW t \in Ids, Publish(t)
    PROVE  AstrayTraced'
<1> SUFFICES ASSUME NEW a \in Accounts
             PROVE  Opening[a] + ledger'[a] = total'[a] + SumFunctionOnSet(Astray', PaymentsOf(a)')
  BY DEF AstrayTraced
<1> DEFINE n == Len(log) + 1
<1> USE DEF OverdraftInv
<1>1. /\ n \notin DOMAIN origin /\ DOMAIN origin' = DOMAIN origin \cup {n} /\ origin'[n] = t
      /\ \A i \in DOMAIN origin : origin'[i] = origin[i]
      /\ UNCHANGED <<account, amount, stored, total, applied, ledger>> /\ applied[n] = 0
  BY NewMessage
<1>2. ASSUME NEW u \in DOMAIN stored PROVE TimesPaid(u)' = TimesPaid(u)
  <2>1. CASE u # t
    <3>1. Copies(u)' = Copies(u)
      BY <1>1, <2>1 DEF Copies
    <3> QED
      BY <1>1, <3>1, Zenon DEF TimesPaid
  <2>2. CASE u = t
    <3>1. Copies(u)' = Copies(u) \cup {n} /\ n \notin Copies(u)
      BY <1>1, <2>2 DEF Copies
    <3>2. /\ IsFiniteSet(Copies(u)) /\ \A i \in Copies(u) : applied[i] \in Int
          /\ TimesPaid(u) \in Int
      BY AstrayInt DEF StepInv
    <3> HIDE DEF n
    <3>3. SumFunctionOnSet(applied, Copies(u) \cup {n}) = TimesPaid(u) + applied[n]
      BY <1>1, <3>1, <3>2, SumWith DEF TimesPaid
    <3>4. TimesPaid(u)' = SumFunctionOnSet(applied, Copies(u) \cup {n})
      BY <1>1, <3>1, Zenon DEF TimesPaid
    <3> QED
      BY <1>1, <3>2, <3>3, <3>4
  <2> QED
    BY <2>1, <2>2
<1>3. Astray' = Astray /\ PaymentsOf(a)' = PaymentsOf(a)
  BY <1>1, <1>2 DEF Astray, PaymentsOf
<1> QED
  BY <1>1, <1>3, Zenon DEF AstrayTraced

\* A write pays its transaction once more.
LEMMA AstrayOfWrite ==
    ASSUME OverdraftInv, NEW i \in Updates!Offsets, Updates!WriteBalance(i),
           UNCHANGED <<service, outbox>>
    PROVE  AstrayTraced'
<1> SUFFICES ASSUME NEW a \in Accounts
             PROVE  Opening[a] + ledger'[a] = total'[a] + SumFunctionOnSet(Astray', PaymentsOf(a)')
  BY DEF AstrayTraced
<1> DEFINE P == PaymentsOf(a)
<1> USE DEF OverdraftInv, StepInv
<1>0. PICK t \in DOMAIN stored : t = origin[i]
  BY WriteOfMessage
<1>1. /\ i \in DOMAIN origin /\ origin[i] = t /\ account[t] \in Accounts
      /\ applied' = [applied EXCEPT ![i] = @ + 1]
      /\ ledger' = [ledger EXCEPT ![account[t]] = @ + amount[t]]
      /\ UNCHANGED <<account, amount, origin, stored, total>>
  BY <1>0, WriteOfMessage DEF service
<1>2. /\ applied \in [Updates!Offsets -> Nat] /\ ledger \in [Accounts -> Int]
      /\ total[a] \in Int /\ Opening[a] \in Int
  <2>1. applied \in [Updates!Offsets -> Nat] /\ ledger \in [Accounts -> Int]
    BY DEF TypeInv, Updates!TypeInv, Updates!TypeOK
  <2>2. total[a] \in Int /\ Opening[a] \in Int
    BY PaymentsAssumption DEF TypeInv, Service!TypeOK, Service!Accounts, Accounts
  <2> QED
    BY <2>1, <2>2
<1>3. /\ IsFiniteSet(Copies(t)) /\ i \in Copies(t)
      /\ \A j \in Copies(t) : applied[j] \in Int
      /\ TimesPaid(t) \in Int /\ amount[t] \in Int
      /\ Astray[t] = (TimesPaid(t) - 1) * amount[t] /\ Astray[t] \in Int
  BY <1>1, AstrayInt DEF Copies
<1>4. TimesPaid(t)' = TimesPaid(t) + 1
  <2>1. applied'[i] = applied[i] + 1 /\ applied[i] \in Int
    BY <1>1, <1>2
  <2>2. \A j \in Copies(t) \ {i} : applied[j] = applied'[j]
    BY <1>1, <1>2
  <2>3. \A j \in Copies(t) : applied'[j] \in Int
    BY <1>3, <2>1, <2>2
  <2>4. SumFunctionOnSet(applied', Copies(t)) = TimesPaid(t) - applied[i] + applied'[i]
    <3> DEFINE C == Copies(t)
    <3>1. IsFiniteSet(C) /\ i \in C /\ \A j \in C : applied[j] \in Int /\ applied'[j] \in Int
      BY <1>3, <2>3
    <3>2. \A j \in C \ {i} : applied[j] = applied'[j]
      BY <2>2
    <3> HIDE DEF C
    <3>3. SumFunctionOnSet(applied', C) = SumFunctionOnSet(applied, C) - applied[i] + applied'[i]
      BY <3>1, <3>2, SumChangedAt
    <3> QED
      BY <3>3, Zenon DEF TimesPaid, C
  <2>5. TimesPaid(t)' = SumFunctionOnSet(applied', Copies(t))
    <3>1. Copies(t)' = Copies(t)
      BY <1>1 DEF Copies
    <3> QED
      BY <3>1, Zenon DEF TimesPaid
  <2> QED
    BY <1>3, <2>1, <2>4, <2>5
<1>5. ASSUME NEW u \in DOMAIN stored, u # t PROVE Astray'[u] = Astray[u]
  <2>1. i \notin Copies(u) /\ Copies(u)' = Copies(u)
    BY <1>1, <1>5 DEF Copies
  <2>2. IsFiniteSet(Copies(u)) /\ \A j \in Copies(u) : applied[j] = applied'[j]
    BY <1>1, <2>1, AstrayInt
  <2>3. SumFunctionOnSet(applied, Copies(u)) = SumFunctionOnSet(applied', Copies(u))
    BY <2>2, SumAgrees
  <2>4. TimesPaid(u)' = TimesPaid(u)
    BY <2>1, <2>3, Zenon DEF TimesPaid
  <2> QED
    BY <1>1, <2>4 DEF Astray
<1>6. Astray'[t] = Astray[t] + amount[t]
  <2>1. Astray' = [u \in DOMAIN stored |-> (TimesPaid(u)' - 1) * amount[u]]
    BY <1>1 DEF Astray
  <2>2. \A u \in DOMAIN stored : Astray'[u] = (TimesPaid(u)' - 1) * amount[u]
    BY <2>1
  <2>3. Astray'[t] = (TimesPaid(t)' - 1) * amount[t]
    BY <2>2
  <2> DEFINE v == TimesPaid(t)'
  <2>4. Astray'[t] = (v - 1) * amount[t] /\ v = TimesPaid(t) + 1
    BY <1>4, <2>3
  <2>5. \A m, n \in Int : (m + 1 - 1) * n = (m - 1) * n + n
    OBVIOUS
  <2> HIDE DEF v
  <2> QED
    BY <1>3, <2>4, <2>5
<1>7. /\ IsFiniteSet(P) /\ P \subseteq DOMAIN stored /\ PaymentsOf(a)' = P
      /\ \A u \in P : Astray[u] \in Int
      /\ SumFunctionOnSet(Astray, P) \in Int
  <2>1. PaymentsOf(a)' = P
    BY <1>1 DEF PaymentsOf
  <2> QED
    BY <2>1, AstrayInt
<1>8. Opening[a] + ledger[a] = total[a] + SumFunctionOnSet(Astray, P)
  BY DEF AstrayTraced
<1>9. CASE account[t] # a
  <2>1. t \notin P /\ ledger'[a] = ledger[a] /\ total'[a] = total[a]
    BY <1>1, <1>2, <1>9 DEF PaymentsOf
  <2>2. \A u \in P : Astray[u] = Astray'[u]
    BY <1>5, <1>7, <2>1
  <2>3. SumFunctionOnSet(Astray, P) = SumFunctionOnSet(Astray', P)
    BY <1>7, <2>2, SumAgrees
  <2> QED
    BY <1>7, <1>8, <2>1, <2>3, Zenon
<1>10. CASE account[t] = a
  <2>1. t \in P /\ ledger'[a] = ledger[a] + amount[t] /\ total'[a] = total[a] /\ ledger[a] \in Int
    BY <1>1, <1>2, <1>10 DEF PaymentsOf
  <2>2. /\ \A u \in P \ {t} : Astray[u] = Astray'[u]
        /\ \A u \in P : Astray'[u] \in Int
    BY <1>3, <1>5, <1>6, <1>7
  <2> HIDE DEF P
  <2>3. SumFunctionOnSet(Astray', P) = SumFunctionOnSet(Astray, P) - Astray[t] + Astray'[t]
    BY <1>7, <2>1, <2>2, SumChangedAt
  <2>4. SumFunctionOnSet(Astray', PaymentsOf(a)') = SumFunctionOnSet(Astray', P)
    BY <1>7, Zenon
  <2>5. /\ SumFunctionOnSet(Astray', PaymentsOf(a)')
               = SumFunctionOnSet(Astray, P) - Astray[t] + (Astray[t] + amount[t])
        /\ SumFunctionOnSet(Astray, P) \in Int /\ Astray[t] \in Int /\ amount[t] \in Int
    BY <1>3, <1>6, <1>7, <2>3, <2>4, Zenon
  <2> QED
    BY <1>2, <1>8, <2>1, <2>5
<1> QED
  BY <1>9, <1>10

LEMMA AstrayStep ==
    ASSUME OverdraftInv, [Next]_vars
    PROVE  AstrayTraced'
<1> USE DEF OverdraftInv
<1>1. ASSUME NEW t \in Ids, Create(t) PROVE AstrayTraced'
  <2>1. UNCHANGED <<origin, abandoned, log, consumer>>
    BY <1>1 DEF Create
  <2>2. CASE Creation!Commit(t)
    BY <2>1, <2>2, AstrayOfCommit
  <2>3. CASE ~Creation!Commit(t)
    <3>1. UNCHANGED <<account, amount, stored, total>>
      BY <1>1, <2>3 DEF Create, Creation!RefuseZero, Creation!ReadBalance,
                        Creation!RefuseNegative, Creation!DatabaseFails
    <3> QED
      BY <2>1, <3>1, AstrayUntouched DEF consumer
  <2> QED
    BY <2>2, <2>3
<1>2. ASSUME NEW t \in Ids, Publish(t) PROVE AstrayTraced'
  BY <1>2, AstrayOfPublication
<1>3. ASSUME NEW t \in Ids, Settle(t) \/ GiveUp(t) PROVE AstrayTraced'
  BY <1>3, AstrayUntouched DEF Settle, GiveUp, service, consumer
<1>4. ASSUME Consume \/ \E i \in Consumer!Offsets : OfConsumer(Consumer!TaskStep(i))
      PROVE  AstrayTraced'
  <2>1. Updates!Next /\ UNCHANGED <<service, outbox>>
    BY <1>4, ConsumerLeavesService
  <2>2. CASE UNCHANGED <<applied, ledger>>
    BY <2>1, <2>2, AstrayUntouched DEF service, outbox
  <2>3. ASSUME NEW i \in Updates!Offsets, Updates!WriteBalance(i) PROVE AstrayTraced'
    BY <2>1, <2>3, AstrayOfWrite
  <2> QED
    BY <2>1, <2>2, <2>3, OnlyWritesApply
<1>5. ASSUME UNCHANGED vars PROVE AstrayTraced'
  BY <1>5, AstrayUntouched DEF vars, service, outbox, consumer
<1> QED
  BY <1>1, <1>2, <1>3, <1>4, <1>5 DEF Next

LEMMA OverdraftInit == Init => OverdraftInv
<1> SUFFICES ASSUME Init PROVE OverdraftInv
  OBVIOUS
<1>1. Service!Init
  BY DEF Init, Creation!Init, Service!Init, Creation!Accounts, Service!Accounts
<1>2. Service!StoredOnce /\ Service!OverdraftBound
  BY <1>1, ServiceConstants, Service!StoredOnceInit, Service!OverdraftInit
<1> QED
  BY <1>2, StepInvInit, AstrayInit DEF OverdraftInv

LEMMA OverdraftStep == OverdraftInv /\ [Next]_vars => OverdraftInv'
<1> SUFFICES ASSUME OverdraftInv, [Next]_vars PROVE OverdraftInv'
  OBVIOUS
<1>1. ASSUME NEW t \in Ids, Create(t)
      PROVE  Service!StoredOnce' /\ Service!OverdraftBound'
  <2>1. Service!Next /\ Service!TypeOK
    BY <1>1, ClientIsService DEF OverdraftInv, StepInv, TypeInv
  <2> QED
    BY <2>1, ServiceConstants, Service!StoredOnceStep, Service!OverdraftStep DEF OverdraftInv
<1>2. ASSUME UNCHANGED <<phase, stored, total, debt>>
      PROVE  Service!StoredOnce' /\ Service!OverdraftBound'
  BY <1>2 DEF OverdraftInv, Service!StoredOnce, Service!OverdraftBound
<1>3. (\E t \in Ids : Create(t)) \/ UNCHANGED <<phase, stored, total, debt>>
  BY ConsumerLeavesService DEF Next, Publish, Settle, GiveUp, service, vars
<1> QED
  BY <1>1, <1>2, <1>3, StepInvStep, AstrayStep DEF OverdraftInv

\* For any payments, copies, crashes and failures, the balance of an account on which no two
\* tasks collided is overdrawn by no more than outdated checks, deposits that did not
\* arrive and repeated withdrawals explain.
THEOREM OverdraftsBounded == Spec => []BalanceOverdraftBound
<1>1. OverdraftInv => BalanceOverdraftBound
  <2> SUFFICES ASSUME OverdraftInv, NEW a \in Accounts \ contended
               PROVE  balance[a] + debt[a] >= SumFunctionOnSet(Astray, PaymentsOf(a))
    BY DEF BalanceOverdraftBound
  <2>1. balance[a] = Opening[a] + ledger[a]
    BY DEF OverdraftInv, StepInv, Updates!ExactInv, Updates!UncontendedExact
  <2>2. Opening[a] + ledger[a] = total[a] + SumFunctionOnSet(Astray, PaymentsOf(a))
    BY DEF OverdraftInv, AstrayTraced
  <2>3. total[a] + debt[a] >= 0
    BY DEF OverdraftInv, Service!OverdraftBound, Service!Accounts, Accounts
  <2>4. total[a] \in Int /\ debt[a] \in Int /\ SumFunctionOnSet(Astray, PaymentsOf(a)) \in Int
    BY AstrayInt
    DEF OverdraftInv, StepInv, TypeInv, Service!TypeOK, Service!Accounts, Accounts
  <2> QED
    BY <2>1, <2>2, <2>3, <2>4
<1> QED
  BY <1>1, OverdraftInit, OverdraftStep, PTL DEF Spec

\* For any outbox and any number of crashes, a payment is repeated at most once per copy of
\* its event and crash.
THEOREM RepetitionsBounded == Spec => []RepeatedPaymentBound
<1>1. OverdraftInv => RepeatedPaymentBound
  <2> SUFFICES ASSUME OverdraftInv, NEW t \in DOMAIN stored
               PROVE  TimesPaid(t) <= (1 + crashes) * Cardinality(Copies(t))
    BY DEF RepeatedPaymentBound
  <2> DEFINE C == Copies(t)
  <2>1. TypeInv /\ Updates!AppliedInv
    BY DEF OverdraftInv, StepInv
  <2>2. 1 + crashes \in Int
    BY <2>1 DEF TypeInv, Updates!TypeInv, Updates!TypeOK
  <2>3. IsFiniteSet(C) /\ \A i \in C : i \in Updates!Offsets /\ applied[i] \in Int
    BY <2>1, AstrayInt, BroughtInt DEF Copies, OverdraftInv
  <2>4. \A i \in C : applied[i] <= 1 + crashes
    BY <2>1, <2>3 DEF Updates!AppliedInv, Updates!AppliedShare
  <2> HIDE DEF C
  <2>5. SumFunctionOnSet(applied, C) <= (1 + crashes) * Cardinality(C)
    BY <2>2, <2>3, <2>4, SumBounded
  <2> QED
    BY <2>5, Zenon DEF TimesPaid, C
<1> QED
  BY <1>1, OverdraftInit, OverdraftStep, PTL DEF Spec
=============================================================================
