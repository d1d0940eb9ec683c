---------------------------- MODULE UsersProofs -----------------------------
(***************************************************************************)
(* Theorems about Users, for any number of registrations and changes.      *)
(***************************************************************************)
EXTENDS Users, TLAPS

\* What a request relies on is there: the row it has stored, the row it has read.
RowsThere ==
    /\ \A c \in Creations : phase[c] = "stored" => Exists(c)
    /\ \A r \in Changes : phase[r] \in {"read", "updated"} => Exists(target[r])

TypeInv == TypeOK /\ RowsThere

LEMMA TypeInit == Init => TypeInv
  BY DEF Init, TypeInv, TypeOK, RowsThere, Requests, Statuses, Exists

LEMMA TypeStep == TypeInv /\ [Next]_vars => TypeInv'
<1> SUFFICES ASSUME TypeInv, [Next]_vars
             PROVE  TypeInv'
  OBVIOUS
<1> USE UsersAssumption DEF TypeInv, TypeOK, RowsThere, Requests, Statuses, Exists
<1>1. ASSUME NEW c \in Creations,
             RefuseExisting(c) \/ LookUp(c) \/ Insert(c) \/ UniqueViolation(c)
      PROVE  TypeInv'
  BY <1>1 DEF RefuseExisting, LookUp, Insert, UniqueViolation, Proceed, Answer, parameters,
       database, history
<1>2. ASSUME NEW c \in Creations, CommitUser(c)
      PROVE  TypeInv'
  BY <1>2 DEF CommitUser, Proceed, Answer, parameters, history
<1>3. ASSUME NEW c \in Creations, Announce(c)
      PROVE  TypeInv'
  <2>1. PICK what \in {"created", "error"} : Answer(c, what)
    BY <1>3 DEF Announce, AnswerOfCommit
  <2> QED
    BY <1>3, <2>1 DEF Announce, Answer, parameters, history
<1>4. ASSUME NEW r \in Changes, RefuseChange(r) \/ ReadUser(r) \/ Update(r)
      PROVE  TypeInv'
  BY <1>4 DEF RefuseChange, ReadUser, Update, Proceed, Answer, parameters, database, history
<1>5. ASSUME NEW r \in Changes, Begin(r)
      PROVE  TypeInv'
  <2>1. clock' \in Nat /\ 0 .. clock \subseteq 0 .. clock' /\ clock' \in 0 .. clock'
    BY <1>5 DEF Begin
  <2>2. createdAt' \in [Changes -> 0 .. clock'] /\ committedAt' \in [Changes -> 0 .. clock']
    BY <1>5, <2>1 DEF Begin
  <2> QED
    BY <1>5, <2>1, <2>2 DEF Begin, Proceed, parameters
<1>6. ASSUME NEW r \in Changes, CommitChange(r)
      PROVE  TypeInv'
  <2>1. clock' \in Nat /\ 0 .. clock \subseteq 0 .. clock' /\ clock' \in 0 .. clock'
    BY <1>6 DEF CommitChange
  <2>2. createdAt' \in [Changes -> 0 .. clock'] /\ committedAt' \in [Changes -> 0 .. clock']
    BY <1>6, <2>1 DEF CommitChange
  <2>3. PICK what \in {"changed", "error"} : Answer(r, what)
    BY <1>6 DEF CommitChange, AnswerOfCommit
  <2> QED
    BY <1>6, <2>1, <2>2, <2>3 DEF CommitChange, Answer, parameters, ChangesOf
<1>7. ASSUME NEW r \in Requests, Fail(r)
      PROVE  TypeInv'
  BY <1>7 DEF Fail, Answer, parameters, database, history
<1>8. CASE UNCHANGED vars
  BY <1>8 DEF vars, parameters, database, history
<1> QED
  BY <1>1, <1>2, <1>3, <1>4, <1>5, <1>6, <1>7, <1>8 DEF Next, Create, ChangeStatus, Done

\* Requests, rows and events keep their types and only existing users are announced,
\* whatever interleaves and fails.
THEOREM TypeCorrect == Spec => []TypeOK
<1>1. TypeInv => TypeOK
  BY DEF TypeInv
<1> QED
  BY <1>1, TypeInit, TypeStep, PTL DEF Spec

-----------------------------------------------------------------------------
(* Registrations.                                                          *)

\* A row or an uncommitted insertion has the e-mail.
Takes(c) == Exists(c) \/ phase[c] = "inserted"

RegistrationInv ==
    /\ \A c, d \in Creations : Takes(c) /\ Takes(d) /\ email[c] = email[d] => c = d
    /\ \A c \in Creations : phase[c] \in {"new", "looked_up", "inserted"} => ~Exists(c)
    /\ UnannouncedExplained

LEMMA RegistrationInit == Init => RegistrationInv
  BY DEF Init, RegistrationInv, Takes, Exists, UnannouncedExplained, Requests

LEMMA RegistrationStep == TypeInv /\ RegistrationInv /\ [Next]_vars => RegistrationInv'
<1> SUFFICES ASSUME TypeInv, RegistrationInv, [Next]_vars
             PROVE  RegistrationInv'
  OBVIOUS
<1> USE UsersAssumption
    DEF TypeInv, TypeOK, Requests, RegistrationInv, Takes, Exists, UnannouncedExplained
<1>1. ASSUME NEW c \in Creations, RefuseExisting(c) \/ LookUp(c) \/ UniqueViolation(c)
      PROVE  RegistrationInv'
  BY <1>1 DEF RefuseExisting, LookUp, UniqueViolation, Proceed, Answer, parameters, database,
       history
<1>2. ASSUME NEW c \in Creations, Insert(c)
      PROVE  RegistrationInv'
  BY <1>2 DEF Insert, EmailFree, Rivals, Proceed, parameters, database, history
<1>3. ASSUME NEW c \in Creations, CommitUser(c)
      PROVE  RegistrationInv'
  BY <1>3 DEF CommitUser, Proceed, Answer, parameters, history
<1>4. ASSUME NEW c \in Creations, Announce(c)
      PROVE  RegistrationInv'
  BY <1>4 DEF Announce, AnswerOfCommit, Answer, parameters, history
<1>5. ASSUME NEW r \in Changes, Begin(r) \/ RefuseChange(r) \/ ReadUser(r) \/ Update(r)
      PROVE  RegistrationInv'
  BY <1>5 DEF Begin, RefuseChange, ReadUser, Update, Proceed, Answer, parameters, database, history
<1>6. ASSUME NEW r \in Changes, CommitChange(r)
      PROVE  RegistrationInv'
  <2>1. Exists(target[r]) /\ target[r] \in Creations
    BY <1>6 DEF CommitChange, RowsThere
  <2>2. \A c \in Creations : phase'[c] = phase[c] /\ answer'[c] = answer[c]
    BY <1>6 DEF CommitChange, AnswerOfCommit, Answer
  <2> QED
    BY <1>6, <2>1, <2>2 DEF CommitChange, parameters, Statuses
<1>7. ASSUME NEW r \in Requests, Fail(r)
      PROVE  RegistrationInv'
  BY <1>7 DEF Fail, Answer, parameters, database, history
<1>8. CASE UNCHANGED vars
  BY <1>8 DEF vars, parameters, database, history
<1> QED
  BY <1>1, <1>2, <1>3, <1>4, <1>5, <1>6, <1>7, <1>8 DEF Next, Create, ChangeStatus, Done

\* However many registrations look up one e-mail at once, one of them gets it.
THEOREM EmailsUnique == Spec => []OneUserPerEmail
<1>1. TypeInv /\ RegistrationInv => OneUserPerEmail
  BY DEF RegistrationInv, Takes, OneUserPerEmail
<1> QED
  BY <1>1, TypeInit, TypeStep, RegistrationInit, RegistrationStep, PTL DEF Spec

\* A user without an announcement is the work of a registration that failed half-way.
THEOREM OnlyFailuresUnannounced == Spec => []UnannouncedExplained
<1>1. TypeInv /\ RegistrationInv => UnannouncedExplained
  BY DEF RegistrationInv
<1> QED
  BY <1>1, TypeInit, TypeStep, RegistrationInit, RegistrationStep, PTL DEF Spec
-----------------------------------------------------------------------------
(* Changes of status.                                                      *)

Open(r) == phase[r] \in {"read", "updated"}

\* One transaction at a time has updated a user's row.
OneWriter ==
    \A r, s \in Changes :
        phase[r] = "updated" /\ phase[s] = "updated" /\ target[r] = target[s] => r = s

\* What an open change knows: unless it is overtaken, the row is as it read it.
OpenChange ==
    \A r \in Changes : Open(r) =>
        /\ old[r] # wanted[r] /\ ~Committed(r)
        /\ r \notin overtaken => status[target[r]] = old[r]

\* What a committed change leaves behind.
ClosedChange ==
    \A r \in Changes : Committed(r) => phase[r] = "answered" /\ Exists(target[r])

ChangeInv == OneWriter /\ OpenChange /\ ClosedChange /\ ChangesAsAnnounced

LEMMA ChangeInit == Init => ChangeInv
  BY DEF Init, ChangeInv, OneWriter, OpenChange, ClosedChange, ChangesAsAnnounced, Open,
     Committed, Requests

\* The steps of a registration leave the changes alone.
LEMMA CreateAside ==
    ASSUME TypeInv, RegistrationInv, NEW c \in Creations, Create(c)
    PROVE  /\ UNCHANGED <<parameters, old, createdAt, history>>
           /\ \A r \in Changes : phase'[r] = phase[r]
           /\ \A d \in Creations : Exists(d) => status'[d] = status[d]
<1> USE UsersAssumption DEF TypeInv, TypeOK, Requests
<1>1. CASE RefuseExisting(c) \/ LookUp(c) \/ Insert(c) \/ UniqueViolation(c)
  BY <1>1 DEF RefuseExisting, LookUp, Insert, UniqueViolation, Proceed, Answer, database
<1>2. CASE CommitUser(c)
  BY <1>2 DEF CommitUser, Proceed, Answer, RegistrationInv
<1>3. CASE Announce(c)
  BY <1>3 DEF Announce, AnswerOfCommit, Answer
<1> QED
  BY <1>1, <1>2, <1>3 DEF Create

LEMMA ChangeStep ==
    TypeInv /\ RegistrationInv /\ ChangeInv /\ [Next]_vars => ChangeInv'
<1> SUFFICES ASSUME TypeInv, RegistrationInv, ChangeInv, [Next]_vars
             PROVE  ChangeInv'
  OBVIOUS
<1> USE UsersAssumption
    DEF TypeInv, TypeOK, Requests, ChangeInv, OneWriter, OpenChange, ClosedChange,
        ChangesAsAnnounced, Open, Committed
<1>1. ASSUME NEW c \in Creations, Create(c)
      PROVE  ChangeInv'
  <2>1. \A r \in Changes : Exists(target[r]) =>
            Exists(target[r])' /\ status'[target[r]] = status[target[r]]
    BY <1>1, CreateAside DEF Exists, parameters
  <2> QED
    BY <1>1, <2>1, CreateAside DEF parameters, history, RowsThere
<1>2. ASSUME NEW r \in Changes, RefuseChange(r)
      PROVE  ChangeInv'
  BY <1>2 DEF RefuseChange, Answer, parameters, database, history, Exists
<1>3. ASSUME NEW r \in Changes, Begin(r)
      PROVE  ChangeInv'
  BY <1>3 DEF Begin, Proceed, parameters, Exists
<1>4. ASSUME NEW r \in Changes, ReadUser(r)
      PROVE  ChangeInv'
  BY <1>4 DEF ReadUser, Proceed, parameters, database, history, Exists
<1>5. ASSUME NEW r \in Changes, Update(r)
      PROVE  ChangeInv'
  BY <1>5 DEF Update, WaitsForLock, ChangesOf, Proceed, parameters, database, history, Exists
<1>6. ASSUME NEW r \in Changes, CommitChange(r)
      PROVE  ChangeInv'
  <2>1. PICK what \in {"changed", "error"} : Answer(r, what)
    BY <1>6 DEF CommitChange, AnswerOfCommit
  <2>2. clock' = clock + 1 /\ clock \in Nat /\ committedAt' = [committedAt EXCEPT ![r] = clock']
    BY <1>6 DEF CommitChange
  <2>3. OneWriter' /\ ClosedChange'
    BY <1>6, <2>1, <2>2 DEF CommitChange, Answer, parameters, Exists, Statuses, RowsThere
  <2>4. OpenChange'
    BY <1>6, <2>1, <2>2 DEF CommitChange, Answer, parameters, ChangesOf
  <2>5. ChangesAsAnnounced'
    BY <1>6, <2>1, <2>2 DEF CommitChange, Answer, parameters
  <2> QED
    BY <2>3, <2>4, <2>5
<1>7. ASSUME NEW r \in Requests, Fail(r)
      PROVE  ChangeInv'
  BY <1>7 DEF Fail, Answer, parameters, database, history, Exists
<1>8. CASE UNCHANGED vars
  BY <1>8 DEF vars, parameters, database, history, Exists
<1> QED
  BY <1>1, <1>2, <1>3, <1>4, <1>5, <1>6, <1>7, <1>8 DEF Next, ChangeStatus, Done

\* Whatever else goes on, the event of a change that was not overtaken tells what happened.
THEOREM AnnouncedAsHappened == Spec => []ChangesAsAnnounced
<1>1. TypeInv /\ RegistrationInv /\ ChangeInv => ChangesAsAnnounced
  BY DEF ChangeInv
<1> QED
  BY <1>1, TypeInit, TypeStep, RegistrationInit, RegistrationStep, ChangeInit, ChangeStep, PTL
     DEF Spec
-----------------------------------------------------------------------------
(* Changes and the order of their events.                                  *)

\* The change that was committed last gave the row its status.
RowTold ==
    \A c \in Creations :
        (\E r \in ChangesOf(c) : Committed(r)) =>
            \E s \in ChangesOf(c) :
                /\ Committed(s) /\ status[c] = wanted[s]
                /\ \A q \in ChangesOf(c) : committedAt[q] <= committedAt[s]

\* No two transactions begin, and no two commit, at the same moment.
MomentsApart ==
    /\ \A r \in Changes :
           phase[r] \in {"begun", "read", "updated"} \/ Committed(r) => createdAt[r] > 0
    /\ \A r, s \in Changes : createdAt[r] > 0 /\ createdAt[r] = createdAt[s] => r = s
    /\ \A r, s \in Changes : Committed(r) /\ committedAt[r] = committedAt[s] => r = s

OrderInv == RowTold /\ MomentsApart

UsersInv == TypeInv /\ RegistrationInv /\ ChangeInv /\ OrderInv

LEMMA OrderInit == Init => OrderInv
  BY UsersAssumption
     DEF Init, OrderInv, RowTold, MomentsApart, Committed, ChangesOf, Requests

\* What leaves the rows and the moments alone leaves their order alone.
LEMMA OrderAside ==
    ASSUME UsersInv, UNCHANGED <<target, wanted, createdAt, committedAt>>,
           \A c \in Creations : Exists(c) => status'[c] = status[c],
           \A r \in Changes : phase'[r] \in {phase[r], "answered"}
                             \/ phase[r] \in {"begun", "read"}
    PROVE  OrderInv'
<1> USE DEF UsersInv, ChangeInv, ClosedChange, OrderInv, Committed, ChangesOf
<1>1. RowTold'
  BY DEF RowTold
<1>2. MomentsApart'
  BY DEF MomentsApart
<1> QED
  BY <1>1, <1>2

LEMMA OrderStep == UsersInv /\ [Next]_vars => OrderInv'
<1> SUFFICES ASSUME UsersInv, [Next]_vars
             PROVE  OrderInv'
  OBVIOUS
<1> USE UsersAssumption DEF UsersInv, TypeInv, TypeOK, Requests
<1>1. ASSUME NEW c \in Creations, Create(c)
      PROVE  OrderInv'
  BY <1>1, CreateAside, OrderAside DEF parameters, history
<1>2. ASSUME NEW r \in Changes, RefuseChange(r) \/ ReadUser(r) \/ Update(r)
      PROVE  OrderInv'
  <2>1. /\ UNCHANGED <<target, wanted, createdAt, committedAt, status>>
        /\ \A s \in Changes : phase'[s] \in {phase[s], "answered"}
                              \/ phase[s] \in {"begun", "read"}
    BY <1>2 DEF RefuseChange, ReadUser, Update, Proceed, Answer, parameters, database, history
  <2> QED
    BY <2>1, OrderAside
<1>3. ASSUME NEW r \in Changes, Begin(r)
      PROVE  OrderInv'
  <2>1. /\ \A s \in Changes : createdAt[s] \in 0 .. clock /\ clock \in Nat
        /\ createdAt' = [createdAt EXCEPT ![r] = clock + 1]
        /\ phase' = [phase EXCEPT ![r] = "begun"]
        /\ UNCHANGED <<target, wanted, status, committedAt>>
    BY <1>3 DEF Begin, Proceed, parameters
  <2>2. RowTold'
    BY <2>1 DEF OrderInv, RowTold, Committed, ChangesOf
  <2>3. MomentsApart'
    BY <2>1 DEF OrderInv, MomentsApart, Committed
  <2> QED
    BY <2>2, <2>3 DEF OrderInv
<1>4. ASSUME NEW r \in Changes, CommitChange(r)
      PROVE  OrderInv'
  <2>1. /\ \A s \in Changes : committedAt[s] \in 0 .. clock /\ clock \in Nat
        /\ committedAt' = [committedAt EXCEPT ![r] = clock + 1]
        /\ status' = [status EXCEPT ![target[r]] = wanted[r]]
        /\ UNCHANGED <<target, wanted, createdAt>>
        /\ phase[r] = "updated"
    BY <1>4 DEF CommitChange, parameters
  <2>2. RowTold'
    <3> SUFFICES ASSUME NEW c \in Creations, NEW q \in ChangesOf(c), Committed(q)'
                 PROVE  \E s \in ChangesOf(c) :
                            /\ Committed(s)' /\ status'[c] = wanted[s]
                            /\ \A p \in ChangesOf(c) : committedAt'[p] <= committedAt'[s]
      BY <2>1 DEF RowTold, ChangesOf
    <3>1. CASE target[r] = c
      <4>1. r \in ChangesOf(c) /\ Committed(r)' /\ status'[c] = wanted[r]
        BY <2>1, <3>1 DEF ChangesOf, Committed
      <4>2. \A p \in ChangesOf(c) : committedAt'[p] <= committedAt'[r]
        BY <2>1 DEF ChangesOf
      <4> QED
        BY <4>1, <4>2
    <3>2. CASE target[r] # c
      <4>1. /\ \A p \in ChangesOf(c) : committedAt'[p] = committedAt[p]
            /\ status'[c] = status[c]
        BY <2>1, <3>2 DEF ChangesOf
      <4> QED
        BY <4>1 DEF OrderInv, RowTold, Committed
    <3> QED
      BY <3>1, <3>2
  <2>3. MomentsApart'
    <3>1. \A s \in Changes : phase'[s] = IF s = r THEN "answered" ELSE phase[s]
      BY <1>4 DEF CommitChange, AnswerOfCommit, Answer
    <3> QED
      BY <2>1, <3>1 DEF OrderInv, MomentsApart, Committed
  <2> QED
    BY <2>2, <2>3 DEF OrderInv
<1>5. ASSUME NEW r \in Requests, Fail(r)
      PROVE  OrderInv'
  BY <1>5, OrderAside DEF Fail, Answer, parameters, database, history
<1>6. CASE UNCHANGED vars
  BY <1>6, OrderAside DEF vars, parameters, database, history
<1> QED
  BY <1>1, <1>2, <1>3, <1>4, <1>5, <1>6 DEF Next, ChangeStatus, Done

LEMMA LatestFromOrder == UsersInv => LatestEventTellsStatus
<1> SUFFICES ASSUME UsersInv, NEW c \in Creations, NEW r \in ChangesOf(c), Committed(r),
                    \A s \in ChangesOf(c) : Committed(s) => createdAt[s] <= createdAt[r]
             PROVE  \/ status[c] = wanted[r]
                    \/ \E s \in ChangesOf(c) :
                           Committed(s) /\ Within(r, s) /\ status[c] = wanted[s]
  BY DEF LatestEventTellsStatus
<1>1. PICK s \in ChangesOf(c) :
          /\ Committed(s) /\ status[c] = wanted[s]
          /\ committedAt[r] <= committedAt[s]
  BY DEF UsersInv, OrderInv, RowTold
<1>2. CASE s = r
  BY <1>1, <1>2
<1>3. CASE s # r
  <2>1. /\ r \in Changes /\ s \in Changes
        /\ createdAt[r] \in Nat /\ createdAt[s] \in Nat
        /\ committedAt[r] \in Nat /\ committedAt[s] \in Nat
    BY DEF UsersInv, TypeInv, TypeOK, ChangesOf
  <2>2. createdAt[s] # createdAt[r] /\ committedAt[s] # committedAt[r]
    BY <1>1, <1>3, <2>1 DEF UsersInv, OrderInv, MomentsApart
  <2>3. Within(r, s)
    BY <1>1, <2>1, <2>2 DEF Within
  <2> QED
    BY <1>1, <2>3
<1> QED
  BY <1>2, <1>3

\* The outbox's order of a user's events ends with the user's status, or with a change that
\* ran wholly within the one whose status stands.
THEOREM LatestTells == Spec => []LatestEventTellsStatus
<1>1. Init => UsersInv
  BY TypeInit, RegistrationInit, ChangeInit, OrderInit DEF UsersInv
<1>2. UsersInv /\ [Next]_vars => UsersInv'
  BY TypeStep, RegistrationStep, ChangeStep, OrderStep DEF UsersInv
<1> QED
  BY <1>1, <1>2, LatestFromOrder, PTL DEF Spec
=============================================================================
