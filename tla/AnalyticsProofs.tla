--------------------------- MODULE AnalyticsProofs ---------------------------
(* Theorems of module Analytics, for any rows, any size of the pages and   *)
(* any number of weeks.                                                    *)
EXTENDS Analytics, Sums, FiniteSetTheorems, TLAPS

\* Every set of rows is finite.
LEMMA RowSets ==
    ASSUME NEW S \in SUBSET Rows
    PROVE  IsFiniteSet(S) /\ Cardinality(S) \in Nat
  BY FS_Subset, FS_CardinalityType, AnalyticsAssumption

\* Fewer rows are not more.
LEMMA FewerRows ==
    ASSUME NEW S \in SUBSET Rows, NEW T \in SUBSET S
    PROVE  Cardinality(T) <= Cardinality(S)
  BY RowSets, FS_Subset

-----------------------------------------------------------------------------
(* TypeOK.                                                                 *)

LEMMA TypeInit == Init => TypeOK
  BY AnalyticsAssumption DEF Init, TypeOK, Zero

\* What a page holds: as many rows as the limit allows and the table has left.
LEMMA PageSize ==
    ASSUME TypeOK, offset < Cardinality(Matching), NEW P \in Pages
    PROVE  /\ P \in SUBSET Matching /\ P \in SUBSET Rows
           /\ Cardinality(P) \in Nat /\ Cardinality(Matching) \in Nat
           /\ Cardinality(P) <= Limit
           /\ offset + Cardinality(P) <= Cardinality(Matching)
           /\ Cardinality(P) = Limit \/ offset + Cardinality(P) = Cardinality(Matching)
<1>1. Matching \in SUBSET Rows /\ P \in SUBSET Matching
  BY DEF Matching, Of, TypeOK, Pages
<1>2. Cardinality(P) \in Nat /\ Cardinality(Matching) \in Nat /\ offset \in Nat
  BY <1>1, RowSets DEF TypeOK
<1>3. Cardinality(P) = IF Cardinality(Matching) - offset < Limit
                       THEN Cardinality(Matching) - offset ELSE Limit
  BY DEF Pages
<1> QED
  BY <1>1, <1>2, <1>3, AnalyticsAssumption

LEMMA TypeStep == TypeOK /\ [Next]_vars => TypeOK'
<1> SUFFICES ASSUME TypeOK, [Next]_vars
             PROVE  TypeOK'
  OBVIOUS
<1>1. ASSUME NEW r \in Rows, Insert(r)
      PROVE  TypeOK'
  BY <1>1 DEF Insert, TypeOK, metrics
<1>2. ASSUME CountPage
      PROVE  TypeOK'
  <2>1. PICK P \in Pages :
            /\ count' = count + Cardinality(P)
            /\ users' = users \cup {UserOf[r] : r \in P}
            /\ counted' = [r \in Rows |-> counted[r] + IF r \in P THEN 1 ELSE 0]
    BY <1>2 DEF CountPage
  <2>2. P \in SUBSET Rows /\ Cardinality(P) \in Nat
    BY <1>2, PageSize DEF CountPage
  <2>3. count' \in Nat /\ users' \subseteq Users /\ counted' \in [Rows -> Nat]
    BY <2>1, <2>2 DEF TypeOK, Users
  <2>4. offset' \in Nat
    BY <1>2, AnalyticsAssumption DEF CountPage, Step, TypeOK
  <2> QED
    BY <1>2, <2>3, <2>4 DEF CountPage, TypeOK
<1>3. ASSUME FinishWeek
      PROVE  TypeOK'
  <2>1. week \in 0 .. Weeks /\ week < Weeks /\ week' = week + 1 /\ count \in Nat
    BY <1>3 DEF FinishWeek, TypeOK
  <2>2. week' \in 0 .. Weeks /\ week + 1 \in 1 .. Weeks
    BY <2>1, AnalyticsAssumption
  <2>3. results' \subseteq [week_number : 1 .. Weeks, transactions : Nat \ {0}]
    <3>1. CASE count > 0
      <4>1. count \in Nat \ {0}
        BY <2>1, <3>1
      <4> QED
        BY <1>3, <2>2, <3>1, <4>1 DEF FinishWeek, TypeOK
    <3>2. CASE ~(count > 0)
      BY <1>3, <3>2 DEF FinishWeek, TypeOK
    <3> QED
      BY <3>1, <3>2
  <2> QED
    BY <1>3, <2>2, <2>3 DEF FinishWeek, TypeOK, Zero
<1>4. ASSUME FinishTask \/ Fail
      PROVE  TypeOK'
  BY <1>4 DEF FinishTask, Fail, TypeOK, metrics
<1>5. ASSUME UNCHANGED vars
      PROVE  TypeOK'
  BY <1>5 DEF TypeOK, vars, metrics
<1> QED
  BY <1>1, <1>2, <1>3, <1>4, <1>5 DEF Next, Finished

\* The type invariant of the analysis task.
THEOREM TypeCorrect == Spec => []TypeOK
  BY TypeInit, TypeStep, PTL DEF Spec

-----------------------------------------------------------------------------
(* CountBetween.  While a week is read, transactions_count is neither more *)
(* than the offset and the table allow, nor less than both the offset and  *)
(* the table the paging began with.                                        *)

Began == Of(atStart, week)

CountInv ==
    /\ count <= offset /\ count <= Cardinality(Matching)
    /\ count >= offset \/ count >= Cardinality(Began)

\* The sets in question are finite; the table has only grown since the paging began.
LEMMA Sizes ==
    ASSUME TypeOK
    PROVE  /\ Matching \in SUBSET Rows /\ Began \in SUBSET Matching
           /\ Cardinality(Matching) \in Nat /\ Cardinality(Began) \in Nat
           /\ Cardinality(Began) <= Cardinality(Matching)
<1>1. Matching \in SUBSET Rows /\ Began \in SUBSET Matching
  BY DEF TypeOK, Matching, Began, Of
<1> QED
  BY <1>1, RowSets, FewerRows

\* A row that arrives makes the table of the week larger, if anything.
LEMMA InsertGrows ==
    ASSUME TypeOK, NEW r \in Rows, Insert(r)
    PROVE  Matching \subseteq Matching' /\ Began' = Began
  BY DEF Insert, Matching, Began, Of, Window

LEMMA CountInit == Init => CountInv
<1> SUFFICES ASSUME Init
             PROVE  CountInv
  OBVIOUS
<1>1. TypeOK
  BY TypeInit
<1> QED
  BY <1>1, Sizes DEF Init, CountInv

LEMMA CountStep == TypeOK /\ TypeOK' /\ CountInv /\ [Next]_vars => CountInv'
<1> SUFFICES ASSUME TypeOK, TypeOK', CountInv, [Next]_vars
             PROVE  CountInv'
  OBVIOUS
<1>1. /\ Cardinality(Matching) \in Nat /\ Cardinality(Began) \in Nat
      /\ Cardinality(Matching)' \in Nat /\ Cardinality(Began)' \in Nat
      /\ Cardinality(Began) <= Cardinality(Matching)
      /\ count \in Nat /\ offset \in Nat /\ count' \in Nat /\ offset' \in Nat
  <2>1. Matching' \in SUBSET Rows /\ Began' \in SUBSET Rows
    BY DEF TypeOK, Matching, Began, Of
  <2> QED
    BY <2>1, Sizes, RowSets DEF TypeOK
<1>2. ASSUME NEW r \in Rows, Insert(r)
      PROVE  CountInv'
  <2>1. Cardinality(Matching) <= Cardinality(Matching') /\ Began' = Began
    <3>1. Matching' \in SUBSET Rows /\ Matching \in SUBSET Matching'
      BY <1>2, InsertGrows DEF TypeOK, Matching, Of
    <3> QED
      BY <1>2, <3>1, FewerRows, InsertGrows
  <2>2. count' = count /\ offset' = offset
    BY <1>2 DEF Insert, metrics
  <2> QED
    BY <1>1, <2>1, <2>2 DEF CountInv
<1>3. ASSUME CountPage
      PROVE  CountInv'
  <2>1. PICK P \in Pages : count' = count + Cardinality(P)
    BY <1>3 DEF CountPage
  <2>2. /\ Cardinality(P) \in Nat /\ Cardinality(P) <= Limit
        /\ offset + Cardinality(P) <= Cardinality(Matching)
        /\ Cardinality(P) = Limit \/ offset + Cardinality(P) = Cardinality(Matching)
    BY <1>3, PageSize DEF CountPage
  <2>3. offset' = offset + Limit /\ Matching' = Matching /\ Began' = Began
    BY <1>3 DEF CountPage, Step, Matching, Began, Of, Window
  <2> QED
    BY <1>1, <2>1, <2>2, <2>3, AnalyticsAssumption DEF CountInv
<1>4. ASSUME FinishWeek
      PROVE  CountInv'
  BY <1>1, <1>4 DEF FinishWeek, CountInv
<1>5. ASSUME FinishTask \/ Fail \/ UNCHANGED vars
      PROVE  CountInv'
  BY <1>5 DEF FinishTask, Fail, vars, metrics, CountInv, Matching, Began, Of, Window
<1> QED
  BY <1>2, <1>3, <1>4, <1>5 DEF Next, Finished

\* transactions_count lies between the sizes of the table at the start and at the end of
\* the paging, whatever arrives meanwhile.
THEOREM CountsBetween == Spec => []CountBetween
<1>1. TypeOK /\ CountInv => CountBetween
  <2> SUFFICES ASSUME TypeOK, CountInv, WeekRead
               PROVE  /\ Cardinality(Began) <= count
                      /\ count <= Cardinality(Matching)
    BY DEF CountBetween, Began
  <2>1. offset >= Cardinality(Matching) /\ count \in Nat /\ offset \in Nat
    BY DEF WeekRead, TypeOK
  <2> QED
    BY <2>1, Sizes DEF CountInv
<1> QED
  BY <1>1, TypeInit, TypeStep, CountInit, CountStep, PTL DEF Spec

-----------------------------------------------------------------------------
(* NoUserMissed.  A user who is not counted yet has all rows of smaller    *)
(* users, and with them the first row of his own, beyond the offset.       *)

Smaller(u) == {r \in Matching : UserOf[r] < u}

UserAhead(u) == u \in users \/ offset <= Cardinality(Smaller(u))

UserInv == \A r \in Began : UserAhead(UserOf[r])

\* A page that begins no later than a user's first row either shows the user or ends
\* before that row.
LEMMA PageMeetsUser ==
    ASSUME TypeOK, offset < Cardinality(Matching), NEW P \in Pages,
           NEW r \in Matching, offset <= Cardinality(Smaller(UserOf[r])),
           UserOf[r] \notin {UserOf[s] : s \in P}
    PROVE  offset + Limit <= Cardinality(Smaller(UserOf[r]))
<1> DEFINE u == UserOf[r]
           S == Smaller(u)
<1>1. /\ P \in SUBSET Matching /\ Cardinality(P) \in Nat
      /\ Cardinality(P) = Limit \/ offset + Cardinality(P) = Cardinality(Matching)
  BY PageSize
<1>2. PICK Skipped \in SUBSET (Matching \ P) :
          /\ Cardinality(Skipped) = offset
          /\ Before(Skipped, P)
          /\ Before(Skipped \cup P, Matching \ (Skipped \cup P))
  BY DEF Pages
<1>3. /\ Matching \in SUBSET Rows /\ S \in SUBSET Matching /\ offset \in Nat
      /\ Cardinality(Matching) \in Nat /\ Cardinality(S) \in Nat
      /\ IsFiniteSet(S) /\ IsFiniteSet(Skipped) /\ IsFiniteSet(P) /\ IsFiniteSet(Matching)
  <2>1. Matching \in SUBSET Rows /\ S \in SUBSET Matching
    BY Sizes DEF Smaller
  <2> QED
    BY <1>1, <2>1, RowSets DEF TypeOK
<1>4. \A s \in Matching : UserOf[s] \in Nat
  BY <1>3, AnalyticsAssumption
<1>5. \A s \in Skipped : UserOf[s] # u
  <2> SUFFICES ASSUME NEW s \in Skipped, UserOf[s] = u
               PROVE  FALSE
    OBVIOUS
  <2>1. S \subseteq Skipped
    <3> SUFFICES ASSUME NEW t \in S, t \notin Skipped
                 PROVE  FALSE
      OBVIOUS
    <3>1. t \in Matching /\ UserOf[t] < u
      BY DEF Smaller
    <3>2. UserOf[s] <= UserOf[t]
      BY <1>2, <3>1 DEF Before
    <3> QED
      BY <1>4, <3>1, <3>2
  <2>2. s \notin S /\ S \cup {s} \in SUBSET Skipped /\ Skipped \in SUBSET Rows
    BY <1>2, <1>3, <1>4, <2>1 DEF Smaller
  <2>3. Cardinality(S \cup {s}) = Cardinality(S) + 1
    BY <1>3, <2>2, FS_AddElement
  <2>4. Cardinality(S \cup {s}) <= Cardinality(Skipped)
    BY <2>2, FewerRows
  <2> QED
    BY <1>2, <1>3, <2>3, <2>4
<1>6. r \in Matching \ (Skipped \cup P)
  BY <1>5
<1>7. Skipped \cup P \in SUBSET S
  <2> SUFFICES ASSUME NEW s \in Skipped \cup P
               PROVE  s \in S
    OBVIOUS
  <2>1. s \in Matching /\ UserOf[s] <= u
    BY <1>1, <1>2, <1>6 DEF Before
  <2>2. UserOf[s] # u
    BY <1>5
  <2> QED
    BY <1>4, <2>1, <2>2 DEF Smaller
<1>8. Cardinality(Skipped \cup P) = offset + Cardinality(P)
  <2>1. Skipped \cap P = {}
    BY <1>2
  <2>2. Cardinality(Skipped \cup P)
            = Cardinality(Skipped) + Cardinality(P) - Cardinality(Skipped \cap P)
    BY <1>3, FS_Union
  <2>3. Cardinality(Skipped \cap P) = 0
    BY <2>1, FS_EmptySet
  <2> QED
    BY <1>1, <1>2, <1>3, <2>2, <2>3
<1>9. offset + Cardinality(P) <= Cardinality(S)
  BY <1>3, <1>7, <1>8, FewerRows
<1>10. Cardinality(S) < Cardinality(Matching)
  <2>1. r \notin S
    BY <1>4 DEF Smaller
  <2> QED
    BY <1>3, <2>1, FS_Subset
<1> QED
  BY <1>1, <1>3, <1>9, <1>10

LEMMA UserStep == TypeOK /\ TypeOK' /\ UserInv /\ [Next]_vars => UserInv'
<1> SUFFICES ASSUME TypeOK, TypeOK', UserInv, [Next]_vars
             PROVE  UserInv'
  OBVIOUS
<1>1. ASSUME NEW r \in Rows, Insert(r)
      PROVE  UserInv'
  <2> SUFFICES ASSUME NEW s \in Began
               PROVE  UserAhead(UserOf[s])'
    BY <1>1, InsertGrows DEF UserInv
  <2>1. Cardinality(Smaller(UserOf[s])) <= Cardinality(Smaller(UserOf[s])')
    <3>1. Smaller(UserOf[s]) \in SUBSET Smaller(UserOf[s])'
      BY <1>1, InsertGrows DEF Smaller
    <3>2. Smaller(UserOf[s])' \in SUBSET Rows
      BY DEF Smaller, Matching, Of, TypeOK
    <3> QED
      BY <3>1, <3>2, FewerRows
  <2>2. Smaller(UserOf[s]) \in SUBSET Rows /\ Smaller(UserOf[s])' \in SUBSET Rows
    BY DEF Smaller, Matching, Of, TypeOK
  <2>3. /\ offset \in Nat /\ offset' = offset /\ users' = users
        /\ Cardinality(Smaller(UserOf[s])) \in Nat /\ Cardinality(Smaller(UserOf[s])') \in Nat
    BY <1>1, <2>2, RowSets DEF Insert, metrics, TypeOK
  <2>4. UserAhead(UserOf[s])
    BY DEF UserInv
  <2> QED
    BY <2>1, <2>3, <2>4 DEF UserAhead
<1>2. ASSUME CountPage
      PROVE  UserInv'
  <2>1. PICK P \in Pages : users' = users \cup {UserOf[r] : r \in P}
    BY <1>2 DEF CountPage
  <2>2. offset' = offset + Limit /\ offset < Cardinality(Matching)
    BY <1>2 DEF CountPage, Step
  <2>3. Matching' = Matching /\ Began' = Began
    BY <1>2 DEF CountPage, Matching, Began, Of, Window
  <2> SUFFICES ASSUME NEW s \in Began, UserOf[s] \notin users'
               PROVE  offset' <= Cardinality(Smaller(UserOf[s])')
    BY <2>3 DEF UserInv, UserAhead
  <2>4. s \in Matching
    BY Sizes
  <2>5. offset <= Cardinality(Smaller(UserOf[s])) /\ UserOf[s] \notin {UserOf[r] : r \in P}
    BY <2>1 DEF UserInv, UserAhead
  <2>6. offset + Limit <= Cardinality(Smaller(UserOf[s]))
    BY <2>2, <2>4, <2>5, PageMeetsUser
  <2> QED
    BY <2>2, <2>3, <2>6 DEF Smaller
<1>3. ASSUME FinishWeek
      PROVE  UserInv'
  <2> SUFFICES ASSUME NEW s \in Began'
               PROVE  offset' <= Cardinality(Smaller(UserOf[s])')
    BY DEF UserInv, UserAhead
  <2>1. Smaller(UserOf[s])' \in SUBSET Rows
    BY DEF Smaller, Matching, Of, TypeOK
  <2> QED
    BY <1>3, <2>1, RowSets DEF FinishWeek
<1>4. ASSUME FinishTask \/ Fail \/ UNCHANGED vars
      PROVE  UserInv'
  BY <1>4 DEF FinishTask, Fail, vars, metrics, UserInv, UserAhead, Smaller, Matching, Began, Of,
              Window
<1> QED
  BY <1>1, <1>2, <1>3, <1>4 DEF Next, Finished

LEMMA UserInit == Init => UserInv
<1> SUFFICES ASSUME Init, NEW s \in Began
             PROVE  offset <= Cardinality(Smaller(UserOf[s]))
  BY DEF UserInv, UserAhead
<1>1. Smaller(UserOf[s]) \in SUBSET Rows
  BY TypeInit DEF Smaller, Matching, Of, TypeOK
<1> QED
  BY <1>1, RowSets DEF Init

\* Every user with a transaction in the week when its paging began is in
\* registered_users_count, whatever arrives meanwhile and however ties are ordered.
THEOREM NoUserIsMissed == Spec => []NoUserMissed
<1>1. TypeOK /\ UserInv => NoUserMissed
  <2> SUFFICES ASSUME TypeOK, UserInv, WeekRead, NEW s \in Began
               PROVE  UserOf[s] \in users
    BY DEF NoUserMissed, Began
  <2>1. /\ s \in Matching /\ Matching \in SUBSET Rows /\ Cardinality(Matching) \in Nat
        /\ IsFiniteSet(Matching)
    BY Sizes, RowSets
  <2>2. Smaller(UserOf[s]) \in SUBSET Matching /\ s \notin Smaller(UserOf[s])
    BY <2>1, AnalyticsAssumption DEF Smaller
  <2>3. Cardinality(Smaller(UserOf[s])) < Cardinality(Matching)
    <3>1. Cardinality(Smaller(UserOf[s])) \in Nat
      BY <2>1, <2>2, RowSets
    <3> QED
      BY <2>1, <2>2, <3>1, FS_Subset
  <2>4. offset >= Cardinality(Matching) /\ offset \in Nat
    BY DEF WeekRead, TypeOK
  <2>5. Cardinality(Smaller(UserOf[s])) \in Nat
    BY <2>1, <2>2, RowSets
  <2> QED
    BY <2>1, <2>3, <2>4, <2>5 DEF UserInv, UserAhead
<1> QED
  BY <1>1, TypeInit, TypeStep, UserInit, UserStep, PTL DEF Spec

-----------------------------------------------------------------------------
(* QuietUserRowsExact.  The rows that the pages of a quiet week have shown *)
(* so far begin the order of users, and a set that begins the order        *)
(* contains as many rows of a user as its size says.                       *)

\* How many rows of u the first n rows of the week contain.
Reached(n, u) ==
    IF n <= Cardinality(Smaller(u)) THEN 0
    ELSE IF n >= Cardinality(Smaller(u)) + Cardinality(RowsOf(u)) THEN Cardinality(RowsOf(u))
    ELSE n - Cardinality(Smaller(u))

QuietInv ==
    Began = Matching
        => \A u \in Users : SumFunctionOnSet(counted, RowsOf(u)) = Reached(offset, u)

\* The rows of u and those of smaller users are separate parts of the week.
LEMMA RowsOfUser ==
    ASSUME TypeOK, NEW u \in Users
    PROVE  /\ RowsOf(u) \in SUBSET Matching /\ Smaller(u) \in SUBSET Matching
           /\ IsFiniteSet(Matching) /\ IsFiniteSet(RowsOf(u)) /\ IsFiniteSet(Smaller(u))
           /\ Cardinality(RowsOf(u)) \in Nat /\ Cardinality(Smaller(u)) \in Nat
           /\ Cardinality(Matching) \in Nat
           /\ Cardinality(Smaller(u)) + Cardinality(RowsOf(u)) <= Cardinality(Matching)
           /\ Cardinality(Smaller(u) \cup RowsOf(u))
                = Cardinality(Smaller(u)) + Cardinality(RowsOf(u))
<1>1. /\ Matching \in SUBSET Rows /\ RowsOf(u) \in SUBSET Matching
      /\ Smaller(u) \in SUBSET Matching /\ Smaller(u) \cup RowsOf(u) \in SUBSET Matching
  BY Sizes DEF RowsOf, Smaller
<1>2. /\ IsFiniteSet(Matching) /\ IsFiniteSet(RowsOf(u)) /\ IsFiniteSet(Smaller(u))
      /\ Cardinality(RowsOf(u)) \in Nat /\ Cardinality(Smaller(u)) \in Nat
      /\ Cardinality(Matching) \in Nat
  BY <1>1, RowSets
<1>3. u \in Nat
  BY AnalyticsAssumption DEF Users
<1>4. Smaller(u) \cap RowsOf(u) = {}
  BY <1>3 DEF Smaller, RowsOf
<1>5. Cardinality(Smaller(u) \cup RowsOf(u))
        = Cardinality(Smaller(u)) + Cardinality(RowsOf(u)) - Cardinality(Smaller(u) \cap RowsOf(u))
  BY <1>2, FS_Union
<1>6. Cardinality(Smaller(u) \cap RowsOf(u)) = 0
  BY <1>4, FS_EmptySet
<1>7. Cardinality(Smaller(u) \cup RowsOf(u)) <= Cardinality(Matching)
  BY <1>1, FewerRows
<1> QED
  BY <1>1, <1>2, <1>5, <1>6, <1>7

\* A set of rows after which, in the order of users, all others come.
LEMMA Beginning ==
    ASSUME TypeOK, NEW Q \in SUBSET Matching, Before(Q, Matching \ Q), NEW u \in Users
    PROVE  /\ Cardinality(Q \cap RowsOf(u)) = Reached(Cardinality(Q), u)
           /\ IsFiniteSet(Q) /\ Cardinality(Q) \in Nat
<1>1. /\ RowsOf(u) \in SUBSET Matching /\ Smaller(u) \in SUBSET Matching
      /\ Cardinality(RowsOf(u)) \in Nat /\ Cardinality(Smaller(u)) \in Nat
      /\ IsFiniteSet(RowsOf(u)) /\ IsFiniteSet(Smaller(u))
      /\ Cardinality(Smaller(u) \cup RowsOf(u))
           = Cardinality(Smaller(u)) + Cardinality(RowsOf(u))
  BY RowsOfUser
<1>2. Matching \in SUBSET Rows /\ u \in Nat /\ \A r \in Matching : UserOf[r] \in Nat
  BY Sizes, AnalyticsAssumption DEF Users
<1>3. IsFiniteSet(Q) /\ Cardinality(Q) \in Nat /\ Q \in SUBSET Rows
  BY <1>2, RowSets
<1>4. CASE \E t \in Smaller(u) : t \notin Q
  <2>1. \A q \in Q : UserOf[q] < u
    <3> SUFFICES ASSUME NEW q \in Q PROVE UserOf[q] < u
      OBVIOUS
    <3>1. PICK t \in Smaller(u) : t \notin Q
      BY <1>4
    <3>2. UserOf[q] <= UserOf[t] /\ UserOf[t] < u /\ t \in Matching
      BY <3>1 DEF Before, Smaller
    <3> QED
      BY <1>2, <3>2
  <2>2. Q \in SUBSET Smaller(u) /\ Q \cap RowsOf(u) = {} /\ Smaller(u) \in SUBSET Rows
    BY <1>1, <1>2, <2>1 DEF Smaller, RowsOf
  <2>3. Cardinality(Q) <= Cardinality(Smaller(u)) /\ Cardinality(Q \cap RowsOf(u)) = 0
    BY <2>2, FewerRows, FS_EmptySet
  <2> QED
    BY <1>3, <2>3 DEF Reached
<1>5. CASE Smaller(u) \subseteq Q /\ \E r \in RowsOf(u) : r \notin Q
  <2>1. PICK r \in RowsOf(u) : r \notin Q
    BY <1>5
  <2>2. \A q \in Q : UserOf[q] <= u
    BY <1>1, <2>1 DEF Before, RowsOf
  <2>3. Q = Smaller(u) \cup (Q \cap RowsOf(u)) /\ Smaller(u) \cap (Q \cap RowsOf(u)) = {}
    BY <1>2, <1>5, <2>2 DEF Smaller, RowsOf
  <2>4. Cardinality(Smaller(u) \cup (Q \cap RowsOf(u)))
            = Cardinality(Smaller(u)) + Cardinality(Q \cap RowsOf(u))
              - Cardinality(Smaller(u) \cap (Q \cap RowsOf(u)))
    BY <1>1, FS_Union, FS_Subset
  <2>5. Cardinality(Smaller(u) \cap (Q \cap RowsOf(u))) = 0
    BY <2>3, FS_EmptySet
  <2>6. Cardinality(Smaller(u) \cup (Q \cap RowsOf(u))) = Cardinality(Q)
    BY <2>3, Zenon
  <2>7. /\ Cardinality(Q \cap RowsOf(u)) \in Nat
        /\ Cardinality(Q \cap RowsOf(u)) <= Cardinality(RowsOf(u))
    <3>1. Q \cap RowsOf(u) \in SUBSET RowsOf(u) /\ RowsOf(u) \in SUBSET Rows
      BY <1>1, <1>2
    <3> QED
      BY <3>1, FewerRows, RowSets
  <2> QED
    BY <1>1, <1>3, <2>4, <2>5, <2>6, <2>7 DEF Reached
<1>6. CASE Smaller(u) \cup RowsOf(u) \subseteq Q
  <2>1. Q \cap RowsOf(u) = RowsOf(u)
    BY <1>6
  <2>2. Cardinality(Smaller(u)) + Cardinality(RowsOf(u)) <= Cardinality(Q)
    BY <1>1, <1>3, <1>6, FewerRows
  <2>3. Reached(Cardinality(Q), u) = Cardinality(RowsOf(u))
    BY <1>1, <1>3, <2>2 DEF Reached
  <2> QED
    BY <1>3, <2>1, <2>3
<1> QED
  BY <1>3, <1>4, <1>5, <1>6

\* What a page adds to the rows of a user.
LEMMA PageOfUser ==
    ASSUME TypeOK, offset < Cardinality(Matching), NEW P \in Pages, NEW u \in Users
    PROVE  /\ Cardinality(P \cap RowsOf(u)) \in Nat
           /\ Reached(offset, u) + Cardinality(P \cap RowsOf(u)) = Reached(offset + Limit, u)
<1>1. PICK Skipped \in SUBSET (Matching \ P) :
          /\ Cardinality(Skipped) = offset
          /\ Before(Skipped, P)
          /\ Before(Skipped \cup P, Matching \ (Skipped \cup P))
  BY DEF Pages
<1> DEFINE Q == Skipped \cup P
<1>2. /\ P \in SUBSET Matching /\ Matching \in SUBSET Rows
      /\ Cardinality(P) = Limit \/ offset + Cardinality(P) = Cardinality(Matching)
      /\ Cardinality(P) \in Nat /\ Cardinality(P) <= Limit
      /\ offset + Cardinality(P) <= Cardinality(Matching)
  BY PageSize, Sizes
<1>3. IsFiniteSet(P) /\ IsFiniteSet(Skipped) /\ offset \in Nat
  BY <1>2, RowSets DEF TypeOK
<1>4. Cardinality(Skipped \cap RowsOf(u)) = Reached(offset, u)
  <2>1. Before(Skipped, Matching \ Skipped)
    BY <1>1 DEF Before
  <2> QED
    BY <1>1, <2>1, Beginning
<1>5. Cardinality(Q) = offset + Cardinality(P)
  <2>1. Cardinality(Q) = Cardinality(Skipped) + Cardinality(P) - Cardinality(Skipped \cap P)
    BY <1>3, FS_Union
  <2>2. Skipped \cap P = {}
    OBVIOUS
  <2>3. Cardinality(Skipped \cap P) = 0
    BY <2>2, FS_EmptySet
  <2> QED
    BY <1>1, <1>2, <1>3, <2>1, <2>3
<1>6. Cardinality(Q \cap RowsOf(u)) = Reached(offset + Cardinality(P), u)
  <2>1. Q \in SUBSET Matching
    BY <1>2
  <2>2. Before(Q, Matching \ Q)
    BY <1>1
  <2>3. Cardinality(Q \cap RowsOf(u)) = Reached(Cardinality(Q), u)
    <3> HIDE DEF Q
    <3> QED
      BY <2>1, <2>2, Beginning
  <2> QED
    BY <1>5, <2>3
<1>7. /\ Cardinality(P \cap RowsOf(u)) \in Nat /\ Cardinality(Skipped \cap RowsOf(u)) \in Nat
      /\ Cardinality(Q \cap RowsOf(u))
           = Cardinality(Skipped \cap RowsOf(u)) + Cardinality(P \cap RowsOf(u))
  <2> DEFINE A == Skipped \cap RowsOf(u)
             B == P \cap RowsOf(u)
  <2>1. IsFiniteSet(A) /\ IsFiniteSet(B)
    BY <1>3, FS_Subset
  <2>2. A \cap B = {} /\ Q \cap RowsOf(u) = A \cup B
    OBVIOUS
  <2> HIDE DEF A, B, Q
  <2>3. Cardinality(A \cup B) = Cardinality(A) + Cardinality(B) - Cardinality(A \cap B)
    BY <2>1, FS_Union
  <2>4. Cardinality(A \cap B) = 0
    BY <2>2, FS_EmptySet
  <2>5. Cardinality(A) \in Nat /\ Cardinality(B) \in Nat
    BY <2>1, FS_CardinalityType
  <2>6. Cardinality(Q \cap RowsOf(u)) = Cardinality(A \cup B)
    BY <2>2, Zenon
  <2> QED
    BY <2>3, <2>4, <2>5, <2>6 DEF A, B
<1>8. Reached(offset + Cardinality(P), u) = Reached(offset + Limit, u)
  <2>1. /\ Cardinality(RowsOf(u)) \in Nat /\ Cardinality(Smaller(u)) \in Nat
        /\ Cardinality(Smaller(u)) + Cardinality(RowsOf(u)) <= Cardinality(Matching)
        /\ Cardinality(Matching) \in Nat
    BY RowsOfUser
  <2> QED
    BY <1>2, <1>3, <2>1, AnalyticsAssumption DEF Reached
<1> QED
  BY <1>4, <1>6, <1>7, <1>8

\* Nothing is counted before the first page.
LEMMA NothingReached ==
    ASSUME TypeOK, offset = 0, counted = Zero, NEW u \in Users
    PROVE  SumFunctionOnSet(counted, RowsOf(u)) = Reached(offset, u)
<1>1. /\ RowsOf(u) \in SUBSET Matching /\ Matching \in SUBSET Rows /\ IsFiniteSet(RowsOf(u))
      /\ Cardinality(Smaller(u)) \in Nat
  BY RowsOfUser, Sizes
<1>2. \A r \in RowsOf(u) : counted[r] = 0
  BY <1>1 DEF Zero
<1>3. SumFunctionOnSet(counted, RowsOf(u)) = 0
  BY <1>1, <1>2, SumOfZeros
<1> QED
  BY <1>1, <1>3 DEF Reached

LEMMA QuietInit == Init => QuietInv
  BY TypeInit, NothingReached DEF Init, QuietInv

LEMMA QuietStep == TypeOK /\ TypeOK' /\ QuietInv /\ [Next]_vars => QuietInv'
<1> SUFFICES ASSUME TypeOK, TypeOK', QuietInv, [Next]_vars
             PROVE  QuietInv'
  OBVIOUS
<1>1. ASSUME NEW r \in Rows, Insert(r)
      PROVE  QuietInv'
  <2> SUFFICES ASSUME Began' = Matching', NEW u \in Users
               PROVE  SumFunctionOnSet(counted', RowsOf(u)') = Reached(offset, u)'
    BY DEF QuietInv
  <2>1. Matching' = Matching /\ Began = Matching
    BY <1>1, InsertGrows, Sizes
  <2>2. RowsOf(u)' = RowsOf(u) /\ Smaller(u)' = Smaller(u)
    BY <2>1 DEF RowsOf, Smaller
  <2>3. counted' = counted /\ offset' = offset
    BY <1>1 DEF Insert, metrics
  <2>4. Reached(offset, u)' = Reached(offset, u)
    BY <2>2, <2>3, Zenon DEF Reached
  <2>5. SumFunctionOnSet(counted', RowsOf(u)') = SumFunctionOnSet(counted, RowsOf(u))
    BY <2>2, <2>3, Zenon
  <2> QED
    BY <2>1, <2>4, <2>5 DEF QuietInv
<1>2. ASSUME CountPage
      PROVE  QuietInv'
  <2> SUFFICES ASSUME Began' = Matching', NEW u \in Users
               PROVE  SumFunctionOnSet(counted', RowsOf(u)') = Reached(offset, u)'
    BY DEF QuietInv
  <2>1. PICK P \in Pages : counted' = [r \in Rows |-> counted[r] + IF r \in P THEN 1 ELSE 0]
    BY <1>2 DEF CountPage
  <2>2. /\ offset' = offset + Limit /\ offset < Cardinality(Matching)
        /\ Matching' = Matching /\ Began' = Began
    BY <1>2 DEF CountPage, Step, Matching, Began, Of, Window
  <2>3. RowsOf(u)' = RowsOf(u) /\ Smaller(u)' = Smaller(u)
    BY <2>2 DEF RowsOf, Smaller
  <2>4. /\ RowsOf(u) \in SUBSET Rows /\ IsFiniteSet(RowsOf(u))
        /\ \A r \in RowsOf(u) : counted[r] \in Int
    <3>1. RowsOf(u) \in SUBSET Matching /\ Matching \in SUBSET Rows
      BY RowsOfUser, Sizes
    <3> QED
      BY <3>1, RowSets DEF TypeOK
  <2> DEFINE R == P \cap RowsOf(u)
  <2>5. /\ R \in SUBSET RowsOf(u)
        /\ \A r \in R : counted'[r] = counted[r] + 1
        /\ \A r \in RowsOf(u) \ R : counted'[r] = counted[r]
    BY <2>1, <2>4
  <2>6. SumFunctionOnSet(counted', RowsOf(u))
            = SumFunctionOnSet(counted, RowsOf(u)) + Cardinality(R)
    <3> HIDE DEF R
    <3> QED
      BY <2>4, <2>5, SumRaised
  <2>7. SumFunctionOnSet(counted, RowsOf(u)) = Reached(offset, u)
    BY <2>2 DEF QuietInv
  <2>8. Reached(offset, u) + Cardinality(R) = Reached(offset + Limit, u)
    BY <2>2, PageOfUser
  <2>9. Reached(offset, u)' = Reached(offset + Limit, u)
    BY <2>2, <2>3, Zenon DEF Reached
  <2>10. SumFunctionOnSet(counted', RowsOf(u)') = SumFunctionOnSet(counted', RowsOf(u))
    BY <2>3, Zenon
  <2> QED
    BY <2>6, <2>7, <2>8, <2>9, <2>10
<1>3. ASSUME FinishWeek
      PROVE  QuietInv'
  <2>1. offset' = 0 /\ counted' = Zero
    BY <1>3 DEF FinishWeek
  <2>2. \A u \in Users : SumFunctionOnSet(counted', RowsOf(u)') = Reached(offset, u)'
    <3> SUFFICES ASSUME NEW u \in Users
                 PROVE  SumFunctionOnSet(counted', RowsOf(u)') = Reached(offset, u)'
      OBVIOUS
    <3>1. /\ RowsOf(u)' \in SUBSET Rows /\ Smaller(u)' \in SUBSET Rows
      BY DEF RowsOf, Smaller, Matching, Of, TypeOK
    <3>2. \A r \in RowsOf(u)' : counted'[r] = 0
      BY <2>1, <3>1 DEF Zero
    <3>3. SumFunctionOnSet(counted', RowsOf(u)') = 0
      BY <3>1, <3>2, RowSets, SumOfZeros
    <3>4. Cardinality(Smaller(u)') \in Nat
      BY <3>1, RowSets
    <3> QED
      BY <2>1, <3>3, <3>4 DEF Reached
  <2> QED
    BY <2>2 DEF QuietInv
<1>4. ASSUME FinishTask \/ Fail \/ UNCHANGED vars
      PROVE  QuietInv'
  <2>1. UNCHANGED <<table, week, offset, counted, atStart>>
    BY <1>4 DEF FinishTask, Fail, vars, metrics
  <2> QED
    BY <2>1 DEF QuietInv, RowsOf, Smaller, Reached, Matching, Began, Of, Window
<1> QED
  BY <1>1, <1>2, <1>3, <1>4 DEF Next, Finished

\* If no row of the week arrives while it is read, each user has as many rows in the sums
\* as in the table, however ties are ordered from page to page.
THEOREM QuietWeeksExact == Spec => []QuietUserRowsExact
<1>1. TypeOK /\ QuietInv => QuietUserRowsExact
  <2> SUFFICES ASSUME TypeOK, QuietInv, WeekRead, Began = Matching, NEW u \in Users
               PROVE  SumFunctionOnSet(counted, RowsOf(u)) = Cardinality(RowsOf(u))
    BY DEF QuietUserRowsExact, Began
  <2>1. offset >= Cardinality(Matching) /\ offset \in Nat
    BY DEF WeekRead, TypeOK
  <2>2. /\ Cardinality(RowsOf(u)) \in Nat /\ Cardinality(Smaller(u)) \in Nat
        /\ Cardinality(Smaller(u)) + Cardinality(RowsOf(u)) <= Cardinality(Matching)
        /\ Cardinality(Matching) \in Nat
    BY RowsOfUser
  <2>3. Reached(offset, u) = Cardinality(RowsOf(u))
    BY <2>1, <2>2 DEF Reached
  <2> QED
    BY <2>3 DEF QuietInv
<1> QED
  BY <1>1, TypeInit, TypeStep, QuietInit, QuietStep, PTL DEF Spec

-----------------------------------------------------------------------------
(* WeeksAddUp.  The windows of consecutive weeks share no day and leave    *)
(* none out if they are seven days long, which takes DAYS = 6 as both ends *)
(* are included: app/core/config.py has it so.  With the count of the week *)
(* that ends, the reported weeks stay between the two tables.              *)

\* The transactions of T in the weeks that are over.
Past(T) == {r \in T : Day[r] \in Today - 7 * week + 1 .. Today}

Reported == [w \in results |-> w.transactions]

ReportInv ==
    /\ IsFiniteSet(results) /\ \A w \in results : w.week_number <= week
    /\ Cardinality(Past(atFirst)) <= SumFunctionOnSet(Reported, results)
    /\ SumFunctionOnSet(Reported, results) <= Cardinality(Past(table))
    /\ status = "done" => week = Weeks

LEMMA ReportInit == Init => ReportInv
<1> SUFFICES ASSUME Init PROVE ReportInv
  OBVIOUS
<1>1. results = {} /\ week = 0 /\ status = "running" /\ TypeOK
  BY TypeInit DEF Init
<1>2. Past(atFirst) = {} /\ Past(table) = {}
  BY <1>1, AnalyticsAssumption DEF Past
<1>3. SumFunctionOnSet(Reported, results) = 0
  BY <1>1, SumOfEmpty, Zenon
<1> QED
  BY <1>1, <1>2, <1>3, FS_EmptySet DEF ReportInv

\* The week that ends joins the past.
LEMMA WeekJoinsPast ==
    ASSUME TypeOK, Days = 6, week' = week + 1, NEW T \in SUBSET Rows
    PROVE  /\ Cardinality(Past(T)) \in Nat /\ Cardinality(Of(T, week)) \in Nat
           /\ Cardinality({r \in T : Day[r] \in Today - 7 * week' + 1 .. Today})
                = Cardinality(Past(T)) + Cardinality(Of(T, week))
<1> DEFINE A == Past(T)
           B == Of(T, week)
           C == {r \in T : Day[r] \in Today - 7 * week' + 1 .. Today}
<1>1. A \in SUBSET Rows /\ B \in SUBSET Rows
  BY DEF Past, Of
<1>2. week \in Nat /\ Today \in Int /\ \A r \in T : Day[r] \in Int
  BY AnalyticsAssumption DEF TypeOK
<1>3. \A d \in Int :
          /\ d \in Today - 7 * week' + 1 .. Today
               <=> d \in Today - 7 * week + 1 .. Today \/ d \in Window(week)
          /\ ~(d \in Today - 7 * week + 1 .. Today /\ d \in Window(week))
  BY <1>2 DEF Window
<1>4. A \cap B = {} /\ C = A \cup B
  BY <1>2, <1>3 DEF Past, Of
<1>5. IsFiniteSet(A) /\ IsFiniteSet(B) /\ Cardinality(A) \in Nat /\ Cardinality(B) \in Nat
  BY <1>1, RowSets
<1> HIDE DEF A, B, C
<1>6. Cardinality(A \cup B) = Cardinality(A) + Cardinality(B) - Cardinality(A \cap B)
  BY <1>5, FS_Union
<1>7. Cardinality(A \cap B) = 0
  BY <1>4, FS_EmptySet
<1>8. Cardinality(C) = Cardinality(A) + Cardinality(B)
  BY <1>4, <1>5, <1>6, <1>7
<1> QED
  BY <1>5, <1>8 DEF A, B, C

\* The report grows by what was counted.
LEMMA WeekReported ==
    ASSUME TypeOK, ReportInv, FinishWeek
    PROVE  /\ IsFiniteSet(results') /\ \A w \in results' : w.week_number <= week'
           /\ SumFunctionOnSet(Reported, results) \in Int
           /\ SumFunctionOnSet(Reported', results')
                = SumFunctionOnSet(Reported, results) + count
<1> DEFINE w == [week_number |-> week + 1, transactions |-> count]
<1>1. /\ IsFiniteSet(results) /\ week \in Nat /\ count \in Nat /\ week' = week + 1
      /\ \A v \in results : v.week_number \in Nat /\ v.week_number <= week
      /\ \A v \in results : Reported[v] \in Int
  BY AnalyticsAssumption DEF TypeOK, ReportInv, Reported, FinishWeek
<1>2. SumFunctionOnSet(Reported, results) \in Int
  BY <1>1, SumIsInt
<1>3. CASE count > 0
  <2>1. results' = results \cup {w} /\ w \notin results /\ w.week_number <= week'
    <3>1. w.week_number = week + 1
      OBVIOUS
    <3> QED
      BY <1>1, <1>3, <3>1 DEF FinishWeek
  <2>2. /\ \A v \in results : Reported[v] = Reported'[v] /\ Reported'[v] \in Int
        /\ Reported'[w] = count
    <3>1. Reported' = [v \in results \cup {w} |-> v.transactions]
      BY <2>1 DEF Reported
    <3>2. w.transactions = count
      OBVIOUS
    <3> HIDE DEF w
    <3> QED
      BY <1>1, <3>1, <3>2 DEF Reported
  <2> HIDE DEF w
  <2>3. SumFunctionOnSet(Reported, results) = SumFunctionOnSet(Reported', results)
    BY <1>1, <2>2, SumAgrees
  <2>4. SumFunctionOnSet(Reported', results \cup {w})
            = SumFunctionOnSet(Reported', results) + Reported'[w]
    BY <1>1, <2>1, <2>2, SumWith
  <2>5. SumFunctionOnSet(Reported', results') = SumFunctionOnSet(Reported', results \cup {w})
    BY <2>1, Zenon
  <2>6. IsFiniteSet(results') /\ \A v \in results' : v.week_number <= week'
    BY <1>1, <2>1, FS_AddElement
  <2> QED
    BY <1>2, <2>2, <2>3, <2>4, <2>5, <2>6
<1>4. CASE count = 0
  <2>1. results' = results
    BY <1>4 DEF FinishWeek
  <2>2. SumFunctionOnSet(Reported', results') = SumFunctionOnSet(Reported, results)
    BY <2>1, Zenon DEF Reported
  <2> QED
    BY <1>1, <1>2, <1>4, <2>1, <2>2
<1> QED
  BY <1>1, <1>3, <1>4

LEMMA ReportStep ==
    Days = 6 /\ TypeOK /\ TypeOK' /\ CountInv /\ ReportInv /\ [Next]_vars => ReportInv'
<1> SUFFICES ASSUME Days = 6, TypeOK, TypeOK', CountInv, ReportInv, [Next]_vars
             PROVE  ReportInv'
  OBVIOUS
<1> DEFINE sum == SumFunctionOnSet(Reported, results)
<1>1. ASSUME NEW r \in Rows, Insert(r)
      PROVE  ReportInv'
  <2>1. /\ UNCHANGED <<results, week, status, atFirst>>
        /\ Past(table) \subseteq Past(table)' /\ Past(atFirst)' = Past(atFirst)
    BY <1>1 DEF Insert, metrics, Past
  <2>2. sum' = sum
    BY <2>1, Zenon DEF Reported
  <2>3. Past(table)' \in SUBSET Rows /\ Past(table) \in SUBSET Past(table)'
    BY <2>1 DEF Past, TypeOK
  <2>4. /\ Cardinality(Past(table)) <= Cardinality(Past(table)')
        /\ Cardinality(Past(table)) \in Nat /\ Cardinality(Past(table)') \in Nat
    BY <2>3, FewerRows, RowSets
  <2>5. sum \in Int
    <3>1. \A w \in results : Reported[w] \in Int
      BY DEF Reported, TypeOK
    <3> QED
      BY <3>1, SumIsInt DEF ReportInv
  <2> HIDE DEF sum
  <2>6. sum' <= Cardinality(Past(table)')
    <3>1. sum <= Cardinality(Past(table))
      BY DEF ReportInv, sum
    <3> QED
      BY <2>2, <2>4, <2>5, <3>1
  <2> QED
    BY <2>1, <2>2, <2>6 DEF ReportInv, sum
<1>2. ASSUME FinishWeek
      PROVE  ReportInv'
  <2>1. week' = week + 1 /\ status' = status /\ status = "running"
        /\ table' = table /\ atFirst' = atFirst /\ offset >= Cardinality(Matching)
    BY <1>2 DEF FinishWeek
  <2>2. /\ IsFiniteSet(results') /\ \A w \in results' : w.week_number <= week'
        /\ sum \in Int /\ sum' = sum + count
    BY <1>2, WeekReported
  <2>3. table \in SUBSET Rows /\ atFirst \in SUBSET Rows
    BY DEF TypeOK
  <2>4. /\ Cardinality(Past(table)) \in Nat /\ Cardinality(Past(atFirst)) \in Nat
        /\ Cardinality(Of(atFirst, week)) \in Nat
        /\ Cardinality(Past(table)') = Cardinality(Past(table)) + Cardinality(Matching)
        /\ Cardinality(Past(atFirst)')
             = Cardinality(Past(atFirst)) + Cardinality(Of(atFirst, week))
    BY <2>1, <2>3, WeekJoinsPast DEF Past, Matching
  <2>5. Cardinality(Of(atFirst, week)) <= count /\ count <= Cardinality(Matching)
    <3>1. /\ Cardinality(Matching) \in Nat /\ Cardinality(Began) \in Nat
          /\ count \in Nat /\ offset \in Nat /\ Cardinality(Began) <= Cardinality(Matching)
      BY Sizes DEF TypeOK
    <3>2. Cardinality(Of(atFirst, week)) <= Cardinality(Began)
      <4>1. Of(atFirst, week) \in SUBSET Began /\ Began \in SUBSET Rows
        BY DEF Began, Of, TypeOK
      <4> QED
        BY <4>1, FewerRows
    <3> QED
      BY <2>1, <2>4, <3>1, <3>2 DEF CountInv
  <2>6. /\ Cardinality(Past(atFirst)) <= sum /\ sum <= Cardinality(Past(table))
        /\ Cardinality(Matching) \in Nat /\ count \in Nat
    BY Sizes DEF ReportInv, TypeOK
  <2> HIDE DEF sum
  <2>7. Cardinality(Past(atFirst)') <= sum' /\ sum' <= Cardinality(Past(table)')
    BY <2>2, <2>4, <2>5, <2>6
  <2> QED
    BY <2>1, <2>2, <2>7 DEF ReportInv, sum
<1>3. ASSUME UNCHANGED <<table, week, results, atFirst>>,
             status' = "done" => status = "done" \/ week = Weeks
      PROVE  ReportInv'
  <2>1. Past(table)' = Past(table) /\ Past(atFirst)' = Past(atFirst) /\ sum' = sum
    BY <1>3 DEF Past, Reported
  <2> HIDE DEF sum
  <2> QED
    BY <1>3, <2>1 DEF ReportInv, sum
<1> QED
  BY <1>1, <1>2, <1>3
  DEF Next, CountPage, FinishTask, Fail, Finished, vars, metrics

\* With weeks of seven days, as configured, the weeks of a finished task add up to the
\* transactions of the whole time, those that arrived meanwhile in part.
THEOREM WeeksAddedUp ==
    ASSUME Days = 6
    PROVE  Spec => []WeeksAddUp
<1>1. TypeOK /\ ReportInv => WeeksAddUp
  <2> SUFFICES ASSUME TypeOK, ReportInv, status = "done"
               PROVE  /\ Cardinality(Span(atFirst)) <= SumFunction(Reported)
                      /\ SumFunction(Reported) <= Cardinality(Span(table))
    BY DEF WeeksAddUp, Reported
  <2>1. week = Weeks /\ DOMAIN Reported = results
    BY DEF ReportInv, Reported
  <2>2. SumFunction(Reported) = SumFunctionOnSet(Reported, results)
    BY <2>1, Zenon DEF SumFunction
  <2>3. Past(atFirst) = Span(atFirst) /\ Past(table) = Span(table)
    BY <2>1 DEF Past, Span
  <2> QED
    BY <2>2, <2>3 DEF ReportInv
<1>2. TypeOK /\ TypeOK' /\ CountInv /\ ReportInv /\ [Next]_vars => ReportInv'
  BY ReportStep
<1> QED
  BY <1>1, <1>2, TypeInit, TypeStep, CountInit, CountStep, ReportInit, PTL DEF Spec
=============================================================================
