----------------------------- MODULE Analytics -----------------------------
(***************************************************************************)
(* The weekly analysis of the transaction service: get_transaction_analysis *)
(* (app/transactions/tasks/analyze_task.py) computes the metrics of one    *)
(* week after the other, and MetricsCalculator (app/transactions/db/       *)
(* queries.py) reads the rows of a week page by page, while clients go on  *)
(* creating transactions.                                                  *)
(*                                                                         *)
(* Pages are ordered by user and cut by OFFSET and LIMIT.  Each page is a  *)
(* statement of its own in READ COMMITTED and sees what is committed by    *)
(* then; rows of one user have no order among themselves, and different    *)
(* pages may order them differently.                                       *)
(***************************************************************************)
EXTENDS Integers, FiniteSets, FiniteSetsExt

CONSTANTS
    Rows,           \* the transactions that can ever be stored
    UserOf,         \* user_uuid of a row, as a number: uuids are ordered
    Day,            \* the date of its column "created", as a number
    Limit,          \* ANALYTICS.PAGINATION.LIMIT; OFFSET is 0 as configured
    Days,           \* DAYS
    Weeks,          \* WEEKS
    Today           \* the day on which the task starts

ASSUME AnalyticsAssumption ==
    /\ IsFiniteSet(Rows)
    /\ UserOf \in [Rows -> Nat] /\ Day \in [Rows -> Int]
    /\ Limit \in Nat \ {0} /\ Days \in Nat /\ Weeks \in Nat /\ Today \in Int

VARIABLES
    table,          \* the committed rows of table transaction
    status,         \* of the task: "running", "done" or "failed"
    week,           \* week_num
    offset,         \* current_offset
    count,          \* transactions_count
    users,          \* unique_users
    counted,        \* how often each row went into the sums
    results,        \* the weeks reported so far
    atStart,        \* history: the table when the paging of the week began
    atFirst         \* history: the table when the task began

metrics == <<count, users, counted>>
vars    == <<table, status, week, offset, metrics, results, atStart, atFirst>>

Users == {UserOf[r] : r \in Rows}

Zero == [r \in Rows |-> 0]

Init ==
    /\ table \in SUBSET Rows /\ atStart = table /\ atFirst = table
    /\ status = "running" /\ week = 0 /\ offset = 0
    /\ count = 0 /\ users = {} /\ counted = Zero
    /\ results = {}

\* A creation commits.  Its "created" is the start of its transaction: yesterday, when
\* midnight passed meanwhile, or a day on which the task is still running.
Insert(r) ==
    /\ r \notin table /\ Day[r] >= Today - 1
    /\ table' = table \cup {r}
    /\ UNCHANGED <<status, week, offset, metrics, results, atStart, atFirst>>

-----------------------------------------------------------------------------

WindowOfSeven(w) == Today - 7 * w - 7 .. Today - 7 * w

\* The days from dt_gt to dt_lt, both included.
Window(w) == Today - 7 * w - Days .. Today - 7 * w

Of(T, w) == {r \in T : Day[r] \in Window(w)}

Matching == Of(table, week)

\* Nothing of T comes after anything of U in the order of users.
Before(T, U) == \A r \in T, s \in U : UserOf[r] <= UserOf[s]

UnorderedPages ==
    {P \in SUBSET Matching : Cardinality(P) = Min({Limit, Cardinality(Matching) - offset})}

\* What SELECT ... ORDER BY user_uuid OFFSET offset LIMIT Limit may return.
Pages ==
    {P \in SUBSET Matching :
        /\ Cardinality(P) = IF Cardinality(Matching) - offset < Limit
                            THEN Cardinality(Matching) - offset ELSE Limit
        /\ \E Skipped \in SUBSET (Matching \ P) :
            /\ Cardinality(Skipped) = offset
            /\ Before(Skipped, P)
            /\ Before(Skipped \cup P, Matching \ (Skipped \cup P))}

OverlappingStep == Limit - 1

Step == Limit

\* fetch_users_and_transactions returns rows: they are counted.
CountPage ==
    /\ status = "running" /\ week < Weeks /\ offset < Cardinality(Matching)
    /\ \E P \in Pages :
        /\ count' = count + Cardinality(P)
        /\ users' = users \cup {UserOf[r] : r \in P}
        /\ counted' = [r \in Rows |-> counted[r] + IF r \in P THEN 1 ELSE 0]
    /\ offset' = offset + Step
    /\ UNCHANGED <<table, status, week, results, atStart, atFirst>>

FinishWeekEvenEmpty ==
    /\ status = "running" /\ week < Weeks /\ offset >= Cardinality(Matching)
    /\ results' = results \cup {[week_number |-> week + 1, transactions |-> count]}
    /\ week' = week + 1 /\ offset' = 0
    /\ count' = 0 /\ users' = {} /\ counted' = Zero
    /\ atStart' = table
    /\ UNCHANGED <<table, status, atFirst>>

FinishWeekOnceCounted ==
    /\ status = "running" /\ week < Weeks /\ offset >= Cardinality(Matching) /\ count > 0
    /\ results' = results \cup {[week_number |-> week + 1, transactions |-> count]}
    /\ week' = week + 1 /\ offset' = 0
    /\ count' = 0 /\ users' = {} /\ counted' = Zero
    /\ atStart' = table
    /\ UNCHANGED <<table, status, atFirst>>

\* A page is empty: the week is reported if anything was counted, the next one starts.
FinishWeek ==
    /\ status = "running" /\ week < Weeks /\ offset >= Cardinality(Matching)
    /\ results' = IF count > 0
                  THEN results \cup {[week_number |-> week + 1, transactions |-> count]}
                  ELSE results
    /\ week' = week + 1 /\ offset' = 0
    /\ count' = 0 /\ users' = {} /\ counted' = Zero
    /\ atStart' = table
    /\ UNCHANGED <<table, status, atFirst>>

FinishTask ==
    /\ status = "running" /\ week = Weeks
    /\ status' = "done"
    /\ UNCHANGED <<table, week, offset, metrics, results, atStart, atFirst>>

\* A query raises; the task has no result.
Fail ==
    /\ status = "running" /\ week < Weeks
    /\ status' = "failed"
    /\ UNCHANGED <<table, week, offset, metrics, results, atStart, atFirst>>

Finished == status # "running" /\ UNCHANGED vars

Next ==
    \/ \E r \in Rows : Insert(r)
    \/ CountPage \/ FinishWeek \/ FinishTask \/ Fail \/ Finished

Spec == Init /\ [][Next]_vars

\* The worker goes on with its task; new rows and failures are not owed.
FairSpec == Spec /\ WF_vars(CountPage \/ FinishWeek \/ FinishTask)

-----------------------------------------------------------------------------
(* Properties.                                                             *)

\* The variables stay in their ranges; a week is only read while the task has weeks left.
TypeOK ==
    /\ table \subseteq Rows /\ atFirst \subseteq atStart /\ atStart \subseteq table
    /\ status \in {"running", "done", "failed"} /\ week \in 0 .. Weeks
    /\ offset \in Nat /\ count \in Nat
    /\ users \subseteq Users /\ counted \in [Rows -> Nat]
    /\ results \subseteq [week_number : 1 .. Weeks, transactions : Nat \ {0}]

\* The paging of the week has met its empty page: the metrics are those it returns.
WeekRead == status = "running" /\ week < Weeks /\ offset >= Cardinality(Matching)

\* transactions_count lies between the number of rows there were when the paging began and
\* the number there are when it ends, however rows that arrive shift the pages and however
\* ties are ordered - although a single row may be counted twice or never.
CountBetween ==
    WeekRead => /\ Cardinality(Of(atStart, week)) <= count
                /\ count <= Cardinality(Matching)

\* Nobody who had a transaction in the week when the paging began is left out of
\* registered_users_count: rows that arrive only push later users further back.
NoUserMissed == WeekRead => {UserOf[r] : r \in Of(atStart, week)} \subseteq users

RowsOf(u) == {r \in Matching : UserOf[r] = u}

\* If no row of the week arrived meanwhile, each user has as many rows in the sums as in
\* the table, ties or not.
QuietUserRowsExact ==
    WeekRead /\ Of(atStart, week) = Matching
        => \A u \in Users :
               SumFunctionOnSet(counted, RowsOf(u)) = Cardinality(RowsOf(u))

Span(T) == {r \in T : Day[r] \in Today - 7 * Weeks + 1 .. Today}

\* "Analyze transactions for the last 52 weeks": no day belongs to two of the reported
\* weeks and none to no week, so that they add up to the transactions of those weeks.
WeeksAddUp ==
    LET sum == SumFunction([w \in results |-> w.transactions])
    IN  status = "done" => Cardinality(Span(atFirst)) <= sum /\ sum <= Cardinality(Span(table))

\* Every task ends: the offset outgrows the table.
TaskEnds == <>(status # "running")
=============================================================================
