------------------------------- MODULE Users --------------------------------
(***************************************************************************)
(* UserService (app/users/service/user_service.py): registering users and  *)
(* changing their status.                                                  *)
(*                                                                         *)
(* Both operations look first and write later.  A registration commits     *)
(* twice: the user, then the USER_CREATED event.  A change of status is    *)
(* one transaction, whose BEGIN, SELECT, UPDATE and COMMIT are separate    *)
(* round trips to PostgreSQL; its UPDATE waits for the row's lock, but     *)
(* relies on the status it read before.  A failure is that of one request; *)
(* a crash is the failure of them all.                                     *)
(***************************************************************************)
EXTENDS Naturals, FiniteSets

CONSTANTS
    Creations,      \* requests to register a user; each one's user has its name
    Changes,        \* requests to change a user's status
    Emails          \* e-mail addresses, normalized

Statuses == {"ACTIVE", "BLOCKED"}
Requests == Creations \cup Changes

ASSUME UsersAssumption == Creations \cap Changes = {}

VARIABLES
    email,          \* of a registration
    target, wanted, \* user_uuid and new_status of a change
    phase,          \* how far a request is
    answer,         \* what it was told: "none" as long as it runs
    old,            \* old_status, as the change read it
    status,         \* the committed rows of user: "none" where there is none
    announced,      \* users with a committed USER_CREATED event
    createdAt,      \* created_at of a change's event: the start of its transaction
    committedAt,    \* history: when the event was committed; 0 if it was not
    replaced,       \* history: the status that a committed change has overwritten
    overtaken,      \* history: changes whose user was changed after they read it
    clock           \* history: counts the starts and commits of changes

parameters == <<email, target, wanted>>
database   == <<status, announced, createdAt>>
history    == <<committedAt, replaced, overtaken, clock>>
vars       == <<parameters, phase, answer, old, database, history>>

Init ==
    /\ email \in [Creations -> Emails]
    /\ target \in [Changes -> Creations] /\ wanted \in [Changes -> Statuses]
    /\ phase = [r \in Requests |-> "new"]
    /\ answer = [r \in Requests |-> "none"]
    /\ old = [r \in Changes |-> "none"]
    /\ status = [c \in Creations |-> "none"]
    /\ announced = {}
    /\ createdAt = [r \in Changes |-> 0] /\ committedAt = [r \in Changes |-> 0]
    /\ replaced = [r \in Changes |-> "none"]
    /\ overtaken = {}
    /\ clock = 0

Exists(c) == status[c] # "none"

\* What only moves the request on.
Proceed(r, to) ==
    /\ phase' = [phase EXCEPT ![r] = to]
    /\ UNCHANGED answer

Answer(r, what) ==
    /\ phase' = [phase EXCEPT ![r] = "answered"]
    /\ answer' = [answer EXCEPT ![r] = what]

\* The connection can break before a commit is acknowledged.
AnswerOfCommit(r, what) == Answer(r, what) \/ Answer(r, "error")

-----------------------------------------------------------------------------
(* create_user                                                             *)

\* Other registrations of the same e-mail.
Rivals(c) == {d \in Creations \ {c} : email[d] = email[c]}

\* get_by_email finds a committed row: UserAlreadyExistsException.
RefuseExisting(c) ==
    /\ phase[c] = "new" /\ \E d \in Rivals(c) : Exists(d)
    /\ Answer(c, "already_exists")
    /\ UNCHANGED <<parameters, old, database, history>>

LookUp(c) ==
    /\ phase[c] = "new" /\ ~\E d \in Rivals(c) : Exists(d)
    /\ Proceed(c, "looked_up")
    /\ UNCHANGED <<parameters, old, database, history>>

NoRival(c) == TRUE

\* The unique index lets the row in once no other transaction has the e-mail.
EmailFree(c) == \A d \in Rivals(c) : ~Exists(d) /\ phase[d] # "inserted"

AnnounceWithInsert(c) ==
    /\ phase[c] = "looked_up" /\ EmailFree(c)
    /\ announced' = announced \cup {c}
    /\ Proceed(c, "inserted")
    /\ UNCHANGED <<parameters, old, status, createdAt, history>>

\* create_user_with_balance: the flush of the user and its balances.
Insert(c) ==
    /\ phase[c] = "looked_up" /\ EmailFree(c)
    /\ Proceed(c, "inserted")
    /\ UNCHANGED <<parameters, old, database, history>>

\* The flush fails on the e-mail of a rival; nothing handles the error.
UniqueViolation(c) ==
    /\ phase[c] = "looked_up" /\ \E d \in Rivals(c) : Exists(d)
    /\ Answer(c, "error")
    /\ UNCHANGED <<parameters, old, database, history>>

\* The first commit; from here on the user can be listed and changed.
CommitUser(c) ==
    /\ phase[c] = "inserted"
    /\ status' = [status EXCEPT ![c] = "ACTIVE"]
    /\ Proceed(c, "stored") \/ Answer(c, "error")
    /\ UNCHANGED <<parameters, old, announced, createdAt, history>>

AnnounceUncommitted(c) ==
    /\ phase[c] = "stored"
    /\ AnswerOfCommit(c, "created")
    /\ UNCHANGED <<parameters, old, database, history>>

\* add_event and the second commit.
Announce(c) ==
    /\ phase[c] = "stored"
    /\ announced' = announced \cup {c}
    /\ AnswerOfCommit(c, "created")
    /\ UNCHANGED <<parameters, old, status, createdAt, history>>

-----------------------------------------------------------------------------
(* change_status                                                           *)

ChangesOf(c) == {r \in Changes : target[r] = c}

\* The first statement of the session makes the driver begin the transaction, a round trip
\* of its own; now() stays at this moment until the transaction ends.
Begin(r) ==
    /\ phase[r] = "new"
    /\ clock' = clock + 1
    /\ createdAt' = [createdAt EXCEPT ![r] = clock']
    /\ Proceed(r, "begun")
    /\ UNCHANGED <<parameters, old, status, announced, committedAt, replaced, overtaken>>

\* UserNotExistsException, UserAlreadyActiveException, UserAlreadyBlockedException.
RefuseChange(r) ==
    /\ phase[r] = "begun"
    /\ \/ ~Exists(target[r]) /\ Answer(r, "not_exists")
       \/ status[target[r]] = wanted[r] /\ Answer(r, "already")
    /\ UNCHANGED <<parameters, old, database, history>>

ReadAnyUser(r) ==
    /\ phase[r] = "begun" /\ Exists(target[r])
    /\ old' = [old EXCEPT ![r] = status[target[r]]]
    /\ Proceed(r, "read")
    /\ UNCHANGED <<parameters, database, history>>

\* The SELECT of get_by_uuid, and the check.
ReadUser(r) ==
    /\ phase[r] = "begun" /\ Exists(target[r]) /\ status[target[r]] # wanted[r]
    /\ old' = [old EXCEPT ![r] = status[target[r]]]
    /\ Proceed(r, "read")
    /\ UNCHANGED <<parameters, database, history>>

WaitsForReaders(r) ==
    \E s \in ChangesOf(target[r]) \ {r} : phase[s] \in {"read", "updated"}

\* Another transaction holds the lock of the row.
WaitsForLock(r) == \E s \in ChangesOf(target[r]) \ {r} : phase[s] = "updated"

\* update_status: the UPDATE of the row by its key, whatever its status is by now.
Update(r) ==
    /\ phase[r] = "read" /\ ~WaitsForLock(r)
    /\ Proceed(r, "updated")
    /\ UNCHANGED <<parameters, old, database, history>>

CommitEventOnly(r) ==
    /\ phase[r] = "updated"
    /\ clock' = clock + 1
    /\ committedAt' = [committedAt EXCEPT ![r] = clock']
    /\ replaced' = [replaced EXCEPT ![r] = status[target[r]]]
    /\ overtaken' = overtaken \cup {s \in ChangesOf(target[r]) \ {r} : phase[s] = "read"}
    /\ AnswerOfCommit(r, "changed")
    /\ UNCHANGED <<parameters, old, database>>

\* The commit of the row and of the USER_STATUS_CHANGED event.
CommitChange(r) ==
    /\ phase[r] = "updated"
    /\ status' = [status EXCEPT ![target[r]] = wanted[r]]
    /\ clock' = clock + 1
    /\ committedAt' = [committedAt EXCEPT ![r] = clock']
    /\ replaced' = [replaced EXCEPT ![r] = status[target[r]]]
    /\ overtaken' = overtaken \cup {s \in ChangesOf(target[r]) \ {r} : phase[s] = "read"}
    /\ AnswerOfCommit(r, "changed")
    /\ UNCHANGED <<parameters, old, announced, createdAt>>

\* A statement or a commit raises, the client is gone or the process ends: the session
\* closes and takes back what was not committed.
Fail(r) ==
    /\ phase[r] # "answered"
    /\ Answer(r, "error")
    /\ UNCHANGED <<parameters, old, database, history>>

-----------------------------------------------------------------------------

Create(c) ==
    \/ RefuseExisting(c) \/ LookUp(c) \/ Insert(c) \/ UniqueViolation(c)
    \/ CommitUser(c) \/ Announce(c)

ChangeStatus(r) ==
    \/ Begin(r) \/ RefuseChange(r) \/ ReadUser(r) \/ Update(r) \/ CommitChange(r)

Done == (\A r \in Requests : phase[r] = "answered") /\ UNCHANGED vars

Next ==
    \/ \E c \in Creations : Create(c)
    \/ \E r \in Changes : ChangeStatus(r)
    \/ \E r \in Requests : Fail(r)
    \/ Done

Spec == Init /\ [][Next]_vars

\* Every request that has arrived goes on: the event loop and PostgreSQL see to that.
Fairness ==
    /\ \A c \in Creations : WF_vars(phase[c] # "new" /\ Create(c))
    /\ \A r \in Changes : WF_vars(phase[r] # "new" /\ ChangeStatus(r))

FairSpec == Spec /\ Fairness

-----------------------------------------------------------------------------
(* Properties.                                                             *)

\* The variables stay in their ranges; only users that exist are announced.
TypeOK ==
    /\ email \in [Creations -> Emails]
    /\ target \in [Changes -> Creations] /\ wanted \in [Changes -> Statuses]
    /\ phase \in [Requests -> {"new", "looked_up", "inserted", "stored", "begun", "read",
                               "updated", "answered"}]
    /\ answer \in [Requests -> {"none", "created", "already_exists", "changed",
                                "not_exists", "already", "error"}]
    /\ old \in [Changes -> Statuses \cup {"none"}]
    /\ status \in [Creations -> Statuses \cup {"none"}]
    /\ announced \subseteq {c \in Creations : Exists(c)}
    /\ clock \in Nat
    /\ createdAt \in [Changes -> 0 .. clock] /\ committedAt \in [Changes -> 0 .. clock]
    /\ replaced \in [Changes -> Statuses \cup {"none"}]
    /\ overtaken \subseteq Changes

\* An e-mail belongs to one user, however many registrations looked it up at once.
OneUserPerEmail ==
    \A c, d \in Creations : Exists(c) /\ Exists(d) /\ email[c] = email[d] => c = d

\* A user stays unannounced only because its registration failed between its two commits;
\* a client that was told of the user can rely on the announcement.
UnannouncedExplained ==
    \A c \in Creations :
        Exists(c) /\ c \notin announced => phase[c] = "stored" \/ answer[c] = "error"

Committed(r) == committedAt[r] > 0

\* A change that was not overtaken is announced as it happened: it replaced the status its
\* event calls the old one, by another one.
ChangesAsAnnounced ==
    \A r \in Changes :
        Committed(r) /\ r \notin overtaken =>
            replaced[r] = old[r] /\ replaced[r] # wanted[r]

\* The whole transaction of r lies between BEGIN and COMMIT of s.
Within(r, s) == createdAt[s] < createdAt[r] /\ committedAt[r] < committedAt[s]

\* Whoever reads a user's events by their created_at, as the outbox does, ends with the
\* user's status; or with the event of a change that ran from BEGIN to COMMIT within another
\* one, and then it is that other change whose status stands.
LatestEventTellsStatus ==
    \A c \in Creations :
        LET changes == {r \in ChangesOf(c) : Committed(r)}
        IN  \A r \in changes :
                (\A s \in changes : createdAt[s] <= createdAt[r]) =>
                    \/ status[c] = wanted[r]
                    \/ \E s \in changes : Within(r, s) /\ status[c] = wanted[s]

\* No wait for an e-mail or for a row lasts: every request is answered.
EventuallyAnswered ==
    \A r \in Requests : phase[r] # "new" ~> phase[r] = "answered"
=============================================================================
