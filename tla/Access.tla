------------------------------- MODULE Access -------------------------------
(***************************************************************************)
(* How a client gets to create transactions: a user token from the user    *)
(* service (login_for_access_token, app/users/api/v1/auth.py), a service   *)
(* token in exchange for it (get_service_token, same file), and the check  *)
(* of that token by the transaction service (app/transactions/api/         *)
(* service_token_dependency.py).  Neither service remembers a token; what  *)
(* holds of them holds because of what they contain and of the clock.      *)
(*                                                                         *)
(* Time is counted in minutes, the unit of the lifetimes.  The signature   *)
(* is that of the one SECRET_KEY both services are configured with.        *)
(***************************************************************************)
EXTENDS Integers, FiniteSets

CONSTANTS
    Users,          \* uuids of the users
    Emails,         \* strings that are typed as an e-mail, uuids perhaps among them
    NoEmail,        \* the empty one
    EmailOf,        \* the e-mail stored for a user, in normal form; any string will do
    Services,       \* what a client can name as target_service
    UserMinutes,    \* ACCESS_TOKEN_EXPIRE_MINUTES
    ServiceMinutes, \* expires_delta of create_service_jwt
    MaxTime,        \* bound on the clock
    MaxTokens       \* bound on the tokens issued

\* Users have distinct e-mails (Users!OneUserPerEmail).
ASSUME AccessAssumption ==
    /\ EmailOf \in [Users -> Emails]
    /\ \A u, v \in Users : EmailOf[u] = EmailOf[v] => u = v
    /\ UserMinutes \in Nat /\ ServiceMinutes \in Nat
    /\ MaxTime \in Nat /\ MaxTokens \in Nat

VARIABLES
    now,            \* datetime.now
    registered,     \* users with a row in table user
    blocked,        \* those of them whose status is BLOCKED
    tokens,         \* the tokens clients hold
    answer,         \* of the latest request
    admitted,       \* history: requests to create a transaction that were let through
    logins          \* history: what was typed at a login, and when

vars == <<now, registered, blocked, tokens, answer, admitted, logins>>

Tokens == [sub : Users \cup Emails, aud : Services \cup {"client"}, exp : Int]

Init ==
    /\ now = 0
    /\ registered = {} /\ blocked = {}
    /\ tokens = {} /\ answer = "none"
    /\ admitted = {} /\ logins = {}

Tick ==
    /\ now < MaxTime
    /\ now' = now + 1
    /\ UNCHANGED <<registered, blocked, tokens, answer, admitted, logins>>

\* create_user.  The e-mail may be the uuid of a user, but only of one who is there already:
\* the uuid is drawn (uuid4) when that user registers.
Register(u) ==
    /\ u \notin registered
    /\ EmailOf[u] \in Users => EmailOf[u] \in registered
    /\ registered' = registered \cup {u}
    /\ UNCHANGED <<now, blocked, tokens, answer, admitted, logins>>

\* change_status, in either direction.
ChangeStatus(u) ==
    /\ u \in registered
    /\ blocked' = IF u \in blocked THEN blocked \ {u} ELSE blocked \cup {u}
    /\ UNCHANGED <<now, registered, tokens, answer, admitted, logins>>

-----------------------------------------------------------------------------

Issue(t) ==
    /\ Cardinality(tokens) < MaxTokens
    /\ tokens' = tokens \cup {t}

\* login_for_access_token: whatever is typed becomes the subject, as it was typed; the
\* table is not looked at.
Login(e) ==
    /\ Issue([sub |-> e, aud |-> "client", exp |-> now + UserMinutes])
    /\ answer' = "ok"
    /\ logins' = logins \cup {[email |-> e, at |-> now]}
    /\ UNCHANGED <<now, registered, blocked, admitted>>

DecodesForAnyone(t, audience) == now < t.exp

\* jwt.decode with an audience.
Decodes(t, audience) == t.aud = audience /\ now < t.exp

OwnersOfAny(s) == {u \in registered : s = u \/ EmailOf[u] = s}

\* UsersDAO.get_by_email.
OwnersOf(s) == {u \in registered : EmailOf[u] = s}

ExchangeAnswer(t) ==
    IF ~Decodes(t, "client") \/ t.sub = NoEmail THEN "unauthorized"
    ELSE IF OwnersOf(t.sub) = {} THEN "not_found" ELSE "ok"

\* get_service_token: the status of the user is not looked at.
Exchange(t, service) ==
    /\ answer' = ExchangeAnswer(t)
    /\ IF answer' = "ok"
       THEN \E u \in OwnersOf(t.sub) :
                Issue([sub |-> u, aud |-> service, exp |-> now + ServiceMinutes])
       ELSE UNCHANGED tokens
    /\ UNCHANGED <<now, registered, blocked, admitted, logins>>

\* get_service_token_payload and get_user_uuid_from_token of a creation; what follows is
\* module Transactions.
Request(t) ==
    /\ answer' = IF Decodes(t, "transactions") THEN "ok" ELSE "unauthorized"
    /\ admitted' = IF Decodes(t, "transactions")
                   THEN admitted \cup {[user |-> t.sub, at |-> now]} ELSE admitted
    /\ UNCHANGED <<now, registered, blocked, tokens, logins>>

Next ==
    \/ Tick
    \/ \E u \in Users : Register(u) \/ ChangeStatus(u)
    \/ \E e \in Emails : Login(e)
    \/ \E t \in tokens : Request(t) \/ \E s \in Services : Exchange(t, s)

Spec == Init /\ [][Next]_vars

-----------------------------------------------------------------------------
(* Properties.                                                             *)

\* The variables stay in their ranges; transactions are created in the name of users.
TypeOK ==
    /\ now \in 0 .. MaxTime
    /\ registered \subseteq Users /\ blocked \subseteq registered
    /\ tokens \subseteq Tokens
    /\ answer \in {"none", "ok", "unauthorized", "not_found"}
    /\ admitted \subseteq [user : registered, at : 0 .. MaxTime]
    /\ logins \subseteq [email : Emails, at : 0 .. MaxTime]

\* C leads from the e-mail e to the user u: each of its members registered with e, or with
\* the uuid of another member, and u is the last of them.
LeadsTo(e, C, u) ==
    /\ u \in C
    /\ \A v \in C : EmailOf[v] = e \/ EmailOf[v] \in C
    /\ \A v \in C : EmailOf[v] # u

\* Access ends.  A request to create a transaction is let through only after a login, and
\* less than the lifetimes of a user token and a service token after it if the user's own
\* e-mail was typed: whatever tokens are exchanged for, they do not renew each other.  With
\* a uuid for an e-mail a service token finds a user once more, which takes one more
\* lifetime for each such registration on the way from what was typed, and no more.
AdmittedAfterLogin ==
    \A a \in admitted : \E l \in logins, C \in SUBSET registered :
        /\ LeadsTo(l.email, C, a.user)
        /\ l.at <= a.at /\ a.at < l.at + UserMinutes + Cardinality(C) * ServiceMinutes

\* "Cannot create transaction for blocked user" (users/exceptions.py:28).
BlockedUsersRefused == [][\A a \in admitted' \ admitted : a.user \notin blocked]_vars
=============================================================================
