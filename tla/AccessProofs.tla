---------------------------- MODULE AccessProofs ----------------------------
(***************************************************************************)
(* Proofs about Access, for any users, e-mails, services and lifetimes.    *)
(* What a token says is true for as long as it exists: nobody remembers a  *)
(* token, so the invariant is about where each of them comes from.         *)
(***************************************************************************)
EXTENDS Access, FiniteSetTheorems, TLAPS

\* A token issued at a login names what was typed and is for the user service alone.
FromLogin(t) ==
    /\ t.aud = "client"
    /\ \E l \in logins : l.email = t.sub /\ t.exp = l.at + UserMinutes /\ l.at <= now

\* Any other was exchanged for a token that had not expired; it has come from a login by way
\* of users whose e-mails lead from one to the next.
FromExchange(t) ==
    /\ t.sub \in registered
    /\ \E l \in logins, C \in SUBSET registered :
        /\ IsFiniteSet(C) /\ LeadsTo(l.email, C, t.sub) /\ l.at <= now
        /\ t.exp < l.at + UserMinutes + Cardinality(C) * ServiceMinutes

TokensTraced == \A t \in tokens : FromLogin(t) \/ FromExchange(t)

\* Of any users, the one who registered first has none of their uuids for an e-mail.
UuidsFirst ==
    /\ \A u \in registered : EmailOf[u] \in Users => EmailOf[u] \in registered
    /\ \A S \in SUBSET registered : S # {} => \E u \in S : EmailOf[u] \notin S

IInv == TypeOK /\ TokensTraced /\ UuidsFirst /\ AdmittedAfterLogin

-----------------------------------------------------------------------------
(* Users whose e-mails are uuids.                                          *)

\* A user found by what was typed is the whole way.
LEMMA LeadsToSelf ==
  ASSUME UuidsFirst, NEW w \in registered
  PROVE  LeadsTo(EmailOf[w], {w}, w)
<1>1. {w} \in SUBSET registered /\ {w} # {}
  OBVIOUS
<1>2. PICK v \in {w} : EmailOf[v] \notin {w}
  BY <1>1 DEF UuidsFirst
<1>3. EmailOf[w] # w
  BY <1>2
<1> QED
  BY <1>3 DEF LeadsTo

\* A user whose e-mail is the uuid of the last one on a way continues it, and is new to it.
LEMMA LeadsOn ==
  ASSUME UuidsFirst, NEW e, NEW C \in SUBSET registered, NEW u, LeadsTo(e, C, u),
         NEW w \in registered, EmailOf[w] = u
  PROVE  w \notin C /\ LeadsTo(e, C \cup {w}, w)
<1>1. w \notin C
  BY DEF LeadsTo
<1>2. \A v \in C \cup {w} : EmailOf[v] = e \/ EmailOf[v] \in C \cup {w}
  BY DEF LeadsTo
<1>3. ASSUME NEW x \in C \cup {w}, EmailOf[x] = w
      PROVE  FALSE
  <2>1. x \in C /\ e = w
    BY <1>1, <1>3 DEF LeadsTo
  <2>2. \A v \in C \cup {w} : EmailOf[v] \in C \cup {w}
    BY <2>1, <1>2
  <2> QED
    BY <2>2 DEF UuidsFirst
<1> QED
  BY <1>1, <1>2, <1>3 DEF LeadsTo

-----------------------------------------------------------------------------

LEMMA InitHolds == Init => IInv
  BY AccessAssumption DEF Init, IInv, TypeOK, TokensTraced, UuidsFirst, AdmittedAfterLogin

\* Tokens stay traced when time passes, users register and logins are added.
LEMMA TracesStay ==
  ASSUME IInv, NEW t \in tokens,
         now' \in Int, now <= now', logins \subseteq logins', registered \subseteq registered'
  PROVE  FromLogin(t)' \/ FromExchange(t)'
<1>1. now \in Int /\ \A l \in logins : l.at \in Int
  BY DEF IInv, TypeOK
<1>2. \A l \in logins : l.at <= now => l.at <= now'
  BY <1>1
<1>3. CASE FromLogin(t)
  BY <1>2, <1>3 DEF FromLogin
<1>4. CASE FromExchange(t)
  <2>1. PICK l \in logins, C \in SUBSET registered :
            /\ IsFiniteSet(C) /\ LeadsTo(l.email, C, t.sub) /\ l.at <= now
            /\ t.exp < l.at + UserMinutes + Cardinality(C) * ServiceMinutes
    BY <1>4 DEF FromExchange
  <2>2. l \in logins' /\ C \in SUBSET registered' /\ l.at <= now' /\ t.sub \in registered'
    BY <2>1, <1>2, <1>4 DEF FromExchange
  <2> QED
    BY <2>1, <2>2 DEF FromExchange, LeadsTo
<1> QED
  BY <1>3, <1>4 DEF IInv, TokensTraced

\* What was admitted stays accounted for.
LEMMA AdmissionsStay ==
  ASSUME AdmittedAfterLogin, logins \subseteq logins', registered \subseteq registered',
         NEW a \in admitted
  PROVE  \E l \in logins', C \in SUBSET registered' :
             /\ LeadsTo(l.email, C, a.user)
             /\ l.at <= a.at /\ a.at < l.at + UserMinutes + Cardinality(C) * ServiceMinutes
  BY DEF AdmittedAfterLogin

LEMMA TickKeeps == IInv /\ Tick => IInv'
<1> SUFFICES ASSUME IInv, Tick PROVE IInv'
  OBVIOUS
<1> USE AccessAssumption
<1>1. TypeOK'
  BY DEF Tick, IInv, TypeOK
<1>2. now' \in Int /\ now <= now'
  BY DEF Tick, IInv, TypeOK
<1>3. TokensTraced'
  BY <1>2, TracesStay DEF Tick, TokensTraced
<1>4. UuidsFirst' /\ AdmittedAfterLogin'
  BY DEF Tick, IInv, UuidsFirst, AdmittedAfterLogin
<1> QED
  BY <1>1, <1>3, <1>4 DEF IInv

LEMMA RegisterKeeps == ASSUME NEW u \in Users PROVE IInv /\ Register(u) => IInv'
<1> SUFFICES ASSUME IInv, Register(u) PROVE IInv'
  OBVIOUS
<1>1. TypeOK'
  BY DEF Register, IInv, TypeOK
<1>2. now' \in Int /\ now <= now' /\ registered \subseteq registered'
  BY DEF Register, IInv, TypeOK
<1>3. TokensTraced'
  BY <1>2, TracesStay DEF Register, TokensTraced
<1>4. AdmittedAfterLogin'
  BY <1>2, AdmissionsStay DEF Register, IInv, AdmittedAfterLogin
<1>5. UuidsFirst'
  <2>1. /\ registered' = registered \cup {u} /\ u \notin registered
        /\ registered \subseteq Users
        /\ EmailOf[u] \in Users => EmailOf[u] \in registered
    BY DEF Register, IInv, TypeOK
  <2>2. \A v \in registered : EmailOf[v] # u
    BY <2>1 DEF IInv, UuidsFirst
  <2>3. ASSUME NEW S \in SUBSET registered', S # {}
        PROVE  \E v \in S : EmailOf[v] \notin S
    <3>1. CASE S \ {u} = {}
      BY <2>1, <2>3, <3>1
    <3>2. CASE S \ {u} # {}
      <4>1. PICK v \in S \ {u} : EmailOf[v] \notin S \ {u}
        BY <2>1, <2>3, <3>2 DEF IInv, UuidsFirst
      <4> QED
        BY <4>1, <2>1, <2>2
    <3> QED
      BY <3>1, <3>2
  <2>4. \A v \in registered' : EmailOf[v] \in Users => EmailOf[v] \in registered'
    BY <2>1 DEF IInv, UuidsFirst
  <2> QED
    BY <2>3, <2>4 DEF UuidsFirst
<1> QED
  BY <1>1, <1>3, <1>4, <1>5 DEF IInv

LEMMA ChangeStatusKeeps == ASSUME NEW u \in Users PROVE IInv /\ ChangeStatus(u) => IInv'
<1> SUFFICES ASSUME IInv, ChangeStatus(u) PROVE IInv'
  OBVIOUS
<1>1. TypeOK'
  BY DEF ChangeStatus, IInv, TypeOK
<1>2. TokensTraced'
  BY DEF ChangeStatus, IInv, TokensTraced, FromLogin, FromExchange
<1>3. UuidsFirst' /\ AdmittedAfterLogin'
  BY DEF ChangeStatus, IInv, UuidsFirst, AdmittedAfterLogin
<1> QED
  BY <1>1, <1>2, <1>3 DEF IInv

LEMMA LoginKeeps == ASSUME NEW e \in Emails PROVE IInv /\ Login(e) => IInv'
<1> SUFFICES ASSUME IInv, Login(e) PROVE IInv'
  OBVIOUS
<1> USE AccessAssumption
<1> DEFINE login == [email |-> e, at |-> now]
<1>0. PICK new : new = [sub |-> e, aud |-> "client", exp |-> now + UserMinutes]
  OBVIOUS
<1>1. /\ tokens' = tokens \cup {new} /\ logins' = logins \cup {login}
      /\ now' = now /\ registered' = registered /\ admitted' = admitted
  BY <1>0 DEF Login, Issue
<1>2. now \in Int /\ new \in Tokens
  BY <1>0 DEF IInv, TypeOK, Tokens
<1>3. TypeOK'
  BY <1>0, <1>2 DEF Login, Issue, IInv, TypeOK
<1>4. FromLogin(new)'
  <2>1. login \in logins' /\ login.email = new.sub /\ new.exp = login.at + UserMinutes
    BY <1>0, <1>1
  <2>2. login.at <= now' /\ new.aud = "client"
    BY <1>0, <1>1, <1>2
  <2>3. \E l \in logins' : l.email = new.sub /\ new.exp = l.at + UserMinutes /\ l.at <= now'
    BY <2>1, <2>2
  <2> HIDE DEF login
  <2> QED
    BY <2>2, <2>3, <1>1 DEF FromLogin
<1>5. TokensTraced'
  <2>1. ASSUME NEW t \in tokens PROVE FromLogin(t)' \/ FromExchange(t)'
    BY <1>1, <1>2, TracesStay
  <2> QED
    BY <2>1, <1>1, <1>4 DEF TokensTraced
<1>6. AdmittedAfterLogin'
  <2> HIDE DEF login
  <2> QED
    BY <1>1, AdmissionsStay DEF IInv, AdmittedAfterLogin
<1>7. UuidsFirst'
  BY <1>1 DEF IInv, UuidsFirst
<1> QED
  BY <1>3, <1>5, <1>6, <1>7 DEF IInv

\* What an exchange issues: a token that has come from the login of the token it takes.
LEMMA ExchangeTraced ==
  ASSUME IInv, NEW t \in tokens, now < t.exp, NEW w \in registered, EmailOf[w] = t.sub
  PROVE  \E l \in logins, C \in SUBSET registered :
             /\ IsFiniteSet(C) /\ LeadsTo(l.email, C, w) /\ l.at <= now
             /\ now + ServiceMinutes < l.at + UserMinutes + Cardinality(C) * ServiceMinutes
<1> USE AccessAssumption
<1>1. now \in Int /\ t.exp \in Int /\ \A l \in logins : l.at \in Int
  BY DEF IInv, TypeOK, Tokens
<1>2. CASE FromLogin(t)
  <2>1. PICK l \in logins : l.email = t.sub /\ t.exp = l.at + UserMinutes /\ l.at <= now
    BY <1>2 DEF FromLogin
  <2>2. IsFiniteSet({w}) /\ Cardinality({w}) = 1
    BY FS_Singleton
  <2>3. LeadsTo(l.email, {w}, w)
    BY <2>1, LeadsToSelf DEF IInv
  <2>4. now + ServiceMinutes < l.at + UserMinutes + 1 * ServiceMinutes
    BY <2>1, <1>1
  <2> QED
    BY <2>1, <2>2, <2>3, <2>4
<1>3. CASE FromExchange(t)
  <2>1. PICK l \in logins, C \in SUBSET registered :
            /\ IsFiniteSet(C) /\ LeadsTo(l.email, C, t.sub) /\ l.at <= now
            /\ t.exp < l.at + UserMinutes + Cardinality(C) * ServiceMinutes
    BY <1>3 DEF FromExchange
  <2>2. w \notin C /\ LeadsTo(l.email, C \cup {w}, w)
    BY <2>1, LeadsOn DEF IInv
  <2>3. /\ IsFiniteSet(C \cup {w}) /\ Cardinality(C) \in Nat
        /\ Cardinality(C \cup {w}) = Cardinality(C) + 1
    BY <2>1, <2>2, FS_AddElement, FS_CardinalityType
  <2>4. now + ServiceMinutes < l.at + UserMinutes + (Cardinality(C) + 1) * ServiceMinutes
    <3>1. (Cardinality(C) + 1) * ServiceMinutes
              = Cardinality(C) * ServiceMinutes + ServiceMinutes
      BY <2>3
    <3>2. Cardinality(C) * ServiceMinutes \in Int
      BY <2>3
    <3> QED
      BY <3>1, <3>2, <2>1, <1>1
  <2> QED
    BY <2>1, <2>2, <2>3, <2>4
<1> QED
  BY <1>2, <1>3 DEF IInv, TokensTraced

LEMMA ExchangeKeeps ==
  ASSUME NEW t \in tokens, NEW s \in Services
  PROVE  IInv /\ Exchange(t, s) => IInv'
<1> SUFFICES ASSUME IInv, Exchange(t, s) PROVE IInv'
  OBVIOUS
<1> USE AccessAssumption
<1>1. /\ logins' = logins /\ now' = now /\ registered' = registered
      /\ blocked' = blocked /\ admitted' = admitted
      /\ answer' \in {"none", "ok", "unauthorized", "not_found"}
  BY DEF Exchange, ExchangeAnswer
<1>2. UuidsFirst' /\ AdmittedAfterLogin'
  BY <1>1 DEF IInv, UuidsFirst, AdmittedAfterLogin
<1>3. now \in Int
  BY DEF IInv, TypeOK
<1>4. CASE answer' # "ok"
  <2>1. tokens' = tokens
    BY <1>4 DEF Exchange
  <2>2. TypeOK'
    BY <1>1, <2>1 DEF IInv, TypeOK
  <2>3. TokensTraced'
    BY <1>1, <2>1 DEF IInv, TokensTraced, FromLogin, FromExchange
  <2> QED
    BY <1>2, <2>2, <2>3 DEF IInv
<1>5. CASE answer' = "ok"
  <2>0. PICK w \in OwnersOf(t.sub) :
            tokens' = tokens \cup {[sub |-> w, aud |-> s, exp |-> now + ServiceMinutes]}
    BY <1>5 DEF Exchange, Issue
  <2>1. PICK new : /\ new = [sub |-> w, aud |-> s, exp |-> now + ServiceMinutes]
                   /\ tokens' = tokens \cup {new}
    BY <2>0
  <2>2. w \in registered /\ w \in Users /\ EmailOf[w] = t.sub
    BY DEF OwnersOf, IInv, TypeOK
  <2>3. now < t.exp
    BY <1>5 DEF Exchange, ExchangeAnswer, Decodes
  <2>4. TypeOK'
    <3>1. new \in Tokens
      BY <2>1, <2>2, <1>3 DEF Tokens
    <3> QED
      BY <1>1, <2>1, <3>1 DEF IInv, TypeOK
  <2>5. FromExchange(new)'
    <3>1. new.sub = w /\ new.exp = now + ServiceMinutes
      BY <2>1
    <3>2. PICK l \in logins, C \in SUBSET registered :
              /\ IsFiniteSet(C) /\ LeadsTo(l.email, C, w) /\ l.at <= now
              /\ now + ServiceMinutes < l.at + UserMinutes + Cardinality(C) * ServiceMinutes
      BY <2>2, <2>3, ExchangeTraced
    <3> QED
      BY <3>1, <3>2, <1>1, <2>2 DEF FromExchange, LeadsTo
  <2>6. TokensTraced'
    <3>1. ASSUME NEW x \in tokens PROVE FromLogin(x)' \/ FromExchange(x)'
      BY <1>1, <1>3, TracesStay
    <3>2. \A x \in tokens' : x \in tokens \/ x = new
      BY <2>1
    <3> QED
      BY <3>1, <3>2, <2>5 DEF TokensTraced
  <2> QED
    BY <1>2, <2>4, <2>6 DEF IInv
<1> QED
  BY <1>4, <1>5

LEMMA RequestKeeps == ASSUME NEW t \in tokens PROVE IInv /\ Request(t) => IInv'
<1> SUFFICES ASSUME IInv, Request(t) PROVE IInv'
  OBVIOUS
<1> USE AccessAssumption
<1>1. /\ tokens' = tokens /\ logins' = logins /\ now' = now
      /\ registered' = registered /\ blocked' = blocked
  BY DEF Request
<1>2. TokensTraced' /\ UuidsFirst'
  BY <1>1 DEF IInv, TokensTraced, FromLogin, FromExchange, UuidsFirst
<1>3. answer' \in {"ok", "unauthorized"}
  BY DEF Request
<1>4. CASE ~Decodes(t, "transactions")
  <2>1. admitted' = admitted
    BY <1>4 DEF Request
  <2>2. TypeOK' /\ AdmittedAfterLogin'
    BY <1>1, <1>3, <2>1 DEF IInv, TypeOK, AdmittedAfterLogin
  <2> QED
    BY <1>2, <2>2 DEF IInv
<1>5. CASE Decodes(t, "transactions")
  <2> DEFINE new == [user |-> t.sub, at |-> now]
  <2>1. admitted' = admitted \cup {new}
    BY <1>5 DEF Request
  <2>2. t.aud = "transactions" /\ now < t.exp
    BY <1>5 DEF Decodes
  <2>3. FromExchange(t)
    BY <2>2 DEF IInv, TokensTraced, FromLogin
  <2>4. PICK l \in logins, C \in SUBSET registered :
            /\ IsFiniteSet(C) /\ LeadsTo(l.email, C, t.sub) /\ l.at <= now
            /\ t.exp < l.at + UserMinutes + Cardinality(C) * ServiceMinutes
    BY <2>3 DEF FromExchange
  <2>5. now < l.at + UserMinutes + Cardinality(C) * ServiceMinutes
    <3>1. /\ l.at \in Int /\ now \in Int /\ t.exp \in Int
          /\ Cardinality(C) * ServiceMinutes \in Int
      BY <2>4, FS_CardinalityType DEF IInv, TypeOK, Tokens
    <3> QED
      BY <3>1, <2>2, <2>4
  <2>6. TypeOK'
    <3>1. new \in [user : registered, at : 0 .. MaxTime]
      BY <2>3 DEF FromExchange, IInv, TypeOK
    <3> QED
      BY <1>1, <1>3, <2>1, <3>1 DEF IInv, TypeOK
  <2>7. AdmittedAfterLogin'
    <3> SUFFICES ASSUME NEW a \in admitted'
                 PROVE  \E k \in logins, D \in SUBSET registered :
                            /\ LeadsTo(k.email, D, a.user) /\ k.at <= a.at
                            /\ a.at < k.at + UserMinutes + Cardinality(D) * ServiceMinutes
      BY <1>1 DEF AdmittedAfterLogin
    <3>1. CASE a \in admitted
      BY <3>1 DEF IInv, AdmittedAfterLogin
    <3>2. CASE a = new
      BY <3>2, <2>4, <2>5
    <3> QED
      BY <3>1, <3>2, <2>1
  <2> QED
    BY <1>2, <2>6, <2>7 DEF IInv
<1> QED
  BY <1>4, <1>5

LEMMA NextKeeps == IInv /\ [Next]_vars => IInv'
<1> SUFFICES ASSUME IInv, [Next]_vars PROVE IInv'
  OBVIOUS
<1>1. CASE Tick
  BY <1>1, TickKeeps
<1>2. ASSUME NEW u \in Users, Register(u) PROVE IInv'
  BY <1>2, RegisterKeeps
<1>3. ASSUME NEW u \in Users, ChangeStatus(u) PROVE IInv'
  BY <1>3, ChangeStatusKeeps
<1>4. ASSUME NEW e \in Emails, Login(e) PROVE IInv'
  BY <1>4, LoginKeeps
<1>5. ASSUME NEW t \in tokens, Request(t) PROVE IInv'
  BY <1>5, RequestKeeps
<1>6. ASSUME NEW t \in tokens, NEW s \in Services, Exchange(t, s) PROVE IInv'
  BY <1>6, ExchangeKeeps
<1>7. CASE UNCHANGED vars
  BY <1>7 DEF vars, IInv, TypeOK, TokensTraced, FromLogin, FromExchange, UuidsFirst,
              AdmittedAfterLogin
<1> QED
  BY <1>1, <1>2, <1>3, <1>4, <1>5, <1>6, <1>7 DEF Next

LEMMA Invariance == Spec => []IInv
  BY InitHolds, NextKeeps, PTL DEF Spec

-----------------------------------------------------------------------------

\* Every variable keeps its type: only registered users are let through, never the subject
\* of a user token (get_user_uuid_from_token would fail on it).
THEOREM TypeCorrect == Spec => []TypeOK
<1>1. IInv => TypeOK
  BY DEF IInv
<1> QED
  BY <1>1, Invariance, PTL

\* For any users, lifetimes and services: access ends with the lifetimes of one user token
\* and of one service token for each user on the way from what was typed at the login.
THEOREM AccessEnds == Spec => []AdmittedAfterLogin
<1>1. IInv => AdmittedAfterLogin
  BY DEF IInv
<1> QED
  BY <1>1, Invariance, PTL
=============================================================================
