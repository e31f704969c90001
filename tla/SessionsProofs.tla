--------------------------- MODULE SessionsProofs ---------------------------
(***************************************************************************)
(* Accounts stay apart for any number of identities, accounts, emails and  *)
(* requests and any lifetimes, and Sessions implements Accounts.           *)
(*                                                                         *)
(* The inductive invariant follows an account from its row through the     *)
(* tokens and requests that name it to the deeds: each of them belongs to  *)
(* the identity of the row, and two rows are never one identity's.         *)
(***************************************************************************)
EXTENDS Sessions, TLAPS

Stages == {"idle", "verify", "upsert", "issue", "required", "optional", "act"}

TypeOK ==
    /\ mail \in [Identities -> Emails]
    /\ users \in [Ids -> Row \cup {NULL}]
    /\ tokens \subseteq Token
    /\ pc \in [Requests -> Stages]
    /\ claims \in [Requests -> Claims \cup {NULL}]
    /\ token \in [Requests -> Token \cup {NULL}]
    /\ since \in [Requests -> Nat]
    /\ user \in [Requests -> Ids \cup {NULL}]
    /\ now \in Nat
    /\ deeds \in [Ids -> SUBSET Identities]
    /\ granted \in [Identities -> Nat]

\* In a table of users, a is the account of i.
Owned(table, a, i) == table[a] # NULL /\ table[a].sub = i

OneAccountEach(table) ==
    \A a, b \in Ids : \A i \in Identities :
        Owned(table, a, i) /\ Owned(table, b, i) => a = b

\* A session token is for its holder's account, and ends with the holder's
\* last session or before.
Genuine(table, ends, s) ==
    /\ s \in Token
    /\ Owned(table, s.user, s.holder)
    /\ s.exp <= ends[s.holder]

SignInOwned(q) ==
    /\ pc[q] \in {"verify", "upsert", "issue"} => claims[q] \in Claims
    /\ pc[q] = "issue" =>
          user[q] \in Ids /\ Owned(users, user[q], claims[q].sub)

CallOwned(q) ==
    /\ token[q] # NULL => Genuine(users, granted, token[q])
    /\ pc[q] = "act" /\ user[q] # NULL =>
          token[q] # NULL /\ token[q].user = user[q] /\ since[q] < token[q].exp
    /\ since[q] <= now

DeedsOwned(table, d) == \A a \in Ids : \A i \in d[a] : Owned(table, a, i)

IInv ==
    /\ TypeOK
    /\ OneAccountEach(users)
    /\ \A s \in tokens : Genuine(users, granted, s)
    /\ \A q \in Requests : SignInOwned(q)
    /\ \A q \in Requests : CallOwned(q)
    /\ DeedsOwned(users, deeds)
    /\ \A i \in Identities : granted[i] <= now + authTokenTTL

-----------------------------------------------------------------------------
(* What no step takes away. *)

\* No account changes hands, no session is cut short, and time does not go
\* back.
Grows ==
    /\ \A a \in Ids : \A i \in Identities : Owned(users, a, i) => Owned(users', a, i)
    /\ \A i \in Identities : granted[i] <= granted'[i]
    /\ now <= now'

Untouched(r) ==
    /\ pc'[r] = pc[r] /\ claims'[r] = claims[r] /\ token'[r] = token[r]
    /\ since'[r] = since[r] /\ user'[r] = user[r]

\* What a token was good for, it stays good for.
LEMMA GenuineStays ==
    ASSUME TypeOK, TypeOK', Grows, NEW s, Genuine(users, granted, s)
    PROVE  Genuine(users', granted', s)
<1>1. s \in Token /\ s.user \in Ids /\ s.holder \in Identities /\ s.exp \in Nat
  BY DEF Genuine, Token
<1>2. Owned(users', s.user, s.holder)
  BY <1>1 DEF Genuine, Grows
<1>3. s.exp <= granted'[s.holder]
  BY <1>1 DEF Genuine, Grows, TypeOK
<1> QED BY <1>1, <1>2, <1>3 DEF Genuine

\* A request that a step does not touch keeps its part of the invariant.
LEMMA UntouchedStays ==
    ASSUME TypeOK, TypeOK', Grows,
           NEW r \in Requests, Untouched(r), SignInOwned(r), CallOwned(r)
    PROVE  SignInOwned(r)' /\ CallOwned(r)'
<1>1. SignInOwned(r)'
  <2>1. pc[r] \in {"verify", "upsert", "issue"} => claims'[r] \in Claims
    BY DEF SignInOwned, Untouched
  <2>2. pc[r] = "issue" =>
          user'[r] \in Ids /\ Owned(users', user'[r], claims'[r].sub)
    BY DEF SignInOwned, Untouched, Grows, Claims
  <2> QED BY <2>1, <2>2 DEF SignInOwned, Untouched
<1>2. CallOwned(r)'
  <2>1. token[r] # NULL => Genuine(users', granted', token[r])
    BY GenuineStays DEF CallOwned
  <2>2. since'[r] <= now'
    BY DEF CallOwned, Untouched, Grows, TypeOK
  <2> QED BY <2>1, <2>2 DEF CallOwned, Untouched
<1> QED BY <1>1, <1>2

\* An idle request owes nothing.
LEMMA DoneOwesNothing ==
    ASSUME TypeOK, TypeOK', NEW q \in Requests, Done(q)
    PROVE  SignInOwned(q)' /\ CallOwned(q)'
<1>1. /\ pc'[q] = "idle" /\ token'[q] = NULL /\ since'[q] = 0
  BY DEF Done, Goto, TypeOK
<1>2. now' \in Nat
  BY DEF TypeOK
<1> QED BY <1>1, <1>2 DEF SignInOwned, CallOwned

\* A step on one request touches no other.
LEMMA DoneTouchesOne ==
    ASSUME TypeOK, NEW q \in Requests, Done(q), NEW r \in Requests, r # q
    PROVE  Untouched(r)
BY DEF Done, Goto, TypeOK, Untouched

LEMMA DoneTypes ==
    ASSUME TypeOK, NEW q \in Requests, Done(q)
    PROVE  /\ pc' \in [Requests -> Stages]
           /\ claims' \in [Requests -> Claims \cup {NULL}]
           /\ token' \in [Requests -> Token \cup {NULL}]
           /\ since' \in [Requests -> Nat]
           /\ user' \in [Requests -> Ids \cup {NULL}]
BY DEF Done, Goto, TypeOK, Stages

-----------------------------------------------------------------------------
(* The upsert of a user. *)

\* The upsert returns the account of its identity, and gives away no other.
LEMMA UpsertOwned ==
    ASSUME IInv, NEW q \in Requests, UpsertUser(q)
    PROVE  /\ users' \in [Ids -> Row \cup {NULL}]
           /\ user'[q] \in Ids /\ Owned(users', user'[q], claims[q].sub)
           /\ \A a \in Ids : \A i \in Identities :
                 Owned(users, a, i) => Owned(users', a, i)
           /\ \A a \in Ids : \A i \in Identities :
                 Owned(users', a, i) /\ ~Owned(users, a, i) =>
                     /\ a = user'[q] /\ i = claims[q].sub
                     /\ \A b \in Ids : ~Owned(users, b, i)
<1> DEFINE c == claims[q]
<1>1. c \in Claims /\ c.sub \in Identities /\ c.email \in Emails
  BY DEF IInv, SignInOwned, UpsertUser, Claims
<1>2. PICK a \in Returned(c) :
          users' = Upserted(c, a) /\ user' = [user EXCEPT ![q] = a]
  BY DEF UpsertUser
<1>3. a \in Ids /\ user'[q] = a
  BY <1>2 DEF Returned, Conflicts, IInv, TypeOK
<1>4. NULL \notin Row
  BY SessionAssumption DEF Row
<1>5. users \in [Ids -> Row \cup {NULL}]
  BY DEF IInv, TypeOK
<1>6. /\ users' \in [Ids -> Row \cup {NULL}]
      /\ \A b \in Ids : b # a => users'[b] = users[b]
      /\ users'[a] = [sub |-> IF users[a] = NULL THEN c.sub ELSE users[a].sub,
                      email |-> c.email]
      /\ users'[a] \in Row
  BY <1>1, <1>2, <1>3, <1>5 DEF Upserted, Row
<1>7. users'[a] # NULL
  BY <1>4, <1>6
<1>8. users[a] # NULL => users[a].sub = c.sub
  BY <1>2, <1>3 DEF Returned, Conflicts, SameUser
<1>9. users[a] = NULL => \A b \in Ids : ~Owned(users, b, c.sub)
  BY <1>2, <1>3 DEF Returned, Conflicts, SameUser, Owned
<1>10. users'[a].sub = c.sub
  BY <1>6, <1>8
<1> QED
  BY <1>3, <1>6, <1>7, <1>8, <1>9, <1>10 DEF Owned

-----------------------------------------------------------------------------
(* The invariant is inductive. *)

\* The part of the invariant that is not about single requests.
Ledger ==
    /\ OneAccountEach(users)
    /\ \A s \in tokens : Genuine(users, granted, s)
    /\ DeedsOwned(users, deeds)
    /\ \A i \in Identities : granted[i] <= now + authTokenTTL

\* A step on request q keeps the invariant if it keeps the types, the ledger
\* and the part that is about q.
LEMMA OneRequest ==
    ASSUME IInv, TypeOK', Grows, Ledger', NEW q \in Requests,
           \A r \in Requests : r # q => Untouched(r),
           SignInOwned(q)', CallOwned(q)'
    PROVE  IInv'
<1>1. \A r \in Requests : r # q => SignInOwned(r)' /\ CallOwned(r)'
  BY UntouchedStays DEF IInv
<1> QED BY <1>1 DEF IInv, Ledger

\* The same for a step that ends the request.
LEMMA OneDone ==
    ASSUME IInv, TypeOK', Grows, Ledger', NEW q \in Requests, Done(q)
    PROVE  IInv'
<1>1. SignInOwned(q)' /\ CallOwned(q)'
  BY DoneOwesNothing DEF IInv
<1>2. \A r \in Requests : r # q => Untouched(r)
  BY DoneTouchesOne DEF IInv
<1> QED BY <1>1, <1>2, OneRequest

LEMMA InitInvariant == Init => IInv
BY SessionAssumption
   DEF Init, IInv, TypeOK, Stages, OneAccountEach, SignInOwned, CallOwned,
       DeedsOwned, Owned

LEMMA StepInvariant == IInv /\ [Next]_vars => IInv'
<1> SUFFICES ASSUME IInv, [Next]_vars PROVE IInv'
  OBVIOUS
<1> USE DEF google, history
<1>0. TypeOK /\ Ledger /\ authTokenTTL \in Nat /\ IdTokenTTL \in Nat
  BY SessionAssumption DEF IInv, Ledger
<1>same. ASSUME UNCHANGED <<users, granted, deeds, tokens, now>>
         PROVE  Grows /\ Ledger'
  BY <1>same, <1>0 DEF Grows, Ledger, TypeOK
<1>1. ASSUME Tick PROVE IInv'
  <2>1. TypeOK' /\ Grows
    BY <1>0, <1>1 DEF Tick, TypeOK, Grows, request
  <2>2. Ledger'
    BY <1>0, <1>1 DEF Tick, Ledger, TypeOK
  <2>3. \A r \in Requests : Untouched(r)
    BY <1>1 DEF Tick, request, Untouched
  <2>4. \A r \in Requests : SignInOwned(r)' /\ CallOwned(r)'
    BY <1>0, <2>1, <2>3, UntouchedStays DEF IInv
  <2> QED BY <2>1, <2>2, <2>4 DEF IInv, Ledger
<1>2. ASSUME NEW i \in Identities, NEW e \in Emails, ChangeMail(i, e) PROVE IInv'
  <2>1. UNCHANGED <<users, granted, deeds, tokens, now>> /\ UNCHANGED request
    BY <1>2 DEF ChangeMail
  <2>2. TypeOK'
    BY <1>0, <1>2, <2>1 DEF ChangeMail, TypeOK, request
  <2>3. \A r \in Requests : Untouched(r)
    BY <2>1 DEF request, Untouched
  <2>4. \A r \in Requests : SignInOwned(r)' /\ CallOwned(r)'
    BY <1>0, <1>same, <2>1, <2>2, <2>3, UntouchedStays DEF IInv
  <2> QED BY <1>same, <2>1, <2>2, <2>4 DEF IInv, Ledger
<1>3. ASSUME NEW q \in Requests, NEW i \in Identities, SignIn(q, i) PROVE IInv'
  <2>1. UNCHANGED <<users, granted, deeds, tokens, now>>
    BY <1>3 DEF SignIn
  <2>2. [sub |-> i, email |-> mail[i], exp |-> now + IdTokenTTL] \in Claims
    BY <1>0, <1>3 DEF TypeOK, Claims
  <2>3. TypeOK'
    BY <1>0, <1>3, <2>2 DEF SignIn, Goto, TypeOK, Stages
  <2>4. \A r \in Requests : r # q => Untouched(r)
    BY <1>0, <1>3 DEF SignIn, Goto, TypeOK, Untouched
  <2>5. pc'[q] = "verify" /\ claims'[q] \in Claims /\ token'[q] = token[q]
        /\ since'[q] = since[q]
    BY <1>0, <1>3, <2>2 DEF SignIn, Goto, TypeOK
  <2>6. CallOwned(q)'
    BY <2>1, <2>5, <1>3 DEF IInv, CallOwned
  <2> QED BY <1>same, <2>1, <2>3, <2>4, <2>5, <2>6, OneRequest DEF SignInOwned
<1>4. ASSUME NEW q \in Requests, Verify(q) PROVE IInv'
  <2>1. UNCHANGED <<users, granted, deeds, tokens, now, mail>>
    BY <1>4 DEF Verify
  <2>2. CASE Done(q)
    BY <1>0, <1>same, <2>1, <2>2, DoneTypes, OneDone DEF TypeOK
  <2>3. CASE /\ Goto(q, "upsert") /\ since' = [since EXCEPT ![q] = now]
             /\ UNCHANGED <<claims, token, user>>
    <3>1. TypeOK'
      BY <1>0, <2>1, <2>3 DEF Goto, TypeOK, Stages
    <3>2. \A r \in Requests : r # q => Untouched(r)
      BY <1>0, <2>3 DEF Goto, TypeOK, Untouched
    <3>3. pc'[q] = "upsert" /\ since'[q] = now'
      BY <1>0, <2>1, <2>3 DEF Goto, TypeOK
    <3>4. claims'[q] \in Claims
      BY <1>4, <2>3 DEF Verify, IInv, SignInOwned
    <3>5. CallOwned(q)'
      BY <1>0, <2>1, <2>3, <3>3 DEF IInv, CallOwned, TypeOK
    <3> QED BY <1>same, <2>1, <3>1, <3>2, <3>3, <3>4, <3>5, OneRequest DEF SignInOwned
  <2> QED BY <1>4, <2>2, <2>3 DEF Verify
<1>5. ASSUME NEW q \in Requests, UpsertUser(q) PROVE IInv'
  <2>1. UNCHANGED <<mail, tokens, claims, token, since, now, deeds, granted>>
        /\ Goto(q, "issue") /\ (\E a \in Ids : user' = [user EXCEPT ![q] = a])
    BY <1>0, <1>5 DEF UpsertUser, Returned, Conflicts
  <2>2. TypeOK' /\ Grows
    BY <1>0, <1>5, <2>1, UpsertOwned DEF Goto, TypeOK, Stages, Grows
  <2>3. OneAccountEach(users')
    BY <1>0, <1>5, UpsertOwned DEF Ledger, OneAccountEach
  <2>4. \A s \in tokens' : Genuine(users', granted', s)
    BY <1>0, <2>1, <2>2, GenuineStays DEF Ledger
  <2>5. DeedsOwned(users', deeds')
    BY <1>0, <2>1, <2>2 DEF Ledger, DeedsOwned, Grows, TypeOK
  <2>6. Ledger'
    BY <1>0, <2>1, <2>3, <2>4, <2>5 DEF Ledger
  <2>7. \A r \in Requests : r # q => Untouched(r)
    BY <1>0, <2>1 DEF Goto, TypeOK, Untouched
  <2>8. pc'[q] = "issue" /\ pc[q] = "upsert"
    BY <1>0, <1>5, <2>1 DEF UpsertUser, Goto, TypeOK
  <2>9. SignInOwned(q)'
    BY <1>5, <2>1, <2>8, UpsertOwned DEF IInv, SignInOwned
  <2>10. CallOwned(q)'
    BY <1>0, <2>1, <2>2, <2>8, GenuineStays DEF IInv, CallOwned
  <2> QED BY <2>2, <2>6, <2>7, <2>9, <2>10, OneRequest
<1>6. ASSUME NEW q \in Requests, IssueToken(q) PROVE IInv'
  <2> DEFINE i == claims[q].sub
             s == [user |-> user[q], exp |-> now + authTokenTTL, holder |-> i]
  <2>1. i \in Identities /\ user[q] \in Ids /\ Owned(users, user[q], i)
    BY <1>6 DEF IssueToken, IInv, SignInOwned, Claims
  <2>2. /\ UNCHANGED <<mail, users, now, deeds>> /\ Done(q)
        /\ tokens' = tokens \cup {s}
        /\ granted' = [granted EXCEPT ![i] = now + authTokenTTL]
    BY <1>6 DEF IssueToken
  <2>3. s \in Token
    BY <1>0, <2>1 DEF TypeOK, Token
  <2>4. TypeOK'
    BY <1>0, <2>1, <2>2, <2>3, DoneTypes DEF TypeOK
  <2>5. granted'[i] = now + authTokenTTL
    BY <1>0, <2>1, <2>2 DEF TypeOK
  <2>6. \A j \in Identities : granted[j] <= granted'[j] /\ granted'[j] <= now + authTokenTTL
    BY <1>0, <2>1, <2>2, <2>5 DEF TypeOK, Ledger
  <2>7. Grows
    BY <1>0, <2>2, <2>6 DEF Grows, TypeOK
  <2>8. Genuine(users', granted', s)
    BY <1>0, <2>1, <2>2, <2>3, <2>5 DEF Genuine, TypeOK
  <2>9. \A x \in tokens' : Genuine(users', granted', x)
    BY <1>0, <2>2, <2>4, <2>7, <2>8, GenuineStays DEF Ledger
  <2>10. Ledger'
    BY <1>0, <2>2, <2>6, <2>9 DEF Ledger
  <2> QED BY <2>2, <2>4, <2>7, <2>10, OneDone
<1>7. ASSUME NEW q \in Requests, Call(q) PROVE IInv'
  <2>1. /\ UNCHANGED <<mail, users, granted, deeds, tokens, now, claims, user>>
        /\ since' = [since EXCEPT ![q] = now]
    BY <1>7 DEF Call
  <2>2. PICK auth \in {"required", "optional"} : Goto(q, auth)
    BY <1>7 DEF Call
  <2>3. UNCHANGED token \/ \E s \in tokens : token' = [token EXCEPT ![q] = s]
    BY <1>7 DEF Call
  <2>4. TypeOK'
    BY <1>0, <2>1, <2>2, <2>3 DEF Goto, TypeOK, Stages
  <2>5. \A r \in Requests : r # q => Untouched(r)
    BY <1>0, <2>1, <2>2, <2>3 DEF Goto, TypeOK, Untouched
  <2>6. pc'[q] \in {"required", "optional"} /\ since'[q] = now'
    BY <1>0, <2>1, <2>2 DEF Goto, TypeOK
  <2>7. token'[q] # NULL => Genuine(users, granted, token'[q])
    BY <1>0, <2>3 DEF IInv, CallOwned, Ledger, TypeOK
  <2>8. CallOwned(q)'
    BY <1>0, <2>1, <2>6, <2>7 DEF CallOwned, TypeOK
  <2> QED BY <1>same, <2>1, <2>4, <2>5, <2>6, <2>8, OneRequest DEF SignInOwned
<1>8. ASSUME NEW q \in Requests, NEW u \in Ids \cup {NULL},
             Goto(q, "act"), user' = [user EXCEPT ![q] = u],
             UNCHANGED <<claims, token, since>>,
             UNCHANGED <<mail, users, granted, deeds, tokens, now>>,
             u # NULL => ParseToken(q) /\ u = token[q].user
      PROVE  IInv'
  <2>1. TypeOK'
    BY <1>0, <1>8 DEF Goto, TypeOK, Stages
  <2>2. \A r \in Requests : r # q => Untouched(r)
    BY <1>0, <1>8 DEF Goto, TypeOK, Untouched
  <2>3. pc'[q] = "act" /\ user'[q] = u
    BY <1>0, <1>8 DEF Goto, TypeOK
  <2>4. since[q] <= now /\ now \in Nat /\ since[q] \in Nat
    BY <1>0 DEF IInv, CallOwned, TypeOK
  <2>5. token[q] # NULL => Genuine(users, granted, token[q])
    BY DEF IInv, CallOwned
  <2>6. ASSUME u # NULL
        PROVE  token[q] # NULL /\ token[q].user = u /\ since[q] < token[q].exp
    BY <1>8, <2>4, <2>5, <2>6 DEF ParseToken, Valid, Genuine, Token
  <2>7. CallOwned(q)'
    BY <1>8, <2>3, <2>4, <2>5, <2>6 DEF CallOwned
  <2> QED BY <1>8, <1>same, <2>1, <2>2, <2>3, <2>7, OneRequest DEF SignInOwned
<1>9. ASSUME NEW q \in Requests, RequireAuth(q) PROVE IInv'
  <2>1. UNCHANGED <<mail, users, granted, deeds, tokens, now>>
    BY <1>9 DEF RequireAuth
  <2>2. CASE Done(q)
    BY <1>0, <1>same, <2>1, <2>2, DoneTypes, OneDone DEF TypeOK
  <2>3. CASE /\ ParseToken(q) /\ Goto(q, "act")
             /\ user' = [user EXCEPT ![q] = token[q].user]
             /\ UNCHANGED <<claims, token, since>>
    <3>1. token[q].user \in Ids
      BY <2>3, <1>9 DEF ParseToken, IInv, CallOwned, Genuine, Token
    <3> QED BY <1>8, <2>1, <2>3, <3>1
  <2> QED BY <1>9, <2>2, <2>3 DEF RequireAuth
<1>10. ASSUME NEW q \in Requests, OptionalAuth(q) PROVE IInv'
  <2> DEFINE u == IF ParseToken(q) THEN token[q].user ELSE NULL
  <2>1. /\ UNCHANGED <<mail, users, granted, deeds, tokens, now>>
        /\ UNCHANGED <<claims, token, since>>
        /\ Goto(q, "act") /\ user' = [user EXCEPT ![q] = u]
    BY <1>10 DEF OptionalAuth
  <2>2. u \in Ids \cup {NULL} /\ (u # NULL => ParseToken(q) /\ u = token[q].user)
    BY <1>10 DEF ParseToken, IInv, CallOwned, Genuine, Token
  <2> HIDE DEF u
  <2> QED BY <1>8, <2>1, <2>2
<1>11. ASSUME NEW q \in Requests, Act(q) PROVE IInv'
  <2>1. UNCHANGED <<mail, users, tokens, now, granted>> /\ Done(q) /\ pc[q] = "act"
    BY <1>11 DEF Act
  <2>2. user[q] # NULL =>
          /\ user[q] \in Ids /\ token[q].holder \in Identities
          /\ Owned(users, user[q], token[q].holder)
    BY <2>1 DEF IInv, CallOwned, Genuine, Token
  <2>3. /\ deeds' \in [Ids -> SUBSET Identities]
        /\ DeedsOwned(users, deeds')
    BY <1>0, <1>11, <2>2 DEF Act, TypeOK, Ledger, DeedsOwned
  <2>4. TypeOK' /\ Grows
    BY <1>0, <2>1, <2>3, DoneTypes DEF TypeOK, Grows
  <2>5. Ledger'
    BY <1>0, <2>1, <2>3 DEF Ledger
  <2> QED BY <2>1, <2>4, <2>5, OneDone
<1>12. ASSUME NEW q \in Requests, Fail(q) PROVE IInv'
  <2>1. UNCHANGED <<mail, users, granted, deeds, tokens, now>> /\ Done(q)
    BY <1>12 DEF Fail
  <2> QED BY <1>0, <1>same, <2>1, DoneTypes, OneDone DEF TypeOK
<1>13. CASE UNCHANGED vars
  <2>1. UNCHANGED <<users, granted, deeds, tokens, now, mail>> /\ UNCHANGED request
    BY <1>13 DEF vars
  <2>2. TypeOK'
    BY <1>0, <2>1 DEF TypeOK, request
  <2>3. \A r \in Requests : Untouched(r)
    BY <2>1 DEF request, Untouched
  <2>4. \A r \in Requests : SignInOwned(r)' /\ CallOwned(r)'
    BY <1>0, <1>same, <2>1, <2>2, <2>3, UntouchedStays DEF IInv
  <2> QED BY <1>same, <2>1, <2>2, <2>4 DEF IInv, Ledger
<1> QED
  BY <1>1, <1>2, <1>3, <1>4, <1>5, <1>6, <1>7, <1>9, <1>10, <1>11, <1>12, <1>13
     DEF Next

\* Every row, token, request and deed belongs to one identity at all times.
THEOREM Invariant == Spec => []IInv
BY InitInvariant, StepInvariant, PTL DEF Spec

\* Whoever acts as a user is always the same identity, and an identity always
\* acts as the same user, for any number of identities, emails that move
\* between them and sign-ins that overlap.
THEOREM StayApart == Spec => []AccountsStayApart
<1>1. ASSUME IInv PROVE AccountsStayApart
  <2> SUFFICES ASSUME NEW a \in Ids, NEW b \in Ids, NEW i \in deeds[a], NEW j \in deeds[b]
               PROVE  a = b <=> i = j
    BY DEF AccountsStayApart
  <2>1. i \in Identities /\ j \in Identities
    BY <1>1 DEF IInv, TypeOK
  <2>2. Owned(users, a, i) /\ Owned(users, b, j)
    BY <1>1 DEF IInv, DeedsOwned
  <2> QED BY <1>1, <2>1, <2>2 DEF IInv, OneAccountEach, Owned
<1> QED BY <1>1, Invariant, PTL

-----------------------------------------------------------------------------
(* Sessions implements Accounts. *)

\* The account of an identity is the one it owns.
LEMMA AccountIsOwned ==
    ASSUME NEW table, NEW i \in Identities, OneAccountEach(table),
           NEW a \in Ids, Owned(table, a, i)
    PROVE  AccountIn(table, i) = a
<1> DEFINE own == {b \in Ids : table[b] # NULL /\ table[b].sub = i}
<1>1. own = {a}
  BY DEF Owned, OneAccountEach
<1> QED BY <1>1 DEF AccountIn

LEMMA NoAccountOwned ==
    ASSUME NEW table, NEW i \in Identities, \A a \in Ids : ~Owned(table, a, i)
    PROVE  AccountIn(table, i) = NULL
BY DEF AccountIn, Owned

\* What belongs to an identity that has one is in the table.
LEMMA AccountBelongs ==
    ASSUME NEW table, NEW i \in Identities, OneAccountEach(table),
           AccountIn(table, i) # NULL
    PROVE  AccountIn(table, i) \in Ids /\ Owned(table, AccountIn(table, i), i)
<1>1. PICK a \in Ids : Owned(table, a, i)
  BY NoAccountOwned
<1>2. AccountIn(table, i) = a
  BY <1>1, AccountIsOwned
<1> QED BY <1>1, <1>2

account == [i \in Identities |-> AccountIn(users, i)]

\* The upsert is a Join of its identity, or changes no account.
LEMMA UpsertJoins ==
    ASSUME IInv, IInv', NEW q \in Requests, UpsertUser(q)
    PROVE  (\E i \in Identities : Promised!Join(i)) \/ account' = account
<1> DEFINE i == claims[q].sub
           a == user'[q]
<1>1. i \in Identities
  BY DEF IInv, SignInOwned, UpsertUser, Claims
<1>2. a \in Ids /\ Owned(users', a, i)
  BY UpsertOwned
<1>3. OneAccountEach(users) /\ OneAccountEach(users')
  BY DEF IInv
<1>4. \A j \in Identities : j # i => AccountIn(users', j) = AccountIn(users, j)
  <2> SUFFICES ASSUME NEW j \in Identities, j # i
               PROVE  AccountIn(users', j) = AccountIn(users, j)
    OBVIOUS
  <2>1. CASE \E b \in Ids : Owned(users, b, j)
    <3>1. PICK b \in Ids : Owned(users, b, j)
      BY <2>1
    <3>2. Owned(users', b, j)
      BY <3>1, UpsertOwned
    <3> QED BY <1>3, <3>1, <3>2, AccountIsOwned
  <2>2. CASE \A b \in Ids : ~Owned(users, b, j)
    <3>1. \A b \in Ids : ~Owned(users', b, j)
      BY <2>2, UpsertOwned
    <3> QED BY <2>2, <3>1, NoAccountOwned
  <2> QED BY <2>1, <2>2
<1>5. AccountIn(users', i) = a
  BY <1>1, <1>2, <1>3, AccountIsOwned
<1>6. CASE Owned(users, a, i)
  <2>1. AccountIn(users, i) = a
    BY <1>1, <1>2, <1>3, <1>6, AccountIsOwned
  <2>2. \A j \in Identities : AccountIn(users', j) = AccountIn(users, j)
    BY <1>4, <1>5, <2>1
  <2> QED BY <2>2 DEF account
<1>7. CASE ~Owned(users, a, i)
  <2>1. \A b \in Ids : ~Owned(users, b, i)
    BY <1>1, <1>2, <1>7, UpsertOwned
  <2>2. account[i] = NULL
    BY <1>1, <2>1, NoAccountOwned DEF account
  <2>3. account' = [account EXCEPT ![i] = a]
    BY <1>1, <1>4, <1>5 DEF account
  <2>4. \A j \in Identities : account[j] # a
    <3> SUFFICES ASSUME NEW j \in Identities, account[j] = a PROVE FALSE
      OBVIOUS
    <3>1. Owned(users, a, j)
      BY <1>2, <1>3, AccountBelongs, SessionAssumption DEF account
    <3>2. j # i
      BY <2>1, <1>2, <3>1
    <3>3. Owned(users', a, j)
      BY <1>2, <3>1, UpsertOwned
    <3> QED BY <1>2, <3>2, <3>3 DEF Owned
  <2>5. UNCHANGED <<granted, deeds, now>>
    BY DEF UpsertUser, history
  <2>6. Promised!Join(i)
    BY <1>2, <2>2, <2>3, <2>4, <2>5 DEF Promised!Join, account
  <2> QED BY <1>1, <2>6
<1> QED BY <1>6, <1>7

\* Accounts' next-state relation, or a stutter, under the mapping.
LEMMA StepImplements ==
    IInv /\ IInv' /\ [Next]_vars => [Promised!Next]_(Promised!vars)
<1> SUFFICES ASSUME IInv, IInv', [Next]_vars
             PROVE  Promised!Next \/ UNCHANGED <<account, granted, deeds, now>>
  BY DEF Promised!vars, account
<1> USE DEF google, history
<1>users. ASSUME UNCHANGED users PROVE account' = account
  BY <1>users DEF account
<1>1. ASSUME Tick PROVE Promised!Next
  BY <1>1, <1>users DEF Tick, Promised!Next, Promised!Tick, account
<1>2. ASSUME NEW q \in Requests, UpsertUser(q)
      PROVE  Promised!Next \/ UNCHANGED <<account, granted, deeds, now>>
  <2>1. UNCHANGED <<granted, deeds, now>>
    BY <1>2 DEF UpsertUser
  <2> QED BY <1>2, <2>1, UpsertJoins DEF Promised!Next
<1>3. ASSUME NEW q \in Requests, IssueToken(q) PROVE Promised!Next
  <2> DEFINE i == claims[q].sub
  <2>1. i \in Identities /\ user[q] \in Ids /\ Owned(users, user[q], i)
    BY <1>3 DEF IssueToken, IInv, SignInOwned, Claims
  <2>2. account[i] = user[q] /\ account[i] # NULL
    BY <2>1, AccountIsOwned, SessionAssumption DEF IInv, account
  <2>3. /\ UNCHANGED <<users, deeds, now>>
        /\ granted' = [granted EXCEPT ![i] = now + authTokenTTL]
    BY <1>3 DEF IssueToken
  <2>4. Promised!OpenSession(i)
    BY <2>2, <2>3, <1>users DEF Promised!OpenSession, account
  <2> QED BY <2>1, <2>4 DEF Promised!Next
<1>4. ASSUME NEW q \in Requests, Act(q)
      PROVE  Promised!Next \/ UNCHANGED <<account, granted, deeds, now>>
  <2>1. UNCHANGED <<users, granted, now>>
    BY <1>4 DEF Act
  <2>2. CASE user[q] = NULL
    BY <1>4, <2>1, <2>2, <1>users DEF Act
  <2>3. CASE user[q] # NULL
    <3> DEFINE i == token[q].holder
    <3>1. /\ Genuine(users, granted, token[q]) /\ token[q].user = user[q]
          /\ since[q] < token[q].exp
      BY <1>4, <2>3 DEF Act, IInv, CallOwned
    <3>2. /\ i \in Identities /\ user[q] \in Ids /\ token[q].exp \in Nat
          /\ Owned(users, user[q], i) /\ token[q].exp <= granted[i]
      BY <3>1 DEF Genuine, Token
    <3>3. account[i] = user[q] /\ account[i] # NULL
      BY <2>3, <3>2, AccountIsOwned DEF IInv, account
    <3>4. now < granted[i] + requestTimeout
      <4>1. now <= since[q] + requestTimeout
        BY <1>4 DEF Act, InTime
      <4>2. now \in Nat /\ since[q] \in Nat /\ granted[i] \in Nat /\ requestTimeout \in Nat
        BY <3>2, SessionAssumption DEF IInv, TypeOK
      <4> QED BY <4>1, <4>2, <3>1, <3>2
    <3>5. deeds' = [deeds EXCEPT ![account[i]] = @ \cup {i}]
      BY <1>4, <2>3, <3>3 DEF Act
    <3>6. Promised!Act(i)
      BY <2>1, <3>3, <3>4, <3>5, <1>users DEF Promised!Act, account
    <3> QED BY <3>2, <3>6 DEF Promised!Next
  <2> QED BY <2>2, <2>3
<1>5. ASSUME \/ \E i \in Identities, e \in Emails : ChangeMail(i, e)
             \/ \E q \in Requests :
                   \/ \E i \in Identities : SignIn(q, i)
                   \/ Verify(q) \/ Call(q) \/ RequireAuth(q) \/ OptionalAuth(q)
                   \/ Fail(q)
             \/ UNCHANGED vars
      PROVE  UNCHANGED <<account, granted, deeds, now>>
  <2>1. UNCHANGED <<users, granted, deeds, now>>
    BY <1>5 DEF ChangeMail, SignIn, Verify, Call, RequireAuth, OptionalAuth, Fail, vars
  <2> QED BY <2>1, <1>users
<1> QED BY <1>1, <1>2, <1>3, <1>4, <1>5 DEF Next

LEMMA InitImplements == Init => Promised!Init
<1> SUFFICES ASSUME Init PROVE Promised!Init
  OBVIOUS
<1>1. \A i \in Identities : AccountIn(users, i) = NULL
  BY NoAccountOwned DEF Init, Owned
<1> QED BY <1>1 DEF Init, Promised!Init

\* Every behaviour of the sign-ins, tokens and requests is one of Accounts:
\* an account is taken once and for good, and nothing is done in its name
\* later than one request after the identity's last session ended.
THEOREM AccountsImplemented == Spec => ImplementsAccounts
BY InitImplements, StepImplements, Invariant, PTL
   DEF Spec, ImplementsAccounts, Promised!Spec
=============================================================================
