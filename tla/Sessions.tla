------------------------------ MODULE Sessions ------------------------------
(***************************************************************************)
(* Signing in and acting under a session: handleGoogleAuth (internal/api), *)
(* UpsertUser (internal/store) and the middleware of internal/auth.        *)
(*                                                                         *)
(* The server keeps no session: a token names a user and an expiry, and    *)
(* whoever shows it acts as that user, through any number of restarts.     *)
(* Requests interleave, sign-ins of one identity among them.  At Google    *)
(* an identity may change its email address, and another may get the one   *)
(* it gave up, while an ID token with the old claims is on its way.        *)
(*                                                                         *)
(* Signatures are perfect: the ID tokens are Google's, a session token is  *)
(* one that this server issued, and is shown by those it was issued to.    *)
(* Time is in whole units of the expiry's resolution.                      *)
(***************************************************************************)
EXTENDS Naturals, FiniteSets

CONSTANTS
    Identities,     \* Google's subjects (sub)
    Ids,            \* users.id
    Emails,
    Requests,
    authTokenTTL,
    requestTimeout,
    IdTokenTTL,     \* how long an ID token of Google's is valid
    MaxClock,       \* bound on now
    NULL

ASSUME SessionAssumption ==
    /\ {authTokenTTL, requestTimeout, IdTokenTTL, MaxClock} \subseteq Nat
    /\ NULL \notin Ids
    /\ NULL \notin [sub : Identities, email : Emails]

VARIABLES
    mail,       \* at Google: the email of each identity
    users,      \* users[a], the row of account a ([sub, email]), or NULL
    tokens,     \* the session tokens clients hold: user, expiry and, as
                \* history, the identity it was issued to
    pc,         \* per request: "idle", "verify", "upsert", "issue",
                \* "required" or "optional" (authentication), or "act"
    claims,     \* the ID token it brings, or NULL
    token,      \* the session token it brings, or NULL
    since,      \* when it reached the server
    user,       \* the user it acts for, or NULL
    now,
    deeds,      \* history: the identities that acted as each user
    granted     \* history: when the last session of each identity ends

google  == mail
request == <<pc, claims, token, since, user>>
history == <<deeds, granted>>
vars    == <<google, users, tokens, request, now, history>>

Row == [sub : Identities, email : Emails]
Claims == [sub : Identities, email : Emails, exp : Nat]
Token == [user : Ids, exp : Nat, holder : Identities]

\* Mutant: users are told apart by email.
SameUser_ByEmail(row, c) == row.email = c.email

\* ON CONFLICT (google_sub).
SameUser(row, c) == row.sub = c.sub

\* The rows an upsert of c conflicts with.
Conflicts(c) == {a \in Ids : users[a] # NULL /\ SameUser(users[a], c)}

\* The user UpsertUser returns: its row, or a new one.
Returned(c) == IF Conflicts(c) # {} THEN Conflicts(c) ELSE {a \in Ids : users[a] = NULL}

\* users after the upsert that returns a; a refreshed row keeps its sub.
Upserted(c, a) ==
    [users EXCEPT ![a] =
        [sub |-> IF @ = NULL THEN c.sub ELSE @.sub, email |-> c.email]]

\* Mutant: a token is still good in the moment it expires.
Valid_Late(exp) == now <= exp

\* The check of an expiry, by either library.
Valid(exp) == now < exp

\* The deadline of middleware.Timeout has not passed.
InTime(q) == now <= since[q] + requestTimeout

-----------------------------------------------------------------------------
Init ==
    /\ mail \in [Identities -> Emails]
    /\ \A i, j \in Identities : mail[i] = mail[j] => i = j
    /\ users = [a \in Ids |-> NULL]
    /\ tokens = {}
    /\ pc = [q \in Requests |-> "idle"]
    /\ claims = [q \in Requests |-> NULL]
    /\ token = [q \in Requests |-> NULL]
    /\ since = [q \in Requests |-> 0]
    /\ user = [q \in Requests |-> NULL]
    /\ now = 0
    /\ deeds = [a \in Ids |-> {}]
    /\ granted = [i \in Identities |-> 0]

\* A client's own session ends with its token: it may show the token in the
\* moment it expires, and not later.
Tick ==
    /\ now < MaxClock
    /\ now' = now + 1
    /\ tokens' = {s \in tokens : s.exp >= now + 1}
    /\ UNCHANGED <<google, users, request, history>>

\* At Google: an identity takes an email that nobody has now.
ChangeMail(i, e) ==
    /\ \A j \in Identities : mail[j] # e
    /\ mail' = [mail EXCEPT ![i] = e]
    /\ UNCHANGED <<users, tokens, request, now, history>>

Goto(q, next) == pc' = [pc EXCEPT ![q] = next]

\* The request is answered and forgotten.
Done(q) ==
    /\ Goto(q, "idle")
    /\ claims' = [claims EXCEPT ![q] = NULL]
    /\ token' = [token EXCEPT ![q] = NULL]
    /\ since' = [since EXCEPT ![q] = 0]
    /\ user' = [user EXCEPT ![q] = NULL]

\* The frontend gets an ID token from Google and will send it.
SignIn(q, i) ==
    /\ pc[q] = "idle"
    /\ Goto(q, "verify")
    /\ claims' = [claims EXCEPT ![q] =
           [sub |-> i, email |-> mail[i], exp |-> now + IdTokenTTL]]
    /\ UNCHANGED <<google, users, tokens, token, since, user, now, history>>

\* GoogleVerifier.Verify: an expired token is a 401.
Verify(q) ==
    /\ pc[q] = "verify"
    /\ \/ /\ Valid(claims[q].exp)
          /\ Goto(q, "upsert")
          /\ since' = [since EXCEPT ![q] = now]
          /\ UNCHANGED <<claims, token, user>>
       \/ /\ ~Valid(claims[q].exp)
          /\ Done(q)
    /\ UNCHANGED <<google, users, tokens, now, history>>

\* UpsertUser.
UpsertUser(q) ==
    /\ pc[q] = "upsert" /\ InTime(q)
    /\ \E a \in Returned(claims[q]) :
          /\ users' = Upserted(claims[q], a)
          /\ user' = [user EXCEPT ![q] = a]
    /\ Goto(q, "issue")
    /\ UNCHANGED <<google, tokens, claims, token, since, now, history>>

\* IssueToken, and the answer reaches the client.
IssueToken(q) ==
    LET i == claims[q].sub
    IN  /\ pc[q] = "issue"
        /\ tokens' = tokens \cup
               {[user |-> user[q], exp |-> now + authTokenTTL, holder |-> i]}
        /\ granted' = [granted EXCEPT ![i] = now + authTokenTTL]
        /\ Done(q)
        /\ UNCHANGED <<google, users, now, deeds>>

\* A client calls an endpoint with a token or, if it is public, without one.
Call(q) ==
    /\ pc[q] = "idle"
    /\ \/ /\ \E s \in tokens : token' = [token EXCEPT ![q] = s]
          /\ \E auth \in {"required", "optional"} : Goto(q, auth)
       \/ Goto(q, "optional") /\ UNCHANGED token
    /\ since' = [since EXCEPT ![q] = now]
    /\ UNCHANGED <<google, users, tokens, claims, user, now, history>>

\* ParseToken of the token the request brings.
ParseToken(q) == token[q] # NULL /\ Valid(token[q].exp)

\* RequireAuth: no valid token is a 401.  OptionalAuth ran before it on the
\* same token; the user it may have found is the same.
RequireAuth(q) ==
    /\ pc[q] = "required"
    /\ \/ /\ ParseToken(q)
          /\ user' = [user EXCEPT ![q] = token[q].user]
          /\ Goto(q, "act")
          /\ UNCHANGED <<claims, token, since>>
       \/ /\ ~ParseToken(q)
          /\ Done(q)
    /\ UNCHANGED <<google, users, tokens, now, history>>

\* OptionalAuth: without a valid token the caller is anonymous.
OptionalAuth(q) ==
    /\ pc[q] = "optional"
    /\ user' = [user EXCEPT ![q] = IF ParseToken(q) THEN token[q].user ELSE NULL]
    /\ Goto(q, "act")
    /\ UNCHANGED <<google, users, tokens, claims, token, since, now, history>>

\* The handler writes for its user, or reads what is the user's own.
Act(q) ==
    /\ pc[q] = "act" /\ InTime(q)
    /\ deeds' = IF user[q] = NULL THEN deeds
                ELSE [deeds EXCEPT ![user[q]] = @ \cup {token[q].holder}]
    /\ Done(q)
    /\ UNCHANGED <<google, users, tokens, now, granted>>

\* A statement fails, the deadline passes, the instance dies or the answer
\* gets lost, at any point: the client is left with nothing.
Fail(q) ==
    /\ pc[q] # "idle"
    /\ Done(q)
    /\ UNCHANGED <<google, users, tokens, now, history>>

Next ==
    \/ Tick
    \/ \E i \in Identities, e \in Emails : ChangeMail(i, e)
    \/ \E q \in Requests :
          \/ \E i \in Identities : SignIn(q, i)
          \/ Verify(q) \/ UpsertUser(q) \/ IssueToken(q)
          \/ Call(q) \/ RequireAuth(q) \/ OptionalAuth(q) \/ Act(q)
          \/ Fail(q)

Spec == Init /\ [][Next]_vars
-----------------------------------------------------------------------------
(* Properties. *)

\* Whoever acts as a user is always the same identity, and an identity always
\* acts as the same user: neither an email that moves to someone else, nor
\* first sign-ins that overlap, nor a sign-in with outdated claims lets two
\* people share an account or splits one person's account in two.
AccountsStayApart ==
    \A a, b \in Ids : \A i \in deeds[a], j \in deeds[b] : a = b <=> i = j

\* The account of an identity, in a table of users.
AccountIn(table, i) ==
    LET own == {a \in Ids : table[a] # NULL /\ table[a].sub = i}
    IN  IF own = {} THEN NULL ELSE CHOOSE a \in own : TRUE

Promised == INSTANCE Accounts
    WITH account <- [i \in Identities |-> AccountIn(users, i)], ends <- granted,
         time <- now, TTL <- authTokenTTL, Grace <- requestTimeout

\* Signing in keeps its promises: an account is taken once, by one identity,
\* for good, and nothing is done in its name later than one request after
\* the identity's last session ended, whenever the checks of the tokens ran.
ImplementsAccounts == Promised!Spec
=============================================================================
