------------------------------ MODULE Accounts ------------------------------
(***************************************************************************)
(* What signing in promises, seen from Google's identities: each has one   *)
(* account, which is its own for good, and something is done in the name   *)
(* of that account only by the identity itself, until its last session     *)
(* ends.  A request that was let in just before may take a little longer.  *)
(***************************************************************************)
EXTENDS Naturals

CONSTANTS
    Identities,
    Ids,        \* what accounts are known by
    TTL,        \* how long a session lasts
    Grace,      \* how long a request takes
    NULL

VARIABLES
    account,    \* the account of each identity, or NULL
    ends,       \* when the last session of each identity ends, 0 without one
    deeds,      \* the identities that acted in the name of each account
    time

vars == <<account, ends, deeds, time>>

Init ==
    /\ account = [i \in Identities |-> NULL]
    /\ ends = [i \in Identities |-> 0]
    /\ deeds = [a \in Ids |-> {}]
    /\ time = 0

Join(i) ==
    /\ account[i] = NULL
    /\ \E a \in Ids :
          /\ \A j \in Identities : account[j] # a
          /\ account' = [account EXCEPT ![i] = a]
    /\ UNCHANGED <<ends, deeds, time>>

OpenSession(i) ==
    /\ account[i] # NULL
    /\ ends' = [ends EXCEPT ![i] = time + TTL]
    /\ UNCHANGED <<account, deeds, time>>

Act(i) ==
    /\ account[i] # NULL
    /\ time < ends[i] + Grace
    /\ deeds' = [deeds EXCEPT ![account[i]] = @ \cup {i}]
    /\ UNCHANGED <<account, ends, time>>

Tick ==
    /\ time' = time + 1
    /\ UNCHANGED <<account, ends, deeds>>

Next == (\E i \in Identities : Join(i) \/ OpenSession(i) \/ Act(i)) \/ Tick

Spec == Init /\ [][Next]_vars
=============================================================================
