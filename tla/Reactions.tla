------------------------------ MODULE Reactions ------------------------------
(***************************************************************************)
(* Likes and follows: the endpoints under RequireAuth that a user toggles  *)
(* (internal/api and the store methods behind them), while reclassify      *)
(* deletes rumours under them.  Following a club is the code of a like     *)
(* over another table; clubs are never deleted.                            *)
(*                                                                         *)
(* A user may have requests in flight from several tabs, and a response    *)
(* may be overtaken by another request's effect.  Like and follow are one  *)
(* INSERT, whose foreign key turns a missing target into a 404; unlike and *)
(* unfollow check that the target exists and then run an UPDATE.  A        *)
(* statement may fail, or be cut off after it took effect, with a 500.     *)
(***************************************************************************)
EXTENDS Integers, FiniteSets

CONSTANTS
    Rumours,
    Clubs,
    Users,
    Tabs,
    UserOf,     \* the user signed in in each tab
    MaxFaults   \* bound on failed statements

ASSUME TabAssumption == UserOf \in [Tabs -> Users]

ASSUME TargetAssumption == Rumours \cap Clubs = {}

ASSUME FaultAssumption == MaxFaults \in Nat

\* What a reaction is about: a like is about a rumour, a follow about a club.
Targets == Rumours \cup Clubs

VARIABLES
    exists,     \* the targets that have a row
    reaction,   \* reaction[x][u], the row of likes or follows of a target
                \* and a user: "none", "active" or "deleted" (soft)
    pc,         \* per tab: "idle", "check", "run" or "answer"
    op,         \* the request it is on: "set" (like, follow) or "unset"
    target,     \* the rumour or club whose page it shows
    code,       \* the status code it is answered with, 0 before
    latest,     \* history: the requests (by tab) of each target and user
                \* that were answered and that no later one followed
    older,      \* history: what of latest was there when a request began
    faults      \* history: failed statements

tables  == <<exists, reaction>>
request == <<pc, op, target, code>>
vars    == <<tables, request, latest, older, faults>>

User(t) == UserOf[t]

\* Every user starts out without a reaction.
Initially == <<"init", "unset">>

Active(x) == {u \in Users : reaction[x][u] = "active"}

\* Mutant: nothing ties a reaction to its target.
References_Loose(x) == TRUE

\* The foreign key of a new like or follow finds its target.
References(x) == x \in exists

\* Mutant: ON CONFLICT DO NOTHING.
Reacted_Kept(x, u) ==
    [reaction EXCEPT ![x][u] = IF @ = "none" THEN "active" ELSE @]

\* INSERT ... ON CONFLICT DO UPDATE SET deleted_at = NULL.
Reacted(x, u) == [reaction EXCEPT ![x][u] = "active"]

\* UPDATE ... SET deleted_at = now() WHERE deleted_at IS NULL.
Withdrawn(x, u) ==
    [reaction EXCEPT ![x][u] = IF @ = "active" THEN "deleted" ELSE @]

-----------------------------------------------------------------------------
\* Some of the clubs that requests name may not exist.
Init ==
    /\ \E known \in SUBSET Clubs : exists = Rumours \cup known
    /\ reaction = [x \in Targets |-> [u \in Users |-> "none"]]
    /\ pc = [t \in Tabs |-> "idle"]
    /\ op = [t \in Tabs |-> "none"]
    /\ target \in [Tabs -> Targets]
    /\ code = [t \in Tabs |-> 0]
    /\ latest = [x \in Targets |-> [u \in Users |-> {Initially}]]
    /\ older = [t \in Tabs |-> {}]
    /\ faults = 0

\* A tab sends a request; unlike and unfollow begin with a look at the target.
Send(t) ==
    /\ pc[t] = "idle"
    /\ \E o \in {"set", "unset"} :
          /\ op' = [op EXCEPT ![t] = o]
          /\ pc' = [pc EXCEPT ![t] = IF o = "unset" THEN "check" ELSE "run"]
    /\ older' = [older EXCEPT ![t] = latest[target[t]][User(t)]]
    /\ UNCHANGED <<tables, target, code, latest, faults>>

Answer(t, c) ==
    /\ pc' = [pc EXCEPT ![t] = "answer"]
    /\ code' = [code EXCEPT ![t] = c]
    /\ UNCHANGED <<op, target, latest, older>>

Fails(t) ==
    /\ faults < MaxFaults
    /\ faults' = faults + 1
    /\ Answer(t, 500)

\* RumourExists, ClubExists: SELECT EXISTS.
Check(t) ==
    /\ pc[t] = "check"
    /\ \/ /\ target[t] \in exists
          /\ pc' = [pc EXCEPT ![t] = "run"]
          /\ UNCHANGED <<op, target, code, latest, older, faults>>
       \/ /\ target[t] \notin exists
          /\ Answer(t, 404)
          /\ UNCHANGED faults
       \/ Fails(t)
    /\ UNCHANGED tables

\* LikeRumour's and FollowClub's INSERT.
Set(t) ==
    LET x == target[t]
        done == Reacted(x, User(t))
    IN  /\ pc[t] = "run" /\ op[t] = "set"
        /\ \/ References(x) /\ reaction' = done /\ Answer(t, 204) /\ UNCHANGED faults
           \/ References(x) /\ reaction' = done /\ Fails(t)
           \/ ~References(x) /\ Answer(t, 404) /\ UNCHANGED <<reaction, faults>>
           \/ Fails(t) /\ UNCHANGED reaction
        /\ UNCHANGED exists

\* UnlikeRumour's and UnfollowClub's UPDATE.
Unset(t) ==
    LET done == Withdrawn(target[t], User(t))
    IN  /\ pc[t] = "run" /\ op[t] = "unset"
        /\ \/ reaction' = done /\ Answer(t, 204) /\ UNCHANGED faults
           \/ reaction' = done /\ Fails(t)
           \/ Fails(t) /\ UNCHANGED reaction
        /\ UNCHANGED exists

\* The response reaches the tab.  A 204 follows what was answered before the
\* request began; after a 500 it may or may not have taken effect.
Respond(t) ==
    LET x == target[t]
        u == User(t)
        mine == <<t, op[t]>>
        followed == IF code[t] = 204 THEN older[t] ELSE {}
    IN  /\ pc[t] = "answer"
        /\ pc' = [pc EXCEPT ![t] = "idle"]
        /\ op' = [op EXCEPT ![t] = "none"]
        /\ code' = [code EXCEPT ![t] = 0]
        /\ IF code[t] # 404
           THEN /\ latest' = [latest EXCEPT ![x][u] = (@ \ followed) \cup {mine}]
                /\ older' = [y \in Tabs |-> IF y = t THEN {} ELSE
                       IF target[y] = x THEN older[y] \ {mine} ELSE older[y]]
           ELSE /\ older' = [older EXCEPT ![t] = {}]
                /\ UNCHANGED latest
        /\ UNCHANGED <<tables, target, faults>>

\* DeleteRumours: likes go with their rumour (ON DELETE CASCADE), and its id
\* does not come back.
Delete(r) ==
    /\ r \in exists
    /\ exists' = exists \ {r}
    /\ reaction' = [reaction EXCEPT ![r] = [u \in Users |-> "none"]]
    /\ UNCHANGED <<request, latest, older, faults>>

Next ==
    \/ \E t \in Tabs : Send(t) \/ Check(t) \/ Set(t) \/ Unset(t) \/ Respond(t)
    \/ \E r \in Rumours : Delete(r)

Spec == Init /\ [][Next]_vars
-----------------------------------------------------------------------------
(* Properties. *)

\* Nothing outlives its target: a request that found the rumour and was
\* overtaken by the deletion leaves no like behind.
NothingOutlivesItsRumour == \A x \in Targets \ exists : Active(x) = {}

InFlight(x, u) ==
    \E t \in Tabs : User(t) = u /\ target[t] = x /\ pc[t] # "idle"

\* When no request of a user about a target is in flight, the user likes (or
\* follows) it only if one of the latest requests said so, and does not only
\* if one said the opposite.  No other user's request, and no order in which
\* the tabs are served, makes a request that was answered and followed the
\* last word.
LikesAreTheLastWord ==
    \A x \in exists, u \in Users : ~InFlight(x, u) =>
        \E w \in latest[x][u] :
            w[2] = IF reaction[x][u] = "active" THEN "set" ELSE "unset"
=============================================================================
