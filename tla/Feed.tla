-------------------------------- MODULE Feed --------------------------------
(***************************************************************************)
(* GET /rumours: handleListRumours (internal/api) and ListRumours          *)
(* (internal/store), read page by page while extraction updates rumours,   *)
(* reclassify deletes them and the viewer follows and unfollows clubs.     *)
(*                                                                         *)
(* The feed is ordered by updated_at, latest first, and every upsert moves *)
(* its rumour to the front, so the pages of one walk are cut from a list   *)
(* that changes under it.  A page is one SQL statement and sees one        *)
(* snapshot.  Upserts come from a single worker, one after the other, so   *)
(* updated_at grows in the order they commit.                              *)
(*                                                                         *)
(* The walk is the client's: it asks for has_more's next page by skipping  *)
(* the rows it has received.                                               *)
(***************************************************************************)
EXTENDS Paging

CONSTANTS
    Rumours,
    Clubs,
    PlayerOf, ToOf,     \* a rumour's player and destination, its identity
    LeagueOf,           \* clubs.league_id, or NULL
    Filters,            \* the filters the client asks with
    Limits,             \* the limit parameters it asks with
    defaultRumoursLimit, maxRumoursLimit,
    MaxClock,           \* bound on the updates
    NULL

ASSUME FilterAssumption ==
    /\ \A f \in Filters :
          /\ f.club \in Clubs \cup {NULL}
          /\ f.following \in BOOLEAN /\ f.anonymous \in BOOLEAN
    /\ NULL \notin Clubs

ASSUME LimitAssumption ==
    /\ maxRumoursLimit \in Nat /\ defaultRumoursLimit \in 1..maxRumoursLimit
    /\ Limits \subseteq Int \cup {Absent, Invalid}
    /\ MaxClock \in Nat

VARIABLES
    from,       \* from_club_id of each rumour, or NULL
    updated,    \* updated_at of each rumour; 0 when it does not exist
    clock,      \* the latest updated_at
    follows,    \* the clubs the viewer follows
    filter,     \* the filter of the current walk, or NULL
    offset,     \* the rows it has received
    seen,       \* the rumours among them
    more,       \* has_more of its last page
    steady,     \* history: listed when it began and untouched since
    shrunk,     \* history: a rumour left the list during the walk
    grown       \* history: one was updated or entered it

tables == <<from, updated, clock, follows>>
walk   == <<filter, offset, seen, more>>
vars   == <<tables, walk, steady, shrunk, grown>>

Sides(r) == {ToOf[r], from[r]} \ {NULL}

\* The WHERE clause; an anonymous viewer follows nothing.
Matches(f, r) ==
    /\ f.club # NULL => f.club \in Sides(r)
    /\ f.player # NULL => f.player = PlayerOf[r]
    /\ f.league # NULL => \E c \in Sides(r) : LeagueOf[c] = f.league
    /\ f.following => ~f.anonymous /\ Sides(r) \cap follows # {}

Listed(f) == {r \in Rumours : updated[r] > 0 /\ Matches(f, r)}

\* Mutant: the feed is in the opposite order.
Ahead_Oldest(f, r) == Cardinality({q \in Listed(f) : updated[q] < updated[r]})

\* How many rows the feed shows before r.
Ahead(f, r) == Cardinality({q \in Listed(f) : updated[q] > updated[r]})

\* ORDER BY updated_at DESC LIMIT limit OFFSET skip.
Page(f, limit, skip) ==
    {r \in Listed(f) : Ahead(f, r) >= skip /\ Ahead(f, r) < skip + limit}

\* The limit of a page, from a parameter that is not Invalid.
Limit(raw) == ClampLimit(IntParam(raw, defaultRumoursLimit), maxRumoursLimit)

-----------------------------------------------------------------------------
Init ==
    /\ from = [r \in Rumours |-> NULL]
    /\ updated = [r \in Rumours |-> 0]
    /\ clock = 0
    /\ follows = {}
    /\ filter = NULL /\ offset = 0 /\ seen = {} /\ more = FALSE
    /\ steady = {} /\ shrunk = FALSE /\ grown = FALSE

\* What a change of the tables does to a walk in progress.
Observe ==
    IF filter = NULL
    THEN UNCHANGED <<steady, shrunk, grown>>
    ELSE LET before == Listed(filter)
             after == Listed(filter)'
             moved == {r \in after : updated'[r] # updated[r]}
         IN  /\ steady' = (steady \cap after) \ moved
             /\ shrunk' = (shrunk \/ ~(before \subseteq after))
             /\ grown' = (grown \/ moved # {} \/ ~(after \subseteq before))

\* UpsertRumour: a report may name the club the player leaves.
Report(r, c) ==
    /\ clock < MaxClock
    /\ clock' = clock + 1
    /\ updated' = [updated EXCEPT ![r] = clock + 1]
    /\ from' = [from EXCEPT ![r] = IF c = NULL THEN @ ELSE c]
    /\ UNCHANGED <<follows, walk>>
    /\ Observe

\* DeleteRumours.
Delete(r) ==
    /\ updated[r] > 0
    /\ updated' = [updated EXCEPT ![r] = 0]
    /\ from' = [from EXCEPT ![r] = NULL]
    /\ UNCHANGED <<clock, follows, walk>>
    /\ Observe

\* FollowClub and UnfollowClub.
Follow(c) ==
    /\ follows' = IF c \in follows THEN follows \ {c} ELSE follows \cup {c}
    /\ UNCHANGED <<from, updated, clock, walk>>
    /\ Observe

\* The client opens the feed with some filter.
StartWalk(f) ==
    /\ filter' = f /\ offset' = 0 /\ seen' = {} /\ more' = TRUE
    /\ steady' = Listed(f)
    /\ shrunk' = FALSE /\ grown' = FALSE
    /\ UNCHANGED tables

\* Mutant: the query does not look past the page.
Rows_NoProbe(limit) == Page(filter, limit, offset)

\* ListRumours asks for one row more than the page holds and trims it.
Rows(limit) == Page(filter, limit + 1, offset)

\* An invalid limit is a 400 and reads nothing.
ListRumours(raw) ==
    /\ filter # NULL /\ more /\ raw # Invalid
    /\ LET limit == Limit(raw)
           items == Page(filter, limit, offset)
       IN  /\ more' = (Cardinality(Rows(limit)) > limit)
           /\ seen' = seen \cup items
           /\ offset' = offset + Cardinality(items)
    /\ UNCHANGED <<tables, filter, steady, shrunk, grown>>

Next ==
    \/ \E r \in Rumours, c \in Clubs \cup {NULL} : Report(r, c)
    \/ \E r \in Rumours : Delete(r)
    \/ \E c \in Clubs : Follow(c)
    \/ \E f \in Filters : StartWalk(f)
    \/ \E raw \in Limits : ListRumours(raw)

Spec == Init /\ [][Next]_vars
-----------------------------------------------------------------------------
(* Properties. *)

\* A rumour that stays where it is is never skipped: when the walk ends, it
\* was on one of the pages, however many others moved to the front meanwhile.
\* Only a rumour leaving the list can pull it out of the client's reach.
SteadyRumoursSeen ==
    filter # NULL /\ ~more /\ ~shrunk => steady \subseteq seen

\* The pages of an undisturbed walk are the whole list, each rumour once.
UndisturbedWalkIsTheList ==
    filter # NULL /\ ~more /\ ~shrunk /\ ~grown =>
        seen = Listed(filter) /\ offset = Cardinality(seen)
=============================================================================
