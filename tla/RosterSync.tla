----------------------------- MODULE RosterSync -----------------------------
(***************************************************************************)
(* The clubs table: GetOrCreateClub, which extraction calls with the names *)
(* articles use, against SyncRoster, which a deployment runs to bring the  *)
(* table in line with the roster built into the binary (internal/store).   *)
(*                                                                         *)
(* syncRoster reads the table, plans renames from what it read and applies *)
(* them with the upserts and the detaching in one multi-statement Exec,    *)
(* which Postgres runs as one transaction.  Every statement of another     *)
(* session that commits inside it concerns a row it has not touched and    *)
(* commutes to before it, so the transaction is one step; one that takes   *)
(* the name a rename is about to use fails it.                             *)
(*                                                                         *)
(* Versions are the rosters of the binaries that run during a deployment.  *)
(* The clubs are a sequence in the order of created_at; a club's place in  *)
(* it is its id.  Crests and short names follow the league and are left    *)
(* out; names are already tidied.                                          *)
(***************************************************************************)
EXTENDS Integers, Sequences, SequencesExt, FiniteSets

CONSTANTS
    Names,      \* the names articles and rosters use
    Key,        \* lower(name), as the unique index sees it
    Versions,
    Roster,     \* Roster[v]: the league of each club of version v's roster
    Lookup,     \* Lookup[v][n]: the club version v takes n for, or NULL
    Existing,   \* the tables a deployment may find, as sequences of rows
    Extracting, \* the versions extraction runs with
    Syncing,    \* the versions a deployment syncs
    NULL

ClubsOf(v) == DOMAIN Roster[v]

LeaguesOf(v) == {Roster[v][c] : c \in ClubsOf(v)}

Leagues == UNION {LeaguesOf(v) : v \in Versions}

Row == [name : Names, league : Leagues \cup {NULL}]

\* What loadRoster checks of a roster, and what lookup does with a name and
\* its case variants.
ASSUME RosterAssumption ==
    \A v \in Versions :
        /\ ClubsOf(v) \subseteq Names /\ IsFiniteSet(ClubsOf(v))
        /\ Lookup[v] \in [Names -> ClubsOf(v) \cup {NULL}]
        /\ \A c \in ClubsOf(v) : Lookup[v][c] = c
        /\ \A m, n \in Names : Key[m] = Key[n] => Lookup[v][m] = Lookup[v][n]

ASSUME VersionAssumption == Extracting \cup Syncing \subseteq Versions

ASSUME NullAssumption == NULL \notin Names \cup Leagues

\* The unique index on lower(name).
Distinct(rows) ==
    \A i, j \in DOMAIN rows : Key[rows[i].name] = Key[rows[j].name] => i = j

ASSUME ExistingAssumption ==
    \A rows \in Existing : rows \in Seq(Row) /\ Distinct(rows)

VARIABLES
    clubs,      \* the rows, oldest first
    leagues,    \* the leagues that have a row
    pc,         \* pc[v]: "off" or "planned", the sync of version v
    renames,    \* the new name of each row a sync planned to rename
    unmerged,   \* the rows it planned to leave unmerged
    report,     \* RosterSyncResult of the last sync
    synced,     \* history: the version synced last, or NULL
    mixed,      \* history: whether another version wrote since v planned
    disturbed   \* history: the same of the last sync, up to now

history == <<synced, mixed, disturbed>>
vars    == <<clubs, leagues, pc, renames, unmerged, report, history>>

Rows == DOMAIN clubs

Holders(name) == {i \in Rows : Key[clubs[i].name] = Key[name]}

\* The rows version v knows under another name than their own.
Misnamed(v) == {i \in Rows : Lookup[v][clubs[i].name] \notin {NULL, clubs[i].name}}

Target(v, i) == Lookup[v][clubs[i].name]

\* planRenames: a row takes its roster name if it holds it already (in
\* another case), or if nobody does and no older row takes it.
Renames(v) ==
    {i \in Misnamed(v) :
        \/ i \in Holders(Target(v, i))
        \/ /\ Holders(Target(v, i)) = {}
           /\ \A k \in Misnamed(v) : k < i => Target(v, k) # Target(v, i)}

-----------------------------------------------------------------------------
(* The statements of the sync's transaction, as functions of the rows. *)

\* renameClubsSQL updates the planned rows whose new name no other row holds.
Renamable(plan) == {i \in DOMAIN plan : Holders(plan[i]) \subseteq {i}}

\* Mutant: the new names are joined to the rows by place, not by id.
Renamed_ByPlace(plan, rows) ==
    LET names == SetToSeq({plan[i] : i \in Renamable(plan)})
    IN  [i \in DOMAIN rows |->
            IF i \in DOMAIN names THEN [rows[i] EXCEPT !.name = names[i]]
            ELSE rows[i]]

Renamed(plan, rows) ==
    [i \in DOMAIN rows |->
        IF i \in Renamable(plan) THEN [rows[i] EXCEPT !.name = plan[i]]
        ELSE rows[i]]

\* Mutant: the rows the rename skipped are forgotten.
Unmerged_Planned(v) == unmerged[v]

\* What the sync reports as unmerged; the rows of a plan that the rename did
\* not return are among them.
Unmerged(v) == unmerged[v] \cup (DOMAIN renames[v] \ Renamable(renames[v]))

\* Mutant: the upsert leaves the league out.
Stamp_Named(v, c) == [name |-> c, league |-> NULL]

\* What the roster says of its club.
Stamp(v, c) == [name |-> c, league |-> Roster[v][c]]

\* upsertClubsSQL names and stamps the row of every roster club, or adds it.
Upserted(v, rows) ==
    LET held == {c \in ClubsOf(v) :
                    \E i \in DOMAIN rows : Key[rows[i].name] = Key[c]}
        Club(row) == {c \in held : Key[c] = Key[row.name]}
        added == SetToSeq(ClubsOf(v) \ held)
    IN  [i \in DOMAIN rows |->
            IF Club(rows[i]) = {} THEN rows[i]
            ELSE Stamp(v, CHOOSE c \in Club(rows[i]) : TRUE)]
        \o [i \in DOMAIN added |-> Stamp(v, added[i])]

\* Mutant: clubs that left the roster keep their league.
Detached_Never(v, rows) == rows

\* detachDepartedClubsSQL clears the league of the other clubs in the
\* roster's leagues.
Detached(v, rows) ==
    [i \in DOMAIN rows |->
        IF /\ rows[i].league \in LeaguesOf(v)
           /\ Key[rows[i].name] \notin {Key[c] : c \in ClubsOf(v)}
        THEN [rows[i] EXCEPT !.league = NULL]
        ELSE rows[i]]

-----------------------------------------------------------------------------
Init ==
    /\ clubs \in Existing
    /\ leagues = {clubs[i].league : i \in Rows} \ {NULL}
    /\ pc = [v \in Versions |-> "off"]
    /\ renames = [v \in Versions |-> << >>]
    /\ unmerged = [v \in Versions |-> {}]
    /\ report = [renamed |-> {}, unmerged |-> {}]
    /\ synced = NULL
    /\ mixed = [v \in Versions |-> FALSE]
    /\ disturbed = FALSE

\* Version v writes the table.
Writes(v) == mixed' = [w \in Versions |-> mixed[w] \/ w # v]

\* One INSERT ... ON CONFLICT: the row keeps its name, and its league unless
\* the roster knows one that has a row.
GetOrCreateClub(v, n) ==
    LET known == Lookup[v][n] # NULL
        name == IF known THEN Lookup[v][n] ELSE n
        league == IF known /\ Roster[v][name] \in leagues
                  THEN Roster[v][name] ELSE NULL
        Stamped(row) == IF league = NULL THEN row
                        ELSE [row EXCEPT !.league = league]
    IN  /\ clubs' =
              IF Holders(name) = {}
              THEN Append(clubs, [name |-> name, league |-> league])
              ELSE [i \in Rows |-> IF i \in Holders(name) THEN Stamped(clubs[i])
                                   ELSE clubs[i]]
        /\ Writes(v)
        /\ disturbed' = (disturbed \/ synced # v)
        /\ UNCHANGED <<leagues, pc, renames, unmerged, report, synced>>

\* syncRoster reads the table and plans.
Plan(v) ==
    /\ pc[v] = "off"
    /\ pc' = [pc EXCEPT ![v] = "planned"]
    /\ renames' = [renames EXCEPT ![v] = [i \in Renames(v) |-> Target(v, i)]]
    /\ unmerged' = [unmerged EXCEPT ![v] = Misnamed(v) \ Renames(v)]
    /\ mixed' = [mixed EXCEPT ![v] = FALSE]
    /\ UNCHANGED <<clubs, leagues, report, synced, disturbed>>

Finish(v) ==
    /\ pc' = [pc EXCEPT ![v] = "off"]
    /\ renames' = [renames EXCEPT ![v] = << >>]
    /\ unmerged' = [unmerged EXCEPT ![v] = {}]

\* The transaction commits, and the report is made from the rows the rename
\* returned.
Apply(v) ==
    /\ pc[v] = "planned"
    /\ clubs' = Detached(v, Upserted(v, Renamed(renames[v], clubs)))
    /\ leagues' = leagues \cup LeaguesOf(v)
    /\ report' = [renamed |-> Renamable(renames[v]), unmerged |-> Unmerged(v)]
    /\ synced' = v
    /\ Writes(v)
    /\ disturbed' = mixed[v]
    /\ Finish(v)

\* It fails as a whole: a name was taken under the rename, or the connection
\* was lost.
Abort(v) ==
    /\ pc[v] = "planned"
    /\ Finish(v)
    /\ UNCHANGED <<clubs, leagues, report, history>>

Next ==
    \/ \E v \in Extracting, n \in Names : GetOrCreateClub(v, n)
    \/ \E v \in Syncing : Plan(v) \/ Apply(v) \/ Abort(v)

Spec == Init /\ [][Next]_vars
-----------------------------------------------------------------------------
(* Properties. *)

\* A sync has completed, and no other version wrote the table since it was
\* planned.  Its own binary's extraction goes on.
Settled == synced # NULL /\ ~disturbed

\* After a sync every roster club has a row under its roster name and in its
\* league, and keeps it while extraction files names: no interleaving of
\* GetOrCreateClub with the stale plan loses a club or its league.
RosterClubsStamped ==
    Settled =>
        \A c \in ClubsOf(synced) : \E i \in Rows :
            clubs[i] = [name |-> c, league |-> Roster[synced][c]]

\* After a sync a league of the roster holds the roster's clubs only.
DepartedClubsDetached ==
    Settled =>
        \A i \in Rows : clubs[i].league \in LeaguesOf(synced) =>
            clubs[i].name \in ClubsOf(synced)

\* After a sync the only rows known by another name are those it reported as
\* unmerged, and each of them really duplicates the row of its roster club.
MisnamedRowsReported ==
    Settled =>
        /\ Misnamed(synced) = report.unmerged
        /\ \A i \in report.unmerged : Holders(Target(synced, i)) \ {i} # {}

\* A row never becomes another club, however stale the plan it is renamed
\* by: rumours and follows point at clubs by id.
RowsKeepTheirClub ==
    [][\A v \in Syncing : \A i \in Rows :
          Lookup[v][clubs[i].name] # NULL =>
              Lookup[v][clubs'[i].name] = Lookup[v][clubs[i].name]]_vars
=============================================================================
