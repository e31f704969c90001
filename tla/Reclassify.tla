----------------------------- MODULE Reclassify -----------------------------
(***************************************************************************)
(* cmd/reclassify and the store methods behind it, run against the same    *)
(* tables extraction is writing to.  A cleaner lists the rumours created   *)
(* before its cutoff with their articles, has every article judged, and    *)
(* deletes the rumours whose listed articles are all below the threshold;  *)
(* the events, comments and likes of a rumour go with it (ON DELETE        *)
(* CASCADE).                                                               *)
(*                                                                         *)
(* DeleteRumours runs at Postgres' default isolation, READ COMMITTED: its  *)
(* count and its DELETE each see the rows committed when they start.       *)
(* Rumours are keyed by thread, so a rumour that is deleted and opened     *)
(* again is told apart from its successor only with a single worker.       *)
(***************************************************************************)
EXTENDS Clustering, Functions

CONSTANTS
    Cleaners,       \* reclassify processes
    Below,          \* articles the classifier puts below JEV_MIN_PROBABILITY
    MaxEngagement   \* bound on the likes and comments of a rumour

ASSUME CleanerAssumption ==
    /\ Below \subseteq Articles
    /\ MaxEngagement \in Nat

VARIABLES
    rc,         \* the step each cleaner executes next
    listing,    \* the articles it listed for each rumour; {} when none
    toDelete,   \* the rumours it marked for deletion
    counted,    \* what its transaction counted before deleting
    engagement, \* comments and likes of each rumour
    purged      \* history: the rumours ever deleted

cleaning == <<rc, listing, toDelete, counted>>
rcVars   == <<cleaning, engagement, purged>>
allVars  == <<vars, rcVars>>

Nothing == [rumours |-> 0, events |-> 0, engagement |-> 0]

Existing(S) == {t \in S : rumours[t] # NULL}

\* countRumourDependents over the rumours in S.
Dependents(S) ==
    [rumours    |-> Cardinality(Existing(S)),
     events     |-> Cardinality({e \in S \X Articles : e[2] \in Timeline(e[1])}),
     engagement |-> SumFunctionOnSet(engagement, S)]

\* Mutant: all of no articles are below the threshold.
Doomed_Vacuous(k) == {t \in Threads : listing[k][t] \subseteq Below}

\* The rumours whose every listed article is below the threshold; one with no
\* article is kept.
Doomed(k) == {t \in Threads : listing[k][t] # {} /\ listing[k][t] \subseteq Below}

-----------------------------------------------------------------------------
RcInit ==
    /\ Init
    /\ rc = [k \in Cleaners |-> "off"]
    /\ listing = [k \in Cleaners |-> [t \in Threads |-> {}]]
    /\ toDelete = [k \in Cleaners |-> {}]
    /\ counted = [k \in Cleaners |-> Nothing]
    /\ engagement = [t \in Threads |-> 0]
    /\ purged = {}

\* LikeRumour or CreateComment; the foreign key wants the rumour to exist.
Engage(t) ==
    /\ rumours[t] # NULL
    /\ engagement[t] < MaxEngagement
    /\ engagement' = [engagement EXCEPT ![t] = @ + 1]
    /\ UNCHANGED <<vars, cleaning, purged>>

Finish(k) ==
    /\ rc' = [rc EXCEPT ![k] = "off"]
    /\ listing' = [listing EXCEPT ![k] = [t \in Threads |-> {}]]
    /\ toDelete' = [toDelete EXCEPT ![k] = {}]
    /\ counted' = [counted EXCEPT ![k] = Nothing]

\* ListRumoursForReclassify; the cutoff selects any of the rumours.
ListRumours(k) ==
    /\ rc[k] = "off"
    /\ \E old \in SUBSET Existing(Threads) \ {{}} :
          listing' = [listing EXCEPT ![k] =
             [t \in Threads |-> IF t \in old THEN Timeline(t) ELSE {}]]
    /\ rc' = [rc EXCEPT ![k] = "judge"]
    /\ UNCHANGED <<vars, toDelete, counted, engagement, purged>>

\* Every listed article is classified once.  A classifier error, an empty
\* verdict and a dry run delete nothing.
Judge(k) ==
    /\ rc[k] = "judge"
    /\ \/ Finish(k)
       \/ /\ Doomed(k) # {}
          /\ toDelete' = [toDelete EXCEPT ![k] = Doomed(k)]
          /\ rc' = [rc EXCEPT ![k] = "count"]
          /\ UNCHANGED <<listing, counted>>
    /\ UNCHANGED <<vars, engagement, purged>>

\* DeleteRumours: the transaction counts what it is about to delete ...
Count(k) ==
    /\ rc[k] = "count"
    /\ counted' = [counted EXCEPT ![k] = Dependents(toDelete[k])]
    /\ rc' = [rc EXCEPT ![k] = "delete"]
    /\ UNCHANGED <<vars, listing, toDelete, engagement, purged>>

\* ... deletes, and commits unless the number of rumours differs.
Delete(k) ==
    LET gone == Existing(toDelete[k])
    IN  /\ rc[k] = "delete"
        /\ Cardinality(gone) = counted[k].rumours
        /\ rumours' = [t \in Threads |-> IF t \in gone THEN NULL ELSE rumours[t]]
        /\ events' = [t \in Threads |->
              IF t \in gone THEN [a \in Articles |-> NULL] ELSE events[t]]
        /\ engagement' = [t \in Threads |-> IF t \in gone THEN 0 ELSE engagement[t]]
        /\ credited' = [t \in Threads |-> IF t \in gone THEN 0 ELSE credited[t]]
        /\ purged' = purged \cup gone
        /\ Finish(k)
        /\ UNCHANGED <<queue, names, score, pc, locals, faults>>

\* The transaction rolls back: the number of rumours it deleted is not the
\* one it counted, a statement failed, or the process died.
Rollback(k) ==
    /\ rc[k] \in {"count", "delete"}
    /\ Finish(k)
    /\ UNCHANGED <<vars, engagement, purged>>

Clean(k) ==
    ListRumours(k) \/ Judge(k) \/ Count(k) \/ Delete(k) \/ Rollback(k)

RcNext ==
    \/ Next /\ UNCHANGED rcVars
    \/ \E t \in Threads : Engage(t)
    \/ \E k \in Cleaners : Clean(k)

RcSpec == RcInit /\ [][RcNext]_allVars
-----------------------------------------------------------------------------
(* Properties. *)

\* A deletion leaves nothing behind: no event, like or comment outlives its
\* rumour, also when a worker was between opening a rumour and recording its
\* event while the rumour was deleted.
NoOrphans ==
    \A t \in Threads : rumours[t] = NULL =>
        Timeline(t) = {} /\ engagement[t] = 0

\* A rumour is deleted only on evidence: some article of it was judged, and
\* all of those listed were below the threshold.
DeletesOnlyJudged ==
    [][\A t \in Threads : rumours[t] # NULL /\ rumours'[t] = NULL =>
          \E k \in Cleaners : listing[k][t] # {} /\ listing[k][t] \subseteq Below
      ]_allVars

\* Without faults, a usable extraction is missing from its timeline only if
\* that rumour was deleted: at once with it, or because its event was refused.
ReportsLostOnlyToDeletion ==
    \A a \in Articles :
        faults = 0 /\ processed[a] /\ extraction[a] \in Reports =>
            \/ events[Thread(extraction[a])][a] # NULL
            \/ Thread(extraction[a]) \in purged

\* UpsertRumour is safe with a single extract process (store/rumours.go:267):
\* without faults, the status of a rumour that no report is being filed on is
\* one that a report on its timeline gives.
StatusIsReported ==
    \A t \in Threads :
        faults = 0 /\ rumours[t] # NULL /\ (\A w \in Workers : ~Filing(w, t)) =>
            \E a \in Timeline(t) : events[t][a].status = rumours[t].status

\* The report of a deletion matches the delete exactly
\* (store/reclassify.go:97), at whatever moment the DELETE runs and commits.
ReportMatchesDelete ==
    \A k \in Cleaners :
        LET gone == Dependents(Existing(toDelete[k]))
        IN  rc[k] = "delete" /\ gone.rumours = counted[k].rumours =>
                counted[k] = gone
=============================================================================
