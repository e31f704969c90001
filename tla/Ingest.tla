------------------------------- MODULE Ingest -------------------------------
(***************************************************************************)
(* The scheduled job (pipeline.Run): PollOnce (internal/ingest) fetches    *)
(* every source's feed and stores its new articles, then extract runs      *)
(* whatever ingest did, and the job fails if either stage did.  Jobs may   *)
(* overlap (cmd/ingest beside cmd/pipeline), feeds are published to and    *)
(* rotate while they are polled, and fetches and inserts fail.             *)
(*                                                                         *)
(* An article is its URL.  A source without a feed_url is not in Sources:  *)
(* PollOnce skips it.  The extract stage is Drain's subject; here it       *)
(* returns nil or an error.                                                *)
(***************************************************************************)
EXTENDS Integers, FiniteSets

CONSTANTS
    Jobs,
    Sources,    \* the sources with a feed
    URLs,
    Carries,    \* Carries[s]: the URLs source s may publish
    NULL,
    MaxFaults   \* bound on failed fetches, inserts and listings

ASSUME CarriesAssumption == Carries \in [Sources -> SUBSET URLs]
ASSUME NullAssumption ==
    /\ NULL \notin Sources \cup {"nil", "error"}
    /\ \A S \in SUBSET URLs : NULL # S
ASSUME FaultAssumption == MaxFaults \in Nat

VARIABLES
    feed,       \* feed[s]: the URLs in the feed now
    articles,   \* articles[u]: the source_id of the stored article, or NULL
    pc,         \* "off", "poll", "insert", "extract", "done" per job
    todo,       \* sources a job has yet to poll
    source,     \* the source it is polling
    items,      \* the items of that feed it has yet to insert
    errs,       \* whether a failure was recorded so far
    exit,       \* what pipeline.Run returned: "nil", "error" or NULL
    parsed,     \* history: what the job found in each source's feed, or NULL
    broken,     \* history: the sources one of whose calls failed
    faults      \* history: failed calls

job  == <<pc, todo, source, items, errs, exit, parsed, broken>>
vars == <<feed, articles, job, faults>>

Set(f, j, x) == [f EXCEPT ![j] = x]

\* Mutant: only one item of a feed is looked at.
Items_One(s) == {u \in feed[s] : u = CHOOSE v \in feed[s] : TRUE}

\* The items pollSource walks: every entry of the parsed feed.
Items(s) == feed[s]

\* INSERT ... ON CONFLICT (url) DO NOTHING.
Stored(u, s) == [articles EXCEPT ![u] = IF @ = NULL THEN s ELSE @]

-----------------------------------------------------------------------------
Init ==
    /\ feed = [s \in Sources |-> {}]
    /\ articles = [u \in URLs |-> NULL]
    /\ pc = [j \in Jobs |-> "off"]
    /\ todo = [j \in Jobs |-> {}]
    /\ source = [j \in Jobs |-> NULL]
    /\ items = [j \in Jobs |-> {}]
    /\ errs = [j \in Jobs |-> FALSE]
    /\ exit = [j \in Jobs |-> NULL]
    /\ parsed = [j \in Jobs |-> [s \in Sources |-> NULL]]
    /\ broken = [j \in Jobs |-> {}]
    /\ faults = 0

Publish(s) ==
    /\ \E u \in Carries[s] \ feed[s] : feed' = [feed EXCEPT ![s] = @ \cup {u}]
    /\ UNCHANGED <<articles, job, faults>>

\* A feed holds a window: an old item leaves it.
Rotate(s) ==
    /\ \E u \in feed[s] : feed' = [feed EXCEPT ![s] = @ \ {u}]
    /\ UNCHANGED <<articles, job, faults>>

Fault == faults < MaxFaults /\ faults' = faults + 1

\* The job starts and lists the sources; a failed listing ends ingest.
ListSources(j) ==
    /\ pc[j] \in {"off", "done"}
    /\ \/ /\ todo' = Set(todo, j, Sources)
          /\ errs' = Set(errs, j, FALSE)
          /\ pc' = Set(pc, j, "poll")
          /\ broken' = Set(broken, j, {})
          /\ UNCHANGED faults
       \/ /\ Fault
          /\ todo' = Set(todo, j, {})
          /\ errs' = Set(errs, j, TRUE)
          /\ pc' = Set(pc, j, "extract")
          /\ broken' = Set(broken, j, Sources)
    /\ exit' = Set(exit, j, NULL)
    /\ parsed' = Set(parsed, j, [s \in Sources |-> NULL])
    /\ UNCHANGED <<feed, articles, source, items>>

\* Mutant: a feed that cannot be parsed ends the poll.
ParseFeed_Stops(j) ==
    /\ pc[j] = "poll"
    /\ \E s \in todo[j] :
          \/ /\ source' = Set(source, j, s)
             /\ items' = Set(items, j, Items(s))
             /\ parsed' = [parsed EXCEPT ![j][s] = feed[s]]
             /\ pc' = Set(pc, j, "insert")
             /\ todo' = [todo EXCEPT ![j] = @ \ {s}]
             /\ UNCHANGED <<errs, broken, faults>>
          \/ /\ Fault
             /\ errs' = Set(errs, j, TRUE)
             /\ broken' = [broken EXCEPT ![j] = @ \cup {s}]
             /\ todo' = Set(todo, j, {})
             /\ UNCHANGED <<source, items, parsed, pc>>
    /\ UNCHANGED <<feed, articles, exit>>

\* pollSource parses the feed; one it cannot parse is an error of that
\* source only.
ParseFeed(j) ==
    /\ pc[j] = "poll"
    /\ \E s \in todo[j] :
          /\ todo' = [todo EXCEPT ![j] = @ \ {s}]
          /\ \/ /\ source' = Set(source, j, s)
                /\ items' = Set(items, j, Items(s))
                /\ parsed' = [parsed EXCEPT ![j][s] = feed[s]]
                /\ pc' = Set(pc, j, "insert")
                /\ UNCHANGED <<errs, broken, faults>>
             \/ /\ Fault
                /\ errs' = Set(errs, j, TRUE)
                /\ broken' = [broken EXCEPT ![j] = @ \cup {s}]
                /\ UNCHANGED <<source, items, parsed, pc>>
    /\ UNCHANGED <<feed, articles, exit>>

\* InsertArticle of one item.  A failed insert may have been applied; the
\* items after it are still inserted.
InsertArticle(j) ==
    LET s == source[j]
    IN  /\ pc[j] = "insert"
        /\ \E u \in items[j] :
              /\ items' = [items EXCEPT ![j] = @ \ {u}]
              /\ \/ /\ articles' = Stored(u, s)
                    /\ UNCHANGED <<errs, broken, faults>>
                 \/ /\ Fault
                    /\ articles' \in {articles, Stored(u, s)}
                    /\ errs' = Set(errs, j, TRUE)
                    /\ broken' = [broken EXCEPT ![j] = @ \cup {s}]
        /\ UNCHANGED <<feed, pc, todo, source, exit, parsed>>

\* The feed is done; the next source is polled.
SourceDone(j) ==
    /\ pc[j] = "insert" /\ items[j] = {}
    /\ pc' = Set(pc, j, "poll")
    /\ source' = Set(source, j, NULL)
    /\ UNCHANGED <<feed, articles, todo, items, errs, exit, parsed, broken, faults>>

\* PollOnce returns and extract starts, whatever it returned.
IngestDone(j) ==
    /\ pc[j] = "poll" /\ todo[j] = {}
    /\ pc' = Set(pc, j, "extract")
    /\ UNCHANGED <<feed, articles, todo, source, items, errs, exit, parsed,
                   broken, faults>>

\* Mutant: the job reports the extract stage only.
ExtractDone_Forgets(j) ==
    /\ pc[j] = "extract"
    /\ \E failed \in BOOLEAN :
          exit' = Set(exit, j, IF failed THEN "error" ELSE "nil")
    /\ pc' = Set(pc, j, "done")
    /\ UNCHANGED <<feed, articles, todo, source, items, errs, parsed, broken, faults>>

\* RunExtract returns; the job returns both stages' errors joined.
ExtractDone(j) ==
    /\ pc[j] = "extract"
    /\ \E failed \in BOOLEAN :
          exit' = Set(exit, j, IF errs[j] \/ failed THEN "error" ELSE "nil")
    /\ pc' = Set(pc, j, "done")
    /\ UNCHANGED <<feed, articles, todo, source, items, errs, parsed, broken, faults>>

Run(j) ==
    \/ ListSources(j) \/ ParseFeed(j) \/ InsertArticle(j) \/ SourceDone(j)
    \/ IngestDone(j) \/ ExtractDone(j)

Next ==
    \/ \E s \in Sources : Publish(s) \/ Rotate(s)
    \/ \E j \in Jobs : Run(j)

Spec == Init /\ [][Next]_vars

\* The schedule starts a job again and again, and a started one goes on.
FairSpec == Spec /\ \A j \in Jobs : WF_vars(Run(j))
-----------------------------------------------------------------------------
(* Properties. *)

\* The job polled the source, and every item it found there is stored.
Harvested(j, s) ==
    parsed[j][s] # NULL /\ \A u \in parsed[j][s] : articles[u] # NULL

\* A job that exits zero lost nothing: no source failed, every one of them
\* was polled, and every item seen in any feed is stored.
CleanExitLostNothing ==
    \A j \in Jobs : exit[j] = "nil" =>
        broken[j] = {} /\ \A s \in Sources : Harvested(j, s)

\* A failing source does not stop the others: a finished ingest has polled
\* each source none of whose calls failed, and stored every item of it.
OtherSourcesUnharmed ==
    \A j \in Jobs : pc[j] \in {"extract", "done"} =>
        \A s \in Sources \ broken[j] : Harvested(j, s)

\* An item that stays in its feed is eventually stored, by a later run if the
\* first one failed.
LastingItemStored ==
    \A s \in Sources : \A u \in Carries[s] :
        <>[](u \in feed[s]) => <>(articles[u] # NULL)
=============================================================================
