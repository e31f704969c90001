------------------------------- MODULE Drain --------------------------------
(***************************************************************************)
(* RunExtract (internal/pipeline): the loop that drains the queue of       *)
(* unprocessed articles in batches, under a cap, until it is empty.        *)
(*                                                                         *)
(* Articles are numbered in the order of fetched_at, which is the order    *)
(* the queue is read in; ingest appends to the queue while a run drains    *)
(* it.  What extraction and clustering do with an article is Clustering's  *)
(* subject: here extractOne is the attempt and the MarkExtracted that      *)
(* always ends it.  A run may be cancelled (SIGTERM) at any point, a       *)
(* statement may fail, and a poison article can never be marked (its       *)
(* extraction is JSON that jsonb refuses).                                 *)
(***************************************************************************)
EXTENDS Integers, FiniteSets, FiniteSetsExt

CONSTANTS
    NumArticles,    \* bound: articles ingest ever stores
    BatchSize,
    MaxArticles,    \* EXTRACT_MAX_ARTICLES_PER_RUN
    Poison,         \* articles whose MarkExtracted always fails
    MaxFaults,      \* bound: other failed statements
    MaxCancels      \* bound: cancelled runs

Articles == 1..NumArticles

ASSUME ParameterAssumption ==
    /\ NumArticles \in Nat
    /\ BatchSize \in Nat \ {0}
    /\ MaxArticles \in Nat \ {0}
    /\ Poison \subseteq Articles
    /\ MaxFaults \in Nat
    /\ MaxCancels \in Nat

VARIABLES
    arrived,    \* articles 1..arrived are stored
    processed,  \* the processed ones
    pc,         \* where the run is: "off", "list", "next", "mark", "done"
    fresh,      \* articles of the current batch yet to be attempted
    short,      \* the listing had fewer than BatchSize articles
    attempted,  \* articles this run has attempted
    current,    \* the article being extracted
    total,      \* ExtractStats.Total
    unmarked,   \* ExtractStats.Unmarked
    skipped,    \* ExtractStats.Skipped
    capped,     \* ExtractStats.Capped
    cancelled,  \* the run's context is cancelled
    result,     \* what the run returned: "running", "nil" or "error"
    horizon,    \* history: arrived at the run's last listing
    faults,     \* history: failed statements
    cancels     \* history: cancelled runs

stats == <<total, unmarked, skipped, capped>>
run   == <<pc, fresh, short, attempted, current, stats, result, horizon>>
vars  == <<arrived, processed, run, cancelled, faults, cancels>>

Unprocessed == (1..arrived) \ processed

\* SELECT ... ORDER BY fetched_at LIMIT n.
Oldest(S, n) == {a \in S : Cardinality({b \in S : b < a}) < n}

ListUnprocessed == Oldest(Unprocessed, BatchSize)

Return(r) == pc' = "done" /\ result' = r

-----------------------------------------------------------------------------
Init ==
    /\ arrived \in Articles \cup {0}
    /\ processed = {}
    /\ pc = "off"
    /\ fresh = {} /\ short = FALSE /\ attempted = {} /\ current = 0
    /\ total = 0 /\ unmarked = 0 /\ skipped = 0 /\ capped = FALSE
    /\ cancelled = FALSE /\ result = "running" /\ horizon = 0
    /\ faults = 0 /\ cancels = 0

\* InsertArticle, by this deployment's ingest or another.
Arrive ==
    /\ arrived < NumArticles
    /\ arrived' = arrived + 1
    /\ UNCHANGED <<processed, run, cancelled, faults, cancels>>

\* Mutant: what was attempted is remembered across runs.
Start_Remembers ==
    /\ pc \in {"off", "done"}
    /\ pc' = "list"
    /\ fresh' = {} /\ short' = FALSE /\ current' = 0
    /\ total' = 0 /\ unmarked' = 0 /\ skipped' = 0 /\ capped' = FALSE
    /\ cancelled' = FALSE /\ result' = "running" /\ horizon' = 0
    /\ UNCHANGED <<arrived, processed, attempted, faults, cancels>>

\* The scheduler starts a run: a new process, with nothing attempted.
Start ==
    /\ pc \in {"off", "done"}
    /\ pc' = "list"
    /\ fresh' = {} /\ short' = FALSE /\ attempted' = {} /\ current' = 0
    /\ total' = 0 /\ unmarked' = 0 /\ skipped' = 0 /\ capped' = FALSE
    /\ cancelled' = FALSE /\ result' = "running" /\ horizon' = 0
    /\ UNCHANGED <<arrived, processed, faults, cancels>>

\* SIGTERM reaches the process.
Cancel ==
    /\ pc \in {"list", "next", "mark"}
    /\ ~cancelled
    /\ cancels < MaxCancels
    /\ cancelled' = TRUE
    /\ cancels' = cancels + 1
    /\ UNCHANGED <<arrived, processed, run, faults>>

\* Mutant: articles that come back are extracted again.
List_Again ==
    LET listed == ListUnprocessed
    IN  /\ pc = "list" /\ ~cancelled
        /\ fresh' = listed
        /\ short' = (Cardinality(listed) < BatchSize)
        /\ horizon' = arrived
        /\ IF fresh' = {} THEN Return("nil") ELSE pc' = "next" /\ UNCHANGED result
        /\ UNCHANGED <<arrived, processed, attempted, current, stats, cancelled,
                       faults, cancels>>

\* Mutant: a batch with nothing fresh does not end the run.
List_Endless ==
    LET listed == ListUnprocessed
    IN  /\ pc = "list" /\ ~cancelled
        /\ fresh' = listed \ attempted
        /\ short' = (Cardinality(listed) < BatchSize)
        /\ horizon' = arrived
        /\ pc' = "next"
        /\ UNCHANGED <<arrived, processed, attempted, current, stats, cancelled,
                       result, faults, cancels>>

\* ListUnprocessed and the articles of it that this run has not attempted.
\* When there is none, every listed article failed MarkExtracted already.
List ==
    LET listed == ListUnprocessed
    IN  /\ pc = "list" /\ ~cancelled
        /\ fresh' = listed \ attempted
        /\ short' = (Cardinality(listed) < BatchSize)
        /\ horizon' = arrived
        /\ IF fresh' = {} THEN Return("nil") ELSE pc' = "next" /\ UNCHANGED result
        /\ UNCHANGED <<arrived, processed, attempted, current, stats, cancelled,
                       faults, cancels>>

\* The context check before the listing, or the listing itself, fails.
ListFails ==
    /\ pc = "list"
    /\ \/ cancelled /\ UNCHANGED faults
       \/ ~cancelled /\ faults < MaxFaults /\ faults' = faults + 1
    /\ Return("error")
    /\ UNCHANGED <<arrived, processed, fresh, short, attempted, current, stats,
                   cancelled, horizon, cancels>>

\* Mutant: the cap is checked after every article.
Cap_After ==
    /\ pc = "next" /\ total >= MaxArticles
    /\ capped' = TRUE
    /\ Return("nil")
    /\ UNCHANGED <<arrived, processed, fresh, short, attempted, current, total,
                   unmarked, skipped, cancelled, horizon, faults, cancels>>

\* The cap is checked before every article, and before the context.
Cap ==
    /\ pc = "next" /\ fresh # {} /\ total >= MaxArticles
    /\ capped' = TRUE
    /\ Return("nil")
    /\ UNCHANGED <<arrived, processed, fresh, short, attempted, current, total,
                   unmarked, skipped, cancelled, horizon, faults, cancels>>

\* The context check between two articles.
Interrupted ==
    /\ pc = "next" /\ fresh # {} /\ total < MaxArticles /\ cancelled
    /\ skipped' = Cardinality(fresh)
    /\ Return("error")
    /\ UNCHANGED <<arrived, processed, fresh, short, attempted, current, total,
                   unmarked, capped, cancelled, horizon, faults, cancels>>

\* The oldest fresh article is handed to extractOne.
Attempt ==
    LET a == Min(fresh)
    IN  /\ pc = "next" /\ fresh # {} /\ total < MaxArticles /\ ~cancelled
        /\ fresh' = fresh \ {a}
        /\ attempted' = attempted \cup {a}
        /\ current' = a
        /\ total' = total + 1
        /\ pc' = "mark"
        /\ UNCHANGED <<arrived, processed, short, unmarked, skipped, capped,
                       cancelled, result, horizon, faults, cancels>>

Mark ==
    /\ pc = "mark" /\ ~cancelled /\ current \notin Poison
    /\ processed' = processed \cup {current}
    /\ pc' = "next"
    /\ UNCHANGED <<arrived, fresh, short, attempted, current, stats, cancelled,
                   result, horizon, faults, cancels>>

\* Mutant: a failed MarkExtracted is not counted.
MarkFails_Uncounted ==
    /\ pc = "mark"
    /\ current \in Poison \/ cancelled
    /\ pc' = "next"
    /\ UNCHANGED <<arrived, processed, fresh, short, attempted, current, stats,
                   cancelled, result, horizon, faults, cancels>>

\* MarkExtracted returns an error, which the run counts and otherwise
\* ignores.  Cancelled, it may have been applied before the context was.
MarkFails ==
    /\ pc = "mark"
    /\ \/ current \in Poison /\ UNCHANGED <<processed, faults>>
       \/ /\ cancelled /\ current \notin Poison
          /\ processed' \in {processed, processed \cup {current}}
          /\ UNCHANGED faults
       \/ /\ ~cancelled /\ current \notin Poison
          /\ faults < MaxFaults /\ faults' = faults + 1
          /\ processed' \in {processed, processed \cup {current}}
    /\ unmarked' = unmarked + 1
    /\ pc' = "next"
    /\ UNCHANGED <<arrived, fresh, short, attempted, current, total, skipped,
                   capped, cancelled, result, horizon, cancels>>

\* Mutant: a run is one batch.
BatchDone_One ==
    /\ pc = "next" /\ fresh = {}
    /\ Return("nil")
    /\ UNCHANGED <<arrived, processed, fresh, short, attempted, current, stats,
                   cancelled, horizon, faults, cancels>>

\* The batch is done: a short one was the end of the queue.
BatchDone ==
    /\ pc = "next" /\ fresh = {}
    /\ IF short THEN Return("nil") ELSE pc' = "list" /\ UNCHANGED result
    /\ UNCHANGED <<arrived, processed, fresh, short, attempted, current, stats,
                   cancelled, horizon, faults, cancels>>

RunExtract ==
    \/ List \/ ListFails \/ Cap \/ Interrupted \/ Attempt \/ Mark \/ MarkFails
    \/ BatchDone

Next == Arrive \/ Start \/ Cancel \/ RunExtract

Spec == Init /\ [][Next]_vars

\* A process that runs takes its next step, and the schedule keeps coming.
Fairness == WF_vars(RunExtract) /\ WF_vars(Start)

FairSpec == Spec /\ Fairness
-----------------------------------------------------------------------------
(* Properties. *)

\* A run pays for at most MaxArticles extractions, and never for the same
\* article twice, even when articles it could not mark come back at the head
\* of every later batch.
NoArticleTwicePerRun ==
    /\ total <= MaxArticles
    /\ Cardinality(attempted) = total

\* Capped is never reported of a run that drained the queue: some article is
\* left that the run has not attempted.
CappedLeavesArticles ==
    capped => Unprocessed \ attempted # {}

\* A run that returns nil uncapped and uninterrupted has attempted every
\* article stored when it last listed, unless a whole batch of articles it
\* could not mark stands in front of the rest of the queue.
CleanRunDrainsTheQueue ==
    result = "nil" /\ ~capped =>
        \/ (1..horizon) \ processed \subseteq attempted
        \/ Cardinality(attempted \ processed) >= BatchSize

\* What a run leaves unprocessed of its attempts is counted in Unmarked, so
\* that no article it extracted stays queued unreported.
UnmarkedCoversLeftovers ==
    pc # "mark" => Cardinality(attempted \ processed) <= unmarked

\* Every run ends, however fast the queue refills and whatever is unmarkable.
EveryRunEnds == pc = "list" ~> pc = "done"

\* Articles behind fewer than BatchSize unmarkable ones are not starved by
\* them: each stored article that can be marked is eventually processed.
HealthyArticlesProcessed ==
    \A a \in Articles \ Poison : a <= arrived ~> a \in processed
=============================================================================
