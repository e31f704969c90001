----------------------------- MODULE Clustering -----------------------------
(***************************************************************************)
(* What an extract run does to the database, statement by statement:       *)
(* extractOne and clusterOne (internal/pipeline), Clusterer.Upsert         *)
(* (internal/cluster) and the store methods they call (internal/store).    *)
(*                                                                         *)
(* No transaction spans these statements, so each is a step of its own:    *)
(* another worker may run, the process may die, or the statement may fail  *)
(* between any two of them.  A statement that fails may still have taken   *)
(* effect (the connection is lost after the server committed), and the     *)
(* caller cannot tell.  Failures and crashes are counted in faults and     *)
(* bounded by MaxFaults.                                                   *)
(*                                                                         *)
(* The order and the size of the batches are Drain's subject; here a       *)
(* worker takes the articles of its listing in any order.                  *)
(***************************************************************************)
EXTENDS RumourStatus, FiniteSets

CONSTANTS
    Workers,        \* extract processes; the deployment runs one
    Articles,
    Sources,
    SourceOf,       \* articles.source_id
    Players, Clubs, \* the names extraction can produce
    Reports,        \* the usable results extraction can produce
    Rejected,       \* a result below the gate (rejected_by_jev)
    Incomplete,     \* a result naming no player or no destination club
    InitialScore,   \* reliability_score of each source at the start
    MaxFaults       \* bound on failed statements and crashes

\* A rumour is identified by UNIQUE (player_id, to_club_id, transfer_window);
\* a run has a single transfer window.
Threads == Players \X Clubs

ReportType ==
    [player : Players, to : Clubs, from : Clubs \cup {NULL},
     status : Statuses, min : Fees, max : Fees]

\* What articles.extraction can hold; NULL when extraction failed.
Extractions == Reports \cup {Rejected, Incomplete, NULL}

RumourRow ==
    [from : Clubs \cup {NULL}, status : Statuses, min : Fees, max : Fees]

ASSUME ReportAssumption ==
    /\ Reports \subseteq ReportType
    /\ {NULL, Rejected, Incomplete} \cap Reports = {}
    /\ Cardinality({NULL, Rejected, Incomplete}) = 3
    /\ NULL \notin Articles \cup ReportType \cup RumourRow \cup Clubs

ASSUME SourceAssumption ==
    /\ SourceOf \in [Articles -> Sources]
    /\ InitialScore \in [Sources -> 0..100]

ASSUME FaultAssumption == MaxFaults \in Nat

VARIABLES
    processed,      \* articles.processed
    extraction,     \* articles.extraction
    players, clubs, \* names that have a row
    rumours,        \* the row of each thread, or NULL
    events,         \* events[t][a]: the report on thread t's timeline
    score,          \* sources.reliability_score
    pc,             \* the statement each worker executes next
    batch,          \* the listed articles a worker has yet to attempt
    attempted,      \* the articles attempted in a worker's current run
    article,        \* the article a worker is on
    result,         \* what extraction returned for it
    seen,           \* the status UpsertRumour's SELECT found
    written,        \* the status its INSERT returned
    credited,       \* history: nudges that reached a source, per thread
    faults          \* history: failed statements and crashes

queue   == <<processed, extraction>>
names   == <<players, clubs>>
tables  == <<queue, names, rumours, events, score>>
locals  == <<batch, attempted, article, result, seen, written>>
vars    == <<tables, pc, locals, credited, faults>>

Thread(r) == <<r.player, r.to>>

ThreadOf(w) == Thread(result[w])

-----------------------------------------------------------------------------
(* Helpers. *)

\* SELECT DISTINCT source_id FROM rumour_events WHERE rumour_id = t.
Contributors(t) == {SourceOf[a] : a \in {b \in Articles : events[t][b] # NULL}}

Succeeds(w, next) ==
    /\ pc' = [pc EXCEPT ![w] = next]
    /\ UNCHANGED faults

Fails(w, next) ==
    /\ faults < MaxFaults
    /\ faults' = faults + 1
    /\ pc' = [pc EXCEPT ![w] = next]

-----------------------------------------------------------------------------
Init ==
    /\ processed = [a \in Articles |-> FALSE]
    /\ extraction = [a \in Articles |-> NULL]
    /\ players = {} /\ clubs = {}
    /\ rumours = [t \in Threads |-> NULL]
    /\ events = [t \in Threads |-> [a \in Articles |-> NULL]]
    /\ score = InitialScore
    /\ pc = [w \in Workers |-> "idle"]
    /\ batch = [w \in Workers |-> {}]
    /\ attempted = [w \in Workers |-> {}]
    /\ article = [w \in Workers |-> NULL]
    /\ result = [w \in Workers |-> NULL]
    /\ seen = [w \in Workers |-> NULL]
    /\ written = [w \in Workers |-> NULL]
    /\ credited = [t \in Threads |-> 0]
    /\ faults = 0

\* ListUnprocessed, and the articles of the listing this run has not
\* attempted yet.
List(w) ==
    LET fresh == {a \in Articles : ~processed[a]} \ attempted[w]
    IN  /\ pc[w] = "idle"
        /\ batch[w] = {}
        /\ fresh # {}
        /\ batch' = [batch EXCEPT ![w] = fresh]
        /\ UNCHANGED <<tables, pc, attempted, article, result, seen, written,
                       credited, faults>>

\* RunExtract returns (queue drained, capped, interrupted or listing failed)
\* and a later invocation starts with nothing attempted.
EndRun(w) ==
    /\ pc[w] = "idle"
    /\ attempted[w] # {}
    /\ batch' = [batch EXCEPT ![w] = {}]
    /\ attempted' = [attempted EXCEPT ![w] = {}]
    /\ UNCHANGED <<tables, pc, article, result, seen, written, credited, faults>>

\* Extractor.Extract.  It touches no table; it may fail, and it may answer
\* differently when an article is extracted again.
Extract(w) ==
    /\ pc[w] = "idle"
    /\ \E a \in batch[w], x \in Extractions :
          /\ batch' = [batch EXCEPT ![w] = @ \ {a}]
          /\ attempted' = [attempted EXCEPT ![w] = @ \cup {a}]
          /\ article' = [article EXCEPT ![w] = a]
          /\ result' = [result EXCEPT ![w] = x]
          /\ pc' = [pc EXCEPT ![w] = IF x \in Reports THEN "resolve" ELSE "mark"]
    /\ UNCHANGED <<tables, seen, written, credited, faults>>

\* GetOrCreatePlayer, then GetOrCreateClub for the destination and, when the
\* report names one, the club the player would leave.  Each is an idempotent
\* INSERT, so the three commute with every other step; a failure leaves a
\* prefix of them applied.
Resolve(w) ==
    LET r == result[w]
        from == {r.from} \ {NULL}
    IN  /\ pc[w] = "resolve"
        /\ \/ /\ players' = players \cup {r.player}
              /\ clubs' = clubs \cup {r.to} \cup from
              /\ Succeeds(w, "read")
           \/ /\ \E p \in {{}, {r.player}}, c \in {{}, {r.to}, {r.to} \cup from} :
                    /\ c # {} => p # {}
                    /\ players' = players \cup p
                    /\ clubs' = clubs \cup c
              /\ Fails(w, "mark")
        /\ UNCHANGED <<queue, rumours, events, score, locals, credited>>

\* Mutant: the rumour is taken to be new.
ReadRumour_New(w) ==
    /\ pc[w] = "read"
    /\ seen' = [seen EXCEPT ![w] = NULL]
    /\ Succeeds(w, "write")
    /\ UNCHANGED <<tables, batch, attempted, article, result, written, credited>>

\* UpsertRumour's SELECT.
ReadRumour(w) ==
    LET row == rumours[ThreadOf(w)]
    IN  /\ pc[w] = "read"
        /\ \/ /\ seen' = [seen EXCEPT ![w] = IF row = NULL THEN NULL ELSE row.status]
              /\ Succeeds(w, "write")
           \/ /\ UNCHANGED seen
              /\ Fails(w, "mark")
        /\ UNCHANGED <<tables, batch, attempted, article, result, written, credited>>

\* UpsertRumour's INSERT ... ON CONFLICT, with the status decided from what
\* the SELECT saw.
WriteRumour(w) ==
    LET t == ThreadOf(w)
        final == FinalStatus(seen[w], result[w].status)
        upserted == [rumours EXCEPT ![t] = Upserted(@, result[w], final)]
    IN  /\ pc[w] = "write"
        /\ \/ /\ rumours' = upserted
              /\ written' = [written EXCEPT ![w] = final]
              /\ Succeeds(w, "event")
           \/ /\ rumours' \in {rumours, upserted}
              /\ UNCHANGED written
              /\ Fails(w, "mark")
        /\ UNCHANGED <<queue, names, events, score, batch, attempted, article,
                       result, seen, credited>>

\* Mutant: only a report that changes the status is recorded.
InsertEvent_Changes(w) ==
    LET t == ThreadOf(w)
        next == IF JustResolved(seen[w], written[w]) THEN "nudge" ELSE "mark"
    IN  /\ pc[w] = "event"
        /\ events' = IF seen[w] = written[w] \/ rumours[t] = NULL THEN events
                     ELSE [events EXCEPT ![t][article[w]] = result[w]]
        /\ Succeeds(w, next)
        /\ UNCHANGED <<queue, names, rumours, score, locals, credited>>

\* Mutant: no foreign key ties an event to its rumour.
InsertEvent_Loose(w) ==
    /\ pc[w] = "event"
    /\ events' = [events EXCEPT ![ThreadOf(w)][article[w]] = result[w]]
    /\ Succeeds(w, "mark")
    /\ UNCHANGED <<queue, names, rumours, score, locals, credited>>

\* InsertRumourEvent: ON CONFLICT (rumour_id, article_id) DO NOTHING.  The
\* foreign key refuses an event of a rumour that is gone.
InsertEvent(w) ==
    LET t == ThreadOf(w)
        inserted == [events EXCEPT ![t][article[w]] =
                        IF @ = NULL THEN result[w] ELSE @]
        next == IF JustResolved(seen[w], written[w]) THEN "nudge" ELSE "mark"
    IN  /\ pc[w] = "event"
        /\ \/ /\ rumours[t] # NULL
              /\ events' = inserted
              /\ Succeeds(w, next)
           \/ /\ rumours[t] # NULL
              /\ events' \in {events, inserted}
              /\ Fails(w, "mark")
           \/ /\ rumours[t] = NULL
              /\ UNCHANGED events
              /\ Succeeds(w, "mark")
        /\ UNCHANGED <<queue, names, rumours, score, locals, credited>>

\* NudgeSourceReliability, the one-time effect of a resolution.
Nudge(w) ==
    LET t == ThreadOf(w)
        Moved(s) == IF s \in Contributors(t)
                    THEN Clamp(score[s] + Delta(written[w]))
                    ELSE score[s]
        Applied == /\ score' = [s \in Sources |-> Moved(s)]
                   /\ credited' = IF Contributors(t) = {} THEN credited
                                  ELSE [credited EXCEPT ![t] = @ + 1]
    IN  /\ pc[w] = "nudge"
        /\ \/ Applied /\ Succeeds(w, "mark")
           \/ Applied /\ Fails(w, "mark")
           \/ UNCHANGED <<score, credited>> /\ Fails(w, "mark")
        /\ UNCHANGED <<queue, names, rumours, events, locals>>

\* Mutant: a failed extraction leaves the article queued.
Mark_Extracted(w) ==
    LET a == article[w]
    IN  /\ pc[w] = "mark"
        /\ processed' = [processed EXCEPT ![a] = result[w] # NULL]
        /\ extraction' = [extraction EXCEPT ![a] = result[w]]
        /\ Succeeds(w, "idle")
        /\ article' = [article EXCEPT ![w] = NULL]
        /\ result' = [result EXCEPT ![w] = NULL]
        /\ seen' = [seen EXCEPT ![w] = NULL]
        /\ written' = [written EXCEPT ![w] = NULL]
        /\ UNCHANGED <<names, rumours, events, score, batch, attempted, credited>>

\* MarkExtracted, whatever the outcome was.  The UPDATE is unconditional.
Mark(w) ==
    LET a == article[w]
        Marked == /\ processed' = [processed EXCEPT ![a] = TRUE]
                  /\ extraction' = [extraction EXCEPT ![a] = result[w]]
    IN  /\ pc[w] = "mark"
        /\ \/ Marked /\ Succeeds(w, "idle")
           \/ Marked /\ Fails(w, "idle")
           \/ UNCHANGED queue /\ Fails(w, "idle")
        /\ article' = [article EXCEPT ![w] = NULL]
        /\ result' = [result EXCEPT ![w] = NULL]
        /\ seen' = [seen EXCEPT ![w] = NULL]
        /\ written' = [written EXCEPT ![w] = NULL]
        /\ UNCHANGED <<names, rumours, events, score, batch, attempted, credited>>

\* The process dies between two statements; the next one remembers nothing.
Crash(w) ==
    /\ pc[w] # "idle"
    /\ Fails(w, "idle")
    /\ batch' = [batch EXCEPT ![w] = {}]
    /\ attempted' = [attempted EXCEPT ![w] = {}]
    /\ article' = [article EXCEPT ![w] = NULL]
    /\ result' = [result EXCEPT ![w] = NULL]
    /\ seen' = [seen EXCEPT ![w] = NULL]
    /\ written' = [written EXCEPT ![w] = NULL]
    /\ UNCHANGED <<tables, credited>>

\* Everything a running worker does; Crash happens to it.
Work(w) ==
    \/ List(w) \/ EndRun(w) \/ Extract(w) \/ Resolve(w) \/ ReadRumour(w)
    \/ WriteRumour(w) \/ InsertEvent(w) \/ Nudge(w) \/ Mark(w)

Next == \E w \in Workers : Work(w) \/ Crash(w)

Spec == Init /\ [][Next]_vars

\* The assumption UpsertRumour is written under: one extract process, taking
\* one article at a time.
OneWorker == \A v, w \in Workers : v = w

\* The job is scheduled again and again, and a run that is neither done nor
\* dead executes its next statement.
Fairness == \A w \in Workers : WF_vars(Work(w))

FairSpec == Spec /\ Fairness
-----------------------------------------------------------------------------
(* Properties. *)

Steps == {"idle", "resolve", "read", "write", "event", "nudge", "mark"}

\* Every variable stays in its type, and a worker that is past extraction
\* holds the usable report it is filing.
TypeOK ==
    /\ processed \in [Articles -> BOOLEAN]
    /\ extraction \in [Articles -> Extractions]
    /\ players \subseteq Players /\ clubs \subseteq Clubs
    /\ rumours \in [Threads -> RumourRow \cup {NULL}]
    /\ events \in [Threads -> [Articles -> Reports \cup {NULL}]]
    /\ score \in [Sources -> 0..100]
    /\ pc \in [Workers -> Steps]
    /\ batch \in [Workers -> SUBSET Articles]
    /\ attempted \in [Workers -> SUBSET Articles]
    /\ article \in [Workers -> Articles \cup {NULL}]
    /\ result \in [Workers -> Extractions]
    /\ seen \in [Workers -> Statuses \cup {NULL}]
    /\ written \in [Workers -> Statuses \cup {NULL}]
    /\ credited \in [Threads -> Nat]
    /\ faults \in 0..MaxFaults
    /\ \A w \in Workers :
          /\ pc[w] # "idle" => article[w] \in Articles
          /\ pc[w] \notin {"idle", "mark"} => result[w] \in Reports
          /\ pc[w] \in {"event", "nudge"} => written[w] \in Statuses

\* The worker is at a point where it has not yet left every trace of its
\* report on thread t.
Filing(w, t) ==
    /\ pc[w] \in {"read", "write", "event", "nudge"}
    /\ ThreadOf(w) = t

Timeline(t) == {a \in Articles : events[t][a] # NULL}

\* The fee range of a rumour reaches every figure on its timeline, whatever
\* fails or dies and however many workers file reports on it at once: the
\* LEAST/GREATEST of UpsertRumour's INSERT runs before the event exists.
FeeRangeCoversTimeline ==
    \A t \in Threads : \A a \in Timeline(t) :
        rumours[t] # NULL /\ Spans(rumours[t], events[t][a])

\* A rumour is never behind its timeline: it is as far along as the furthest
\* event, and resolved once an event reports a resolution.
StatusCoversTimeline ==
    \A t \in Threads : \A a \in Timeline(t) :
        /\ rumours[t] # NULL
        /\ Progress(events[t][a].status) <= Progress(rumours[t].status)

\* Without faults a rumour is exactly what its timeline says: some event
\* reports its status, and some event each bound of its fee range.
RumourIsItsTimeline ==
    \A t \in Threads :
        faults = 0 /\ rumours[t] # NULL /\ (\A w \in Workers : ~Filing(w, t)) =>
            /\ \E a \in Timeline(t) : events[t][a].status = rumours[t].status
            /\ \/ rumours[t].min = NULL
               \/ \E a \in Timeline(t) : events[t][a].min = rumours[t].min
            /\ \/ rumours[t].max = NULL
               \/ \E a \in Timeline(t) : events[t][a].max = rumours[t].max

\* justResolved is true once per rumour: its sources are credited at most
\* once, and only after it resolved, even when an article is extracted again
\* after a crash.
CreditedAtMostOnce ==
    \A t \in Threads :
        /\ credited[t] <= 1
        /\ credited[t] = 1 =>
              rumours[t] # NULL /\ IsTerminal(rumours[t].status)

\* A resolution is credited unless a statement failed or the process died:
\* nothing retries it, because the next upsert sees the rumour resolved.
ResolutionIsCredited ==
    \A t \in Threads :
        /\ faults = 0
        /\ rumours[t] # NULL /\ IsTerminal(rumours[t].status)
        /\ \A w \in Workers : ~Filing(w, t)
        => credited[t] = 1

ResolvedFor(s, outcome) ==
    {t \in Threads : /\ rumours[t] # NULL
                     /\ rumours[t].status = outcome
                     /\ s \in Contributors(t)}

\* A source's reliability never moves further than the rumours on whose
\* timeline it appears justify: up once per confirmed, down once per
\* collapsed one.
ScoreIsEarned ==
    \A s \in Sources :
        /\ score[s] <= Clamp(InitialScore[s]
              + reliabilityNudge * Cardinality(ResolvedFor(s, "confirmed")))
        /\ score[s] >= Clamp(InitialScore[s]
              - reliabilityNudge * Cardinality(ResolvedFor(s, "collapsed")))

\* Without faults no usable extraction is dropped: an article whose stored
\* extraction names a player and a club is on that thread's timeline.
NoReportDropped ==
    \A a \in Articles :
        faults = 0 /\ processed[a] /\ extraction[a] \in Reports =>
            events[Thread(extraction[a])][a] # NULL

\* A rumour never goes back: later reports leave a resolved rumour's status
\* alone, and move an open one only forward.
StatusMovesForward ==
    [][\A t \in Threads :
          rumours[t] # NULL =>
            /\ rumours'[t] # NULL
            /\ \/ rumours'[t].status = rumours[t].status
               \/ IsForwardTransition(rumours[t].status, rumours'[t].status)]_vars

\* The fee range of a rumour only ever widens, and a figure is never
\* forgotten, even between two workers' upserts.
FeeRangeWidens ==
    [][\A t \in Threads :
          rumours[t] # NULL =>
            rumours'[t] # NULL /\ Spans(rumours'[t], rumours[t])]_vars

Ledger == INSTANCE RumourLedger

\* A single worker's statements implement the ledger: each is a step that
\* decides on the rumour as it is at that moment, or a stutter.
ImplementsLedger == Ledger!Spec

\* Every article is eventually marked processed for good, whatever its
\* extraction gives, once statements stop failing.
EveryArticleProcessed == \A a \in Articles : <>[]processed[a]
=============================================================================
