----------------------------- MODULE IngestProofs -----------------------------
(***************************************************************************)
(* What the scheduled job promises, for any number of jobs, sources and    *)
(* URLs and any number of faults: ingest loses no item of a healthy        *)
(* source, and a job that exits zero lost nothing at all.                  *)
(***************************************************************************)
EXTENDS Ingest, TLAPS

PcValues == {"off", "poll", "insert", "extract", "done"}

TypeOK ==
    /\ feed \in [Sources -> SUBSET URLs]
    /\ articles \in [URLs -> Sources \cup {NULL}]
    /\ pc \in [Jobs -> PcValues]
    /\ todo \in [Jobs -> SUBSET Sources]
    /\ source \in [Jobs -> Sources \cup {NULL}]
    /\ items \in [Jobs -> SUBSET URLs]
    /\ errs \in [Jobs -> BOOLEAN]
    /\ exit \in [Jobs -> {"nil", "error", NULL}]
    /\ parsed \in [Jobs -> [Sources -> (SUBSET URLs) \cup {NULL}]]
    /\ broken \in [Jobs -> SUBSET Sources]
    /\ faults \in Nat

\* An item the job saw in the feed of s is stored, or the next one to insert.
Accounted(j, s, u) ==
    articles[u] # NULL \/ (pc[j] = "insert" /\ source[j] = s /\ u \in items[j])

\* A source that did not fail is still to be polled, or all it had is
\* accounted for.
SourceOK(j, s) ==
    \/ s \in todo[j]
    \/ parsed[j][s] # NULL /\ \A u \in parsed[j][s] : Accounted(j, s, u)

JobOK(j) ==
    /\ pc[j] # "off" => \A s \in Sources \ broken[j] : SourceOK(j, s)
    /\ pc[j] \in {"extract", "done"} => todo[j] = {}
    /\ pc[j] = "insert" => source[j] \in Sources
    /\ broken[j] # {} => errs[j]
    /\ exit[j] = "nil" => pc[j] = "done" /\ ~errs[j]

JobsOK == \A j \in Jobs : JobOK(j)

Inv == TypeOK /\ JobsOK

-----------------------------------------------------------------------------
\* ON CONFLICT DO NOTHING: an insert stores its URL, keeps every other row and
\* takes no stored article back.
LEMMA StoredKeeps ==
    ASSUME articles \in [URLs -> Sources \cup {NULL}],
           NEW u \in URLs, NEW s \in Sources
    PROVE  /\ Stored(u, s) \in [URLs -> Sources \cup {NULL}]
           /\ Stored(u, s)[u] # NULL
           /\ \A v \in URLs : articles[v] # NULL => Stored(u, s)[v] # NULL
BY NullAssumption DEF Stored

\* Before any job starts there is nothing to account for.
LEMMA InvInit == Init => Inv
BY NullAssumption, FaultAssumption DEF Init, Inv, TypeOK, JobsOK, JobOK, PcValues

\* Every step keeps the variables in their types.
LEMMA TypeStep == TypeOK /\ JobsOK /\ [Next]_vars => TypeOK'
<1> SUFFICES ASSUME TypeOK, JobsOK, [Next]_vars PROVE TypeOK'
    OBVIOUS
<1> USE DEF TypeOK, PcValues
<1>1. ASSUME NEW s \in Sources, Publish(s) \/ Rotate(s) PROVE TypeOK'
    <2>1. feed' \in [Sources -> SUBSET URLs]
        <3>1. Carries[s] \in SUBSET URLs /\ feed[s] \in SUBSET URLs
            BY CarriesAssumption
        <3>2. PICK S \in SUBSET URLs : feed' = [feed EXCEPT ![s] = S]
            BY <1>1, <3>1 DEF Publish, Rotate
        <3> QED
            BY <3>2
    <2> QED
        BY <1>1, <2>1 DEF Publish, Rotate, job
<1>2. ASSUME NEW j \in Jobs, ListSources(j) PROVE TypeOK'
    <2>1. [s \in Sources |-> NULL] \in [Sources -> (SUBSET URLs) \cup {NULL}]
        OBVIOUS
    <2>2. parsed' \in [Jobs -> [Sources -> (SUBSET URLs) \cup {NULL}]]
        BY <1>2, <2>1 DEF ListSources, Set
    <2>3. UNCHANGED <<feed, articles, source, items>>
        BY <1>2 DEF ListSources
    <2>5. \/ UNCHANGED faults
          \/ faults' = faults + 1
        BY <1>2 DEF ListSources, Fault
    <2>4. todo' \in [Jobs -> SUBSET Sources] /\ broken' \in [Jobs -> SUBSET Sources]
        <3>1. {} \in SUBSET Sources /\ Sources \in SUBSET Sources
            OBVIOUS
        <3>2. /\ todo' \in {Set(todo, j, Sources), Set(todo, j, {})}
              /\ broken' \in {Set(broken, j, Sources), Set(broken, j, {})}
            BY <1>2 DEF ListSources
        <3>3. \A S \in SUBSET Sources : /\ Set(todo, j, S) \in [Jobs -> SUBSET Sources]
                                       /\ Set(broken, j, S) \in [Jobs -> SUBSET Sources]
            BY DEF Set
        <3> QED
            BY <3>1, <3>2, <3>3
    <2>6. pc' \in [Jobs -> PcValues] /\ exit' \in [Jobs -> {"nil", "error", NULL}]
        BY <1>2 DEF ListSources, Set
    <2>7. errs' \in [Jobs -> BOOLEAN]
        BY <1>2 DEF ListSources, Set
    <2> QED
        BY <2>2, <2>3, <2>4, <2>5, <2>6, <2>7
<1>3. ASSUME NEW j \in Jobs, ParseFeed(j) PROVE TypeOK'
    <2>1. PICK s \in todo[j] :
              /\ todo' = [todo EXCEPT ![j] = @ \ {s}]
              /\ \/ /\ source' = Set(source, j, s)
                    /\ items' = Set(items, j, Items(s))
                    /\ parsed' = [parsed EXCEPT ![j][s] = feed[s]]
                    /\ pc' = Set(pc, j, "insert")
                    /\ UNCHANGED <<errs, broken, faults>>
                 \/ /\ Fault
                    /\ errs' = Set(errs, j, TRUE)
                    /\ broken' = [broken EXCEPT ![j] = @ \cup {s}]
                    /\ UNCHANGED <<source, items, parsed, pc>>
        BY <1>3 DEF ParseFeed
    <2>2. s \in Sources /\ UNCHANGED <<feed, articles, exit>>
        BY <1>3 DEF ParseFeed
    <2>3. parsed' \in [Jobs -> [Sources -> (SUBSET URLs) \cup {NULL}]]
        <3>1. parsed' \in {parsed, Set(parsed, j, [parsed[j] EXCEPT ![s] = feed[s]])}
            BY <2>1 DEF Set
        <3>2. [parsed[j] EXCEPT ![s] = feed[s]] \in [Sources -> (SUBSET URLs) \cup {NULL}]
            BY <2>2
        <3> QED
            BY <3>1, <3>2 DEF Set
    <2>4. source' \in [Jobs -> Sources \cup {NULL}] /\ items' \in [Jobs -> SUBSET URLs]
        <3>1. feed[s] \in SUBSET URLs
            BY <2>2
        <3>2. source' \in {source, [source EXCEPT ![j] = s]}
            BY <2>1 DEF Set
        <3>3. source' \in [Jobs -> Sources \cup {NULL}]
            BY <2>2, <3>2
        <3>4. items' \in {items, Set(items, j, feed[s])}
            BY <2>1 DEF Items
        <3> QED
            BY <3>1, <3>3, <3>4 DEF Set
    <2>5. todo' \in [Jobs -> SUBSET Sources]
        BY <2>1, <2>2
    <2>6. broken' \in [Jobs -> SUBSET Sources]
        <3>1. broken' \in {broken, Set(broken, j, broken[j] \cup {s})}
            BY <2>1 DEF Set
        <3>2. broken[j] \cup {s} \in SUBSET Sources
            BY <2>2
        <3> QED
            BY <3>1, <3>2 DEF Set
    <2>7. pc' \in [Jobs -> PcValues] /\ faults' \in Nat
        BY <2>1, <2>2 DEF Set, Fault
    <2>8. errs' \in [Jobs -> BOOLEAN]
        BY <2>1, <2>2 DEF Set
    <2> QED
        BY <2>2, <2>3, <2>4, <2>5, <2>6, <2>7, <2>8
<1>4. ASSUME NEW j \in Jobs, InsertArticle(j) PROVE TypeOK'
    <2>1. source[j] \in Sources
        BY <1>4 DEF InsertArticle, JobsOK, JobOK
    <2>2. PICK u \in items[j] :
              /\ items' = [items EXCEPT ![j] = @ \ {u}]
              /\ articles' \in {articles, Stored(u, source[j])}
              /\ \/ UNCHANGED <<errs, broken, faults>>
                 \/ /\ Fault
                    /\ errs' = Set(errs, j, TRUE)
                    /\ broken' = [broken EXCEPT ![j] = @ \cup {source[j]}]
        BY <1>4 DEF InsertArticle
    <2>3. u \in URLs /\ UNCHANGED <<feed, pc, todo, source, exit, parsed>>
        BY <1>4 DEF InsertArticle
    <2>4. articles' \in [URLs -> Sources \cup {NULL}]
        BY <2>1, <2>2, <2>3, StoredKeeps
    <2>5. items' \in [Jobs -> SUBSET URLs]
        BY <2>2
    <2>6. broken' \in [Jobs -> SUBSET Sources]
        <3>1. broken' \in {broken, Set(broken, j, broken[j] \cup {source[j]})}
            BY <2>2 DEF Set
        <3>2. broken[j] \cup {source[j]} \in SUBSET Sources
            BY <2>1
        <3> QED
            BY <3>1, <3>2 DEF Set
    <2>7. errs' \in [Jobs -> BOOLEAN]
        BY <2>2 DEF Set
    <2>8. faults' \in Nat
        <3>1. faults' = faults \/ faults' = faults + 1
            BY <2>2 DEF Fault
        <3> QED
            BY <3>1
    <2> QED
        BY <2>3, <2>4, <2>5, <2>6, <2>7, <2>8
<1>5. ASSUME NEW j \in Jobs, SourceDone(j) \/ IngestDone(j) \/ ExtractDone(j)
      PROVE  TypeOK'
    BY <1>5 DEF SourceDone, IngestDone, ExtractDone, Set
<1>6. CASE UNCHANGED vars
    BY <1>6 DEF vars, job
<1> QED
    BY <1>1, <1>2, <1>3, <1>4, <1>5, <1>6 DEF Next, Run

\* No step takes a stored article back: jobs do not disturb each other's books.
LEMMA StoredForever ==
    TypeOK /\ JobsOK /\ [Next]_vars =>
        \A v \in URLs : articles[v] # NULL => articles'[v] # NULL
<1> SUFFICES ASSUME TypeOK, JobsOK, [Next]_vars, NEW v \in URLs, articles[v] # NULL
             PROVE  articles'[v] # NULL
    OBVIOUS
<1>1. ASSUME NEW j \in Jobs, InsertArticle(j) PROVE articles'[v] # NULL
    <2>1. source[j] \in Sources
        BY <1>1 DEF InsertArticle, JobsOK, JobOK
    <2>2. PICK u \in items[j] : articles' \in {articles, Stored(u, source[j])}
        BY <1>1 DEF InsertArticle
    <2>3. u \in URLs
        BY DEF TypeOK
    <2> QED
        BY <2>1, <2>2, <2>3, StoredKeeps DEF TypeOK
<1>2. CASE articles' = articles
    BY <1>2
<1> QED
    BY <1>1, <1>2 DEF Next, Run, Publish, Rotate, ListSources, ParseFeed, SourceDone,
                      IngestDone, ExtractDone, vars

-----------------------------------------------------------------------------
\* A job's own books stay right when something else takes a step.
LEMMA OthersStep ==
    ASSUME TypeOK, JobsOK, [Next]_vars, NEW j \in Jobs,
           pc'[j] = pc[j], todo'[j] = todo[j], source'[j] = source[j],
           items'[j] = items[j], errs'[j] = errs[j], exit'[j] = exit[j],
           parsed'[j] = parsed[j], broken'[j] = broken[j]
    PROVE  JobOK(j)'
<1>1. JobOK(j)
    BY DEF JobsOK
<1>2. \A v \in URLs : articles[v] # NULL => articles'[v] # NULL
    BY StoredForever
<1>3. \A s \in Sources : parsed[j][s] # NULL => parsed[j][s] \subseteq URLs
    BY DEF TypeOK
<1> QED
    BY <1>1, <1>2, <1>3 DEF JobOK, SourceOK, Accounted

\* A job's own step keeps its books.
LEMMA OwnStep ==
    ASSUME TypeOK, JobsOK, NEW j \in Jobs, Run(j)
    PROVE  JobOK(j)'
<1> USE DEF TypeOK
<1>1. JobOK(j)
    BY DEF JobsOK
<1>2. \A v \in URLs : articles[v] # NULL => articles'[v] # NULL
    BY StoredForever DEF Next
<1>3. \A s \in Sources : parsed[j][s] # NULL => parsed[j][s] \subseteq URLs
    OBVIOUS
<1>4. CASE ListSources(j)
    BY <1>4, NullAssumption DEF ListSources, Set, JobOK, SourceOK
<1>5. CASE ParseFeed(j)
    <2>1. PICK s \in todo[j] :
              /\ todo' = [todo EXCEPT ![j] = @ \ {s}]
              /\ \/ /\ source' = Set(source, j, s)
                    /\ items' = Set(items, j, Items(s))
                    /\ parsed' = [parsed EXCEPT ![j][s] = feed[s]]
                    /\ pc' = Set(pc, j, "insert")
                    /\ UNCHANGED <<errs, broken, faults>>
                 \/ /\ Fault
                    /\ errs' = Set(errs, j, TRUE)
                    /\ broken' = [broken EXCEPT ![j] = @ \cup {s}]
                    /\ UNCHANGED <<source, items, parsed, pc>>
        BY <1>5 DEF ParseFeed
    <2>2. s \in Sources /\ pc[j] = "poll" /\ exit' = exit /\ articles' = articles
        BY <1>5 DEF ParseFeed
    <2>3. CASE parsed' = [parsed EXCEPT ![j][s] = feed[s]]
               /\ source' = Set(source, j, s) /\ items' = Set(items, j, Items(s))
               /\ pc' = Set(pc, j, "insert") /\ UNCHANGED <<errs, broken>>
        <3>1. pc'[j] = "insert" /\ source'[j] = s /\ items'[j] = feed[s]
              /\ parsed'[j][s] = feed[s] /\ feed[s] # NULL
              /\ \A t \in Sources \ {s} : parsed'[j][t] = parsed[j][t]
              /\ todo'[j] = todo[j] \ {s}
            BY <2>1, <2>2, <2>3, NullAssumption DEF Set, Items
        <3>2. SourceOK(j, s)'
            BY <3>1 DEF SourceOK, Accounted
        <3>3. \A t \in Sources \ (broken[j] \cup {s}) : SourceOK(j, t)'
            BY <1>1, <2>2, <3>1 DEF JobOK, SourceOK, Accounted
        <3> QED
            BY <1>1, <2>2, <2>3, <3>1, <3>2, <3>3 DEF JobOK
    <2>4. CASE errs' = Set(errs, j, TRUE) /\ broken' = [broken EXCEPT ![j] = @ \cup {s}]
               /\ UNCHANGED <<source, items, parsed, pc>>
        BY <1>1, <2>1, <2>2, <2>4 DEF JobOK, SourceOK, Accounted, Set
    <2> QED
        BY <2>1, <2>3, <2>4
<1>6. CASE InsertArticle(j)
    <2>1. source[j] \in Sources /\ pc[j] = "insert"
        BY <1>1, <1>6 DEF InsertArticle, JobOK
    <2>2. PICK u \in items[j] :
              /\ items' = [items EXCEPT ![j] = @ \ {u}]
              /\ \/ /\ articles' = Stored(u, source[j])
                    /\ UNCHANGED <<errs, broken, faults>>
                 \/ /\ Fault
                    /\ articles' \in {articles, Stored(u, source[j])}
                    /\ errs' = Set(errs, j, TRUE)
                    /\ broken' = [broken EXCEPT ![j] = @ \cup {source[j]}]
        BY <1>6 DEF InsertArticle
    <2>3. u \in URLs /\ UNCHANGED <<feed, pc, todo, source, exit, parsed>>
        BY <1>6 DEF InsertArticle
    <2>4. CASE articles' = Stored(u, source[j]) /\ UNCHANGED <<errs, broken>>
        <3>1. articles'[u] # NULL
            BY <2>1, <2>3, <2>4, StoredKeeps
        <3>2. ASSUME NEW s \in Sources \ broken[j] PROVE SourceOK(j, s)'
            <4>1. SourceOK(j, s)
                BY <1>1, <2>1 DEF JobOK
            <4>2. \A v \in URLs : Accounted(j, s, v) => Accounted(j, s, v)'
                BY <1>2, <2>2, <2>3, <3>1 DEF Accounted
            <4> QED
                BY <1>3, <2>3, <4>1, <4>2 DEF SourceOK
        <3> QED
            BY <1>1, <2>1, <2>3, <2>4, <3>2 DEF JobOK
    <2>5. CASE errs' = Set(errs, j, TRUE)
               /\ broken' = [broken EXCEPT ![j] = @ \cup {source[j]}]
        <3>1. broken'[j] = broken[j] \cup {source[j]} /\ errs'[j]
            BY <2>5 DEF Set
        <3>2. ASSUME NEW s \in Sources \ broken'[j] PROVE SourceOK(j, s)'
            <4>1. SourceOK(j, s) /\ s # source[j]
                BY <1>1, <2>1, <3>1 DEF JobOK
            <4>2. \A v \in URLs : Accounted(j, s, v) => Accounted(j, s, v)'
                BY <1>2, <2>3, <4>1 DEF Accounted
            <4> QED
                BY <1>3, <2>3, <4>1, <4>2 DEF SourceOK
        <3> QED
            BY <1>1, <2>1, <2>3, <3>1, <3>2 DEF JobOK
    <2> QED
        BY <2>2, <2>4, <2>5
<1>7. CASE SourceDone(j)
    BY <1>1, <1>3, <1>7 DEF SourceDone, Set, JobOK, SourceOK, Accounted
<1>8. CASE IngestDone(j)
    BY <1>1, <1>3, <1>8 DEF IngestDone, Set, JobOK, SourceOK, Accounted
<1>9. CASE ExtractDone(j)
    BY <1>1, <1>3, <1>9, NullAssumption DEF ExtractDone, Set, JobOK, SourceOK, Accounted
<1> QED
    BY <1>4, <1>5, <1>6, <1>7, <1>8, <1>9 DEF Run

\* A step is one job's, and leaves what the other jobs hold alone.
LEMMA JobsStep == TypeOK /\ JobsOK /\ [Next]_vars => JobsOK'
<1> SUFFICES ASSUME TypeOK, JobsOK, [Next]_vars, NEW j \in Jobs PROVE JobOK(j)'
    BY DEF JobsOK
<1>1. CASE Run(j)
    BY <1>1, OwnStep
<1>2. ASSUME NEW i \in Jobs \ {j}, Run(i) PROVE JobOK(j)'
    <2>1. pc'[j] = pc[j] /\ todo'[j] = todo[j] /\ source'[j] = source[j]
          /\ items'[j] = items[j] /\ errs'[j] = errs[j] /\ exit'[j] = exit[j]
          /\ parsed'[j] = parsed[j] /\ broken'[j] = broken[j]
        BY <1>2 DEF TypeOK, Run, ListSources, ParseFeed, InsertArticle, SourceDone,
                    IngestDone, ExtractDone, Set
    <2> QED
        BY <2>1, OthersStep
<1>3. CASE UNCHANGED job
    BY <1>3, OthersStep DEF job
<1> QED
    BY <1>1, <1>2, <1>3 DEF Next, Publish, Rotate, vars

\* The books are right in every reachable state.
THEOREM InvHolds == Spec => []Inv
<1>1. Inv /\ [Next]_vars => Inv'
    BY TypeStep, JobsStep DEF Inv
<1> QED
    BY InvInit, <1>1, PTL DEF Spec

\* A finished ingest has polled every source none of whose calls failed and
\* stored each item it found there, whatever failed elsewhere and whatever
\* other jobs did (PollOnce).
THEOREM HealthySourcesHarvested == Spec => []OtherSourcesUnharmed
<1>1. Inv => OtherSourcesUnharmed
    BY DEF Inv, TypeOK, JobsOK, JobOK, SourceOK, Accounted, OtherSourcesUnharmed,
           Harvested
<1> QED
    BY <1>1, InvHolds, PTL

\* A job that exits zero polled every source and lost no item of any
\* (pipeline.Run).
THEOREM ZeroExitIsComplete == Spec => []CleanExitLostNothing
<1>1. Inv => CleanExitLostNothing
    BY DEF Inv, TypeOK, JobsOK, JobOK, SourceOK, Accounted, CleanExitLostNothing,
           Harvested
<1> QED
    BY <1>1, InvHolds, PTL
=============================================================================
