------------------------------ MODULE DrainProofs ------------------------------
(***************************************************************************)
(* What RunExtract promises, for any number of articles, batch size, cap   *)
(* and set of unmarkable articles, and any number of faults: a run pays    *)
(* for no article twice, does not cap a drained queue, counts what it      *)
(* leaves behind, and drains what it listed unless unmarkable articles     *)
(* fill its batches.                                                       *)
(***************************************************************************)
EXTENDS Drain, FiniteSetTheorems, WellFoundedInduction, TLAPS

TypeOK ==
    /\ arrived \in 0..NumArticles
    /\ processed \in SUBSET (1..arrived)
    /\ pc \in {"off", "list", "next", "mark", "done"}
    /\ fresh \in SUBSET (1..arrived)
    /\ short \in BOOLEAN
    /\ attempted \in SUBSET (1..arrived)
    /\ current \in 0..arrived
    /\ total \in Nat /\ unmarked \in Nat /\ skipped \in Nat
    /\ capped \in BOOLEAN /\ cancelled \in BOOLEAN
    /\ result \in {"running", "nil", "error"}
    /\ horizon \in 0..arrived

\* The batch in hand is queued and not attempted yet; every article attempted
\* was counted, under the cap.
BatchOK ==
    /\ fresh \subseteq Unprocessed \ attempted
    /\ total <= MaxArticles
    /\ Cardinality(attempted) = total
    /\ pc = "mark" => current \in attempted /\ total > 0

\* Attempts left unprocessed were counted, but for the one being marked.
LeftOver == (attempted \ processed) \ (IF pc = "mark" THEN {current} ELSE {})

CountOK == Cardinality(LeftOver) <= unmarked

\* A short listing held the whole queue.
ShortOK ==
    pc \in {"next", "mark"} /\ short =>
        (1..horizon) \ processed \subseteq attempted \cup fresh

ReturnOK ==
    /\ capped => pc = "done"
    /\ result # "running" <=> pc = "done"

Inv ==
    /\ TypeOK /\ BatchOK /\ CountOK /\ ShortOK /\ ReturnOK
    /\ CappedLeavesArticles /\ CleanRunDrainsTheQueue

-----------------------------------------------------------------------------
\* A set of articles has an oldest one, and Min finds it.
LEMMA MinIsLeast ==
    ASSUME NEW S \in SUBSET Nat, S # {}
    PROVE  Min(S) \in S /\ \A y \in S : Min(S) <= y
<1> DEFINE R == {ss \in Nat \X Nat : ss[1] < ss[2]}
<1>1. IsWellFoundedOn(R, Nat)
    BY NatLessThanWellFounded DEF OpToRel
<1>2. \A x, y \in Nat : y < x => <<y, x>> \in R
    OBVIOUS
<1> HIDE DEF R
<1>3. \E x \in S : \A y \in S : ~(<<y, x>> \in R)
    BY <1>1, WFMin
<1>4. \E x \in S : \A y \in S : x <= y
    <2>1. PICK x \in S : \A y \in S : ~(<<y, x>> \in R)
        BY <1>3
    <2>2. ASSUME NEW y \in S PROVE x <= y
        <3>1. x \in Nat /\ y \in Nat
            OBVIOUS
        <3>2. ~(y < x)
            BY <1>2, <2>1, <3>1
        <3> QED
            BY <3>1, <3>2
    <2> QED
        BY <2>2
<1> QED
    BY <1>4 DEF Min

\* Part of a finite set is finite and no larger.
LEMMA Part ==
    ASSUME NEW S, IsFiniteSet(S), NEW T \in SUBSET S
    PROVE  /\ IsFiniteSet(T)
           /\ Cardinality(T) \in Nat /\ Cardinality(S) \in Nat
           /\ Cardinality(T) <= Cardinality(S)
BY FS_Subset, FS_CardinalityType

\* The stored articles are finitely many.
LEMMA Finite ==
    ASSUME TypeOK, NEW S \in SUBSET (1..arrived)
    PROVE  /\ IsFiniteSet(S)
           /\ Cardinality(S) \in Nat
<1>1. IsFiniteSet(1..arrived)
    BY FS_Interval, ParameterAssumption DEF TypeOK
<1> QED
    BY <1>1, Part

\* ORDER BY fetched_at LIMIT n: fewer than n rows are all the rows there are.
LEMMA ShortListingIsAll ==
    ASSUME NEW S \in SUBSET Nat, IsFiniteSet(S), NEW n \in Nat,
           Cardinality(Oldest(S, n)) < n
    PROVE  Oldest(S, n) = S
<1> DEFINE Rest == S \ Oldest(S, n)
<1> SUFFICES ASSUME Rest # {} PROVE FALSE
    BY DEF Oldest
<1>1. PICK m \in Rest : \A y \in Rest : m <= y
    BY MinIsLeast
<1> DEFINE Before == {b \in S : b < m}
<1>2. Before \subseteq Oldest(S, n)
    <2> SUFFICES ASSUME NEW b \in S, b < m PROVE b \in Oldest(S, n)
        OBVIOUS
    <2>1. b \in Nat /\ m \in Nat
        OBVIOUS
    <2>2. ~(m <= b)
        BY <2>1
    <2> QED
        BY <1>1, <2>2
<1>3. IsFiniteSet(Oldest(S, n)) /\ IsFiniteSet(Before)
    BY Part DEF Oldest
<1>4. ~(Cardinality(Before) < n)
    BY <1>1 DEF Oldest
<1>5. Cardinality(Before) <= Cardinality(Oldest(S, n))
    BY <1>2, <1>3, Part
<1> QED
    BY <1>3, <1>4, <1>5, FS_CardinalityType

\* The fresh articles of a batch have an oldest one.
LEMMA NextArticle ==
    ASSUME TypeOK, BatchOK, fresh # {}
    PROVE  /\ Min(fresh) \in fresh
           /\ Min(fresh) \in 1..arrived
           /\ Min(fresh) \notin attempted /\ Min(fresh) \notin processed
<1>1. fresh \in SUBSET Nat
    BY ParameterAssumption DEF TypeOK
<1> QED
    BY <1>1, MinIsLeast DEF TypeOK, BatchOK, Unprocessed

-----------------------------------------------------------------------------
\* A run that has not started promises nothing yet.
LEMMA InvInit == Init => Inv
<1> SUFFICES ASSUME Init PROVE Inv
    OBVIOUS
<1>1. TypeOK
    <2>1. arrived \in 0..NumArticles /\ arrived \in Nat
        BY ParameterAssumption DEF Init, Articles
    <2>2. processed \in SUBSET (1..arrived) /\ fresh \in SUBSET (1..arrived)
          /\ attempted \in SUBSET (1..arrived)
        BY DEF Init
    <2>3. current \in 0..arrived /\ horizon \in 0..arrived
        BY <2>1 DEF Init
    <2> QED
        BY <2>1, <2>2, <2>3 DEF Init, TypeOK
<1>2. Cardinality(attempted) = 0 /\ Cardinality(LeftOver) = 0
    <2>1. LeftOver = {}
        BY DEF Init, LeftOver
    <2> QED
        BY <2>1, FS_EmptySet DEF Init
<1> QED
    BY <1>1, <1>2, ParameterAssumption
    DEF Init, Inv, BatchOK, CountOK, ShortOK, ReturnOK, CappedLeavesArticles,
        CleanRunDrainsTheQueue

\* Every step keeps the variables in their types.
LEMMA TypeStep == TypeOK /\ BatchOK /\ [Next]_vars => TypeOK'
<1> SUFFICES ASSUME TypeOK, BatchOK, [Next]_vars PROVE TypeOK'
    OBVIOUS
<1> USE ParameterAssumption DEF TypeOK
<1>1. CASE Arrive
    BY <1>1 DEF Arrive, run, stats
<1>2. CASE Start
    <2>1. 0 \in 0..arrived
        BY DEF TypeOK
    <2> QED
        BY <1>2, <2>1 DEF Start
<1>3. CASE Cancel
    BY <1>3 DEF Cancel, run, stats
<1>4. CASE List
    BY <1>4 DEF List, ListUnprocessed, Oldest, Unprocessed, Return, stats
<1>5. CASE ListFails
    BY <1>5 DEF ListFails, Return, stats
<1>6. CASE Cap
    BY <1>6 DEF Cap, Return
<1>7. CASE Interrupted
    BY <1>7, Finite DEF Interrupted, Return
<1>8. CASE Attempt
    <2>1. Min(fresh) \in 1..arrived
        BY <1>8, NextArticle DEF Attempt
    <2>2. /\ attempted' = attempted \cup {Min(fresh)} /\ current' = Min(fresh)
          /\ fresh' = fresh \ {Min(fresh)} /\ total' = total + 1 /\ pc' = "mark"
          /\ UNCHANGED <<arrived, processed, short, unmarked, skipped, capped,
                         cancelled, result, horizon>>
        BY <1>8 DEF Attempt
    <2>3. attempted' \in SUBSET (1..arrived') /\ fresh' \in SUBSET (1..arrived')
        BY <2>1, <2>2
    <2>4. current' \in 0..arrived' /\ total' \in Nat
        BY <2>1, <2>2
    <2> QED
        BY <2>2, <2>3, <2>4
<1>9. CASE Mark
    BY <1>9 DEF Mark, BatchOK, stats
<1>10. CASE MarkFails
    <2>1. current \in attempted
        BY <1>10 DEF MarkFails, BatchOK
    <2>2. processed' \in {processed, processed \cup {current}}
        BY <1>10 DEF MarkFails
    <2>3. processed' \in SUBSET (1..arrived)
        BY <2>1, <2>2
    <2> QED
        BY <1>10, <2>3 DEF MarkFails
<1>11. CASE BatchDone
    BY <1>11 DEF BatchDone, Return, stats
<1>12. CASE UNCHANGED vars
    BY <1>12 DEF vars, run, stats
<1> QED
    BY <1>1, <1>2, <1>3, <1>4, <1>5, <1>6, <1>7, <1>8, <1>9, <1>10, <1>11, <1>12
    DEF Next, RunExtract

\* No step attempts an article twice or beyond the cap.
LEMMA BatchStep == TypeOK /\ BatchOK /\ [Next]_vars => BatchOK'
<1> SUFFICES ASSUME TypeOK, BatchOK, [Next]_vars PROVE BatchOK'
    OBVIOUS
<1> USE DEF BatchOK, Unprocessed
<1>1. CASE Arrive
    BY <1>1, ParameterAssumption DEF Arrive, run, stats, TypeOK
<1>2. CASE Start
    BY <1>2, FS_EmptySet, ParameterAssumption DEF Start
<1>3. CASE List
    BY <1>3 DEF List, ListUnprocessed, Oldest, Return, stats
<1>4. CASE Attempt
    <2>1. Cardinality(attempted \cup {Min(fresh)}) = total + 1
        BY <1>4, NextArticle, Finite, FS_AddElement DEF Attempt, TypeOK
    <2>2. total + 1 <= MaxArticles
        BY <1>4, ParameterAssumption DEF Attempt, TypeOK
    <2>3. /\ fresh' = fresh \ {Min(fresh)}
          /\ attempted' = attempted \cup {Min(fresh)}
          /\ current' = Min(fresh) /\ total' = total + 1 /\ total \in Nat
          /\ UNCHANGED <<arrived, processed>>
        BY <1>4 DEF Attempt, TypeOK
    <2>4. fresh' \subseteq Unprocessed' \ attempted'
        BY <2>3
    <2>5. Cardinality(attempted') = total'
        BY <2>1, <2>3
    <2>6. total' <= MaxArticles /\ total' > 0 /\ current' \in attempted'
        BY <2>2, <2>3
    <2> QED
        BY <2>4, <2>5, <2>6
<1>5. CASE Mark \/ MarkFails
    BY <1>5 DEF Mark, MarkFails, stats
<1>6. CASE Cancel \/ ListFails \/ Cap \/ Interrupted \/ BatchDone \/ UNCHANGED vars
    BY <1>6 DEF Cancel, ListFails, Cap, Interrupted, BatchDone, Return, vars, run, stats
<1> QED
    BY <1>1, <1>2, <1>3, <1>4, <1>5, <1>6 DEF Next, RunExtract

\* No step leaves an attempt unprocessed and uncounted.
LEMMA CountStep == TypeOK /\ BatchOK /\ CountOK /\ [Next]_vars => CountOK'
<1> SUFFICES ASSUME TypeOK, BatchOK, CountOK, [Next]_vars PROVE CountOK'
    OBVIOUS
<1> USE DEF CountOK
<1>1. IsFiniteSet(attempted) /\ IsFiniteSet(LeftOver)
      /\ Cardinality(LeftOver) \in Nat
    BY Finite DEF TypeOK, LeftOver
<1>2. ASSUME LeftOver' \subseteq LeftOver, unmarked' = unmarked PROVE CountOK'
    BY <1>1, <1>2, Part DEF TypeOK
<1>3. CASE Start
    <2>1. LeftOver' = {}
        BY <1>3 DEF Start, LeftOver
    <2> QED
        BY <1>3, <2>1, FS_EmptySet DEF Start
<1>4. CASE Attempt
    <2>1. LeftOver' = LeftOver
        BY <1>4, NextArticle DEF Attempt, LeftOver
    <2> QED
        BY <1>2, <1>4, <2>1 DEF Attempt
<1>5. CASE Mark
    <2>1. LeftOver' \subseteq LeftOver
        BY <1>5 DEF Mark, LeftOver
    <2> QED
        BY <1>2, <1>5, <2>1 DEF Mark, stats
<1>6. CASE MarkFails
    <2>1. LeftOver' \subseteq LeftOver \cup {current}
        BY <1>6 DEF MarkFails, LeftOver
    <2>2. Cardinality(LeftOver \cup {current}) <= Cardinality(LeftOver) + 1
          /\ IsFiniteSet(LeftOver \cup {current})
        <3>1. /\ IsFiniteSet(LeftOver \cup {current})
              /\ Cardinality(LeftOver \cup {current}) =
                    IF current \in LeftOver THEN Cardinality(LeftOver)
                    ELSE Cardinality(LeftOver) + 1
            BY <1>1, FS_AddElement
        <3> QED
            BY <1>1, <3>1
    <2>3. Cardinality(LeftOver') <= Cardinality(LeftOver \cup {current})
          /\ Cardinality(LeftOver') \in Nat
          /\ Cardinality(LeftOver \cup {current}) \in Nat
        BY <2>1, <2>2, Part
    <2> QED
        BY <1>1, <1>6, <2>2, <2>3 DEF MarkFails, TypeOK
<1>7. CASE Arrive \/ Cancel \/ List \/ ListFails \/ Cap \/ Interrupted \/ BatchDone
           \/ UNCHANGED vars
    <2>1. /\ UNCHANGED <<attempted, processed, current, unmarked>>
          /\ pc = "mark" <=> pc' = "mark"
        BY <1>7 DEF Arrive, Cancel, List, ListFails, Cap, Interrupted, BatchDone,
                    Return, vars, run, stats
    <2> QED
        BY <2>1 DEF LeftOver
<1> QED
    BY <1>3, <1>4, <1>5, <1>6, <1>7 DEF Next, RunExtract

\* No step forgets an article of a short batch.
LEMMA ShortStep == TypeOK /\ BatchOK /\ ShortOK /\ [Next]_vars => ShortOK'
<1> SUFFICES ASSUME TypeOK, BatchOK, ShortOK, [Next]_vars PROVE ShortOK'
    OBVIOUS
<1> USE DEF ShortOK
<1>1. CASE List
    <2>1. Unprocessed \in SUBSET Nat /\ IsFiniteSet(Unprocessed)
        BY Finite, ParameterAssumption DEF TypeOK, Unprocessed
    <2>2. short' => ListUnprocessed = Unprocessed
        BY <1>1, <2>1, ShortListingIsAll, ParameterAssumption DEF List, ListUnprocessed
    <2> QED
        BY <1>1, <2>2 DEF List, Unprocessed
<1>2. CASE Attempt
    BY <1>2 DEF Attempt
<1>3. CASE Mark \/ MarkFails
    BY <1>3 DEF Mark, MarkFails, stats
<1>4. CASE Arrive \/ Cancel \/ UNCHANGED vars
    BY <1>4 DEF Arrive, Cancel, vars, run, stats
<1>5. CASE Start \/ ListFails \/ Cap \/ Interrupted \/ BatchDone
    BY <1>5 DEF Start, ListFails, Cap, Interrupted, BatchDone, Return
<1> QED
    BY <1>1, <1>2, <1>3, <1>4, <1>5 DEF Next, RunExtract

\* A run returns once.
LEMMA ReturnStep == TypeOK /\ ReturnOK /\ [Next]_vars => ReturnOK'
<1> SUFFICES ASSUME TypeOK, ReturnOK, [Next]_vars PROVE ReturnOK'
    OBVIOUS
<1>1. CASE Arrive \/ Start \/ Cancel \/ UNCHANGED vars
    BY <1>1 DEF ReturnOK, Arrive, Start, Cancel, vars, run, stats
<1>2. CASE RunExtract
    BY <1>2 DEF ReturnOK, RunExtract, List, ListFails, Cap, Interrupted, Attempt, Mark,
                MarkFails, BatchDone, Return, stats
<1> QED
    BY <1>1, <1>2 DEF Next

\* A step that caps a run leaves an article of its batch.
LEMMA CapStep ==
    TypeOK /\ BatchOK /\ ReturnOK /\ CappedLeavesArticles /\ [Next]_vars =>
        CappedLeavesArticles'
<1> SUFFICES ASSUME TypeOK, BatchOK, ReturnOK, CappedLeavesArticles, [Next]_vars
             PROVE  CappedLeavesArticles'
    OBVIOUS
<1> USE DEF CappedLeavesArticles, Unprocessed
<1>1. CASE Cap
    BY <1>1 DEF Cap, BatchOK
<1>2. CASE Arrive
    BY <1>2, ParameterAssumption DEF Arrive, run, stats, TypeOK
<1>3. CASE Start \/ Cancel \/ UNCHANGED vars
    BY <1>3 DEF Start, Cancel, vars, run, stats
<1>4. CASE RunExtract /\ ~Cap
    BY <1>4 DEF ReturnOK, RunExtract, List, ListFails, Interrupted, Attempt, Mark,
                MarkFails, BatchDone, Return, stats
<1> QED
    BY <1>1, <1>2, <1>3, <1>4 DEF Next

\* A step that ends a run with nil has drained the queue, or a batch full of
\* its own leftovers stands in the way.
LEMMA DrainStep ==
    Inv /\ [Next]_vars => CleanRunDrainsTheQueue'
<1> SUFFICES ASSUME Inv, [Next]_vars PROVE CleanRunDrainsTheQueue'
    OBVIOUS
<1> USE DEF Inv
<1>1. CASE List
    <2> SUFFICES ASSUME result' = "nil" PROVE CleanRunDrainsTheQueue'
        BY DEF CleanRunDrainsTheQueue
    <2>1. ListUnprocessed \subseteq attempted /\ horizon' = arrived
          /\ UNCHANGED <<attempted, processed>>
        BY <1>1 DEF List, ReturnOK
    <2>2. Unprocessed \in SUBSET Nat /\ IsFiniteSet(Unprocessed)
        BY Finite, ParameterAssumption DEF TypeOK, Unprocessed
    <2>3. CASE Cardinality(ListUnprocessed) < BatchSize
        <3>1. ListUnprocessed = Unprocessed
            BY <2>2, <2>3, ShortListingIsAll, ParameterAssumption DEF ListUnprocessed
        <3> QED
            BY <2>1, <3>1 DEF CleanRunDrainsTheQueue, Unprocessed
    <2>4. CASE ~(Cardinality(ListUnprocessed) < BatchSize)
        <3>1. ListUnprocessed \subseteq attempted \ processed
            BY <2>1 DEF ListUnprocessed, Oldest, Unprocessed
        <3>2. IsFiniteSet(attempted \ processed)
            BY Finite DEF TypeOK
        <3>3. Cardinality(attempted \ processed) >= BatchSize
            BY <2>4, <3>1, <3>2, Part, ParameterAssumption
        <3> QED
            BY <2>1, <3>3 DEF CleanRunDrainsTheQueue
    <2> QED
        BY <2>3, <2>4
<1>2. CASE BatchDone
    BY <1>2 DEF BatchDone, Return, ShortOK, ReturnOK, stats, CleanRunDrainsTheQueue
<1>3. CASE Arrive \/ Cancel \/ UNCHANGED vars
    BY <1>3 DEF Arrive, Cancel, vars, run, stats, CleanRunDrainsTheQueue
<1>4. CASE Start \/ ListFails \/ Cap \/ Interrupted \/ Attempt \/ Mark \/ MarkFails
    BY <1>4 DEF Start, ListFails, Cap, Interrupted, Attempt, Mark, MarkFails, Return,
                ReturnOK, CleanRunDrainsTheQueue
<1> QED
    BY <1>1, <1>2, <1>3, <1>4 DEF Next, RunExtract

\* The invariant holds in every reachable state.
THEOREM InvHolds == Spec => []Inv
<1>1. Inv /\ [Next]_vars => Inv'
    BY TypeStep, BatchStep, CountStep, ShortStep, ReturnStep, CapStep, DrainStep DEF Inv
<1> QED
    BY InvInit, <1>1, PTL DEF Spec

-----------------------------------------------------------------------------
\* RunExtract attempts no article twice in a run and none beyond
\* EXTRACT_MAX_ARTICLES_PER_RUN, whatever comes back at the head of a batch.
THEOREM AttemptedOnceUnderTheCap == Spec => []NoArticleTwicePerRun
<1>1. Inv => NoArticleTwicePerRun
    BY DEF Inv, BatchOK, NoArticleTwicePerRun
<1> QED
    BY <1>1, InvHolds, PTL

\* RunExtract reports Capped only with an article left to attempt.
THEOREM CapMeansMoreToDo == Spec => []CappedLeavesArticles
<1>1. Inv => CappedLeavesArticles
    BY DEF Inv
<1> QED
    BY <1>1, InvHolds, PTL

\* ExtractStats.Unmarked is at least the number of attempted articles that
\* are still queued.
THEOREM LeftoversAreCounted == Spec => []UnmarkedCoversLeftovers
<1>1. Inv => UnmarkedCoversLeftovers
    <2> SUFFICES ASSUME Inv, pc # "mark"
                 PROVE  Cardinality(attempted \ processed) <= unmarked
        BY DEF UnmarkedCoversLeftovers
    <2>1. LeftOver = attempted \ processed
        BY DEF LeftOver
    <2> QED
        BY <2>1 DEF Inv, CountOK
<1> QED
    BY <1>1, InvHolds, PTL

\* A run that returns nil and was not capped attempted all it last listed,
\* or a whole batch of its own leftovers was in the way.
THEOREM NilMeansDrained == Spec => []CleanRunDrainsTheQueue
<1>1. Inv => CleanRunDrainsTheQueue
    BY DEF Inv
<1> QED
    BY <1>1, InvHolds, PTL

-----------------------------------------------------------------------------
(* Why a run ends.                                                          *)

\* What is left of the round over one article.
Stage ==
    CASE pc = "mark" -> 4
      [] pc = "next" /\ fresh = {} -> 3
      [] pc = "list" -> 2
      [] pc = "next" /\ fresh # {} -> 1
      [] OTHER -> 0

StepsLeft == 5 * (MaxArticles - total) + Stage

\* Each step of the run shortens it; ingest and SIGTERM leave it as it is.
RunsShorten ==
    [][/\ RunExtract => StepsLeft' < StepsLeft
       /\ Arrive \/ Cancel => StepsLeft' = StepsLeft]_vars

\* The stages of the states a step of a run connects.
LEMMA StageSteps ==
    ASSUME Inv, RunExtract
    PROVE  \/ total' = total /\ Stage' < Stage
           \/ total' = total + 1 /\ Stage' = 4 /\ Stage = 1
<1>1. CASE List
    BY <1>1 DEF List, Return, Stage, stats
<1>2. CASE ListFails
    BY <1>2 DEF ListFails, Return, Stage, stats
<1>3. CASE Cap \/ Interrupted
    BY <1>3 DEF Cap, Interrupted, Return, Stage, stats
<1>4. CASE Attempt
    BY <1>4 DEF Attempt, Stage
<1>5. CASE Mark \/ MarkFails
    BY <1>5 DEF Mark, MarkFails, Stage, stats
<1>6. CASE BatchDone
    BY <1>6 DEF BatchDone, Return, Stage, stats
<1> QED
    BY <1>1, <1>2, <1>3, <1>4, <1>5, <1>6 DEF RunExtract

\* RunExtract takes a bounded number of steps, however fast ingest refills the
\* queue and whatever fails to be marked: each of them lowers a natural number
\* that nothing but the start of the next run raises.
THEOREM RunsAreBounded == Spec => [](StepsLeft \in Nat) /\ RunsShorten
<1>1. Inv => StepsLeft \in Nat
    <2> SUFFICES ASSUME Inv PROVE StepsLeft \in Nat
        OBVIOUS
    <2>1. total \in Nat /\ total <= MaxArticles /\ MaxArticles \in Nat
        BY ParameterAssumption DEF Inv, TypeOK, BatchOK
    <2>2. Stage \in 0..4
        BY DEF Stage
    <2> QED
        BY <2>1, <2>2 DEF StepsLeft
<1>2. Inv /\ RunExtract => StepsLeft' < StepsLeft
    <2> SUFFICES ASSUME Inv, RunExtract PROVE StepsLeft' < StepsLeft
        OBVIOUS
    <2>1. total \in Nat /\ MaxArticles \in Nat
        BY ParameterAssumption DEF Inv, TypeOK
    <2>2. Stage \in 0..4 /\ Stage' \in 0..4
        BY DEF Stage
    <2> QED
        BY <2>1, <2>2, StageSteps DEF StepsLeft
<1>3. Inv /\ (Arrive \/ Cancel) => StepsLeft' = StepsLeft
    BY DEF Arrive, Cancel, run, stats, StepsLeft, Stage
<1>4. Inv /\ [Next]_vars =>
          [/\ RunExtract => StepsLeft' < StepsLeft
           /\ Arrive \/ Cancel => StepsLeft' = StepsLeft]_vars
    BY <1>2, <1>3
<1> QED
    BY <1>1, <1>4, InvHolds, PTL DEF Spec, RunsShorten
=============================================================================
