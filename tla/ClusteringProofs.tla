-------------------------- MODULE ClusteringProofs --------------------------
(***************************************************************************)
(* Proofs about extraction (Clustering), the clean-up beside it            *)
(* (Reclassify) and the rumour page's reader beside both (Views), for any  *)
(* number of workers, cleaners and readers, whatever fails.  The           *)
(* Clustering theorems come first: the lemmas about a step of extraction   *)
(* serve again for the compositions.                                       *)
(***************************************************************************)
EXTENDS Views, FiniteSetTheorems, TLAPS

-----------------------------------------------------------------------------
(* The operators of RumourStatus. *)

\* Least and Greatest return one of the fees they are given.
LEMMA LeastGreatestType ==
    ASSUME NEW a \in Fees, NEW b \in Fees
    PROVE  Least(a, b) \in Fees /\ Greatest(a, b) \in Fees
BY NullAssumption DEF Least, Greatest, Fees

\* The status UpsertRumour writes is a status.
LEMMA FinalStatusType ==
    ASSUME NEW seenStatus \in Statuses \cup {NULL}, NEW reported \in Statuses
    PROVE  FinalStatus(seenStatus, reported) \in Statuses
BY DEF FinalStatus

\* Every usable report belongs to a thread.
LEMMA ThreadType ==
    ASSUME NEW r \in Reports
    PROVE  /\ r \in ReportType
           /\ Thread(r) \in Threads
BY ReportAssumption DEF ReportType, Thread, Threads

\* The upserted row is a row.
LEMMA UpsertedType ==
    ASSUME NEW row \in RumourRow \cup {NULL}, NEW r \in Reports,
           NEW s \in Statuses
    PROVE  Upserted(row, r, s) \in RumourRow
<1>1. r.from \in Clubs \cup {NULL} /\ r.min \in Fees /\ r.max \in Fees
  BY ThreadType DEF ReportType
<1>2. CASE row = NULL
  BY <1>1, <1>2 DEF Upserted, RumourRow
<1>3. CASE row \in RumourRow
  <2>1. row # NULL
    BY <1>3, ReportAssumption
  <2>2. row.from \in Clubs \cup {NULL} /\ row.min \in Fees /\ row.max \in Fees
    BY <1>3 DEF RumourRow
  <2>3. Least(row.min, r.min) \in Fees /\ Greatest(row.max, r.max) \in Fees
    BY <1>1, <2>2, LeastGreatestType
  <2>4. QED
    BY <1>1, <2>1, <2>2, <2>3 DEF Upserted, RumourRow
<1>4. QED
  BY <1>2, <1>3

\* Clamping keeps a score within its bounds.
LEMMA ClampType ==
    ASSUME NEW n \in Int
    PROVE  Clamp(n) \in 0..100
BY DEF Clamp
-----------------------------------------------------------------------------
(* Type correctness. *)

LEMMA TypeInit == Init => TypeOK
BY SourceAssumption, FaultAssumption
DEF Init, TypeOK, Steps, Extractions

LEMMA TypeStep == TypeOK /\ [Next]_vars => TypeOK'
<1> SUFFICES ASSUME TypeOK, [Next]_vars
             PROVE  TypeOK'
  OBVIOUS
<1> USE FaultAssumption DEF TypeOK, Steps, tables, queue, names, locals, Succeeds, Fails
<1>1. ASSUME NEW w \in Workers, List(w)
      PROVE  TypeOK'
  BY <1>1 DEF List
<1>2. ASSUME NEW w \in Workers, EndRun(w)
      PROVE  TypeOK'
  BY <1>2 DEF EndRun
<1>3. ASSUME NEW w \in Workers, Extract(w)
      PROVE  TypeOK'
  BY <1>3 DEF Extract
<1>4. ASSUME NEW w \in Workers, Resolve(w)
      PROVE  TypeOK'
  <2>1. result[w] \in Reports /\ article[w] \in Articles
    BY <1>4 DEF Resolve
  <2>2. /\ result[w].player \in Players /\ result[w].to \in Clubs
        /\ result[w].from \in Clubs \cup {NULL}
    BY <2>1, ThreadType DEF ReportType
  <2>3. players' \subseteq Players /\ clubs' \subseteq Clubs
    BY <1>4, <2>2 DEF Resolve
  <2>4. /\ \E next \in {"read", "mark"} : pc' = [pc EXCEPT ![w] = next]
        /\ faults' \in 0..MaxFaults
    BY <1>4 DEF Resolve
  <2>5. UNCHANGED <<queue, rumours, events, score, locals, credited>>
    BY <1>4 DEF Resolve
  <2>6. QED
    BY <2>1, <2>3, <2>4, <2>5
<1>5. ASSUME NEW w \in Workers, ReadRumour(w)
      PROVE  TypeOK'
  <2>1. result[w] \in Reports /\ article[w] \in Articles
    BY <1>5 DEF ReadRumour
  <2>2. ThreadOf(w) \in Threads
    BY <2>1, ThreadType DEF ThreadOf
  <2>3. rumours[ThreadOf(w)] # NULL => rumours[ThreadOf(w)].status \in Statuses
    BY <2>2 DEF RumourRow
  <2>4. seen' \in [Workers -> Statuses \cup {NULL}]
    BY <1>5, <2>3 DEF ReadRumour
  <2>5. /\ \E next \in {"write", "mark"} : pc' = [pc EXCEPT ![w] = next]
        /\ faults' \in 0..MaxFaults
    BY <1>5 DEF ReadRumour
  <2>6. UNCHANGED <<tables, batch, attempted, article, result, written, credited>>
    BY <1>5 DEF ReadRumour
  <2>7. QED
    BY <2>1, <2>4, <2>5, <2>6
<1>6. ASSUME NEW w \in Workers, WriteRumour(w)
      PROVE  TypeOK'
  <2>1. result[w] \in Reports /\ article[w] \in Articles
    BY <1>6 DEF WriteRumour
  <2>2. ThreadOf(w) \in Threads /\ result[w].status \in Statuses
    BY <2>1, ThreadType DEF ThreadOf, ReportType
  <2> DEFINE final == FinalStatus(seen[w], result[w].status)
  <2>3. final \in Statuses
    BY <2>2, FinalStatusType
  <2>4. Upserted(rumours[ThreadOf(w)], result[w], final) \in RumourRow
    BY <2>1, <2>2, <2>3, UpsertedType
  <2>5. rumours' \in [Threads -> RumourRow \cup {NULL}]
    BY <1>6, <2>4 DEF WriteRumour
  <2>6. \/ written' = [written EXCEPT ![w] = final] /\ pc' = [pc EXCEPT ![w] = "event"]
        \/ written' = written /\ pc' = [pc EXCEPT ![w] = "mark"]
    BY <1>6 DEF WriteRumour
  <2>7. faults' \in 0..MaxFaults
    BY <1>6 DEF WriteRumour
  <2>8. UNCHANGED <<queue, names, events, score, batch, attempted, article,
                    result, seen, credited>>
    BY <1>6 DEF WriteRumour
  <2>9. written' \in [Workers -> Statuses \cup {NULL}]
    BY <2>3, <2>6
  <2>10. pc' \in [Workers -> Steps]
    BY <2>6
  <2>11. \A v \in Workers :
            /\ pc'[v] # "idle" => article'[v] \in Articles
            /\ pc'[v] \notin {"idle", "mark"} => result'[v] \in Reports
            /\ pc'[v] \in {"event", "nudge"} => written'[v] \in Statuses
    BY <2>1, <2>3, <2>6, <2>8
  <2>12. QED
    BY <2>5, <2>7, <2>8, <2>9, <2>10, <2>11
<1>7. ASSUME NEW w \in Workers, InsertEvent(w)
      PROVE  TypeOK'
  <2>1. result[w] \in Reports /\ article[w] \in Articles /\ written[w] \in Statuses
    BY <1>7 DEF InsertEvent
  <2>2. ThreadOf(w) \in Threads
    BY <2>1, ThreadType DEF ThreadOf
  <2> DEFINE row == [events[ThreadOf(w)] EXCEPT ![article[w]] =
                        IF @ = NULL THEN result[w] ELSE @]
  <2>3. row \in [Articles -> Reports \cup {NULL}]
    BY <2>1, <2>2
  <2>4. events' = events \/ events' = [events EXCEPT ![ThreadOf(w)] = row]
    BY <1>7, <2>1, <2>2 DEF InsertEvent
  <2>5. events' \in [Threads -> [Articles -> Reports \cup {NULL}]]
    BY <2>3, <2>4
  <2>6. /\ \E next \in {"nudge", "mark"} : pc' = [pc EXCEPT ![w] = next]
        /\ faults' \in 0..MaxFaults
    BY <1>7 DEF InsertEvent
  <2>7. UNCHANGED <<queue, names, rumours, score, locals, credited>>
    BY <1>7 DEF InsertEvent
  <2>8. QED
    BY <2>1, <2>5, <2>6, <2>7
<1>8. ASSUME NEW w \in Workers, Nudge(w)
      PROVE  TypeOK'
  <2>1. article[w] \in Articles
    BY <1>8 DEF Nudge
  <2>2. Delta(written[w]) \in Int
    BY DEF Delta, reliabilityNudge
  <2>3. \A s \in Sources : Clamp(score[s] + Delta(written[w])) \in 0..100
    <3> TAKE s \in Sources
    <3>1. score[s] \in 0..100
      OBVIOUS
    <3>2. score[s] + Delta(written[w]) \in Int
      BY <2>2, <3>1
    <3>3. QED
      BY <3>2, ClampType
  <2>4. score' \in [Sources -> 0..100]
    BY <1>8, <2>3 DEF Nudge
  <2>5. credited' \in [Threads -> Nat]
    BY <1>8 DEF Nudge
  <2>6. pc' = [pc EXCEPT ![w] = "mark"] /\ faults' \in 0..MaxFaults
    BY <1>8 DEF Nudge
  <2>7. UNCHANGED <<queue, names, rumours, events, locals>>
    BY <1>8 DEF Nudge
  <2>8. QED
    BY <2>1, <2>4, <2>5, <2>6, <2>7
<1>9. ASSUME NEW w \in Workers, Mark(w)
      PROVE  TypeOK'
  <2>1. /\ processed' \in [Articles -> BOOLEAN]
        /\ extraction' \in [Articles -> Extractions]
    BY <1>9 DEF Mark
  <2>2. pc' = [pc EXCEPT ![w] = "idle"] /\ faults' \in 0..MaxFaults
    BY <1>9 DEF Mark
  <2>3. /\ article' = [article EXCEPT ![w] = NULL]
        /\ result' = [result EXCEPT ![w] = NULL]
        /\ seen' = [seen EXCEPT ![w] = NULL]
        /\ written' = [written EXCEPT ![w] = NULL]
        /\ UNCHANGED <<names, rumours, events, score, batch, attempted, credited>>
    BY <1>9 DEF Mark
  <2>4. NULL \in Extractions
    BY DEF Extractions
  <2>5. QED
    BY <2>1, <2>2, <2>3, <2>4
<1>10. ASSUME NEW w \in Workers, Crash(w)
      PROVE  TypeOK'
  BY <1>10 DEF Crash, Extractions
<1>11. CASE UNCHANGED vars
  BY <1>11 DEF vars
<1>12. QED
  BY <1>1, <1>2, <1>3, <1>4, <1>5, <1>6, <1>7, <1>8, <1>9, <1>10, <1>11
  DEF Next, Work

\* Every reachable state is well typed.
THEOREM TypeCorrect == Spec => []TypeOK
BY TypeInit, TypeStep, PTL DEF Spec
-----------------------------------------------------------------------------
(* The fee range. *)

\* Whatever has a fee range, with each bound a fee.
Ranged(x) == x.min \in Fees /\ x.max \in Fees

LEMMA RangedTypes ==
    /\ \A r \in Reports : Ranged(r)
    /\ \A row \in RumourRow : Ranged(row) /\ row # NULL
BY ReportAssumption DEF ReportType, RumourRow, Ranged

\* Spanning is transitive, and every range spans itself.
LEMMA SpansTransitive ==
    ASSUME NEW x, NEW y, NEW z, Ranged(x), Ranged(y), Ranged(z)
    PROVE  /\ Spans(x, x)
           /\ Spans(x, y) /\ Spans(y, z) => Spans(x, z)
BY NullAssumption DEF Spans, Ranged, Fees

\* Least and Greatest keep both of the fees they are given within bounds.
LEMMA LeastGreatestBounds ==
    ASSUME NEW a \in Fees, NEW b \in Fees
    PROVE  /\ a # NULL => Least(a, b) # NULL /\ Least(a, b) <= a
           /\ b # NULL => Least(a, b) # NULL /\ Least(a, b) <= b
           /\ a # NULL => Greatest(a, b) # NULL /\ a <= Greatest(a, b)
           /\ b # NULL => Greatest(a, b) # NULL /\ b <= Greatest(a, b)
BY NullAssumption DEF Least, Greatest, Fees

\* An upsert widens the range over both the old row and the report.
LEMMA UpsertedSpans ==
    ASSUME NEW row \in RumourRow \cup {NULL}, NEW r \in Reports, NEW s
    PROVE  /\ Spans(Upserted(row, r, s), r)
           /\ row # NULL => Spans(Upserted(row, r, s), row)
<1>1. Ranged(r)
  BY RangedTypes
<1>2. CASE row = NULL
  BY <1>1, <1>2, SpansTransitive DEF Upserted, Spans, Ranged, Fees
<1>3. CASE row \in RumourRow
  <2>1. Ranged(row) /\ row # NULL
    BY <1>3, RangedTypes
  <2>2. /\ Upserted(row, r, s).min = Least(row.min, r.min)
        /\ Upserted(row, r, s).max = Greatest(row.max, r.max)
    BY <2>1 DEF Upserted
  <2>3. QED
    BY <1>1, <2>1, <2>2, LeastGreatestBounds DEF Spans, Ranged
<1>4. QED
  BY <1>2, <1>3

\* A worker's upsert either has no effect or replaces its thread's row.
LEMMA WriteEffect ==
    ASSUME TypeOK, NEW w \in Workers, WriteRumour(w)
    PROVE  /\ result[w] \in Reports /\ ThreadOf(w) \in Threads
           /\ \/ rumours' = rumours
              \/ rumours' = [rumours EXCEPT ![ThreadOf(w)] =
                     Upserted(@, result[w],
                              FinalStatus(seen[w], result[w].status))]
<1>1. result[w] \in Reports
  BY DEF TypeOK, WriteRumour
<1>2. ThreadOf(w) \in Threads
  BY <1>1, ThreadType DEF ThreadOf
<1>3. QED
  BY <1>1, <1>2 DEF WriteRumour

\* Only UpsertRumour's INSERT changes a rumour.
LEMMA RumoursFrame ==
    ASSUME [Next]_vars
    PROVE  UNCHANGED rumours \/ \E w \in Workers : WriteRumour(w)
BY DEF Next, vars, Work, List, EndRun, Extract, Resolve, ReadRumour,
       InsertEvent, Nudge, Mark, Crash, tables

\* Only InsertRumourEvent changes a timeline.
LEMMA EventsFrame ==
    ASSUME [Next]_vars
    PROVE  UNCHANGED events \/ \E w \in Workers : InsertEvent(w)
BY DEF Next, vars, Work, List, EndRun, Extract, Resolve, ReadRumour,
       WriteRumour, Nudge, Mark, Crash, tables

\* Every step keeps each stored row and leaves its range at least as wide.
LEMMA RangeStep ==
    ASSUME TypeOK, [Next]_vars, NEW t \in Threads, rumours[t] # NULL
    PROVE  rumours'[t] # NULL /\ Spans(rumours'[t], rumours[t])
<1>1. rumours[t] \in RumourRow
  BY DEF TypeOK
<1>2. CASE UNCHANGED rumours
  BY <1>1, <1>2, RangedTypes, SpansTransitive
<1>3. ASSUME NEW w \in Workers, WriteRumour(w)
      PROVE  rumours'[t] # NULL /\ Spans(rumours'[t], rumours[t])
  <2> DEFINE row == Upserted(rumours[t], result[w],
                             FinalStatus(seen[w], result[w].status))
  <2>1. rumours' = rumours \/ (t # ThreadOf(w) /\ rumours'[t] = rumours[t])
        \/ rumours'[t] = row
    BY <1>3, WriteEffect DEF TypeOK
  <2>2. Spans(row, rumours[t])
    BY <1>1, <1>3, WriteEffect, UpsertedSpans
  <2>3. row # NULL
    <3>1. result[w].status \in Statuses /\ seen[w] \in Statuses \cup {NULL}
      BY <1>3, WriteEffect, ThreadType DEF ReportType, TypeOK
    <3>2. row \in RumourRow
      BY <1>1, <1>3, <3>1, WriteEffect, FinalStatusType, UpsertedType
    <3>3. QED
      BY <3>2, RangedTypes
  <2>4. QED
    BY <1>1, <2>1, <2>2, <2>3, RangedTypes, SpansTransitive
<1>4. QED
  BY <1>2, <1>3, RumoursFrame

\* FeeRangeWidens, for every number of workers.
THEOREM RangeWidens == Spec => FeeRangeWidens
<1>1. TypeOK /\ [Next]_vars =>
        [\A t \in Threads : rumours[t] # NULL =>
             rumours'[t] # NULL /\ Spans(rumours'[t], rumours[t])]_vars
  BY RangeStep
<1>2. QED
  BY <1>1, TypeCorrect, PTL DEF Spec, FeeRangeWidens
\* FeeRangeCoversTimeline is inductive once the report a worker is about to
\* put on a timeline is known to be within the row its upsert returned.
FeeInv ==
    /\ FeeRangeCoversTimeline
    /\ \A w \in Workers : pc[w] = "event" =>
          /\ rumours[ThreadOf(w)] # NULL
          /\ Spans(rumours[ThreadOf(w)], result[w])

\* A worker reaches InsertRumourEvent only through its own upsert.
LEMMA EventPcFrame ==
    ASSUME TypeOK, [Next]_vars, NEW w \in Workers, pc'[w] = "event"
    PROVE  \/ pc[w] = "event" /\ result'[w] = result[w]
           \/ /\ WriteRumour(w) /\ result'[w] = result[w]
              /\ rumours' = [rumours EXCEPT ![ThreadOf(w)] =
                     Upserted(@, result[w],
                              FinalStatus(seen[w], result[w].status))]
<1> USE DEF TypeOK, Succeeds, Fails, locals, tables
<1>1. CASE UNCHANGED vars
  BY <1>1 DEF vars
<1>2. ASSUME NEW v \in Workers, List(v) \/ EndRun(v) \/ Extract(v) \/ Crash(v)
      PROVE  pc[w] = "event" /\ result'[w] = result[w]
  BY <1>2 DEF List, EndRun, Extract, Crash
<1>3. ASSUME NEW v \in Workers, Resolve(v) \/ ReadRumour(v) \/ InsertEvent(v)
      PROVE  pc[w] = "event" /\ result'[w] = result[w]
  BY <1>3 DEF Resolve, ReadRumour, InsertEvent
<1>4. ASSUME NEW v \in Workers, Nudge(v) \/ Mark(v)
      PROVE  pc[w] = "event" /\ result'[w] = result[w]
  BY <1>4 DEF Nudge, Mark
<1>5. ASSUME NEW v \in Workers, WriteRumour(v), v # w
      PROVE  pc[w] = "event" /\ result'[w] = result[w]
  BY <1>5 DEF WriteRumour
<1>6. CASE WriteRumour(w)
  BY <1>6 DEF WriteRumour
<1>7. QED
  BY <1>1, <1>2, <1>3, <1>4, <1>5, <1>6 DEF Next, Work

LEMMA FeeInvInit == Init => FeeInv
BY DEF Init, FeeInv, FeeRangeCoversTimeline, Timeline

LEMMA FeeInvStep == TypeOK /\ FeeInv /\ [Next]_vars => FeeInv'
<1> SUFFICES ASSUME TypeOK, FeeInv, [Next]_vars
             PROVE  FeeInv'
  OBVIOUS
<1> USE DEF TypeOK
<1>1. TypeOK'
  BY TypeStep
<1>2. ASSUME NEW t \in Threads, NEW r \in Reports,
             rumours[t] # NULL, Spans(rumours[t], r)
      PROVE  rumours'[t] # NULL /\ Spans(rumours'[t], r)
  <2>1. rumours'[t] # NULL /\ Spans(rumours'[t], rumours[t])
    BY <1>2, RangeStep
  <2>2. Ranged(rumours[t]) /\ Ranged(rumours'[t]) /\ Ranged(r)
    BY <1>1, <1>2, <2>1, RangedTypes
  <2>3. QED
    BY <1>2, <2>1, <2>2, SpansTransitive
<1>3. ASSUME NEW t \in Threads, NEW a \in Articles, events'[t][a] # NULL
      PROVE  rumours'[t] # NULL /\ Spans(rumours'[t], events'[t][a])
  <2>1. CASE events'[t][a] = events[t][a]
    <3>1. /\ events[t][a] \in Reports /\ rumours[t] # NULL
          /\ Spans(rumours[t], events[t][a])
      BY <1>3, <2>1 DEF FeeInv, FeeRangeCoversTimeline, Timeline
    <3>2. QED
      BY <1>2, <2>1, <3>1
  <2>2. ASSUME NEW w \in Workers, InsertEvent(w),
               events'[t][a] # events[t][a]
        PROVE  rumours'[t] # NULL /\ Spans(rumours'[t], events'[t][a])
    <3>1. result[w] \in Reports /\ pc[w] = "event"
      BY <2>2 DEF InsertEvent
    <3>2. ThreadOf(w) \in Threads
      BY <3>1, ThreadType DEF ThreadOf
    <3>3. t = ThreadOf(w) /\ events'[t][a] = result[w] /\ rumours' = rumours
      BY <2>2, <3>2 DEF InsertEvent
    <3>4. QED
      BY <3>1, <3>3 DEF FeeInv
  <2>3. QED
    BY <2>1, <2>2, EventsFrame
<1>4. ASSUME NEW w \in Workers, pc'[w] = "event"
      PROVE  rumours'[ThreadOf(w)'] # NULL /\ Spans(rumours'[ThreadOf(w)'], result'[w])
  <2>1. CASE pc[w] = "event" /\ result'[w] = result[w]
    <3>1. result[w] \in Reports /\ ThreadOf(w) \in Threads /\ ThreadOf(w)' = ThreadOf(w)
      BY <2>1, ThreadType DEF ThreadOf
    <3>2. QED
      BY <1>2, <2>1, <3>1 DEF FeeInv
  <2>2. CASE /\ WriteRumour(w) /\ result'[w] = result[w]
             /\ rumours' = [rumours EXCEPT ![ThreadOf(w)] =
                    Upserted(@, result[w],
                             FinalStatus(seen[w], result[w].status))]
    <3>1. result[w] \in Reports /\ ThreadOf(w) \in Threads /\ ThreadOf(w)' = ThreadOf(w)
      BY <2>2, WriteEffect DEF ThreadOf
    <3>2. /\ rumours[ThreadOf(w)] \in RumourRow \cup {NULL}
          /\ rumours'[ThreadOf(w)] = Upserted(rumours[ThreadOf(w)], result[w],
                                       FinalStatus(seen[w], result[w].status))
      BY <2>2, <3>1
    <3>3. result[w].status \in Statuses /\ seen[w] \in Statuses \cup {NULL}
      BY <3>1, ThreadType DEF ReportType
    <3>4. FinalStatus(seen[w], result[w].status) \in Statuses
      BY <3>3, FinalStatusType
    <3>5. rumours'[ThreadOf(w)] \in RumourRow
      BY <3>1, <3>2, <3>4, UpsertedType
    <3>6. QED
      BY <2>2, <3>1, <3>2, <3>5, UpsertedSpans, RangedTypes
  <2>3. QED
    BY <1>4, <2>1, <2>2, EventPcFrame
<1>5. QED
  BY <1>3, <1>4 DEF FeeInv, FeeRangeCoversTimeline, Timeline

\* Every figure on a timeline is within its rumour's range, for every number
\* of workers, failure and crash.
THEOREM FeeRangeCovers == Spec => []FeeRangeCoversTimeline
<1>1. Spec => [](TypeOK /\ FeeInv)
  BY TypeInit, TypeStep, FeeInvInit, FeeInvStep, PTL DEF Spec
<1>2. FeeInv => FeeRangeCoversTimeline
  BY DEF FeeInv
<1>3. QED
  BY <1>1, <1>2, PTL
-----------------------------------------------------------------------------
(* No report is dropped, with any number of workers. *)

Recorded(w) == events[ThreadOf(w)][article[w]] # NULL

\* A worker that is past InsertRumourEvent has its article on the timeline of
\* the report it is about to mark it with.
DropInv ==
    /\ NoReportDropped
    /\ \A w \in Workers :
          /\ faults = 0 /\ pc[w] = "nudge" => Recorded(w)
          /\ faults = 0 /\ pc[w] = "mark" /\ result[w] \in Reports => Recorded(w)

\* An article stays on a timeline it is on.
LEMMA TimelineGrows ==
    ASSUME TypeOK, [Next]_vars, NEW t \in Threads, NEW a \in Articles,
           events[t][a] # NULL
    PROVE  events'[t][a] # NULL
<1>1. CASE UNCHANGED events
  BY <1>1
<1>2. ASSUME NEW w \in Workers, InsertEvent(w)
      PROVE  events'[t][a] # NULL
  <2>1. ThreadOf(w) \in Threads /\ article[w] \in Articles
    BY <1>2, ThreadType DEF InsertEvent, TypeOK, ThreadOf
  <2>2. \/ events' = events
        \/ events' = [events EXCEPT ![ThreadOf(w)][article[w]] =
                         IF @ = NULL THEN result[w] ELSE @]
    BY <1>2 DEF InsertEvent
  <2>3. events \in [Threads -> [Articles -> Reports \cup {NULL}]]
    BY DEF TypeOK
  <2>4. events'[t][a] = events[t][a] \/ events[t][a] = NULL
    BY <2>1, <2>2, <2>3
  <2>5. QED
    BY <2>4
<1>3. QED
  BY <1>1, <1>2, EventsFrame

LEMMA FaultsGrow ==
    ASSUME TypeOK, [Next]_vars, faults' = 0
    PROVE  faults = 0
<1>1. faults \in Nat
  BY FaultAssumption DEF TypeOK
<1>2. ASSUME NEW w \in Workers, NEW next, Succeeds(w, next) \/ Fails(w, next)
      PROVE  faults = 0
  BY <1>1, <1>2 DEF Succeeds, Fails
<1>3. QED
  BY <1>2 DEF Next, vars, Work, List, EndRun, Extract, Resolve, ReadRumour,
              WriteRumour, InsertEvent, Nudge, Mark, Crash, Fails, tables

\* What a worker that is past its InsertRumourEvent did in this step.
LEMMA RecordedFrame ==
    ASSUME TypeOK, [Next]_vars, faults' = 0, NEW w \in Workers,
           pc'[w] \in {"nudge", "mark"}, result'[w] \in Reports
    PROVE  /\ result'[w] = result[w] /\ article'[w] = article[w]
           /\ pc'[w] = pc[w] \/ (pc[w] = "nudge" /\ UNCHANGED events) \/ InsertEvent(w)
<1> USE DEF TypeOK, Succeeds, locals, tables
<1>1. CASE UNCHANGED vars
  BY <1>1 DEF vars
<1>2. ASSUME NEW v \in Workers, List(v) \/ EndRun(v)
      PROVE  result'[w] = result[w] /\ article'[w] = article[w] /\ pc'[w] = pc[w]
  BY <1>2 DEF List, EndRun
<1>3. ASSUME NEW v \in Workers, Extract(v)
      PROVE  result'[w] = result[w] /\ article'[w] = article[w] /\ pc'[w] = pc[w]
  BY <1>3 DEF Extract
<1>4. ASSUME NEW v \in Workers, NEW next, Fails(v, next) PROVE FALSE
  BY <1>4, FaultAssumption DEF Fails
<1>5. ASSUME NEW v \in Workers, Resolve(v) \/ ReadRumour(v) \/ WriteRumour(v)
      PROVE  result'[w] = result[w] /\ article'[w] = article[w] /\ pc'[w] = pc[w]
  BY <1>4, <1>5 DEF Resolve, ReadRumour, WriteRumour
<1>6. ASSUME NEW v \in Workers, InsertEvent(v)
      PROVE  /\ result'[w] = result[w] /\ article'[w] = article[w]
             /\ pc'[w] = pc[w] \/ InsertEvent(w)
  <2>1. CASE v = w
    BY <1>6, <2>1 DEF InsertEvent
  <2>2. CASE v # w
    BY <1>4, <1>6, <2>2 DEF InsertEvent
  <2>3. QED
    BY <2>1, <2>2
<1>7. ASSUME NEW v \in Workers, Nudge(v)
      PROVE  /\ result'[w] = result[w] /\ article'[w] = article[w]
             /\ pc'[w] = pc[w] \/ (pc[w] = "nudge" /\ UNCHANGED events)
  BY <1>4, <1>7 DEF Nudge
<1>8. ASSUME NEW v \in Workers, Mark(v)
      PROVE  result'[w] = result[w] /\ article'[w] = article[w] /\ pc'[w] = pc[w]
  BY <1>4, <1>8 DEF Mark
<1>9. ASSUME NEW v \in Workers, Crash(v) PROVE FALSE
  BY <1>4, <1>9 DEF Crash
<1>10. QED
  BY <1>1, <1>2, <1>3, <1>5, <1>6, <1>7, <1>8, <1>9 DEF Next, Work

LEMMA DropInvInit == Init => DropInv
BY DEF Init, DropInv, NoReportDropped

LEMMA DropInvStep == TypeOK /\ FeeInv /\ DropInv /\ [Next]_vars => DropInv'
<1> SUFFICES ASSUME TypeOK, FeeInv, DropInv, [Next]_vars, faults' = 0
             PROVE  DropInv'
  BY DEF DropInv, NoReportDropped
<1>1. faults = 0 /\ TypeOK'
  BY FaultsGrow, TypeStep
<1>2. ASSUME NEW w \in Workers,
             pc'[w] = "nudge" \/ (pc'[w] = "mark" /\ result'[w] \in Reports)
      PROVE  Recorded(w)'
  <2>1. result'[w] \in Reports
    BY <1>1, <1>2 DEF TypeOK
  <2>2. result'[w] = result[w] /\ article'[w] = article[w]
        /\ ThreadOf(w)' = ThreadOf(w) /\ ThreadOf(w) \in Threads
    BY <1>2, <2>1, RecordedFrame, ThreadType DEF ThreadOf
  <2>3. article[w] \in Articles
    BY <1>1, <1>2, <2>2 DEF TypeOK
  <2>4. CASE Recorded(w)
    BY <2>2, <2>3, <2>4, TimelineGrows DEF Recorded
  <2>5. CASE InsertEvent(w)
    <3>1. rumours[ThreadOf(w)] # NULL
      BY <2>5 DEF InsertEvent, FeeInv
    <3>2. events' = [events EXCEPT ![ThreadOf(w)][article[w]] =
                        IF @ = NULL THEN result[w] ELSE @]
      BY <1>1, <2>5, <3>1, FaultAssumption DEF InsertEvent, Fails, TypeOK
    <3>3. result[w] # NULL
      BY <2>1, <2>2, ReportAssumption
    <3>4. QED
      BY <2>2, <2>3, <3>2, <3>3 DEF Recorded, TypeOK
  <2>6. QED
    BY <1>1, <1>2, <2>1, <2>2, <2>4, <2>5, RecordedFrame DEF DropInv
<1>3. ASSUME NEW a \in Articles, processed'[a], extraction'[a] \in Reports
      PROVE  events'[Thread(extraction'[a])][a] # NULL
  <2>1. Thread(extraction'[a]) \in Threads
    BY <1>3, ThreadType
  <2>2. CASE processed[a] /\ extraction'[a] = extraction[a]
    BY <1>1, <1>3, <2>1, <2>2, TimelineGrows DEF DropInv, NoReportDropped
  <2>3. ASSUME NEW w \in Workers, Mark(w), a = article[w], extraction'[a] = result[w]
        PROVE  events'[Thread(extraction'[a])][a] # NULL
    <3>1. Recorded(w)
      BY <1>1, <1>3, <2>3 DEF Mark, DropInv
    <3>2. QED
      BY <2>3, <3>1 DEF Mark, Recorded, ThreadOf
  <2>4. UNCHANGED queue \/ \E w \in Workers : Mark(w)
    BY DEF Next, vars, Work, List, EndRun, Extract, Resolve, ReadRumour,
           WriteRumour, InsertEvent, Nudge, Crash, tables
  <2>5. ASSUME NEW w \in Workers, Mark(w)
        PROVE  \/ processed[a] /\ extraction'[a] = extraction[a]
               \/ a = article[w] /\ extraction'[a] = result[w]
    <3>1. article[w] \in Articles
      BY <2>5 DEF Mark, TypeOK
    <3>2. QED
      BY <1>3, <2>5, <3>1 DEF Mark, queue, TypeOK
  <2>6. QED
    BY <1>3, <2>2, <2>3, <2>4, <2>5 DEF queue
<1>4. QED
  BY <1>2, <1>3 DEF DropInv, NoReportDropped

\* Without faults, a usable extraction is on its timeline, for every number
\* of workers, also when several of them extract one article.
THEOREM ReportsKept == Spec => []NoReportDropped
<1>1. Spec => [](TypeOK /\ FeeInv)
  BY TypeInit, TypeStep, FeeInvInit, FeeInvStep, PTL DEF Spec
<1>2. Spec => []DropInv
  BY <1>1, DropInvInit, DropInvStep, PTL DEF Spec
<1>3. DropInv => NoReportDropped
  BY DEF DropInv
<1>4. QED
  BY <1>2, <1>3, PTL
-----------------------------------------------------------------------------
(* Status, under the assumption of one worker. *)

StatusOf(t) == IF rumours[t] = NULL THEN NULL ELSE rumours[t].status

\* What a single worker knows between two statements: the SELECT's answer is
\* current when the INSERT runs, and the row is as the INSERT left it until
\* the sources are credited.
WorkerInv(w) ==
    /\ pc[w] = "write" => seen[w] = StatusOf(ThreadOf(w))
    /\ pc[w] \in {"event", "nudge"} =>
          /\ rumours[ThreadOf(w)] # NULL
          /\ rumours[ThreadOf(w)].status = written[w]
          /\ Progress(result[w].status) <= Progress(written[w])
          /\ JustResolved(seen[w], written[w]) => credited[ThreadOf(w)] = 0
    /\ pc[w] = "nudge" => JustResolved(seen[w], written[w])

StatusInv ==
    /\ CreditedAtMostOnce
    /\ StatusCoversTimeline
    /\ \A w \in Workers : WorkerInv(w)
LEMMA StatusSets == Ranked = {"rumoured", "talks", "advanced", "medical"}
BY DEF Ranked, statusRank

LEMMA ProgressType ==
    ASSUME NEW s \in Statuses
    PROVE  Progress(s) \in 0..4
BY StatusSets DEF Progress, Statuses, IsTerminal, Terminal, statusRank

\* What UpsertRumour decides when it read status cur and the article reports
\* rep: a step forward, at least as far as both, and none once resolved.
LEMMA FinalStatusForward ==
    ASSUME NEW cur \in Statuses, NEW rep \in Statuses
    PROVE  LET final == FinalStatus(cur, rep)
           IN  /\ final = cur \/ IsForwardTransition(cur, final)
               /\ IsTerminal(cur) => final = cur
               /\ Progress(cur) <= Progress(final)
               /\ Progress(rep) <= Progress(final)
<1>1. cur # NULL
  BY NullAssumption
<1> USE StatusSets
    DEF FinalStatus, IsForwardTransition, Progress, Statuses, IsTerminal, Terminal, statusRank
<1>2. CASE cur \in Terminal
  BY <1>1, <1>2
<1>3. CASE cur \in Ranked /\ rep \in Terminal
  BY <1>1, <1>3
<1>4. CASE cur \in Ranked /\ rep \in Ranked
  BY <1>1, <1>4
<1>5. QED
  BY <1>2, <1>3, <1>4

\* A step that leaves the rumours, the timelines and the credits alone and
\* takes the only worker out of an upsert preserves StatusInv.
LEMMA StatusFrame ==
    ASSUME OneWorker, StatusInv, NEW w \in Workers,
           UNCHANGED <<rumours, events, credited>>,
           pc'[w] \notin {"write", "event", "nudge"}
    PROVE  StatusInv'
<1>1. CreditedAtMostOnce' /\ StatusCoversTimeline'
  BY DEF StatusInv, CreditedAtMostOnce, StatusCoversTimeline, Timeline
<1>2. \A v \in Workers : WorkerInv(v)'
  BY DEF OneWorker, WorkerInv
<1>3. QED
  BY <1>1, <1>2 DEF StatusInv
LEMMA StatusInvInit == Init => StatusInv
BY DEF Init, StatusInv, CreditedAtMostOnce, StatusCoversTimeline, Timeline, WorkerInv

LEMMA StatusRead ==
    ASSUME OneWorker, TypeOK, StatusInv, NEW w \in Workers, ReadRumour(w)
    PROVE  StatusInv'
<1>1. UNCHANGED <<rumours, events, credited, result>>
  BY DEF ReadRumour, tables
<1>2. CASE pc'[w] = "mark"
  BY <1>1, <1>2, StatusFrame
<1>3. CASE pc' = [pc EXCEPT ![w] = "write"] /\ seen' = [seen EXCEPT ![w] = StatusOf(ThreadOf(w))]
  <2>1. CreditedAtMostOnce' /\ StatusCoversTimeline'
    BY <1>1 DEF StatusInv, CreditedAtMostOnce, StatusCoversTimeline, Timeline
  <2>2. WorkerInv(w)'
    BY <1>1, <1>3 DEF TypeOK, WorkerInv, StatusOf, ThreadOf
  <2>3. QED
    BY <2>1, <2>2 DEF OneWorker, StatusInv
<1>4. QED
  BY <1>2, <1>3 DEF ReadRumour, StatusOf, Succeeds, Fails, TypeOK

LEMMA StatusWrite ==
    ASSUME OneWorker, TypeOK, StatusInv, NEW w \in Workers, WriteRumour(w)
    PROVE  StatusInv' /\ (\A t \in Threads : rumours[t] # NULL =>
              /\ rumours'[t] # NULL
              /\ \/ rumours'[t].status = rumours[t].status
                 \/ IsForwardTransition(rumours[t].status, rumours'[t].status))
<1> DEFINE T == ThreadOf(w)
           final == FinalStatus(seen[w], result[w].status)
           row == Upserted(rumours[T], result[w], final)
<1>1. /\ result[w] \in Reports /\ T \in Threads
      /\ rumours' = rumours \/ rumours' = [rumours EXCEPT ![T] = row]
  BY WriteEffect DEF TypeOK
<1>2. /\ result[w].status \in Statuses
      /\ rumours[T] # NULL => rumours[T] \in RumourRow /\ rumours[T].status \in Statuses
  BY <1>1, ThreadType DEF ReportType, RumourRow, TypeOK
<1>3. seen[w] = StatusOf(T) /\ pc[w] = "write"
  BY DEF StatusInv, WorkerInv, WriteRumour
<1>4. final \in Statuses
  BY <1>2, <1>3, FinalStatusType DEF StatusOf
<1>5. /\ row \in RumourRow /\ row # NULL /\ row.status = final
  <2>1. row \in RumourRow
    BY <1>1, <1>4, UpsertedType DEF TypeOK
  <2>2. QED
    BY <2>1, RangedTypes DEF Upserted
<1>6. rumours[T] # NULL =>
         /\ final = rumours[T].status \/ IsForwardTransition(rumours[T].status, final)
         /\ IsTerminal(rumours[T].status) => final = rumours[T].status
         /\ Progress(rumours[T].status) <= Progress(final)
  BY <1>2, <1>3, FinalStatusForward DEF StatusOf
<1>7. Progress(result[w].status) <= Progress(final)
  <2>1. CASE rumours[T] = NULL
    <3>1. final = result[w].status
      BY <1>3, <2>1 DEF StatusOf, FinalStatus
    <3>2. QED
      BY <1>2, <3>1, ProgressType
  <2>2. CASE rumours[T] # NULL
    BY <1>2, <1>3, <2>2, FinalStatusForward DEF StatusOf
  <2>3. QED
    BY <2>1, <2>2
<1>8. UNCHANGED <<events, credited, result, seen>>
  BY DEF WriteRumour
<1>9. CreditedAtMostOnce'
  BY <1>1, <1>5, <1>6, <1>8 DEF StatusInv, CreditedAtMostOnce, TypeOK
<1>10. StatusCoversTimeline'
  <2> SUFFICES ASSUME NEW t \in Threads, NEW a \in Articles, events[t][a] # NULL
               PROVE  /\ rumours'[t] # NULL
                      /\ Progress(events[t][a].status) <= Progress(rumours'[t].status)
    BY <1>8 DEF StatusCoversTimeline, Timeline
  <2>1. /\ rumours[t] # NULL
        /\ Progress(events[t][a].status) <= Progress(rumours[t].status)
    BY DEF StatusInv, StatusCoversTimeline, Timeline
  <2>2. CASE rumours'[t] = rumours[t]
    BY <2>1, <2>2
  <2>3. CASE t = T /\ rumours'[t] = row
    <3>1. events[t][a] \in Reports /\ events[t][a].status \in Statuses
      BY <2>1, ThreadType DEF TypeOK, ReportType
    <3>2. /\ Progress(events[t][a].status) \in 0..4
          /\ Progress(rumours[t].status) \in 0..4 /\ Progress(final) \in 0..4
      BY <1>2, <1>4, <2>1, <2>3, <3>1, ProgressType
    <3>3. QED
      BY <1>5, <1>6, <2>1, <2>3, <3>2
  <2>4. QED
    BY <1>1, <2>2, <2>3 DEF TypeOK
<1>11. WorkerInv(w)'
  <2>1. CASE pc'[w] = "mark"
    BY <2>1 DEF WorkerInv
  <2>2. CASE /\ pc'[w] = "event" /\ written'[w] = final
             /\ rumours' = [rumours EXCEPT ![T] = row]
    <3>1. ThreadOf(w)' = T /\ rumours'[T] = row
      BY <1>1, <1>8, <2>2 DEF ThreadOf, TypeOK
    <3>2. JustResolved(seen[w], final) => credited[T] = 0
      <4>1. /\ credited[T] \in Nat /\ credited[T] <= 1
            /\ credited[T] = 1 => rumours[T] # NULL /\ IsTerminal(rumours[T].status)
        BY <1>1 DEF StatusInv, CreditedAtMostOnce, TypeOK
      <4>2. JustResolved(seen[w], final) =>
              ~(rumours[T] # NULL /\ IsTerminal(rumours[T].status))
        <5>1. rumours[T] # NULL => seen[w] = rumours[T].status /\ seen[w] # NULL
          BY <1>2, <1>3, NullAssumption DEF StatusOf
        <5>2. QED
          BY <5>1 DEF JustResolved
      <4>3. QED
        BY <4>1, <4>2
    <3>3. QED
      BY <1>5, <1>7, <1>8, <2>2, <3>1, <3>2 DEF WorkerInv
  <2>3. QED
    BY <2>1, <2>2 DEF WriteRumour, Succeeds, Fails, TypeOK
<1>12. QED
  BY <1>1, <1>5, <1>6, <1>9, <1>10, <1>11 DEF OneWorker, StatusInv, TypeOK
LEMMA StatusInsertEvent ==
    ASSUME OneWorker, TypeOK, StatusInv, NEW w \in Workers, InsertEvent(w)
    PROVE  StatusInv'
<1> DEFINE T == ThreadOf(w)
           a == article[w]
<1>1. /\ result[w] \in Reports /\ T \in Threads /\ a \in Articles /\ pc[w] = "event"
  BY ThreadType DEF InsertEvent, TypeOK, ThreadOf
<1>2. /\ rumours[T] # NULL /\ rumours[T].status = written[w]
      /\ Progress(result[w].status) <= Progress(written[w])
      /\ JustResolved(seen[w], written[w]) => credited[T] = 0
  BY <1>1 DEF StatusInv, WorkerInv
<1>3. UNCHANGED <<rumours, credited, result, seen, written>>
  BY DEF InsertEvent, locals
<1>4. CreditedAtMostOnce'
  BY <1>3 DEF StatusInv, CreditedAtMostOnce
<1>5. \A t \in Threads, b \in Articles :
         \/ events'[t][b] = events[t][b]
         \/ t = T /\ b = a /\ events'[t][b] = result[w]
  BY <1>1 DEF InsertEvent, TypeOK
<1>6. StatusCoversTimeline'
  BY <1>2, <1>3, <1>5 DEF StatusInv, StatusCoversTimeline, Timeline
<1>7. WorkerInv(w)'
  <2>1. CASE pc'[w] = "mark"
    BY <2>1 DEF WorkerInv
  <2>2. CASE pc'[w] = "nudge" /\ JustResolved(seen[w], written[w])
    BY <1>2, <1>3, <2>2 DEF WorkerInv, ThreadOf
  <2>3. QED
    BY <2>1, <2>2 DEF InsertEvent, Succeeds, Fails, TypeOK
<1>8. QED
  BY <1>4, <1>6, <1>7 DEF OneWorker, StatusInv

LEMMA StatusNudge ==
    ASSUME OneWorker, TypeOK, StatusInv, NEW w \in Workers, Nudge(w)
    PROVE  StatusInv'
<1> DEFINE T == ThreadOf(w)
<1>1. /\ result[w] \in Reports /\ T \in Threads /\ pc[w] = "nudge"
  BY ThreadType DEF Nudge, TypeOK, ThreadOf
<1>2. /\ rumours[T] # NULL /\ credited[T] = 0 /\ IsTerminal(rumours[T].status)
  BY <1>1 DEF StatusInv, WorkerInv, JustResolved
<1>3. /\ UNCHANGED <<rumours, events>>
      /\ credited' = credited \/ credited' = [credited EXCEPT ![T] = @ + 1]
      /\ pc'[w] = "mark"
  BY DEF Nudge, TypeOK, Succeeds, Fails
<1>4. CreditedAtMostOnce'
  <2>1. \A t \in Threads : \/ credited'[t] = credited[t]
                           \/ t = T /\ credited'[t] = 1
    BY <1>1, <1>2, <1>3 DEF TypeOK
  <2>2. QED
    BY <1>2, <1>3, <2>1 DEF StatusInv, CreditedAtMostOnce
<1>5. StatusCoversTimeline'
  BY <1>3 DEF StatusInv, StatusCoversTimeline, Timeline
<1>6. WorkerInv(w)'
  BY <1>3 DEF WorkerInv
<1>7. QED
  BY <1>4, <1>5, <1>6 DEF OneWorker, StatusInv

LEMMA StatusInvStep ==
    ASSUME OneWorker, TypeOK, StatusInv, [Next]_vars
    PROVE  StatusInv'
<1>1. ASSUME NEW w \in Workers, List(w) \/ EndRun(w)
      PROVE  StatusInv'
  <2>1. pc'[w] = "idle" /\ UNCHANGED <<rumours, events, credited>>
    BY <1>1 DEF List, EndRun, tables
  <2>2. QED
    BY <2>1, StatusFrame
<1>2. ASSUME NEW w \in Workers, Extract(w)
      PROVE  StatusInv'
  <2>1. /\ pc'[w] \in {"resolve", "mark"}
        /\ UNCHANGED <<rumours, events, credited>>
    BY <1>2 DEF Extract, tables, TypeOK
  <2>2. QED
    BY <2>1, StatusFrame
<1>3. ASSUME NEW w \in Workers, Resolve(w)
      PROVE  StatusInv'
  <2>1. pc'[w] \in {"read", "mark"} /\ UNCHANGED <<rumours, events, credited>>
    BY <1>3 DEF Resolve, TypeOK, Succeeds, Fails
  <2>2. QED
    BY <2>1, StatusFrame
<1>4. ASSUME NEW w \in Workers, Mark(w) \/ Crash(w)
      PROVE  StatusInv'
  <2>1. pc'[w] = "idle" /\ UNCHANGED <<rumours, events, credited>>
    BY <1>4 DEF Mark, Crash, TypeOK, Succeeds, Fails, tables
  <2>2. QED
    BY <2>1, StatusFrame
<1>5. CASE UNCHANGED vars
  BY <1>5 DEF vars, tables, locals, StatusInv, CreditedAtMostOnce,
              StatusCoversTimeline, Timeline, WorkerInv, StatusOf, ThreadOf
<1>6. QED
  BY <1>1, <1>2, <1>3, <1>4, <1>5, StatusRead, StatusWrite, StatusInsertEvent,
     StatusNudge DEF Next, Work

LEMMA StatusInvariant ==
    ASSUME OneWorker
    PROVE  Spec => [](TypeOK /\ StatusInv)
<1>1. TypeOK /\ StatusInv /\ [Next]_vars => StatusInv'
  BY StatusInvStep
<1>2. QED
  BY <1>1, TypeInit, TypeStep, StatusInvInit, PTL DEF Spec

\* With one worker, the sources of a rumour are credited at most once, and
\* only after it resolved, whatever fails and whenever the process dies.
THEOREM CreditedOnce ==
    ASSUME OneWorker
    PROVE  Spec => []CreditedAtMostOnce
<1>1. StatusInv => CreditedAtMostOnce
  BY DEF StatusInv
<1>2. QED
  BY <1>1, StatusInvariant, PTL

\* With one worker, a rumour is never behind its timeline.
THEOREM StatusCovers ==
    ASSUME OneWorker
    PROVE  Spec => []StatusCoversTimeline
<1>1. StatusInv => StatusCoversTimeline
  BY DEF StatusInv
<1>2. QED
  BY <1>1, StatusInvariant, PTL

\* With one worker, no step takes a rumour back or out of its resolution.
THEOREM StatusForward ==
    ASSUME OneWorker
    PROVE  Spec => StatusMovesForward
<1> DEFINE Forward ==
      \A t \in Threads : rumours[t] # NULL =>
         /\ rumours'[t] # NULL
         /\ \/ rumours'[t].status = rumours[t].status
            \/ IsForwardTransition(rumours[t].status, rumours'[t].status)
<1>1. ASSUME TypeOK, StatusInv, [Next]_vars
      PROVE  Forward
  <2>1. CASE UNCHANGED rumours
    BY <2>1
  <2>2. ASSUME NEW w \in Workers, WriteRumour(w)
        PROVE  Forward
    BY <1>1, <2>2, StatusWrite
  <2>3. QED
    BY <1>1, <2>1, <2>2, RumoursFrame
<1>2. QED
  BY <1>1, StatusInvariant, PTL DEF Spec, StatusMovesForward
-----------------------------------------------------------------------------
(* A single worker implements the ledger. *)

\* The ledger takes its decisions with the same operators.
LEMMA LedgerDecisions ==
    /\ \A s, r : Ledger!FinalStatus(s, r) = FinalStatus(s, r)
    /\ \A s : Ledger!IsTerminal(s) = IsTerminal(s) /\ Ledger!Progress(s) = Progress(s)
BY DEF Ledger!FinalStatus, Ledger!IsForwardTransition, Ledger!IsTerminal,
       Ledger!Terminal, Ledger!statusRank, Ledger!Progress, FinalStatus,
       IsForwardTransition, IsTerminal, Terminal, statusRank, Progress

LEMMA LedgerRows ==
    /\ \A row, r, s : Ledger!Upserted(row, r, s) = Upserted(row, r, s)
    /\ \A row, r : Ledger!Spans(row, r) = Spans(row, r)
BY DEF Ledger!Upserted, Ledger!Least, Ledger!Greatest, Ledger!Spans, Upserted,
       Least, Greatest, Spans

LEMMA LedgerScores ==
    /\ \A n : Ledger!Clamp(n) = Clamp(n)
    /\ \A s : Ledger!Delta(s) = Delta(s)
BY DEF Ledger!Clamp, Ledger!Delta, Ledger!reliabilityNudge, Clamp, Delta,
       reliabilityNudge

\* Only UpsertRumour, InsertRumourEvent and NudgeSourceReliability touch what
\* the ledger sees.
LEMMA LedgerFrame ==
    ASSUME [Next]_vars
    PROVE  \/ UNCHANGED <<rumours, events, score, credited>>
           \/ \E w \in Workers : WriteRumour(w) \/ InsertEvent(w) \/ Nudge(w)
BY DEF Next, vars, Work, List, EndRun, Extract, Resolve, ReadRumour, Mark,
       Crash, tables

LEMMA LedgerWrite ==
    ASSUME TypeOK, StatusInv, NEW w \in Workers, WriteRumour(w)
    PROVE  [Ledger!Next]_(Ledger!vars)
<1> DEFINE T == ThreadOf(w)
<1>1. /\ result[w] \in Reports /\ T \in Threads
      /\ \/ rumours' = rumours
         \/ rumours' = [rumours EXCEPT ![T] =
                Upserted(@, result[w], FinalStatus(seen[w], result[w].status))]
  BY WriteEffect
<1>2. seen[w] = StatusOf(T)
  BY DEF StatusInv, WorkerInv, WriteRumour
<1>3. UNCHANGED <<events, score, credited>>
  BY DEF WriteRumour
<1>4. UNCHANGED rumours \/ Ledger!Report(T, result[w])
  BY <1>1, <1>2, <1>3, LedgerDecisions, LedgerRows DEF Ledger!Report, StatusOf
<1>5. QED
  BY <1>1, <1>3, <1>4 DEF Ledger!Next, Ledger!vars

LEMMA LedgerInsertEvent ==
    ASSUME TypeOK, StatusInv, FeeInv, NEW w \in Workers, InsertEvent(w)
    PROVE  [Ledger!Next]_(Ledger!vars)
<1> DEFINE T == ThreadOf(w)
           a == article[w]
           row == [events[T] EXCEPT ![a] = IF @ = NULL THEN result[w] ELSE @]
<1>1. /\ result[w] \in Reports /\ T \in Threads /\ a \in Articles /\ pc[w] = "event"
  BY ThreadType DEF InsertEvent, TypeOK, ThreadOf
<1>2. /\ rumours[T] # NULL /\ Spans(rumours[T], result[w])
      /\ Progress(result[w].status) <= Progress(rumours[T].status)
  BY <1>1 DEF StatusInv, WorkerInv, FeeInv
<1>3. UNCHANGED <<rumours, score, credited>>
  BY DEF InsertEvent
<1>4. events' = events \/ events' = [events EXCEPT ![T] = row]
  BY <1>1 DEF InsertEvent, TypeOK
<1>5. CASE events[T][a] # NULL
  <2>1. row = events[T]
    BY <1>1, <1>5 DEF TypeOK
  <2>2. events' = events
    BY <1>1, <1>4, <2>1 DEF TypeOK
  <2>3. QED
    BY <1>3, <2>2 DEF Ledger!vars
<1>6. CASE events[T][a] = NULL
  <2>1. row = [events[T] EXCEPT ![a] = result[w]]
    BY <1>1, <1>6 DEF TypeOK
  <2>2. events' = events \/ events' = [events EXCEPT ![T][a] = result[w]]
    BY <1>1, <1>4, <2>1 DEF TypeOK
  <2>3. UNCHANGED events \/ Ledger!Record(T, a, result[w])
    BY <1>2, <1>3, <1>6, <2>2, LedgerDecisions, LedgerRows DEF Ledger!Record
  <2>4. QED
    BY <1>1, <1>3, <2>3 DEF Ledger!Next, Ledger!vars
<1>7. QED
  BY <1>5, <1>6

LEMMA LedgerNudge ==
    ASSUME TypeOK, StatusInv, NEW w \in Workers, Nudge(w)
    PROVE  [Ledger!Next]_(Ledger!vars)
<1> DEFINE T == ThreadOf(w)
<1>1. /\ result[w] \in Reports /\ T \in Threads /\ pc[w] = "nudge"
  BY ThreadType DEF Nudge, TypeOK, ThreadOf
<1>2. /\ rumours[T] # NULL /\ credited[T] = 0 /\ IsTerminal(rumours[T].status)
      /\ rumours[T].status = written[w]
  BY <1>1 DEF StatusInv, WorkerInv, JustResolved
<1>3. UNCHANGED <<rumours, events>>
  BY DEF Nudge
<1>4. CASE UNCHANGED <<score, credited>>
  BY <1>3, <1>4 DEF Ledger!vars
<1> DEFINE Moved == [s \in Sources |->
                 IF s \in Contributors(T)
                 THEN Clamp(score[s] + Delta(written[w])) ELSE score[s]]
<1>5. CASE score' = Moved /\ Contributors(T) = {} /\ credited' = credited
  <2>1. score' = score
    BY <1>5 DEF TypeOK
  <2>2. QED
    BY <1>3, <1>5, <2>1 DEF Ledger!vars
<1>6. CASE score' = Moved /\ credited' = [credited EXCEPT ![T] = @ + 1]
  <2>1. credited' = [credited EXCEPT ![T] = 1]
    BY <1>1, <1>2, <1>6 DEF TypeOK
  <2>2. \A s \in Sources : s \in Contributors(T) <=>
            \E a \in Articles : events[T][a] # NULL /\ SourceOf[a] = s
    BY DEF Contributors
  <2>3. Ledger!Settle(T)
    BY <1>2, <1>3, <1>6, <2>1, <2>2, LedgerDecisions, LedgerScores DEF Ledger!Settle
  <2>4. QED
    BY <1>1, <2>3 DEF Ledger!Next
<1>7. QED
  BY <1>4, <1>5, <1>6 DEF Nudge

\* With one worker, the statement sequence with its failures and crashes
\* implements RumourLedger.
THEOREM LedgerImplemented ==
    ASSUME OneWorker
    PROVE  Spec => ImplementsLedger
<1>1. Init => Ledger!Init
  BY DEF Init, Ledger!Init
<1>2. TypeOK /\ StatusInv /\ FeeInv /\ [Next]_vars => [Ledger!Next]_(Ledger!vars)
  <2>1. CASE UNCHANGED <<rumours, events, score, credited>>
    BY <2>1 DEF Ledger!vars
  <2>2. QED
    BY <2>1, LedgerFrame, LedgerWrite, LedgerInsertEvent, LedgerNudge
<1>3. Spec => []FeeInv
  BY TypeInit, TypeStep, FeeInvInit, FeeInvStep, PTL DEF Spec
<1>4. QED
  BY <1>1, <1>2, <1>3, StatusInvariant, PTL DEF Spec, Ledger!Spec, ImplementsLedger
-----------------------------------------------------------------------------
(* With one worker and no faults, a resolution is credited. *)

\* A worker is on its way to credit the sources of t.
Owed(t) ==
    \E w \in Workers : /\ pc[w] \in {"event", "nudge"}
                       /\ ThreadOf(w) = t
                       /\ JustResolved(seen[w], written[w])

\* A rumour that resolved is credited or has the worker that resolved it
\* between its INSERT and the credit.
CreditInv ==
    faults = 0 =>
        \A t \in Threads :
            rumours[t] # NULL /\ IsTerminal(rumours[t].status) =>
                credited[t] = 1 \/ Owed(t)

\* Without faults, every statement of a step succeeds.
LEMMA NoFault ==
    ASSUME TypeOK, faults' = 0, NEW w, NEW next
    PROVE  ~Fails(w, next)
BY FaultAssumption DEF TypeOK, Fails

\* While its only worker is elsewhere, a thread is owed nothing.
LEMMA NotOwed ==
    ASSUME OneWorker, NEW w \in Workers, NEW t \in Threads,
           pc[w] \notin {"event", "nudge"} \/ ThreadOf(w) # t
    PROVE  ~Owed(t)
BY DEF OneWorker, Owed

LEMMA CreditWrite ==
    ASSUME OneWorker, TypeOK, StatusInv, CreditInv, faults = 0, faults' = 0,
           NEW w \in Workers, WriteRumour(w)
    PROVE  CreditInv'
<1> DEFINE T == ThreadOf(w)
           final == FinalStatus(seen[w], result[w].status)
           row == Upserted(rumours[T], result[w], final)
<1>1. /\ result[w] \in Reports /\ T \in Threads /\ pc[w] = "write"
      /\ seen[w] = StatusOf(T)
  BY WriteEffect DEF StatusInv, WorkerInv, WriteRumour
<1>2. /\ rumours' = [rumours EXCEPT ![T] = row]
      /\ written' = [written EXCEPT ![w] = final]
      /\ pc' = [pc EXCEPT ![w] = "event"]
      /\ UNCHANGED <<result, seen, credited>>
  BY NoFault DEF WriteRumour, Succeeds
<1>3. row.status = final
  BY DEF Upserted
<1>4. /\ T' = T /\ pc'[w] = "event" /\ written'[w] = final
      /\ rumours'[T] = row
  BY <1>1, <1>2 DEF ThreadOf, TypeOK
<1>5. ASSUME NEW t \in Threads, t # T,
             rumours'[t] # NULL, IsTerminal(rumours'[t].status)
      PROVE  credited'[t] = 1
  <2>1. rumours'[t] = rumours[t] /\ credited'[t] = credited[t]
    BY <1>2, <1>5 DEF TypeOK
  <2>2. ~Owed(t)
    BY <1>1, NotOwed
  <2>3. QED
    BY <1>5, <2>1, <2>2 DEF CreditInv
<1>6. ASSUME IsTerminal(final)
      PROVE  credited'[T] = 1 \/ Owed(T)'
  <2>1. CASE JustResolved(seen[w], final)
    BY <1>2, <1>4, <2>1 DEF Owed, ThreadOf
  <2>2. CASE ~JustResolved(seen[w], final)
    <3>1. rumours[T] # NULL /\ IsTerminal(rumours[T].status)
      BY <1>1, <1>6, <2>2 DEF JustResolved, StatusOf
    <3>2. ~Owed(T)
      BY <1>1, NotOwed
    <3>3. QED
      BY <1>1, <1>2, <3>1, <3>2 DEF CreditInv
  <2>3. QED
    BY <2>1, <2>2
<1>7. QED
  <2> SUFFICES ASSUME NEW t \in Threads,
                      rumours'[t] # NULL, IsTerminal(rumours'[t].status)
               PROVE  credited'[t] = 1 \/ Owed(t)'
    BY DEF CreditInv
  <2>1. CASE t # T
    BY <1>5, <2>1
  <2>2. CASE t = T
    <3>1. IsTerminal(final)
      BY <1>3, <1>4, <2>2
    <3>2. credited'[T] = 1 \/ Owed(T)'
      BY <1>6, <3>1
    <3>3. QED
      BY <1>2, <2>2, <3>2 DEF Owed, ThreadOf
  <2>3. QED
    BY <2>1, <2>2

LEMMA CreditInsertEvent ==
    ASSUME OneWorker, TypeOK, StatusInv, CreditInv, faults = 0, faults' = 0,
           NEW w \in Workers, InsertEvent(w)
    PROVE  CreditInv'
<1>1. pc[w] = "event" /\ rumours[ThreadOf(w)] # NULL
  BY DEF StatusInv, WorkerInv, InsertEvent
<1>2. /\ UNCHANGED <<rumours, credited, result, seen, written>>
      /\ pc' = [pc EXCEPT ![w] = IF JustResolved(seen[w], written[w])
                                 THEN "nudge" ELSE "mark"]
  BY <1>1, NoFault DEF InsertEvent, Succeeds, locals
<1>3. ASSUME NEW t \in Threads, Owed(t)
      PROVE  Owed(t)'
  <2>1. ThreadOf(w) = t /\ JustResolved(seen[w], written[w])
    BY <1>3 DEF Owed, OneWorker
  <2>2. pc'[w] = "nudge"
    BY <1>2, <2>1 DEF TypeOK
  <2>3. QED
    BY <1>2, <2>1, <2>2 DEF Owed, ThreadOf
<1>4. QED
  BY <1>2, <1>3 DEF CreditInv

LEMMA CreditNudge ==
    ASSUME OneWorker, TypeOK, StatusInv, DropInv, CreditInv,
           faults = 0, faults' = 0, NEW w \in Workers, Nudge(w)
    PROVE  CreditInv'
<1> DEFINE T == ThreadOf(w)
<1>1. pc[w] = "nudge" /\ result[w] \in Reports /\ T \in Threads
      /\ article[w] \in Articles
  BY ThreadType DEF Nudge, TypeOK, ThreadOf
<1>2. Contributors(T) # {}
  BY <1>1 DEF DropInv, Recorded, Contributors
<1>3. credited[T] = 0
  BY <1>1 DEF StatusInv, WorkerInv
<1>4. rumours' = rumours /\ credited' = [credited EXCEPT ![T] = @ + 1]
  BY <1>2, NoFault DEF Nudge
<1>5. credited'[T] = 1 /\ \A t \in Threads \ {T} : credited'[t] = credited[t]
  BY <1>1, <1>3, <1>4 DEF TypeOK
<1>6. \A t \in Threads \ {T} : ~Owed(t)
  BY NotOwed
<1>7. QED
  BY <1>4, <1>5, <1>6 DEF CreditInv

LEMMA CreditInvStep ==
    ASSUME OneWorker, TypeOK, StatusInv, DropInv, CreditInv, [Next]_vars
    PROVE  CreditInv'
<1> SUFFICES ASSUME faults' = 0
             PROVE  CreditInv'
  BY DEF CreditInv
<1>1. faults = 0
  BY FaultsGrow
<1>2. ASSUME NEW w \in Workers, pc[w] \notin {"event", "nudge"},
             UNCHANGED <<rumours, credited>>
      PROVE  CreditInv'
  <2>1. \A t \in Threads : ~Owed(t)
    BY <1>2, NotOwed
  <2>2. QED
    BY <1>1, <1>2, <2>1 DEF CreditInv
<1>3. ASSUME NEW w \in Workers, List(w) \/ EndRun(w) \/ Extract(w)
      PROVE  CreditInv'
  BY <1>2, <1>3 DEF List, EndRun, Extract, tables
<1>4. ASSUME NEW w \in Workers, Resolve(w) \/ ReadRumour(w) \/ Mark(w)
      PROVE  CreditInv'
  BY <1>2, <1>4 DEF Resolve, ReadRumour, Mark, tables
<1>5. ASSUME NEW w \in Workers, Crash(w) PROVE FALSE
  BY <1>5, NoFault DEF Crash
<1>6. CASE UNCHANGED vars
  BY <1>6 DEF vars, tables, locals, CreditInv, Owed, ThreadOf
<1>7. QED
  BY <1>1, <1>3, <1>4, <1>5, <1>6, CreditWrite, CreditInsertEvent, CreditNudge
  DEF Next, Work

\* What the proofs without faults build on.
LEMMA CalmInvariant ==
    ASSUME OneWorker
    PROVE  Spec => [](TypeOK /\ StatusInv /\ FeeInv /\ DropInv)
<1>1. Spec => [](TypeOK /\ FeeInv)
  BY TypeInit, TypeStep, FeeInvInit, FeeInvStep, PTL DEF Spec
<1>2. Spec => []DropInv
  BY <1>1, DropInvInit, DropInvStep, PTL DEF Spec
<1>3. QED
  BY <1>1, <1>2, StatusInvariant, PTL

\* With one worker, a resolution is credited unless a statement failed or the
\* process died.
THEOREM ResolutionCredited ==
    ASSUME OneWorker
    PROVE  Spec => []ResolutionIsCredited
<1>1. Init => CreditInv
  BY DEF Init, CreditInv
<1>2. TypeOK /\ StatusInv /\ DropInv /\ CreditInv /\ [Next]_vars => CreditInv'
  BY CreditInvStep
<1>3. CreditInv => ResolutionIsCredited
  BY DEF CreditInv, ResolutionIsCredited, Owed, Filing
<1>4. QED
  BY <1>1, <1>2, <1>3, CalmInvariant, PTL DEF Spec
-----------------------------------------------------------------------------
(* With one worker and no faults, a rumour is what its timeline says. *)

\* An article is worked on before it is processed, and on a timeline only
\* from the insertion of its event on.
QueueInv ==
    faults = 0 =>
        /\ \A w \in Workers : \A a \in batch[w] : ~processed[a]
        /\ \A w \in Workers : pc[w] # "idle" =>
              article[w] \notin batch[w] /\ ~processed[article[w]]
        /\ \A t \in Threads : \A a \in Articles : events[t][a] # NULL =>
              \/ processed[a]
              \/ \E w \in Workers : pc[w] \in {"nudge", "mark"} /\ article[w] = a

\* What a step without faults does to what QueueInv speaks of.
LEMMA QueueSteps ==
    ASSUME TypeOK, faults' = 0, NEW w \in Workers, Work(w),
           ~InsertEvent(w), ~Mark(w)
    PROVE  /\ UNCHANGED <<processed, events>>
           /\ \/ /\ pc[w] = "idle" /\ pc'[w] = "idle" /\ article'[w] = article[w]
                 /\ \A a \in batch'[w] : ~processed[a]
              \/ /\ pc[w] = "idle" /\ pc'[w] \in {"resolve", "mark"}
                 /\ article'[w] \in batch[w]
                 /\ batch'[w] = batch[w] \ {article'[w]}
              \/ /\ pc[w] \notin {"idle", "mark"} /\ pc'[w] # "idle"
                 /\ article'[w] = article[w] /\ batch'[w] = batch[w]
                 /\ pc[w] = "nudge" => pc'[w] = "mark"
<1> USE DEF TypeOK, queue, names, tables, locals
<1>1. CASE List(w)
  BY <1>1 DEF List
<1>2. CASE EndRun(w)
  BY <1>2 DEF EndRun
<1>3. CASE Extract(w)
  <2>1. PICK a \in batch[w], x \in Extractions :
           /\ batch' = [batch EXCEPT ![w] = @ \ {a}]
           /\ article' = [article EXCEPT ![w] = a]
           /\ pc' = [pc EXCEPT ![w] = IF x \in Reports THEN "resolve" ELSE "mark"]
    BY <1>3 DEF Extract
  <2>2. pc[w] = "idle" /\ UNCHANGED <<processed, events>>
    BY <1>3 DEF Extract
  <2>3. QED
    BY <2>1, <2>2
<1>4. CASE Resolve(w) \/ ReadRumour(w)
  BY <1>4, NoFault DEF Resolve, ReadRumour, Succeeds
<1>5. CASE WriteRumour(w) \/ Nudge(w)
  BY <1>5, NoFault DEF WriteRumour, Nudge, Succeeds
<1>6. QED
  BY <1>1, <1>2, <1>3, <1>4, <1>5 DEF Work

LEMMA QueueInvStep ==
    ASSUME OneWorker, TypeOK, QueueInv, [Next]_vars
    PROVE  QueueInv'
<1> SUFFICES ASSUME faults' = 0
             PROVE  QueueInv'
  BY DEF QueueInv
<1>1. faults = 0
  BY FaultsGrow
<1>2. ASSUME NEW w \in Workers, Work(w), ~InsertEvent(w), ~Mark(w)
      PROVE  QueueInv'
  <2>1. \A v \in Workers : v = w
    BY DEF OneWorker
  <2>2. batch[w] \subseteq Articles
    BY DEF TypeOK
  <2>3. QED
    BY <1>1, <1>2, <2>1, <2>2, QueueSteps DEF QueueInv
<1>3. ASSUME NEW w \in Workers, InsertEvent(w)
      PROVE  QueueInv'
  <2>1. \A v \in Workers : v = w
    BY DEF OneWorker
  <2>2. /\ pc[w] = "event" /\ article[w] \in Articles
        /\ result[w] \in Reports /\ ThreadOf(w) \in Threads
    BY <1>3, ThreadType DEF InsertEvent, TypeOK, ThreadOf
  <2>3. /\ UNCHANGED <<processed, batch, article>>
        /\ pc'[w] \in {"nudge", "mark"}
    BY <1>3, NoFault DEF InsertEvent, Succeeds, TypeOK, queue, locals
  <2>4. \A t \in Threads, a \in Articles :
           events'[t][a] = events[t][a] \/ a = article[w]
    <3> DEFINE row == [events[ThreadOf(w)] EXCEPT ![article[w]] =
                           IF @ = NULL THEN result[w] ELSE @]
    <3>1. events' = events \/ events' = [events EXCEPT ![ThreadOf(w)] = row]
      BY <1>3, <2>2 DEF InsertEvent, TypeOK
    <3>2. \A a \in Articles :
             row[a] = events[ThreadOf(w)][a] \/ a = article[w]
      BY <2>2 DEF TypeOK
    <3>3. QED
      BY <2>2, <3>1, <3>2 DEF TypeOK
  <2>5. QED
    BY <1>1, <2>1, <2>2, <2>3, <2>4 DEF QueueInv
<1>4. ASSUME NEW w \in Workers, Mark(w)
      PROVE  QueueInv'
  <2>1. \A v \in Workers : v = w
    BY DEF OneWorker
  <2>2. pc[w] = "mark" /\ article[w] \in Articles
    BY <1>4 DEF Mark, TypeOK
  <2>3. /\ UNCHANGED <<batch, events>>
        /\ pc'[w] = "idle"
        /\ processed' = [processed EXCEPT ![article[w]] = TRUE]
    BY <1>4, NoFault DEF Mark, Succeeds, TypeOK
  <2>4. \A a \in Articles : processed'[a] <=> processed[a] \/ a = article[w]
    BY <2>2, <2>3 DEF TypeOK
  <2>5. batch[w] \subseteq Articles
    BY DEF TypeOK
  <2>6. QED
    BY <1>1, <2>1, <2>2, <2>3, <2>4, <2>5 DEF QueueInv
<1>5. ASSUME NEW w \in Workers, Crash(w) PROVE FALSE
  BY <1>5, NoFault DEF Crash
<1>6. CASE UNCHANGED vars
  BY <1>6 DEF vars, tables, queue, locals, QueueInv
<1>7. QED
  BY <1>2, <1>3, <1>4, <1>5, <1>6 DEF Next, Work

\* Report r is on the timeline of t or about to be put there.
Tells(r, t) ==
    \/ \E a \in Articles : events[t][a] = r
    \/ \E w \in Workers : pc[w] = "event" /\ ThreadOf(w) = t /\ result[w] = r

\* Every datum of a row of thread t was told by some report.
Told(row, t) ==
    /\ \E r \in Reports : Tells(r, t) /\ r.status = row.status
    /\ \/ row.min = NULL
       \/ \E r \in Reports : Tells(r, t) /\ r.min = row.min
    /\ \/ row.max = NULL
       \/ \E r \in Reports : Tells(r, t) /\ r.max = row.max

ToldInv ==
    faults = 0 => \A t \in Threads : rumours[t] # NULL => Told(rumours[t], t)

\* What a worker filing a report on t holds is what the tables hold.
Current(t) ==
    \A w \in Workers : ThreadOf(w) = t =>
        /\ pc[w] = "write" => seen[w] = StatusOf(t)
        /\ pc[w] = "event" => rumours[t] # NULL

\* An event that is on a timeline is never replaced.
LEMMA EventStays ==
    ASSUME TypeOK, [Next]_vars, NEW t \in Threads, NEW a \in Articles,
           events[t][a] # NULL
    PROVE  events'[t][a] = events[t][a]
<1>1. ASSUME NEW w \in Workers, InsertEvent(w)
      PROVE  events'[t][a] = events[t][a]
  <2>1. ThreadOf(w) \in Threads /\ article[w] \in Articles
    BY <1>1, ThreadType DEF InsertEvent, TypeOK, ThreadOf
  <2>2. \/ events' = events
        \/ events' = [events EXCEPT ![ThreadOf(w)][article[w]] =
                         IF @ = NULL THEN result[w] ELSE @]
    BY <1>1 DEF InsertEvent
  <2>3. events \in [Threads -> [Articles -> Reports \cup {NULL}]]
    BY DEF TypeOK
  <2>4. QED
    BY <2>1, <2>2, <2>3
<1>2. QED
  BY <1>1, EventsFrame

\* Without faults, what a report told stays told.
LEMMA TellsStays ==
    ASSUME OneWorker, TypeOK, QueueInv, [Next]_vars, faults = 0, faults' = 0,
           NEW r \in Reports, NEW t \in Threads, Current(t), Tells(r, t)
    PROVE  Tells(r, t)'
<1>1. r # NULL
  BY ReportAssumption
<1>2. ASSUME NEW a \in Articles, events[t][a] = r
      PROVE  Tells(r, t)'
  BY <1>1, <1>2, EventStays DEF Tells
<1>3. ASSUME NEW w \in Workers, pc[w] = "event", ThreadOf(w) = t, result[w] = r
      PROVE  Tells(r, t)'
  <2>1. CASE InsertEvent(w)
    <3>1. rumours[t] # NULL /\ article[w] \in Articles
      BY <1>3 DEF Current, TypeOK
    <3>2. events[t][article[w]] = NULL
      BY <1>3, <3>1 DEF QueueInv, OneWorker
    <3>3. events' = [events EXCEPT ![t][article[w]] = IF @ = NULL THEN r ELSE @]
      BY <1>3, <2>1, <3>1, NoFault DEF InsertEvent
    <3>4. events'[t][article[w]] = r
      BY <3>1, <3>2, <3>3 DEF TypeOK
    <3>5. QED
      BY <3>1, <3>4 DEF Tells
  <2>2. CASE UNCHANGED vars
    BY <1>3, <2>2 DEF vars, locals, Tells, ThreadOf
  <2>3. ASSUME NEW v \in Workers, Work(v), ~InsertEvent(v)
        PROVE  FALSE
    <3>1. v = w
      BY DEF OneWorker
    <3>2. QED
      BY <1>3, <2>3, <3>1 DEF Work, List, EndRun, Extract, Resolve,
         ReadRumour, WriteRumour, Nudge, Mark
  <2>4. ASSUME NEW v \in Workers, Crash(v)
        PROVE  FALSE
    BY <2>4, NoFault DEF Crash
  <2>5. QED
    BY <2>1, <2>2, <2>3, <2>4 DEF Next, OneWorker
<1>4. QED
  BY <1>2, <1>3 DEF Tells

LEMMA ToldStays ==
    ASSUME OneWorker, TypeOK, QueueInv, [Next]_vars, faults = 0, faults' = 0,
           NEW row, NEW t \in Threads, Current(t), Told(row, t)
    PROVE  Told(row, t)'
<1>1. \A r \in Reports : Tells(r, t) => Tells(r, t)'
  BY TellsStays
<1>2. QED
  BY <1>1 DEF Told

\* An upsert writes what its report or an earlier one told.
LEMMA ToldWrite ==
    ASSUME OneWorker, TypeOK, QueueInv, faults = 0, faults' = 0,
           NEW w \in Workers, WriteRumour(w), NEW t \in Threads,
           t = ThreadOf(w), Current(t),
           NEW old, old = rumours[t], old # NULL => Told(old, t),
           NEW row, row = rumours'[t]
    PROVE  Told(row, t)'
<1>1. result[w] \in Reports /\ seen[w] = StatusOf(t)
  BY WriteEffect DEF Current, WriteRumour
<1> PICK r \in Reports : r = result[w]
  BY <1>1
<1> DEFINE final == FinalStatus(seen[w], r.status)
<1>2. /\ row = Upserted(old, r, final)
      /\ pc' = [pc EXCEPT ![w] = "event"]
      /\ UNCHANGED <<result, events>>
  BY NoFault DEF WriteRumour, Succeeds, TypeOK
<1>3. Tells(r, t)'
  <2>1. ThreadOf(w)' = t /\ result'[w] = r /\ pc'[w] = "event"
    BY <1>2 DEF ThreadOf, TypeOK
  <2>2. QED
    BY <2>1 DEF Tells, ThreadOf
<1>4. old # NULL => Told(old, t)'
  <2>1. [Next]_vars
    BY DEF Next, Work
  <2>2. QED
    BY <2>1, ToldStays
<1>5. \E x \in Reports : Tells(x, t)' /\ x.status = row.status
  <2>1. row.status = final
    BY <1>2 DEF Upserted
  <2>2. final = r.status \/ (old # NULL /\ final = old.status)
    BY <1>1 DEF FinalStatus, StatusOf
  <2>3. QED
    BY <1>3, <1>4, <2>1, <2>2 DEF Told
<1>6. row.min = NULL \/ \E x \in Reports : Tells(x, t)' /\ x.min = row.min
  <2>1. row.min = r.min \/ (old # NULL /\ row.min = old.min)
    BY <1>2 DEF Upserted, Least
  <2>2. QED
    BY <1>3, <1>4, <2>1 DEF Told
<1>7. row.max = NULL \/ \E x \in Reports : Tells(x, t)' /\ x.max = row.max
  <2>1. row.max = r.max \/ (old # NULL /\ row.max = old.max)
    BY <1>2 DEF Upserted, Greatest
  <2>2. QED
    BY <1>3, <1>4, <2>1 DEF Told
<1>8. QED
  BY <1>5, <1>6, <1>7 DEF Told

\* What is told of a rumour after a step of extraction.
LEMMA ToldStep ==
    ASSUME OneWorker, TypeOK, QueueInv, [Next]_vars, faults = 0, faults' = 0,
           NEW t \in Threads, Current(t), rumours[t] # NULL => Told(rumours[t], t),
           NEW row, row = rumours'[t], row # NULL
    PROVE  Told(row, t)'
<1> PICK old : old = rumours[t]
  OBVIOUS
<1>1. CASE row = old
  BY <1>1, ToldStays
<1>2. ASSUME NEW w \in Workers, WriteRumour(w), row # old
      PROVE  Told(row, t)'
  <2>1. t = ThreadOf(w)
    BY <1>2, WriteEffect DEF TypeOK
  <2>2. QED
    BY <1>2, <2>1, ToldWrite
<1>3. QED
  BY <1>1, <1>2, RumoursFrame

LEMMA ToldInvStep ==
    ASSUME OneWorker, TypeOK, StatusInv, QueueInv, ToldInv, [Next]_vars
    PROVE  ToldInv'
<1> SUFFICES ASSUME faults' = 0, NEW t \in Threads, rumours'[t] # NULL
             PROVE  Told(rumours[t], t)'
  BY DEF ToldInv
<1>1. faults = 0
  BY FaultsGrow
<1>2. Current(t)
  BY DEF Current, StatusInv, WorkerInv
<1> PICK row : row = rumours'[t]
  OBVIOUS
<1>3. Told(row, t)'
  BY <1>1, <1>2, ToldStep DEF ToldInv
<1>4. QED
  BY <1>3 DEF Told

\* Once every report is filed, what was told is on the timeline.
LEMMA ToldFiled ==
    ASSUME NEW t, NEW row, Told(row, t), \A w \in Workers : ~Filing(w, t)
    PROVE  /\ \E a \in Timeline(t) : events[t][a].status = row.status
           /\ \/ row.min = NULL
              \/ \E a \in Timeline(t) : events[t][a].min = row.min
           /\ \/ row.max = NULL
              \/ \E a \in Timeline(t) : events[t][a].max = row.max
<1>1. \A r \in Reports : Tells(r, t) => \E a \in Timeline(t) : events[t][a] = r
  BY ReportAssumption DEF Tells, Filing, Timeline
<1>2. QED
  BY <1>1 DEF Told

\* With one worker and no faults, a rumour whose reports are all filed is
\* exactly what its timeline says.
THEOREM RumourIsTimeline ==
    ASSUME OneWorker
    PROVE  Spec => []RumourIsItsTimeline
<1>1. Init => QueueInv /\ ToldInv
  BY DEF Init, QueueInv, ToldInv
<1>2. TypeOK /\ StatusInv /\ QueueInv /\ ToldInv /\ [Next]_vars => QueueInv' /\ ToldInv'
  BY QueueInvStep, ToldInvStep
<1>3. ToldInv => RumourIsItsTimeline
  BY ToldFiled DEF ToldInv, RumourIsItsTimeline
<1>4. QED
  BY <1>1, <1>2, <1>3, CalmInvariant, PTL DEF Spec
-----------------------------------------------------------------------------
(* With one worker, a source's score is earned. *)

Rumoured == {t \in Threads : rumours[t] # NULL}

\* The rumours source s was credited for.
EarnedBy(s, outcome) == {t \in ResolvedFor(s, outcome) : credited[t] = 1}

\* The score is within what the credits taken so far allow; the rumours, of
\* which there are finitely many at any time, are what bounds their number.
ScoreInv ==
    /\ IsFiniteSet(Rumoured)
    /\ \A s \in Sources :
          /\ score[s] <= Clamp(InitialScore[s]
                + reliabilityNudge * Cardinality(EarnedBy(s, "confirmed")))
          /\ score[s] >= Clamp(InitialScore[s]
                - reliabilityNudge * Cardinality(EarnedBy(s, "collapsed")))

\* What a bound on a score allows after n credits it allows after m >= n, and
\* a nudge stays within the bound of one credit more.
LEMMA ClampBounds ==
    ASSUME NEW start \in 0..100, NEW old \in 0..100,
           NEW n \in Nat, NEW m \in Nat, n <= m
    PROVE  /\ old <= Clamp(start + 2 * n) =>
                /\ old <= Clamp(start + 2 * m)
                /\ Clamp(old - 2) <= Clamp(start + 2 * m)
                /\ n + 1 <= m => Clamp(old + 2) <= Clamp(start + 2 * m)
           /\ old >= Clamp(start - 2 * n) =>
                /\ old >= Clamp(start - 2 * m)
                /\ Clamp(old + 2) >= Clamp(start - 2 * m)
                /\ n + 1 <= m => Clamp(old - 2) >= Clamp(start - 2 * m)
<1> DEFINE p == 2 * n
           q == 2 * m
<1>1. p \in Nat /\ q \in Nat /\ p <= q /\ (n + 1 <= m => p + 2 <= q)
  OBVIOUS
<1> HIDE DEF p, q
<1>2. old <= Clamp(start + p) =>
         /\ old <= Clamp(start + q)
         /\ Clamp(old - 2) <= Clamp(start + q)
         /\ p + 2 <= q => Clamp(old + 2) <= Clamp(start + q)
  BY <1>1 DEF Clamp
<1>3. old >= Clamp(start - p) =>
         /\ old >= Clamp(start - q)
         /\ Clamp(old + 2) >= Clamp(start - q)
         /\ p + 2 <= q => Clamp(old - 2) >= Clamp(start - q)
  BY <1>1 DEF Clamp
<1>4. QED
  BY <1>1, <1>2, <1>3 DEF p, q

\* What was earned is part of what was resolved, and both are finite.
LEMMA EarnedFinite ==
    ASSUME IsFiniteSet(Rumoured), NEW s, NEW o
    PROVE  /\ IsFiniteSet(ResolvedFor(s, o)) /\ IsFiniteSet(EarnedBy(s, o))
           /\ Cardinality(ResolvedFor(s, o)) \in Nat
           /\ Cardinality(EarnedBy(s, o)) \in Nat
           /\ Cardinality(EarnedBy(s, o)) <= Cardinality(ResolvedFor(s, o))
<1>1. ResolvedFor(s, o) \subseteq Rumoured /\ EarnedBy(s, o) \subseteq ResolvedFor(s, o)
  BY DEF ResolvedFor, EarnedBy, Rumoured
<1>2. IsFiniteSet(ResolvedFor(s, o))
  BY <1>1, FS_Subset
<1>3. QED
  BY <1>1, <1>2, FS_Subset, FS_CardinalityType

\* A source stays a contributor to a rumour.
LEMMA ContributorsGrow ==
    ASSUME TypeOK, [Next]_vars, NEW t \in Threads
    PROVE  Contributors(t) \subseteq Contributors(t)'
BY TimelineGrows DEF Contributors

\* A credited resolution stays one.
LEMMA EarnedGrows ==
    ASSUME OneWorker, TypeOK, StatusInv, [Next]_vars, NEW s,
           NEW o \in {"confirmed", "collapsed"}
    PROVE  EarnedBy(s, o) \subseteq EarnedBy(s, o)'
<1> SUFFICES ASSUME NEW t \in EarnedBy(s, o)
             PROVE  t \in EarnedBy(s, o)'
  OBVIOUS
<1>1. /\ t \in Threads /\ rumours[t] # NULL /\ rumours[t].status = o
      /\ s \in Contributors(t) /\ credited[t] = 1
  BY DEF EarnedBy, ResolvedFor
<1>2. s \in Contributors(t)'
  BY <1>1, ContributorsGrow
<1>3. rumours'[t] # NULL /\ rumours'[t].status = o
  <2>1. CASE UNCHANGED rumours
    BY <1>1, <2>1
  <2>2. ASSUME NEW w \in Workers, WriteRumour(w)
        PROVE  rumours'[t] # NULL /\ rumours'[t].status = o
    BY <1>1, <2>2, StatusWrite DEF IsForwardTransition, IsTerminal, Terminal
  <2>3. QED
    BY <2>1, <2>2, RumoursFrame
<1>4. credited'[t] = 1
  <2>1. CASE UNCHANGED credited
    BY <1>1, <2>1
  <2>2. ASSUME NEW w \in Workers, Nudge(w)
        PROVE  credited'[t] = 1
    <3>1. credited[ThreadOf(w)] = 0
      BY <2>2 DEF StatusInv, WorkerInv, Nudge
    <3>2. QED
      BY <1>1, <2>2, <3>1 DEF Nudge, TypeOK
  <2>3. UNCHANGED credited \/ \E w \in Workers : Nudge(w)
    BY DEF Next, vars, Work, List, EndRun, Extract, Resolve, ReadRumour,
           WriteRumour, InsertEvent, Mark, Crash
  <2>4. QED
    BY <2>1, <2>2, <2>3
<1>5. QED
  BY <1>1, <1>2, <1>3, <1>4 DEF EarnedBy, ResolvedFor

\* A step creates at most one rumour.
LEMMA RumouredFinite ==
    ASSUME TypeOK, IsFiniteSet(Rumoured), [Next]_vars
    PROVE  IsFiniteSet(Rumoured')
<1>1. CASE UNCHANGED rumours
  <2>1. Rumoured' = Rumoured
    BY <1>1 DEF Rumoured
  <2>2. QED
    BY <2>1
<1>2. ASSUME NEW w \in Workers, WriteRumour(w)
      PROVE  IsFiniteSet(Rumoured')
  <2> PICK T \in Threads : T = ThreadOf(w)
    BY <1>2, WriteEffect
  <2>1. Rumoured' \subseteq Rumoured \cup {T}
    BY <1>2, WriteEffect DEF Rumoured, TypeOK
  <2>2. IsFiniteSet(Rumoured \cup {T})
    BY FS_AddElement
  <2>3. QED
    BY <2>1, <2>2, FS_Subset
<1>3. QED
  BY <1>1, <1>2, RumoursFrame

\* More credits allow more on either side.
LEMMA MoreEarned ==
    ASSUME OneWorker, TypeOK, StatusInv, ScoreInv, [Next]_vars, NEW s,
           NEW o \in {"confirmed", "collapsed"}
    PROVE  /\ Cardinality(EarnedBy(s, o)) \in Nat
           /\ Cardinality(EarnedBy(s, o)') \in Nat
           /\ Cardinality(EarnedBy(s, o)) <= Cardinality(EarnedBy(s, o)')
           /\ EarnedBy(s, o)' # EarnedBy(s, o) =>
                 Cardinality(EarnedBy(s, o)) + 1 <= Cardinality(EarnedBy(s, o)')
<1>1. IsFiniteSet(EarnedBy(s, o)) /\ Cardinality(EarnedBy(s, o)) \in Nat
  BY EarnedFinite DEF ScoreInv
<1>2. IsFiniteSet(EarnedBy(s, o)') /\ Cardinality(EarnedBy(s, o)') \in Nat
  <2>1. IsFiniteSet(Rumoured')
    BY RumouredFinite DEF ScoreInv
  <2>2. EarnedBy(s, o)' \subseteq Rumoured'
    BY DEF EarnedBy, ResolvedFor, Rumoured
  <2>3. QED
    BY <2>1, <2>2, FS_Subset, FS_CardinalityType
<1>3. EarnedBy(s, o) \subseteq EarnedBy(s, o)'
  BY EarnedGrows
<1>4. QED
  BY <1>1, <1>2, <1>3, FS_Subset

LEMMA ScoreInvInit == Init => ScoreInv
<1> SUFFICES ASSUME Init
             PROVE  ScoreInv
  OBVIOUS
<1>1. Rumoured = {}
  BY DEF Init, Rumoured
<1>2. IsFiniteSet(Rumoured)
  BY <1>1, FS_EmptySet
<1>3. ASSUME NEW s \in Sources, NEW o
      PROVE  Cardinality(EarnedBy(s, o)) = 0
  <2>1. EarnedBy(s, o) = {}
    BY <1>1 DEF EarnedBy, ResolvedFor, Rumoured
  <2>2. QED
    BY <2>1, FS_EmptySet
<1>4. ASSUME NEW s \in Sources
      PROVE  score[s] \in 0..100 /\ InitialScore[s] = score[s]
  BY SourceAssumption DEF Init
<1>5. QED
  <2>1. ASSUME NEW s \in Sources
        PROVE  /\ score[s] <= Clamp(InitialScore[s] + 2 * 0)
               /\ score[s] >= Clamp(InitialScore[s] - 2 * 0)
    BY <1>4, <2>1 DEF Clamp
  <2>2. QED
    BY <1>2, <1>3, <2>1 DEF ScoreInv, reliabilityNudge

\* The score of a source moves only with a credit, by that credit.
LEMMA NudgeEffect ==
    ASSUME OneWorker, TypeOK, StatusInv, NEW w \in Workers, Nudge(w),
           NEW s \in Sources
    PROVE  \/ score'[s] = score[s]
           \/ /\ score'[s] = Clamp(score[s] + 2)
              /\ EarnedBy(s, "confirmed")' # EarnedBy(s, "confirmed")
           \/ /\ score'[s] = Clamp(score[s] - 2)
              /\ EarnedBy(s, "collapsed")' # EarnedBy(s, "collapsed")
<1>1. /\ pc[w] = "nudge" /\ result[w] \in Reports /\ ThreadOf(w) \in Threads
  BY ThreadType DEF Nudge, TypeOK, ThreadOf
<1> PICK T \in Threads : T = ThreadOf(w)
  BY <1>1
<1>2. /\ rumours[T] # NULL /\ rumours[T].status = written[w]
      /\ credited[T] = 0 /\ written[w] \in {"confirmed", "collapsed"}
  BY <1>1 DEF StatusInv, WorkerInv, JustResolved, IsTerminal, Terminal
<1>3. UNCHANGED <<rumours, events>>
  BY DEF Nudge
<1>4. CASE score' = score \/ s \notin Contributors(T)
  BY <1>4 DEF Nudge
<1>5. CASE score' # score /\ s \in Contributors(T)
  <2>1. /\ score'[s] = Clamp(score[s] + Delta(written[w]))
        /\ credited' = [credited EXCEPT ![T] = @ + 1]
    BY <1>5 DEF Nudge
  <2>2. credited'[T] = 1
    BY <1>2, <2>1 DEF TypeOK
  <2>3. s \in Contributors(T)'
    BY <1>3, <1>5 DEF Contributors
  <2>5. \A o : T \notin EarnedBy(s, o)
    BY <1>2 DEF EarnedBy
  <2>6. CASE written[w] = "confirmed"
    <3>1. Delta(written[w]) = 2
      BY <2>6 DEF Delta, reliabilityNudge
    <3>2. T \in EarnedBy(s, "confirmed")'
      BY <1>2, <1>3, <2>2, <2>3, <2>6 DEF EarnedBy, ResolvedFor
    <3>3. QED
      BY <2>1, <2>5, <3>1, <3>2
  <2>7. CASE written[w] = "collapsed"
    <3>1. Delta(written[w]) = -2
      BY <2>7 DEF Delta, reliabilityNudge
    <3>2. T \in EarnedBy(s, "collapsed")'
      BY <1>2, <1>3, <2>2, <2>3, <2>7 DEF EarnedBy, ResolvedFor
    <3>3. score[s] + -2 = score[s] - 2
      BY DEF TypeOK
    <3>4. QED
      BY <2>1, <2>5, <3>1, <3>2, <3>3
  <2>8. QED
    BY <1>2, <2>6, <2>7
<1>6. QED
  BY <1>4, <1>5

LEMMA ScoreInvStep ==
    ASSUME OneWorker, TypeOK, StatusInv, ScoreInv, [Next]_vars
    PROVE  ScoreInv'
<1>1. IsFiniteSet(Rumoured')
  BY RumouredFinite DEF ScoreInv
<1>2. ASSUME NEW s \in Sources
      PROVE  /\ score'[s] <= Clamp(InitialScore[s]
                   + reliabilityNudge * Cardinality(EarnedBy(s, "confirmed")'))
             /\ score'[s] >= Clamp(InitialScore[s]
                   - reliabilityNudge * Cardinality(EarnedBy(s, "collapsed")'))
  <2> DEFINE up == Cardinality(EarnedBy(s, "confirmed"))
             up1 == Cardinality(EarnedBy(s, "confirmed")')
             down == Cardinality(EarnedBy(s, "collapsed"))
             down1 == Cardinality(EarnedBy(s, "collapsed")')
             start == InitialScore[s]
  <2>1. up \in Nat /\ up1 \in Nat /\ up <= up1
        /\ (EarnedBy(s, "confirmed")' # EarnedBy(s, "confirmed") => up + 1 <= up1)
    BY MoreEarned
  <2>2. down \in Nat /\ down1 \in Nat /\ down <= down1
        /\ (EarnedBy(s, "collapsed")' # EarnedBy(s, "collapsed") => down + 1 <= down1)
    BY MoreEarned
  <2>3. start \in 0..100 /\ score[s] \in 0..100
    BY SourceAssumption DEF TypeOK
  <2>4. score[s] <= Clamp(start + 2 * up) /\ score[s] >= Clamp(start - 2 * down)
    BY DEF ScoreInv, reliabilityNudge
  <2>5. \/ score'[s] = score[s]
        \/ score'[s] = Clamp(score[s] + 2) /\ up + 1 <= up1
        \/ score'[s] = Clamp(score[s] - 2) /\ down + 1 <= down1
    <3>1. CASE UNCHANGED score
      BY <3>1
    <3>2. ASSUME NEW w \in Workers, Nudge(w)
          PROVE  \/ score'[s] = score[s]
                 \/ score'[s] = Clamp(score[s] + 2) /\ up + 1 <= up1
                 \/ score'[s] = Clamp(score[s] - 2) /\ down + 1 <= down1
      BY <2>1, <2>2, <3>2, NudgeEffect
    <3>3. UNCHANGED score \/ \E w \in Workers : Nudge(w)
      BY DEF Next, vars, Work, List, EndRun, Extract, Resolve, ReadRumour,
             WriteRumour, InsertEvent, Mark, Crash, tables
    <3>4. QED
      BY <3>1, <3>2, <3>3
  <2> HIDE DEF up, up1, down, down1, start
  <2>6. score'[s] <= Clamp(start + 2 * up1) /\ score'[s] >= Clamp(start - 2 * down1)
    <3>1. score[s] <= Clamp(start + 2 * up1) /\ score[s] >= Clamp(start - 2 * down1)
      BY <2>1, <2>2, <2>3, <2>4, ClampBounds
    <3>2. CASE score'[s] = Clamp(score[s] + 2) /\ up + 1 <= up1
      <4>1. Clamp(score[s] + 2) <= Clamp(start + 2 * up1)
        BY <2>1, <2>3, <2>4, <3>2, ClampBounds
      <4>2. Clamp(score[s] + 2) >= Clamp(start - 2 * down1)
        BY <2>2, <2>3, <2>4, ClampBounds
      <4>3. QED
        BY <3>2, <4>1, <4>2
    <3>3. CASE score'[s] = Clamp(score[s] - 2) /\ down + 1 <= down1
      <4>1. Clamp(score[s] - 2) <= Clamp(start + 2 * up1)
        BY <2>1, <2>3, <2>4, ClampBounds
      <4>2. Clamp(score[s] - 2) >= Clamp(start - 2 * down1)
        BY <2>2, <2>3, <2>4, <3>3, ClampBounds
      <4>3. QED
        BY <3>3, <4>1, <4>2
    <3>4. QED
      BY <2>5, <3>1, <3>2, <3>3
  <2>7. QED
    BY <2>6 DEF up1, down1, start, reliabilityNudge
<1>3. QED
  BY <1>1, <1>2 DEF ScoreInv

\* With one worker, a source's reliability never moves further than the
\* resolved rumours it contributed to justify.
THEOREM ScoreEarned ==
    ASSUME OneWorker
    PROVE  Spec => []ScoreIsEarned
<1>1. TypeOK /\ StatusInv /\ ScoreInv /\ [Next]_vars => ScoreInv'
  BY ScoreInvStep
<1>2. TypeOK /\ ScoreInv => ScoreIsEarned
  <2> SUFFICES ASSUME TypeOK, ScoreInv, NEW s \in Sources
               PROVE  /\ score[s] <= Clamp(InitialScore[s]
                            + reliabilityNudge * Cardinality(ResolvedFor(s, "confirmed")))
                      /\ score[s] >= Clamp(InitialScore[s]
                            - reliabilityNudge * Cardinality(ResolvedFor(s, "collapsed")))
    BY DEF ScoreIsEarned
  <2> DEFINE up == Cardinality(EarnedBy(s, "confirmed"))
             all == Cardinality(ResolvedFor(s, "confirmed"))
             down == Cardinality(EarnedBy(s, "collapsed"))
             lost == Cardinality(ResolvedFor(s, "collapsed"))
  <2>1. /\ up \in Nat /\ all \in Nat /\ up <= all
        /\ down \in Nat /\ lost \in Nat /\ down <= lost
    BY EarnedFinite DEF ScoreInv
  <2>2. InitialScore[s] \in 0..100 /\ score[s] \in 0..100
    BY SourceAssumption DEF TypeOK
  <2>3. /\ score[s] <= Clamp(InitialScore[s] + 2 * up)
        /\ score[s] >= Clamp(InitialScore[s] - 2 * down)
    BY DEF ScoreInv, reliabilityNudge
  <2> HIDE DEF up, all, down, lost
  <2>4. /\ score[s] <= Clamp(InitialScore[s] + 2 * all)
        /\ score[s] >= Clamp(InitialScore[s] - 2 * lost)
    BY <2>1, <2>2, <2>3, ClampBounds
  <2>5. QED
    BY <2>4 DEF all, lost, reliabilityNudge
<1>3. QED
  BY <1>1, <1>2, ScoreInvInit, StatusInvariant, PTL DEF Spec

-----------------------------------------------------------------------------
(* The clean-up and the reader.  A deletion leaves nothing behind and       *)
(* deletes only on evidence.  NoOrphans is inductive with the types: a      *)
(* worker whose rumour was deleted finds no row for its event.  What a      *)
(* cleaner deletes it marked when it judged the listing it still holds.     *)

CleaningOK ==
    /\ rc \in [Cleaners -> {"off", "judge", "count", "delete"}]
    /\ listing \in [Cleaners -> [Threads -> SUBSET Articles]]
    /\ toDelete \in [Cleaners -> SUBSET Threads]
    /\ engagement \in [Threads -> Nat]
    /\ \A k \in Cleaners : rc[k] \in {"count", "delete"} => toDelete[k] = Doomed(k)

RcInv == TypeOK /\ CleaningOK /\ NoOrphans

\* A cleaner that goes off keeps the rest of the cleaning in order.
LEMMA FinishCleaning ==
    ASSUME CleaningOK, NEW k \in Cleaners, Finish(k),
           engagement' \in [Threads -> Nat]
    PROVE  CleaningOK'
<1>1. /\ rc' \in [Cleaners -> {"off", "judge", "count", "delete"}]
      /\ listing' \in [Cleaners -> [Threads -> SUBSET Articles]]
      /\ toDelete' \in [Cleaners -> SUBSET Threads]
  BY DEF CleaningOK, Finish
<1>2. \A j \in Cleaners : rc'[j] \in {"count", "delete"} =>
          rc[j] = rc'[j] /\ toDelete'[j] = toDelete[j] /\ listing'[j] = listing[j]
  BY DEF CleaningOK, Finish
<1>3. QED
  BY <1>1, <1>2 DEF CleaningOK, Doomed

\* Extraction neither removes a rumour nor puts an event on a missing one.
LEMMA ExtractionOrphansNothing ==
    ASSUME TypeOK, NoOrphans, [Next]_vars, UNCHANGED engagement
    PROVE  NoOrphans'
<1> SUFFICES ASSUME NEW t \in Threads, rumours'[t] = NULL
             PROVE  Timeline(t)' = {} /\ engagement'[t] = 0
  BY DEF NoOrphans
<1>1. rumours[t] = NULL
  BY RangeStep
<1>2. Timeline(t) = {} /\ engagement[t] = 0
  BY <1>1 DEF NoOrphans
<1>3. events'[t] = events[t]
  <2>1. ASSUME NEW w \in Workers, InsertEvent(w) PROVE events'[t] = events[t]
    <3>1. ThreadOf(w) \in Threads
      BY <2>1, ThreadType DEF InsertEvent, TypeOK, ThreadOf
    <3>2. rumours' = rumours
      BY <2>1 DEF InsertEvent
    <3>3. CASE ThreadOf(w) = t
      BY <2>1, <1>1, <3>3 DEF InsertEvent
    <3>4. CASE ThreadOf(w) # t
      <4>1. \/ events' = events
            \/ events' = [events EXCEPT ![ThreadOf(w)][article[w]] =
                             IF @ = NULL THEN result[w] ELSE @]
        BY <2>1 DEF InsertEvent
      <4>2. QED
        BY <3>4, <4>1 DEF TypeOK
    <3>5. QED
      BY <3>3, <3>4
  <2>2. QED
    BY <2>1, EventsFrame
<1>4. QED
  BY <1>2, <1>3 DEF Timeline

\* The deletion takes its rumours with everything that hangs on them.
LEMMA DeleteInvariant ==
    ASSUME RcInv, NEW k \in Cleaners, Delete(k)
    PROVE  RcInv'
<1> DEFINE gone == Existing(toDelete[k])
<1>1. /\ rumours' = [t \in Threads |-> IF t \in gone THEN NULL ELSE rumours[t]]
      /\ events' = [t \in Threads |->
             IF t \in gone THEN [a \in Articles |-> NULL] ELSE events[t]]
      /\ engagement' = [t \in Threads |-> IF t \in gone THEN 0 ELSE engagement[t]]
      /\ credited' = [t \in Threads |-> IF t \in gone THEN 0 ELSE credited[t]]
      /\ Finish(k)
      /\ UNCHANGED <<queue, names, score, pc, locals, faults>>
  BY DEF Delete
<1>2. /\ rumours' \in [Threads -> RumourRow \cup {NULL}]
      /\ events' \in [Threads -> [Articles -> Reports \cup {NULL}]]
      /\ credited' \in [Threads -> Nat]
      /\ engagement' \in [Threads -> Nat]
  BY <1>1 DEF RcInv, TypeOK, CleaningOK
<1>3. TypeOK'
  BY <1>1, <1>2 DEF RcInv, TypeOK, queue, names, locals
<1>4. CleaningOK'
  BY <1>1, <1>2, FinishCleaning DEF RcInv
<1>5. NoOrphans'
  <2> SUFFICES ASSUME NEW t \in Threads, rumours'[t] = NULL
               PROVE  Timeline(t)' = {} /\ engagement'[t] = 0
    BY DEF NoOrphans
  <2>1. CASE t \in gone
    BY <1>1, <2>1 DEF Timeline
  <2>2. CASE t \notin gone
    BY <1>1, <2>2 DEF RcInv, NoOrphans, Timeline
  <2>3. QED
    BY <2>1, <2>2
<1>6. QED
  BY <1>3, <1>4, <1>5 DEF RcInv

LEMMA RcInvInit == ViewInit => RcInv
<1> SUFFICES ASSUME ViewInit PROVE RcInv
  OBVIOUS
<1>1. TypeOK
  BY TypeInit DEF ViewInit, RcInit
<1>2. CleaningOK /\ NoOrphans
  BY DEF ViewInit, RcInit, Init, CleaningOK, NoOrphans, Timeline
<1>3. QED
  BY <1>1, <1>2 DEF RcInv

LEMMA RcInvStep == RcInv /\ [ViewNext]_viewVars => RcInv'
<1> SUFFICES ASSUME RcInv, [ViewNext]_viewVars PROVE RcInv'
  OBVIOUS
<1>1. ASSUME [Next]_vars, UNCHANGED rcVars PROVE RcInv'
  <2>1. TypeOK'
    BY <1>1, TypeStep DEF RcInv
  <2>2. UNCHANGED <<rc, listing, toDelete, engagement>>
    BY <1>1 DEF rcVars, cleaning
  <2>3. CleaningOK'
    BY <2>2 DEF RcInv, CleaningOK, Doomed
  <2>4. NoOrphans'
    BY <1>1, <2>2, ExtractionOrphansNothing DEF RcInv
  <2>5. QED
    BY <2>1, <2>3, <2>4 DEF RcInv
<1>2. ASSUME UNCHANGED vars, CleaningOK', UNCHANGED engagement PROVE RcInv'
  <2>1. TypeOK'
    BY <1>2, TypeStep DEF RcInv
  <2>2. UNCHANGED <<rumours, events>>
    BY <1>2 DEF vars, tables
  <2>3. QED
    BY <1>2, <2>1, <2>2 DEF RcInv, NoOrphans, Timeline
<1>3. ASSUME NEW t \in Threads, Engage(t) PROVE RcInv'
  <2>1. /\ rumours[t] # NULL /\ UNCHANGED vars
        /\ engagement' = [engagement EXCEPT ![t] = @ + 1]
        /\ UNCHANGED <<rc, listing, toDelete>>
    BY <1>3 DEF Engage, cleaning
  <2>2. TypeOK' /\ UNCHANGED <<rumours, events>>
    BY <2>1, TypeStep DEF RcInv, vars, tables
  <2>3. CleaningOK'
    BY <2>1 DEF RcInv, CleaningOK, Doomed
  <2>4. NoOrphans'
    BY <2>1, <2>2 DEF RcInv, CleaningOK, NoOrphans, Timeline
  <2>5. QED
    BY <2>2, <2>3, <2>4 DEF RcInv
<1>4. ASSUME NEW k \in Cleaners, ListRumours(k) PROVE RcInv'
  <2>1. PICK old \in SUBSET Existing(Threads) \ {{}} :
            listing' = [listing EXCEPT ![k] =
               [t \in Threads |-> IF t \in old THEN Timeline(t) ELSE {}]]
    BY <1>4 DEF ListRumours
  <2>2. [t \in Threads |-> IF t \in old THEN Timeline(t) ELSE {}]
            \in [Threads -> SUBSET Articles]
    BY DEF Timeline
  <2>3. rc' = [rc EXCEPT ![k] = "judge"] /\ UNCHANGED <<vars, toDelete, engagement>>
    BY <1>4 DEF ListRumours
  <2>4. CleaningOK'
    BY <2>1, <2>2, <2>3 DEF RcInv, CleaningOK, Doomed
  <2>5. QED
    BY <1>2, <2>3, <2>4
<1>5. ASSUME NEW k \in Cleaners, Judge(k) PROVE RcInv'
  <2>1. UNCHANGED <<vars, engagement>>
    BY <1>5 DEF Judge
  <2>2. CASE Finish(k)
    BY <1>2, <2>1, <2>2, FinishCleaning DEF RcInv, CleaningOK
  <2>3. CASE /\ toDelete' = [toDelete EXCEPT ![k] = Doomed(k)]
             /\ rc' = [rc EXCEPT ![k] = "count"] /\ UNCHANGED listing
    <3>1. Doomed(k) \in SUBSET Threads
      BY DEF Doomed
    <3>2. CleaningOK'
      BY <2>1, <2>3, <3>1 DEF RcInv, CleaningOK, Doomed
    <3>3. QED
      BY <1>2, <2>1, <3>2
  <2>4. QED
    BY <1>5, <2>2, <2>3 DEF Judge
<1>6. ASSUME NEW k \in Cleaners, Count(k) PROVE RcInv'
  <2>1. /\ rc[k] = "count" /\ rc' = [rc EXCEPT ![k] = "delete"]
        /\ UNCHANGED <<vars, listing, toDelete, engagement>>
    BY <1>6 DEF Count
  <2>2. CleaningOK'
    BY <2>1 DEF RcInv, CleaningOK, Doomed
  <2>3. QED
    BY <1>2, <2>1, <2>2
<1>7. ASSUME NEW k \in Cleaners, Rollback(k) PROVE RcInv'
  BY <1>2, <1>7, FinishCleaning DEF Rollback, RcInv, CleaningOK
<1>8. ASSUME UNCHANGED allVars PROVE RcInv'
  BY <1>1, <1>8 DEF allVars
<1>9. CASE RcNext
  BY <1>1, <1>3, <1>4, <1>5, <1>6, <1>7, <1>9, DeleteInvariant DEF RcNext, Clean
<1>10. QED
  BY <1>8, <1>9 DEF ViewNext, viewVars, ReadRow, ReadTimeline

\* No event, like or comment outlives its rumour, with any number of workers
\* and cleaners and whatever fails.
THEOREM NothingOrphaned == ViewSpec => []NoOrphans
<1>1. RcInv => NoOrphans
  BY DEF RcInv
<1>2. QED
  BY <1>1, RcInvInit, RcInvStep, PTL DEF ViewSpec

\* A rumour is deleted only if articles of it were listed and all of them
\* were below the threshold, with any number of workers and cleaners.
THEOREM DeletedOnEvidence == ViewSpec => DeletesOnlyJudged
<1>1. ASSUME RcInv, [ViewNext]_viewVars, NEW t \in Threads,
             rumours[t] # NULL, rumours'[t] = NULL
      PROVE  \E k \in Cleaners : listing[k][t] # {} /\ listing[k][t] \subseteq Below
  <2>1. ~[Next]_vars
    BY <1>1, RangeStep DEF RcInv
  <2>2. PICK k \in Cleaners : Delete(k)
    <3>1. RcNext
      BY <1>1, <2>1 DEF ViewNext, viewVars, ReadRow, ReadTimeline, allVars
    <3>2. QED
      BY <2>1, <3>1
         DEF RcNext, Engage, Clean, ListRumours, Judge, Count, Rollback
  <2>3. t \in toDelete[k] /\ rc[k] = "delete"
    BY <1>1, <2>2 DEF Delete, Existing
  <2>4. t \in Doomed(k)
    BY <1>1, <2>3 DEF RcInv, CleaningOK
  <2>5. QED
    BY <2>4 DEF Doomed
<1>2. RcInv /\ [ViewNext]_viewVars =>
        [\A t \in Threads : rumours[t] # NULL /\ rumours'[t] = NULL =>
            \E k \in Cleaners : listing[k][t] # {} /\ listing[k][t] \subseteq Below
        ]_allVars
  BY <1>1
<1>3. QED
  BY <1>2, RcInvInit, RcInvStep, PTL DEF ViewSpec, DeletesOnlyJudged
-----------------------------------------------------------------------------
(* Extraction beside deletions. *)

\* Beside extraction's statements, only a DELETE touches its tables.
LEMMA StepKinds ==
    ASSUME [ViewNext]_viewVars
    PROVE  \/ [Next]_vars /\ UNCHANGED purged
           \/ \E k \in Cleaners : Delete(k)
<1>1. ASSUME NEW k \in Cleaners, Clean(k), ~Delete(k)
      PROVE  UNCHANGED vars /\ UNCHANGED purged
  BY <1>1 DEF Clean, ListRumours, Judge, Count, Rollback
<1>2. ASSUME NEW t \in Threads, Engage(t)
      PROVE  UNCHANGED vars /\ UNCHANGED purged
  BY <1>2 DEF Engage
<1>3. CASE RcNext
  BY <1>1, <1>2, <1>3 DEF RcNext, rcVars
<1>4. CASE UNCHANGED allVars
  BY <1>4 DEF allVars, rcVars
<1>5. QED
  BY <1>3, <1>4 DEF ViewNext, viewVars, ReadRow, ReadTimeline

\* A DELETE takes a rumour with its timeline, and remembers it, or leaves
\* both alone; the workers do not notice.
LEMMA DeleteEffect ==
    ASSUME NEW k \in Cleaners, Delete(k)
    PROVE  /\ UNCHANGED <<processed, extraction, pc, batch, article, result,
                          seen, written, faults>>
           /\ purged \subseteq purged'
           /\ \A t \in Threads :
                 \/ rumours'[t] = rumours[t] /\ events'[t] = events[t]
                 \/ /\ rumours'[t] = NULL /\ t \in purged'
                    /\ \A a \in Articles : events'[t][a] = NULL
BY DEF Delete, queue, locals

\* Article a is on the timeline of t unless that rumour was deleted.
Kept(t, a) == events[t][a] # NULL \/ t \in purged

\* The rumour of thread t is there unless it was deleted.
Present(t) == rumours[t] # NULL \/ t \in purged

\* What a worker has filed or is about to file is only lost to a deletion.
LostInv ==
    faults = 0 =>
        /\ \A a \in Articles : processed[a] /\ extraction[a] \in Reports =>
              Kept(Thread(extraction[a]), a)
        /\ \A w \in Workers :
              /\ pc[w] = "event" => Present(ThreadOf(w))
              /\ pc[w] = "nudge" \/ (pc[w] = "mark" /\ result[w] \in Reports) =>
                    Kept(ThreadOf(w), article[w])

LEMMA LostInvDelete ==
    ASSUME RcInv, LostInv, NEW k \in Cleaners, Delete(k)
    PROVE  LostInv'
<1>1. \A t \in Threads, a \in Articles : Kept(t, a) => Kept(t, a)'
  BY DeleteEffect DEF Kept
<1>2. \A t \in Threads : Present(t) => Present(t)'
  BY DeleteEffect DEF Present
<1> SUFFICES ASSUME faults' = 0
             PROVE  LostInv'
  BY DEF LostInv
<1>3. faults = 0 /\ UNCHANGED <<processed, extraction, pc, article, result>>
  BY DeleteEffect
<1>4. ASSUME NEW a \in Articles, processed'[a], extraction'[a] \in Reports
      PROVE  Kept(Thread(extraction[a]), a)'
  <2> PICK t \in Threads : t = Thread(extraction[a])
    BY <1>3, <1>4, ThreadType
  <2>1. Kept(t, a)
    BY <1>3, <1>4 DEF LostInv
  <2>2. Kept(t, a)'
    BY <1>1, <2>1
  <2>3. QED
    BY <1>3, <2>2 DEF Kept
<1>5. ASSUME NEW w \in Workers
      PROVE  /\ pc'[w] = "event" => Present(ThreadOf(w))'
             /\ pc'[w] = "nudge" \/ (pc'[w] = "mark" /\ result'[w] \in Reports) =>
                   Kept(ThreadOf(w), article[w])'
  <2>1. CASE result[w] \in Reports /\ pc[w] # "idle"
    <3> PICK t \in Threads, a \in Articles : t = ThreadOf(w) /\ a = article[w]
      BY <2>1, ThreadType DEF RcInv, TypeOK, ThreadOf
    <3>1. t = ThreadOf(w)' /\ a = article'[w]
      BY <1>3 DEF ThreadOf
    <3>2. /\ pc[w] = "event" => Present(t)'
          /\ pc[w] = "nudge" \/ (pc[w] = "mark" /\ result[w] \in Reports) =>
                Kept(t, a)'
      BY <1>1, <1>2, <1>3 DEF LostInv
    <3>3. QED
      BY <1>3, <3>1, <3>2 DEF Present, Kept
  <2>2. CASE ~(result[w] \in Reports /\ pc[w] # "idle")
    BY <1>3, <2>2 DEF RcInv, TypeOK
  <2>3. QED
    BY <2>1, <2>2
<1>6. QED
  BY <1>4, <1>5 DEF LostInv

LEMMA LostInvExtract ==
    ASSUME TypeOK, LostInv, [Next]_vars, UNCHANGED purged
    PROVE  LostInv'
<1> SUFFICES ASSUME faults' = 0
             PROVE  LostInv'
  BY DEF LostInv
<1>1. faults = 0 /\ TypeOK'
  BY FaultsGrow, TypeStep
<1>2. \A t \in Threads, a \in Articles : Kept(t, a) => Kept(t, a)'
  BY TimelineGrows DEF Kept
<1>3. \A t \in Threads : Present(t) => Present(t)'
  BY RangeStep DEF Present
<1>4. ASSUME NEW w \in Workers, pc'[w] = "event"
      PROVE  Present(ThreadOf(w))'
  <2> PICK t \in Threads : t = ThreadOf(w)'
    BY <1>1, <1>4, ThreadType DEF TypeOK, ThreadOf
  <2>1. CASE pc[w] = "event" /\ result'[w] = result[w]
    <3>1. t = ThreadOf(w)
      BY <2>1 DEF ThreadOf
    <3>2. Present(t)'
      BY <1>1, <1>3, <2>1, <3>1 DEF LostInv
    <3>3. QED
      BY <3>2 DEF Present
  <2>2. CASE /\ WriteRumour(w) /\ result'[w] = result[w]
             /\ rumours' = [rumours EXCEPT ![ThreadOf(w)] =
                    Upserted(@, result[w],
                             FinalStatus(seen[w], result[w].status))]
    <3>1. t = ThreadOf(w) /\ result[w] \in Reports
      BY <2>2, WriteEffect DEF ThreadOf
    <3>2. result[w].status \in Statuses /\ seen[w] \in Statuses \cup {NULL}
      BY <3>1, ThreadType DEF TypeOK, ReportType
    <3>3. Upserted(rumours[t], result[w], FinalStatus(seen[w], result[w].status))
             \in RumourRow
      BY <3>1, <3>2, FinalStatusType, UpsertedType DEF TypeOK
    <3>4. rumours'[t] \in RumourRow
      BY <2>2, <3>1, <3>3 DEF TypeOK
    <3>5. QED
      BY <3>4, RangedTypes DEF Present
  <2>3. QED
    BY <1>4, <2>1, <2>2, EventPcFrame
<1>5. ASSUME NEW w \in Workers,
             pc'[w] = "nudge" \/ (pc'[w] = "mark" /\ result'[w] \in Reports)
      PROVE  Kept(ThreadOf(w), article[w])'
  <2>1. result'[w] \in Reports
    BY <1>1, <1>5 DEF TypeOK
  <2>2. /\ result'[w] = result[w] /\ article'[w] = article[w]
        /\ pc'[w] = pc[w] \/ (pc[w] = "nudge" /\ UNCHANGED events) \/ InsertEvent(w)
    BY <1>5, <2>1, RecordedFrame
  <2> PICK t \in Threads, a \in Articles : t = ThreadOf(w) /\ a = article[w]
    BY <1>1, <1>5, <2>1, <2>2, ThreadType DEF TypeOK, ThreadOf
  <2>3. t = ThreadOf(w)' /\ a = article'[w]
    BY <2>2 DEF ThreadOf
  <2>4. CASE Kept(t, a)
    BY <1>2, <2>3, <2>4 DEF Kept
  <2>5. CASE InsertEvent(w) /\ rumours[t] # NULL
    <3>1. events' = [events EXCEPT ![t][a] = IF @ = NULL THEN result[w] ELSE @]
      BY <2>5, NoFault DEF InsertEvent
    <3>2. events'[t][a] # NULL
      BY <2>1, <2>2, <3>1, ReportAssumption DEF TypeOK
    <3>3. QED
      BY <2>3, <3>2 DEF Kept
  <2>6. CASE InsertEvent(w) /\ rumours[t] = NULL
    BY <1>1, <2>3, <2>6 DEF LostInv, Present, Kept, InsertEvent
  <2>7. QED
    BY <1>1, <1>5, <2>1, <2>2, <2>4, <2>5, <2>6 DEF LostInv
<1>6. ASSUME NEW a \in Articles, processed'[a], extraction'[a] \in Reports
      PROVE  Kept(Thread(extraction[a]), a)'
  <2> PICK t \in Threads : t = Thread(extraction'[a])
    BY <1>6, ThreadType
  <2>1. Kept(t, a)
    <3>1. CASE UNCHANGED queue
      BY <1>1, <1>6, <3>1 DEF LostInv, queue
    <3>2. ASSUME NEW w \in Workers, Mark(w)
          PROVE  Kept(t, a)
      <4>1. article[w] \in Articles /\ pc[w] = "mark"
        BY <3>2 DEF Mark, TypeOK
      <4>2. \/ processed[a] /\ extraction'[a] = extraction[a]
            \/ a = article[w] /\ extraction'[a] = result[w]
        BY <1>6, <3>2, <4>1 DEF Mark, queue, TypeOK
      <4>3. QED
        BY <1>1, <1>6, <4>1, <4>2 DEF LostInv, ThreadOf
    <3>3. UNCHANGED queue \/ \E w \in Workers : Mark(w)
      BY DEF Next, vars, Work, List, EndRun, Extract, Resolve, ReadRumour,
             WriteRumour, InsertEvent, Nudge, Crash, tables
    <3>4. QED
      BY <3>1, <3>2, <3>3
  <2>2. Kept(t, a)'
    BY <1>2, <2>1
  <2>3. QED
    BY <2>2 DEF Kept
<1>7. QED
  BY <1>4, <1>5, <1>6 DEF LostInv

LEMMA LostInvariant == ViewSpec => [](RcInv /\ LostInv)
<1>1. ViewInit => LostInv
  BY DEF ViewInit, RcInit, Init, LostInv
<1>2. RcInv /\ LostInv /\ [ViewNext]_viewVars => LostInv'
  BY StepKinds, LostInvDelete, LostInvExtract DEF RcInv
<1>3. QED
  BY <1>1, <1>2, RcInvInit, RcInvStep, PTL DEF ViewSpec

\* Without faults, a usable extraction is missing from its timeline only if
\* that rumour was deleted, with any number of workers and cleaners.
THEOREM LostOnlyToDeletion == ViewSpec => []ReportsLostOnlyToDeletion
<1>1. LostInv => ReportsLostOnlyToDeletion
  BY DEF LostInv, ReportsLostOnlyToDeletion, Kept
<1>2. QED
  BY <1>1, LostInvariant, PTL
-----------------------------------------------------------------------------
(* The page of a rumour, with one worker. *)

Deleted(t) == rumours[t] = NULL /\ t \in purged

\* A worker files its report on the rumour it read, unless that one was
\* deleted meanwhile; nobody else opens it again.
CoverInv ==
    /\ StatusCoversTimeline
    /\ \A w \in Workers :
          /\ pc[w] = "write" =>
                seen[w] = StatusOf(ThreadOf(w)) \/ Deleted(ThreadOf(w))
          /\ pc[w] = "event" /\ rumours[ThreadOf(w)] # NULL =>
                Progress(result[w].status) <= Progress(rumours[ThreadOf(w)].status)

LEMMA CoverFrame ==
    ASSUME OneWorker, CoverInv, NEW w \in Workers,
           UNCHANGED <<rumours, events>>, pc'[w] \notin {"write", "event"}
    PROVE  CoverInv'
<1>1. StatusCoversTimeline'
  BY DEF CoverInv, StatusCoversTimeline, Timeline
<1>2. QED
  BY <1>1 DEF CoverInv, OneWorker

LEMMA CoverRead ==
    ASSUME OneWorker, TypeOK, CoverInv, NEW w \in Workers, ReadRumour(w)
    PROVE  CoverInv'
<1>1. UNCHANGED <<rumours, events, result>>
  BY DEF ReadRumour, tables
<1>2. CASE pc'[w] = "mark"
  BY <1>1, <1>2, CoverFrame
<1>3. CASE /\ pc'[w] = "write"
           /\ seen' = [seen EXCEPT ![w] = StatusOf(ThreadOf(w))]
  <2>1. StatusCoversTimeline'
    BY <1>1 DEF CoverInv, StatusCoversTimeline, Timeline
  <2>2. seen'[w] = StatusOf(ThreadOf(w))'
    BY <1>1, <1>3 DEF TypeOK, StatusOf, ThreadOf
  <2>3. QED
    BY <1>3, <2>1, <2>2 DEF CoverInv, OneWorker
<1>4. QED
  BY <1>2, <1>3 DEF ReadRumour, StatusOf, Succeeds, Fails, TypeOK

LEMMA CoverWrite ==
    ASSUME OneWorker, TypeOK, NoOrphans, CoverInv, NEW w \in Workers,
           WriteRumour(w)
    PROVE  CoverInv'
<1>1. /\ result[w] \in Reports /\ ThreadOf(w) \in Threads
      /\ result[w].status \in Statuses /\ pc[w] = "write"
      /\ seen[w] \in Statuses \cup {NULL}
  BY WriteEffect, ThreadType DEF ReportType, TypeOK, WriteRumour
<1> PICK t \in Threads : t = ThreadOf(w)
  BY <1>1
<1> DEFINE final == FinalStatus(seen[w], result[w].status)
           row == Upserted(rumours[t], result[w], final)
<1>2. /\ rumours' = rumours \/ rumours' = [rumours EXCEPT ![t] = row]
      /\ pc'[w] = "mark" \/ (pc'[w] = "event" /\ rumours' = [rumours EXCEPT ![t] = row])
      /\ UNCHANGED <<events, result>>
  BY DEF WriteRumour, Succeeds, Fails, TypeOK
<1>3. final \in Statuses
  BY <1>1, FinalStatusType
<1>4. row.status = final /\ row # NULL
  BY <1>1, <1>3, UpsertedType, RangedTypes DEF Upserted, TypeOK
<1>5. Progress(result[w].status) <= Progress(final)
  <2>1. CASE seen[w] = NULL
    <3>1. final = result[w].status
      BY <2>1 DEF FinalStatus
    <3>2. QED
      BY <1>1, <3>1, ProgressType
  <2>2. CASE seen[w] \in Statuses
    BY <1>1, <2>2, FinalStatusForward
  <2>3. QED
    BY <1>1, <2>1, <2>2
<1>6. rumours[t] # NULL =>
         /\ rumours[t].status \in Statuses
         /\ Progress(rumours[t].status) <= Progress(final)
  <2> SUFFICES ASSUME rumours[t] # NULL
               PROVE  /\ rumours[t].status \in Statuses
                      /\ Progress(rumours[t].status) <= Progress(final)
    OBVIOUS
  <2>1. seen[w] = rumours[t].status
    BY <1>1 DEF CoverInv, Deleted, StatusOf
  <2>2. rumours[t].status \in Statuses
    BY DEF TypeOK, RumourRow
  <2>3. QED
    BY <1>1, <2>1, <2>2, FinalStatusForward
<1>7. ASSUME NEW u \in Threads, NEW a \in Articles, events[u][a] # NULL
      PROVE  /\ rumours'[u] # NULL
             /\ Progress(events[u][a].status) <= Progress(rumours'[u].status)
  <2>1. /\ rumours[u] # NULL
        /\ Progress(events[u][a].status) <= Progress(rumours[u].status)
    BY <1>7 DEF CoverInv, StatusCoversTimeline, Timeline
  <2>2. CASE rumours'[u] = rumours[u]
    BY <2>1, <2>2
  <2>3. CASE u = t /\ rumours'[u] = row
    <3>1. events[u][a] \in Reports /\ events[u][a].status \in Statuses
      BY <1>7, ThreadType DEF TypeOK, ReportType
    <3>2. /\ Progress(events[u][a].status) \in 0..4
          /\ Progress(rumours[u].status) \in 0..4 /\ Progress(final) \in 0..4
      BY <1>3, <1>6, <2>1, <2>3, <3>1, ProgressType
    <3>3. QED
      BY <1>4, <1>6, <2>1, <2>3, <3>2
  <2>4. QED
    BY <1>2, <2>2, <2>3 DEF TypeOK
<1>8. StatusCoversTimeline'
  BY <1>2, <1>7 DEF StatusCoversTimeline, Timeline
<1>9. CASE pc'[w] = "mark"
  BY <1>8, <1>9 DEF CoverInv, OneWorker
<1>10. CASE pc'[w] = "event" /\ rumours' = [rumours EXCEPT ![t] = row]
  <2>1. ThreadOf(w)' = t /\ rumours'[t] = row /\ result'[w] = result[w]
    BY <1>2, <1>10 DEF ThreadOf, TypeOK
  <2>2. QED
    BY <1>4, <1>5, <1>8, <1>10, <2>1 DEF CoverInv, OneWorker
<1>11. QED
  BY <1>2, <1>9, <1>10

LEMMA CoverInsertEvent ==
    ASSUME OneWorker, TypeOK, CoverInv, NEW w \in Workers, InsertEvent(w)
    PROVE  CoverInv'
<1>1. /\ result[w] \in Reports /\ ThreadOf(w) \in Threads
      /\ article[w] \in Articles /\ pc[w] = "event"
  BY ThreadType DEF InsertEvent, TypeOK, ThreadOf
<1> PICK t \in Threads, a \in Articles : t = ThreadOf(w) /\ a = article[w]
  BY <1>1
<1>2. /\ UNCHANGED rumours
      /\ pc'[w] \in {"nudge", "mark"}
      /\ \/ events' = events
         \/ /\ rumours[t] # NULL
            /\ events' = [events EXCEPT ![t][a] = IF @ = NULL THEN result[w] ELSE @]
  BY DEF InsertEvent, Succeeds, Fails, TypeOK
<1>3. \A u \in Threads, b \in Articles :
         \/ events'[u][b] = events[u][b]
         \/ u = t /\ b = a /\ rumours[t] # NULL /\ events'[u][b] = result[w]
  BY <1>2 DEF TypeOK
<1>4. rumours[t] # NULL => Progress(result[w].status) <= Progress(rumours[t].status)
  BY <1>1 DEF CoverInv
<1>5. StatusCoversTimeline'
  BY <1>2, <1>3, <1>4 DEF CoverInv, StatusCoversTimeline, Timeline
<1>6. QED
  BY <1>2, <1>5 DEF CoverInv, OneWorker

LEMMA CoverExtract ==
    ASSUME OneWorker, TypeOK, NoOrphans, CoverInv, [Next]_vars, UNCHANGED purged
    PROVE  CoverInv'
<1> USE DEF TypeOK, Succeeds, Fails, tables
<1>1. ASSUME NEW w \in Workers, List(w) \/ EndRun(w)
      PROVE  CoverInv'
  <2>1. pc'[w] \notin {"write", "event"} /\ UNCHANGED <<rumours, events>>
    BY <1>1 DEF List, EndRun
  <2>2. QED
    BY <2>1, CoverFrame
<1>2. ASSUME NEW w \in Workers, Extract(w)
      PROVE  CoverInv'
  <2>1. pc'[w] \notin {"write", "event"} /\ UNCHANGED <<rumours, events>>
    BY <1>2 DEF Extract
  <2>2. QED
    BY <2>1, CoverFrame
<1>3. ASSUME NEW w \in Workers, Resolve(w) \/ Nudge(w)
      PROVE  CoverInv'
  <2>1. pc'[w] \notin {"write", "event"} /\ UNCHANGED <<rumours, events>>
    BY <1>3 DEF Resolve, Nudge
  <2>2. QED
    BY <2>1, CoverFrame
<1>4. ASSUME NEW w \in Workers, Mark(w) \/ Crash(w)
      PROVE  CoverInv'
  <2>1. pc'[w] \notin {"write", "event"} /\ UNCHANGED <<rumours, events>>
    BY <1>4 DEF Mark, Crash
  <2>2. QED
    BY <2>1, CoverFrame
<1>5. CASE UNCHANGED vars
  BY <1>5 DEF vars, locals, CoverInv, StatusCoversTimeline, Timeline, Deleted,
              StatusOf, ThreadOf
<1>6. QED
  BY <1>1, <1>2, <1>3, <1>4, <1>5, CoverRead, CoverWrite, CoverInsertEvent
  DEF Next, Work

LEMMA CoverDelete ==
    ASSUME RcInv, CoverInv, NEW k \in Cleaners, Delete(k)
    PROVE  CoverInv'
<1>1. StatusCoversTimeline'
  BY DeleteEffect DEF CoverInv, StatusCoversTimeline, Timeline
<1>2. ASSUME NEW w \in Workers, pc[w] \in {"write", "event"}
      PROVE  /\ pc'[w] = "write" =>
                   seen'[w] = StatusOf(ThreadOf(w))' \/ Deleted(ThreadOf(w))'
             /\ pc'[w] = "event" /\ rumours'[ThreadOf(w)'] # NULL =>
                   Progress(result'[w].status)
                      <= Progress(rumours'[ThreadOf(w)'].status)
  <2> PICK t \in Threads : t = ThreadOf(w)
    BY <1>2, ThreadType DEF RcInv, TypeOK, ThreadOf
  <2>1. t = ThreadOf(w)' /\ UNCHANGED <<pc, result, seen>>
    BY DeleteEffect DEF ThreadOf
  <2>2. /\ purged \subseteq purged'
        /\ rumours'[t] = rumours[t] \/ (rumours'[t] = NULL /\ t \in purged')
    BY DeleteEffect
  <2>3. pc[w] = "write" => seen'[w] = StatusOf(t)' \/ Deleted(t)'
    BY <2>1, <2>2 DEF CoverInv, StatusOf, Deleted
  <2>4. pc[w] = "event" /\ rumours'[t] # NULL =>
           Progress(result[w].status) <= Progress(rumours'[t].status)
    BY <2>2 DEF CoverInv
  <2>5. QED
    BY <2>1, <2>3, <2>4 DEF StatusOf, Deleted
<1>3. pc' = pc
  BY DeleteEffect
<1>4. QED
  BY <1>1, <1>2, <1>3 DEF CoverInv

\* A page is a row as the rumour had it.
PageRow ==
    [thread : Threads, status : Statuses, min : Fees, max : Fees,
     listed : SUBSET Articles, deleted : BOOLEAN]

\* A page whose rumour is still there has its events in the timeline, and is
\* as far along as those it was read with.
PageOK(p) ==
    /\ p.deleted => p.thread \in purged
    /\ ~p.deleted =>
          /\ rumours[p.thread] # NULL
          /\ \A a \in p.listed :
                /\ events[p.thread][a] # NULL
                /\ Progress(events[p.thread][a].status) <= Progress(p.status)

PageInv ==
    /\ page \in [Viewers -> PageRow \cup {NULL}]
    /\ \A v \in Viewers : page[v] # NULL => PageOK(page[v])

\* What a step of the system does to a page a request holds.
LEMMA PageKept ==
    ASSUME RcInv, PageInv, RcNext, LoseDeleted, NEW v \in Viewers,
           page'[v] # NULL
    PROVE  /\ page[v] # NULL
           /\ \/ page'[v] = page[v]
              \/ /\ page'[v] = [page[v] EXCEPT !.deleted = TRUE]
                 /\ page[v].thread \in purged'
<1>1. page[v] # NULL
  BY DEF LoseDeleted
<1> PICK t \in Threads : t = page[v].thread
  BY <1>1 DEF PageInv, PageRow
<1>2. CASE rumours[t] # NULL /\ rumours'[t] = NULL
  <2>1. ~[Next]_vars
    BY <1>2, RangeStep DEF RcInv
  <2>2. PICK k \in Cleaners : Delete(k)
    BY <2>1, StepKinds DEF ViewNext
  <2>3. t \in purged'
    BY <1>2, <2>2, DeleteEffect
  <2>4. QED
    BY <1>1, <1>2, <2>3 DEF LoseDeleted
<1>3. CASE ~(rumours[t] # NULL /\ rumours'[t] = NULL)
  BY <1>1, <1>3 DEF LoseDeleted
<1>4. QED
  BY <1>2, <1>3

LEMMA PageInvStep ==
    ASSUME RcInv, StatusCoversTimeline, PageInv, [ViewNext]_viewVars
    PROVE  PageInv'
<1>0. page' = [v \in Viewers |-> page'[v]]
  BY DEF ViewNext, LoseDeleted, ReadRow, ReadTimeline, viewVars, PageInv
<1> SUFFICES ASSUME NEW v \in Viewers, page'[v] # NULL
             PROVE  page'[v] \in PageRow /\ PageOK(page[v])'
  BY <1>0 DEF PageInv
<1>1. CASE RcNext /\ LoseDeleted
  <2>1. page[v] # NULL /\ page[v] \in PageRow /\ PageOK(page[v])
    BY <1>1, PageKept DEF PageInv
  <2> PICK p \in PageRow : p = page[v]
    BY <2>1
  <2> PICK t \in Threads : t = p.thread
    BY DEF PageRow
  <2>2. CASE page'[v] = p /\ p.deleted
    <3>1. purged \subseteq purged'
      BY StepKinds, DeleteEffect
    <3>2. QED
      BY <2>1, <2>2, <3>1 DEF PageOK
  <2>3. CASE page'[v] = p /\ ~p.deleted
    <3>1. rumours[t] # NULL
      BY <2>1, <2>3 DEF PageOK
    <3>2. p.deleted = FALSE
      BY <2>3 DEF PageRow
    <3>3. rumours'[t] # NULL
      BY <1>1, <2>1, <2>3, <3>1, <3>2 DEF LoseDeleted, PageRow
    <3>4. ASSUME NEW a \in Articles, events[t][a] # NULL
          PROVE  events'[t][a] = events[t][a]
      BY <3>3, <3>4, StepKinds, EventStays, DeleteEffect DEF RcInv
    <3>5. p.listed \subseteq Articles
      BY DEF PageRow
    <3>6. QED
      BY <2>1, <2>3, <3>3, <3>4, <3>5 DEF PageOK
  <2>4. CASE /\ page'[v] = [p EXCEPT !.deleted = TRUE]
             /\ t \in purged'
    <3>1. page'[v] \in PageRow /\ page'[v].deleted /\ page'[v].thread = t
      BY <2>4 DEF PageRow
    <3>2. QED
      BY <2>4, <3>1 DEF PageOK
  <2>5. QED
    BY <1>1, <2>2, <2>3, <2>4, PageKept
<1>2. ASSUME NEW u \in Viewers, ReadRow(u)
      PROVE  page'[v] \in PageRow /\ PageOK(page[v])'
  <2>1. UNCHANGED <<rumours, events, purged>>
    BY <1>2 DEF ReadRow, allVars, vars, tables, rcVars
  <2>2. CASE page'[v] = page[v]
    BY <2>1, <2>2 DEF PageInv, PageOK
  <2>3. CASE page'[v] # page[v]
    <3>1. PICK t \in Existing(Threads) : page'[v] = RumourRead(t)
      BY <1>2, <2>3 DEF ReadRow
    <3>2. t \in Threads /\ rumours[t] \in RumourRow
      BY <3>1 DEF Existing, RcInv, TypeOK
    <3>3. RumourRead(t) \in PageRow
      BY <3>2 DEF RumourRead, PageRow, RumourRow, Timeline
    <3>4. PageOK(page[v])'
      BY <2>1, <3>1, <3>2 DEF PageOK, RumourRead, Timeline, StatusCoversTimeline,
                              Existing
    <3>5. QED
      BY <3>1, <3>3, <3>4
  <2>4. QED
    BY <2>2, <2>3
<1>3. ASSUME NEW u \in Viewers, ReadTimeline(u)
      PROVE  page'[v] \in PageRow /\ PageOK(page[v])'
  <2>1. UNCHANGED <<rumours, events, purged>>
    BY <1>3 DEF ReadTimeline, allVars, vars, tables, rcVars
  <2>2. page'[v] = page[v]
    BY <1>3 DEF ReadTimeline, PageInv
  <2>3. QED
    BY <2>1, <2>2 DEF PageInv, PageOK
<1>4. CASE UNCHANGED viewVars
  BY <1>4 DEF viewVars, allVars, vars, tables, rcVars, PageInv, PageOK
<1>5. QED
  BY <1>1, <1>2, <1>3, <1>4 DEF ViewNext

LEMMA PageInvariant ==
    ASSUME OneWorker
    PROVE  ViewSpec => [](RcInv /\ LostInv /\ CoverInv /\ PageInv)
<1>1. ViewInit => CoverInv /\ PageInv
  BY DEF ViewInit, RcInit, Init, CoverInv, PageInv, StatusCoversTimeline, Timeline
<1>2. RcInv /\ CoverInv /\ [ViewNext]_viewVars => CoverInv'
  BY StepKinds, CoverExtract, CoverDelete DEF RcInv
<1>3. RcInv /\ CoverInv /\ PageInv /\ [ViewNext]_viewVars => PageInv'
  BY PageInvStep DEF CoverInv
<1>4. QED
  BY <1>1, <1>2, <1>3, LostInvariant, PTL DEF ViewSpec

\* With one worker, a page never mixes two rumours, however its two reads
\* interleave with extraction and with any number of cleaners.
THEOREM OneRumourPerPage ==
    ASSUME OneWorker
    PROVE  ViewSpec => []PageIsOneRumour
<1>1. PageInv => PageIsOneRumour
  <2> SUFFICES ASSUME PageInv, NEW p \in Pages, TimelineRead(p) # {}
               PROVE  /\ p.listed \subseteq TimelineRead(p)
                      /\ \A a \in p.listed :
                            Progress(events[p.thread][a].status) <= Progress(p.status)
    BY DEF PageIsOneRumour
  <2>1. p \in PageRow /\ PageOK(p)
    BY DEF Pages, PageInv
  <2>2. ~p.deleted /\ TimelineRead(p) = Timeline(p.thread)
    BY DEF TimelineRead
  <2>3. p.listed \subseteq Articles
    BY <2>1 DEF PageRow
  <2>4. QED
    BY <2>1, <2>2, <2>3 DEF PageOK, Timeline
<1>2. QED
  BY <1>1, PageInvariant, PTL

\* Without faults, what a rumour that was never deleted and the pages showing
\* it say was told by some report.
ToldRcInv ==
    faults = 0 =>
        /\ \A t \in Threads : rumours[t] # NULL /\ t \notin purged =>
              Told(rumours[t], t)
        /\ \A v \in Viewers : page[v] # NULL /\ page[v].thread \notin purged =>
              Told(page[v], page[v].thread)

LEMMA QueueInvDelete ==
    ASSUME QueueInv, NEW k \in Cleaners, Delete(k)
    PROVE  QueueInv'
<1>1. \A t \in Threads, a \in Articles : events'[t][a] # NULL => events[t][a] # NULL
  BY DeleteEffect
<1>2. QED
  BY <1>1, DeleteEffect DEF QueueInv

\* A rumour that was never deleted is as the worker filing on it believes.
LEMMA CurrentUnlessPurged ==
    ASSUME LostInv, CoverInv, faults = 0, NEW t \in Threads, t \notin purged
    PROVE  Current(t)
BY DEF LostInv, CoverInv, Current, Present, Deleted

\* What was told of such a rumour stays told.
LEMMA ToldKept ==
    ASSUME OneWorker, RcInv, LostInv, CoverInv, QueueInv, [ViewNext]_viewVars,
           faults = 0, faults' = 0, NEW t \in Threads, t \notin purged',
           NEW row, Told(row, t)
    PROVE  Told(row, t)'
<1>1. CASE [Next]_vars /\ UNCHANGED purged
  BY <1>1, CurrentUnlessPurged, ToldStays DEF RcInv
<1>2. ASSUME NEW k \in Cleaners, Delete(k)
      PROVE  Told(row, t)'
  <2>1. events'[t] = events[t] /\ UNCHANGED <<pc, result>>
    BY <1>2, DeleteEffect
  <2>2. \A r \in Reports : Tells(r, t) => Tells(r, t)'
    BY <2>1 DEF Tells, ThreadOf
  <2>3. QED
    BY <2>2 DEF Told
<1>3. QED
  BY <1>1, <1>2, StepKinds

LEMMA ToldRcRumours ==
    ASSUME OneWorker, RcInv, LostInv, CoverInv, QueueInv, ToldRcInv,
           [ViewNext]_viewVars, faults = 0, faults' = 0,
           NEW t \in Threads, t \notin purged', NEW row, row = rumours'[t], row # NULL
    PROVE  Told(row, t)'
<1>1. t \notin purged
  BY StepKinds, DeleteEffect
<1>2. rumours[t] # NULL => Told(rumours[t], t)
  BY <1>1 DEF ToldRcInv
<1>3. CASE [Next]_vars
  BY <1>1, <1>2, <1>3, CurrentUnlessPurged, ToldStep DEF RcInv
<1>4. ASSUME NEW k \in Cleaners, Delete(k)
      PROVE  Told(row, t)'
  <2>1. row = rumours[t]
    BY <1>4, DeleteEffect
  <2>2. QED
    BY <1>2, <2>1, ToldKept
<1>5. QED
  BY <1>3, <1>4, StepKinds

LEMMA ToldRcStep ==
    ASSUME OneWorker, RcInv, LostInv, CoverInv, PageInv, QueueInv, ToldRcInv,
           [ViewNext]_viewVars
    PROVE  ToldRcInv'
<1> SUFFICES ASSUME faults' = 0
             PROVE  ToldRcInv'
  BY DEF ToldRcInv
<1>1. faults = 0 /\ purged \subseteq purged'
  BY StepKinds, DeleteEffect, FaultsGrow DEF RcInv
<1>2. ASSUME NEW t \in Threads, rumours'[t] # NULL, t \notin purged'
      PROVE  Told(rumours[t], t)'
  <2> PICK row : row = rumours'[t]
    OBVIOUS
  <2>1. Told(row, t)'
    BY <1>1, <1>2, ToldRcRumours
  <2>2. QED
    BY <2>1 DEF Told
<1>3. ASSUME NEW v \in Viewers, page'[v] # NULL, page'[v].thread \notin purged'
      PROVE  Told(page[v], page[v].thread)'
  <2> PICK row : row = page'[v]
    OBVIOUS
  <2>1. PICK t \in Threads : t = row.thread
    BY <1>3, PageInvStep DEF PageInv, PageRow, CoverInv
  <2>2. Told(row, t)'
    <3>1. CASE row = page[v]
      BY <1>1, <1>3, <2>1, <3>1, ToldKept DEF ToldRcInv
    <3>2. ASSUME NEW u \in Viewers, ReadRow(u), row # page[v]
          PROVE  Told(row, t)'
      <4>1. PICK x \in Existing(Threads) : row = RumourRead(x)
        BY <1>3, <3>2 DEF ReadRow
      <4>2. /\ t = x /\ rumours[t] # NULL /\ row.status = rumours[t].status
            /\ row.min = rumours[t].min /\ row.max = rumours[t].max
        BY <2>1, <4>1 DEF RumourRead, Existing
      <4>3. Told(rumours[t], t)
        BY <1>1, <1>3, <2>1, <4>2 DEF ToldRcInv
      <4>4. Told(row, t)
        BY <4>2, <4>3 DEF Told
      <4>5. QED
        BY <1>1, <1>3, <2>1, <4>4, ToldKept
    <3>3. CASE RcNext /\ LoseDeleted
      <4>1. /\ page[v] # NULL /\ page[v] \in PageRow
            /\ \/ row = page[v]
               \/ /\ row = [page[v] EXCEPT !.deleted = TRUE]
                  /\ page[v].thread \in purged'
        BY <1>3, <3>3, PageKept DEF PageInv
      <4>2. row = page[v]
        BY <1>3, <4>1 DEF PageRow
      <4>3. QED
        BY <3>1, <4>2
    <3>4. row = page[v] \/ (RcNext /\ LoseDeleted)
          \/ \E u \in Viewers : ReadRow(u)
      <4>1. ASSUME NEW u \in Viewers, ReadTimeline(u)
            PROVE  row = page[v]
        BY <1>3, <4>1 DEF ReadTimeline, PageInv
      <4>2. QED
        BY <4>1 DEF ViewNext, viewVars
    <3>5. QED
      BY <3>1, <3>2, <3>3, <3>4
  <2>3. QED
    BY <2>1, <2>2 DEF Told, Tells
<1>4. QED
  BY <1>2, <1>3 DEF ToldRcInv

\* With one worker and no faults, the timeline on a page reports the status
\* and the fee bounds of its row, unless a report is being filed on the rumour
\* or its thread was cleaned up; for any number of cleaners.
THEOREM PageExplained ==
    ASSUME OneWorker
    PROVE  ViewSpec => []PageIsExplained
<1>1. ViewInit => QueueInv /\ ToldRcInv
  BY DEF ViewInit, RcInit, Init, QueueInv, ToldRcInv
<1>2. RcInv /\ QueueInv /\ [ViewNext]_viewVars => QueueInv'
  BY StepKinds, QueueInvStep, QueueInvDelete DEF RcInv
<1>3. RcInv /\ LostInv /\ CoverInv /\ PageInv /\ QueueInv /\ ToldRcInv
         /\ [ViewNext]_viewVars => ToldRcInv'
  BY ToldRcStep
<1>4. PageInv /\ ToldRcInv => PageIsExplained
  <2> SUFFICES ASSUME PageInv, ToldRcInv, NEW p \in Pages, faults = 0,
                      p.thread \notin purged,
                      \A w \in Workers : ~Filing(w, p.thread)
               PROVE  /\ \E a \in TimelineRead(p) :
                            events[p.thread][a].status = p.status
                      /\ p.min = NULL \/ \E a \in TimelineRead(p) :
                            events[p.thread][a].min = p.min
                      /\ p.max = NULL \/ \E a \in TimelineRead(p) :
                            events[p.thread][a].max = p.max
    BY DEF PageIsExplained
  <2>1. PageOK(p) /\ Told(p, p.thread)
    BY DEF Pages, PageInv, ToldRcInv
  <2>2. TimelineRead(p) = Timeline(p.thread)
    BY <2>1 DEF PageOK, TimelineRead
  <2>3. QED
    BY <2>1, <2>2, ToldFiled
<1>5. QED
  BY <1>1, <1>2, <1>3, <1>4, PageInvariant, PTL DEF ViewSpec
=============================================================================
