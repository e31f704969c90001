---------------------------- MODULE RumourStatus ----------------------------
(***************************************************************************)
(* The rumour life cycle of internal/models/models.go and the pure         *)
(* decisions the store takes on it in internal/store/rumours.go: the       *)
(* status a report leaves a rumour with, and the fee range Postgres        *)
(* computes with LEAST and GREATEST.  NULL is SQL's NULL.                  *)
(***************************************************************************)
EXTENDS Integers

CONSTANT NULL

\* The non-terminal statuses, in the order statusRank gives them.
statusRank ==
    [rumoured |-> 0, talks |-> 1, advanced |-> 2, medical |-> 3]

Ranked == DOMAIN statusRank

Terminal == {"confirmed", "collapsed"}

Statuses == Ranked \cup Terminal

ASSUME NullAssumption == NULL \notin Int \cup Statuses

IsTerminal(s) == s \in Terminal

\* Moving from s to next is forward progress, or a jump to a terminal state.
IsForwardTransition(s, next) ==
    /\ ~IsTerminal(s)
    /\ IsTerminal(next) \/ statusRank[next] >= statusRank[s]

\* Mutant: the report is believed, whatever the rumour's status.
FinalStatus_Reported(seen, reported) == reported

\* Mutant: the first status stays.
FinalStatus_First(seen, reported) == IF seen # NULL THEN seen ELSE reported

\* The status UpsertRumour writes, given the status it read (NULL for no
\* row) and the reported one.
FinalStatus(seen, reported) ==
    IF seen # NULL /\ ~IsForwardTransition(seen, reported)
    THEN seen
    ELSE reported

\* Mutant: a rumour first reported as resolved does not count.
JustResolved_Known(seen, written) ==
    seen # NULL /\ ~IsTerminal(seen) /\ IsTerminal(written)

\* Mutant: every report on a resolved rumour counts.
JustResolved_Again(seen, written) == IsTerminal(written)

\* UpsertRumour's justResolved: a status that was not terminal when it was
\* read is terminal once written.
JustResolved(seen, written) ==
    /\ seen = NULL \/ ~IsTerminal(seen)
    /\ IsTerminal(written)

Fees == Nat \cup {NULL}

\* Mutants: a missing figure counts as zero; the first figure stays; the last
\* one replaces it.
Least_Zero(a, b) ==
    IF a = NULL \/ b = NULL THEN 0 ELSE IF b <= a THEN b ELSE a

Least_First(a, b) == IF a = NULL THEN b ELSE a

Least_Last(a, b) == IF b = NULL THEN a ELSE b

\* Postgres' LEAST and GREATEST ignore a NULL argument.
Least(a, b) == IF a = NULL \/ (b # NULL /\ b <= a) THEN b ELSE a

Greatest(a, b) == IF a = NULL \/ (b # NULL /\ b >= a) THEN b ELSE a

\* Mutant: nothing bounds the score.
Clamp_Open(n) == n

\* reliability_score is kept within [0, 100].
Clamp(n) == IF n < 0 THEN 0 ELSE IF n > 100 THEN 100 ELSE n

\* How far a rumour has come: terminal statuses are past every ranked one.
Progress(s) == IF IsTerminal(s) THEN 4 ELSE statusRank[s]

\* The row after INSERT ... ON CONFLICT DO UPDATE with report r and status s.
Upserted(row, r, s) ==
    IF row = NULL
    THEN [from |-> r.from, status |-> s, min |-> r.min, max |-> r.max]
    ELSE [from   |-> IF r.from = NULL THEN row.from ELSE r.from,
          status |-> s,
          min    |-> Least(row.min, r.min),
          max    |-> Greatest(row.max, r.max)]

\* The range of row reaches both figures of r.
Spans(row, r) ==
    /\ r.min # NULL => row.min # NULL /\ row.min <= r.min
    /\ r.max # NULL => row.max # NULL /\ r.max <= row.max

reliabilityNudge == 2

\* Mutant: every resolution counts in the source's favour.
Delta_Up(s) == reliabilityNudge

\* Collapsed is the only outcome that costs; Upsert credits every other one.
Delta(s) == IF s = "collapsed" THEN -reliabilityNudge ELSE reliabilityNudge
=============================================================================
