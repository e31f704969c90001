---------------------------- MODULE MCClustering ----------------------------
(***************************************************************************)
(* Instances of Clustering for TLC.                                        *)
(***************************************************************************)
EXTENDS Clustering

CONSTANTS a1, a2, a3, s1, s2, p1, c1, c2

\* Two of the three articles come from one source.
MCSourceOf == [a \in Articles |-> IF a = a3 THEN s2 ELSE s1]

\* One source a single credit from the ceiling, one from the floor.
MCInitialScore == [s \in Sources |-> IF s = s1 THEN 99 ELSE 1]

Report(to, from, status, min, max) ==
    [player |-> p1, to |-> to, from |-> from,
     status |-> status, min |-> min, max |-> max]

\* Progress and resolution on one thread, with figures that widen the range
\* at either end, and the same player linked with another club: an article
\* extracted a second time may land on the other thread.
TwoThreadReports ==
    { Report(c1, NULL, "rumoured", 2, NULL),
      Report(c1, c2, "advanced", 1, 3),
      Report(c1, NULL, "confirmed", NULL, 2),
      Report(c2, NULL, "collapsed", 3, 3) }
=============================================================================
