---------------------------- MODULE MCReclassify ----------------------------
(***************************************************************************)
(* Instances of Reclassify and Views for TLC.                              *)
(***************************************************************************)
EXTENDS Views

CONSTANTS a1, a2, s1, s2, p1, c1, c2

MCSourceOf == [a \in Articles |-> IF a = a1 THEN s1 ELSE s2]

MCInitialScore == [s \in Sources |-> 50]

Report(to, status, low, high) ==
    [player |-> p1, to |-> to, from |-> NULL,
     status |-> status, min |-> low, max |-> high]

MCReports ==
    { Report(c1, "talks", 3, NULL), Report(c1, "confirmed", 2, 3),
      Report(c2, "advanced", NULL, NULL) }
=============================================================================
