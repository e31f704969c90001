------------------------------- MODULE MCGate -------------------------------
(***************************************************************************)
(* Instances of Gate for TLC: a likely article, one whose content begins   *)
(* with a blank line, one with neither title nor content, and one whose    *)
(* title holds a blank line.                                               *)
(***************************************************************************)
EXTENDS Gate

CONSTANTS likely, unlikely, empty, split

MCParagraphs == {"t1", "t2", "b1", "b2", Blank}

MCTitle ==
    [a \in Articles |->
        CASE a = likely -> <<"t1">>
          [] a = unlikely -> <<"t2">>
          [] a = empty -> <<Blank>>
          [] a = split -> <<"t1", "t2">>]

MCContent ==
    [a \in Articles |->
        CASE a = unlikely -> <<Blank, "b2">>
          [] a = split -> <<"b1">>
          [] OTHER -> << >>]

Questions ==
    UNION {{SplitQuestion(a), OwnQuestion(a), Question(Title[a], << >>)} :
              a \in Articles}

\* The headline t1 is likely, alone or with its body; any other is unlikely,
\* and more so alone.
MCProbability ==
    [q \in Questions |->
        IF q[1] = <<"t1">> THEN 60 ELSE IF q[2] # << >> THEN 40 ELSE 20]
=============================================================================
