---------------------------- MODULE RumourLedger ----------------------------
(***************************************************************************)
(* What extraction promises about the stored rumours, their timelines and  *)
(* the reliability of their sources, with every decision taken on the      *)
(* rumour as it is at that moment.  Clustering implements it when a single *)
(* worker runs; what it reads in one statement and uses in the next never  *)
(* shows.                                                                  *)
(***************************************************************************)
EXTENDS RumourStatus

CONSTANTS Articles, Sources, SourceOf, Threads, Reports, InitialScore

VARIABLES
    rumours,    \* the rumour of each thread, or NULL
    events,     \* events[t][a]: the report on thread t's timeline
    score,      \* the reliability of each source
    credited    \* how often a thread's sources were credited

vars == <<rumours, events, score, credited>>

Init ==
    /\ rumours = [t \in Threads |-> NULL]
    /\ events = [t \in Threads |-> [a \in Articles |-> NULL]]
    /\ score = InitialScore
    /\ credited = [t \in Threads |-> 0]

\* A report moves its rumour forward, or opens it.
Report(t, r) ==
    LET current == IF rumours[t] = NULL THEN NULL ELSE rumours[t].status
    IN  /\ rumours' = [rumours EXCEPT ![t] =
               Upserted(@, r, FinalStatus(current, r.status))]
        /\ UNCHANGED <<events, score, credited>>

\* A report the rumour already accounts for joins its timeline, once per
\* article.
Record(t, a, r) ==
    /\ rumours[t] # NULL
    /\ Spans(rumours[t], r)
    /\ Progress(r.status) <= Progress(rumours[t].status)
    /\ events[t][a] = NULL
    /\ events' = [events EXCEPT ![t][a] = r]
    /\ UNCHANGED <<rumours, score, credited>>

\* A resolved rumour moves the reliability of everyone on its timeline, once.
Settle(t) ==
    /\ rumours[t] # NULL /\ IsTerminal(rumours[t].status)
    /\ credited[t] = 0
    /\ credited' = [credited EXCEPT ![t] = 1]
    /\ score' = [s \in Sources |->
           IF \E a \in Articles : events[t][a] # NULL /\ SourceOf[a] = s
           THEN Clamp(score[s] + Delta(rumours[t].status))
           ELSE score[s]]
    /\ UNCHANGED <<rumours, events>>

Next ==
    \E t \in Threads :
        \/ \E r \in Reports : Report(t, r)
        \/ \E a \in Articles, r \in Reports : Record(t, a, r)
        \/ Settle(t)

Spec == Init /\ [][Next]_vars
=============================================================================
