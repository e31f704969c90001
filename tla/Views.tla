-------------------------------- MODULE Views --------------------------------
(***************************************************************************)
(* GET /rumours/{id}: handleGetRumour (internal/api) and GetRumourByID     *)
(* (internal/store), beside extraction and clean-up.                       *)
(*                                                                         *)
(* The page of a rumour is read by two statements, its row and then its    *)
(* timeline, with no transaction around them: a report may be filed or the *)
(* rumour deleted in between.  The second statement looks for the events   *)
(* of the id the first one found, and the id of a deleted rumour never     *)
(* comes back, also when its thread is opened again.                       *)
(***************************************************************************)
EXTENDS Reclassify

CONSTANT Viewers    \* requests for a rumour's page

VARIABLE
    page        \* the row each request holds, or NULL; listed (history) is
                \* the timeline when it was read, deleted that its id is gone

viewVars == <<allVars, page>>

\* The row of a rumour, as the first statement returns it.
RumourRead(t) ==
    [thread |-> t, status |-> rumours[t].status,
     min |-> rumours[t].min, max |-> rumours[t].max,
     listed |-> Timeline(t), deleted |-> FALSE]

\* Mutant: the events of whatever rumour the thread has now.
TimelineRead_ByThread(p) == Timeline(p.thread)

\* The events the second statement finds for the rumour of page p.
TimelineRead(p) == IF p.deleted THEN {} ELSE Timeline(p.thread)

-----------------------------------------------------------------------------
ViewInit == RcInit /\ page = [v \in Viewers |-> NULL]

\* The first SELECT; a rumour without a row is answered with a 404.
ReadRow(v) ==
    /\ page[v] = NULL
    /\ \E t \in Existing(Threads) : page' = [page EXCEPT ![v] = RumourRead(t)]
    /\ UNCHANGED allVars

\* The second SELECT and the response, or a 500 if it fails.
ReadTimeline(v) ==
    /\ page[v] # NULL
    /\ page' = [page EXCEPT ![v] = NULL]
    /\ UNCHANGED allVars

\* A deletion takes the ids that requests hold.
LoseDeleted ==
    page' = [v \in Viewers |->
        IF page[v] # NULL /\ rumours[page[v].thread] # NULL
                          /\ rumours'[page[v].thread] = NULL
        THEN [page[v] EXCEPT !.deleted = TRUE]
        ELSE page[v]]

ViewNext ==
    \/ RcNext /\ LoseDeleted
    \/ \E v \in Viewers : ReadRow(v) \/ ReadTimeline(v)

ViewSpec == ViewInit /\ [][ViewNext]_viewVars
-----------------------------------------------------------------------------
(* Properties.  A request between its two statements may run the second one *)
(* at once, so what holds of every such request holds of every page shown.  *)

Pages == {page[v] : v \in {u \in Viewers : page[u] # NULL}}

\* A page never mixes two rumours: its timeline is empty, because the rumour
\* is gone, or has every event that was there when the row was read; and its
\* row is behind only those filed since.
PageIsOneRumour ==
    \A p \in Pages : TimelineRead(p) # {} =>
        /\ p.listed \subseteq TimelineRead(p)
        /\ \A a \in p.listed :
              Progress(events[p.thread][a].status) <= Progress(p.status)

\* Without faults, the timeline on a page reports the status and the fee
\* bounds its row shows, unless a report is being filed at that moment or the
\* rumour's thread was cleaned up.
PageIsExplained ==
    \A p \in Pages :
        /\ faults = 0 /\ p.thread \notin purged
        /\ \A w \in Workers : ~Filing(w, p.thread)
        => LET Shows(fee, field) ==
                   fee = NULL \/ \E a \in TimelineRead(p) : events[p.thread][a][field] = fee
           IN  /\ \E a \in TimelineRead(p) : events[p.thread][a].status = p.status
               /\ Shows(p.min, "min") /\ Shows(p.max, "max")
=============================================================================
