------------------------------ MODULE Comments ------------------------------
(***************************************************************************)
(* The comments of a rumour: handleCreateComment and handleListComments    *)
(* (internal/api), CreateComment, ListComments and RumourExists            *)
(* (internal/store).                                                       *)
(*                                                                         *)
(* Authors post comments, a reader walks through the listing page by page, *)
(* and reclassify may delete the rumour at any moment.  A comment is       *)
(* ordered by created_at, which now() takes when its transaction begins:   *)
(* it becomes visible when the transaction commits, perhaps after comments *)
(* that began after it, and two may have the same created_at.              *)
(***************************************************************************)
EXTENDS Paging

CONSTANTS
    Posts,          \* requests to post a comment
    Lengths,        \* lengths of the trimmed bodies they send
    minCommentBodyLength, maxCommentBodyLength,
    CommentLimits,  \* the limit parameters of the reader
    defaultCommentsLimit, maxCommentsLimit,
    MaxTime,        \* bound on created_at
    MaxFaults       \* bound on failed statements

ASSUME CommentAssumption ==
    /\ Lengths \subseteq Nat
    /\ {minCommentBodyLength, maxCommentBodyLength} \subseteq Nat
    /\ maxCommentsLimit \in Nat /\ defaultCommentsLimit \in 1..maxCommentsLimit
    /\ CommentLimits \subseteq Int \cup {Absent, Invalid}
    /\ MaxTime \in Nat /\ MaxFaults \in Nat

VARIABLES
    exists,     \* the rumour has a row
    state,      \* of each post: "unsent", "begun", "stored", or "none" when
                \* it left no comment or its comment was deleted
    created,    \* created_at of each post that began
    answer,     \* the status code it was answered with, 0 before
    time,       \* the latest created_at
    faults,     \* history: failed statements
    reading,    \* the reader is at: "none", "check", "list", "page" (with
                \* has_more) or "end"
    received,   \* the rows it has received
    shown,      \* the comments among them
    late        \* history: comments stored behind the reader's last row

thread      == <<exists, state, created, answer, time, faults>>
reader      == <<reading, received, shown, late>>
commentVars == <<thread, reader>>

Stored == {p \in Posts : state[p] = "stored"}

\* Mutant: newest first.
Before_Newest(p) == {q \in Stored : created[q] > created[p]}

\* The comments that ORDER BY created_at puts before p.
Before(p) == {q \in Stored : created[q] < created[p]}

Twins(p) == {q \in Stored : created[q] = created[p]}

\* Every result of ORDER BY created_at LIMIT limit OFFSET skip: comments of
\* one created_at come in any order, anew in every query.
PagesOf(limit, skip) ==
    {page \in SUBSET Stored : \A p \in Stored :
        Cardinality(page \cap Twins(p)) =
            Overlap(Cardinality(Before(p)), Cardinality(Twins(p)), limit, skip)}

\* validateCommentBody, and the CHECK of the table.
ValidBody(n) == n \in minCommentBodyLength .. maxCommentBodyLength

-----------------------------------------------------------------------------
CommentsInit ==
    /\ exists = TRUE
    /\ state = [p \in Posts |-> "unsent"]
    /\ created = [p \in Posts |-> 0]
    /\ answer = [p \in Posts |-> 0]
    /\ time = 0 /\ faults = 0
    /\ reading = "none" /\ received = 0 /\ shown = {} /\ late = {}

Answer(p, code) == answer' = [answer EXCEPT ![p] = code]

Fails(p) ==
    /\ faults < MaxFaults
    /\ faults' = faults + 1
    /\ Answer(p, 500)

\* handleCreateComment refuses the body.
RefuseBody(p) ==
    /\ state[p] = "unsent"
    /\ \E n \in Lengths : ~ValidBody(n)
    /\ state' = [state EXCEPT ![p] = "none"]
    /\ Answer(p, 400)
    /\ UNCHANGED <<exists, created, time, faults, reader>>

\* CreateComment's INSERT begins, in the same microsecond as the last or later.
BeginPost(p) ==
    /\ state[p] = "unsent"
    /\ \E n \in Lengths : ValidBody(n)
    /\ time' \in {time, time + 1} \cap 1..MaxTime
    /\ state' = [state EXCEPT ![p] = "begun"]
    /\ created' = [created EXCEPT ![p] = time']
    /\ UNCHANGED <<exists, answer, faults, reader>>

\* The reader has passed the place of p.
Behind(p) == reading = "end" \/ \E q \in shown : created[q] > created[p]

\* The INSERT commits; its answer may get lost, with a 500.
StorePost(p) ==
    /\ state[p] = "begun" /\ exists
    /\ state' = [state EXCEPT ![p] = "stored"]
    /\ \/ Answer(p, 201) /\ UNCHANGED faults
       \/ Fails(p)
    /\ late' = IF Behind(p) THEN late \cup {p} ELSE late
    /\ UNCHANGED <<exists, created, time, reading, received, shown>>

\* Its foreign key finds no rumour, or it fails without effect.
RefusePost(p) ==
    /\ state[p] = "begun"
    /\ state' = [state EXCEPT ![p] = "none"]
    /\ \/ ~exists /\ Answer(p, 404) /\ UNCHANGED faults
       \/ Fails(p)
    /\ UNCHANGED <<exists, created, time, reader>>

\* DeleteRumours: the comments go with their rumour (ON DELETE CASCADE).
DeleteThread ==
    /\ exists
    /\ exists' = FALSE
    /\ state' = [p \in Posts |-> IF p \in Stored THEN "none" ELSE state[p]]
    /\ UNCHANGED <<created, answer, time, faults, reader>>

\* The reader asks for the first page, or for the one has_more promised.
StartReading ==
    /\ reading \notin {"check", "list"}
    /\ reading' = "check"
    /\ received' = 0 /\ shown' = {} /\ late' = {}
    /\ UNCHANGED thread

NextPage ==
    /\ reading = "page"
    /\ reading' = "check"
    /\ UNCHANGED <<thread, received, shown, late>>

\* RumourExists; a 404 ends the walk.
Check ==
    /\ reading = "check"
    /\ reading' = IF exists THEN "list" ELSE "none"
    /\ UNCHANGED <<thread, received, shown, late>>

\* Either statement fails: the reader asks for the page again or gives up.
FailRead ==
    /\ reading \in {"check", "list"}
    /\ reading' \in {"check", "none"}
    /\ UNCHANGED <<thread, received, shown, late>>

\* Mutant: a full page promises another one.
HasMore_Full(limit) == Cardinality(Stored) >= received + limit

\* ListComments asks for one row more than the page holds.
HasMore(limit) == Cardinality(Stored) > received + limit

\* ListComments; an invalid limit is a 400 and reads nothing.
ListComments(raw) ==
    LET limit == ClampLimit(IntParam(raw, defaultCommentsLimit), maxCommentsLimit)
    IN  /\ reading = "list" /\ raw # Invalid
        /\ \E page \in PagesOf(limit, received) :
              /\ shown' = shown \cup page
              /\ received' = received + Cardinality(page)
        /\ reading' = IF HasMore(limit) THEN "page" ELSE "end"
        /\ UNCHANGED <<thread, late>>

CommentsNext ==
    \/ \E p \in Posts : RefuseBody(p) \/ BeginPost(p) \/ StorePost(p) \/ RefusePost(p)
    \/ DeleteThread \/ StartReading \/ NextPage \/ Check \/ FailRead
    \/ \E raw \in CommentLimits : ListComments(raw)

CommentsSpec == CommentsInit /\ [][CommentsNext]_commentVars
-----------------------------------------------------------------------------
(* Properties. *)

Tied == \E p \in Stored : Twins(p) # {p}

Created == {p \in Posts : answer[p] = 201}

\* A walk to the end shows every comment of a rumour that still exists, also
\* each that was answered with a 201, except those that committed behind the
\* reader: late arrivals push rows to later pages and never pull one past it.
\* Comments of one created_at have no order of their own, and are excepted.
WalkMissesOnlyLatecomers ==
    reading = "end" /\ exists /\ ~Tied => (Stored \cup Created) \ late \subseteq shown

\* has_more is a promise: the page after it has rows, whatever is posted in
\* between, and is empty only if the rumour was deleted after the request
\* found that it exists.
EmptyPageMeansDeleted ==
    reading = "list" /\ shown # {} /\ Cardinality(Stored) <= received => ~exists
=============================================================================
