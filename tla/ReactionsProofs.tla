---------------------------- MODULE ReactionsProofs ----------------------------
(***************************************************************************)
(* What likes and follows promise, for any number of users, tabs, rumours  *)
(* and clubs and any number of faults: nothing outlives its rumour, and a  *)
(* user's answered requests are the last word on what the user likes.      *)
(***************************************************************************)
EXTENDS Reactions, TLAPS

Ops == {"none", "set", "unset"}

TypeOK ==
    /\ exists \in SUBSET Targets
    /\ reaction \in [Targets -> [Users -> {"none", "active", "deleted"}]]
    /\ pc \in [Tabs -> {"idle", "check", "run", "answer"}]
    /\ op \in [Tabs -> Ops]
    /\ target \in [Tabs -> Targets]
    /\ code \in [Tabs -> {0, 204, 404, 500}]
    /\ latest \in [Targets -> [Users -> SUBSET ((Tabs \cup {"init"}) \X Ops)]]
    /\ older \in [Tabs -> SUBSET ((Tabs \cup {"init"}) \X Ops)]

\* The request that would leave the reaction as it is.
Value(x, u) == IF reaction[x][u] = "active" THEN "set" ELSE "unset"

\* An effective request of u about x whose answer is on its way.
Answering(t, x, u) == User(t) = u /\ target[t] = x /\ pc[t] = "answer"

\* The last request that took effect was answered, and no request that it
\* was answered before is about to follow it...
Answered(x, u) ==
    \E w \in latest[x][u] :
        /\ w[2] = Value(x, u)
        /\ \A t \in Tabs : Answering(t, x, u) /\ code[t] = 204 => w \notin older[t]

\* ...or its own answer is on the way.
Unanswered(x, u) ==
    \E t \in Tabs :
        Answering(t, x, u) /\ code[t] \in {204, 500} /\ op[t] = Value(x, u)

WordOK == \A x \in exists, u \in Users : Answered(x, u) \/ Unanswered(x, u)

Inv == TypeOK /\ NothingOutlivesItsRumour /\ WordOK

-----------------------------------------------------------------------------
\* No one likes or follows anything yet, and no request was sent.
LEMMA InvInit == Init => Inv
<1> SUFFICES ASSUME Init PROVE Inv
    OBVIOUS
<1>1. Initially \in (Tabs \cup {"init"}) \X Ops
    BY DEF Initially, Ops
<1>2. TypeOK
    BY <1>1 DEF Init, TypeOK, Targets, Ops
<1>3. NothingOutlivesItsRumour
    BY DEF Init, NothingOutlivesItsRumour, Active
<1>4. ASSUME NEW x \in Targets, NEW u \in Users PROVE Answered(x, u)
    <2>1. Value(x, u) = "unset"
        BY DEF Init, Value
    <2>2. Initially \in latest[x][u] /\ Initially[2] = "unset"
        BY DEF Init, Initially
    <2>3. \A t \in Tabs : ~Answering(t, x, u)
        BY DEF Init, Answering
    <2> QED
        BY <2>1, <2>2, <2>3 DEF Answered
<1> QED
    BY <1>2, <1>3, <1>4 DEF Inv, WordOK, TypeOK

\* A statement writes one row of the table.
LEMMA RowWritten ==
    ASSUME TypeOK, NEW x \in Targets, NEW u \in Users
    PROVE  /\ Reacted(x, u) \in [Targets -> [Users -> {"none", "active", "deleted"}]]
           /\ Withdrawn(x, u) \in [Targets -> [Users -> {"none", "active", "deleted"}]]
           /\ Reacted(x, u)[x][u] = "active"
           /\ Withdrawn(x, u)[x][u] # "active"
           /\ \A y \in Targets, v \in Users : ~(y = x /\ v = u) =>
                  Reacted(x, u)[y][v] = reaction[y][v]
                  /\ Withdrawn(x, u)[y][v] = reaction[y][v]
<1>1. reaction[x] \in [Users -> {"none", "active", "deleted"}]
    BY DEF TypeOK
<1>2. ASSUME NEW e \in {"none", "active", "deleted"},
             NEW after, after = [reaction EXCEPT ![x] = [reaction[x] EXCEPT ![u] = e]]
      PROVE  /\ after \in [Targets -> [Users -> {"none", "active", "deleted"}]]
             /\ after[x][u] = e
             /\ \A y \in Targets, v \in Users : ~(y = x /\ v = u) =>
                    after[y][v] = reaction[y][v]
    <2>1. [reaction[x] EXCEPT ![u] = e] \in [Users -> {"none", "active", "deleted"}]
        BY <1>1
    <2> QED
        BY <1>1, <1>2, <2>1 DEF TypeOK
<1>3. Reacted(x, u) = [reaction EXCEPT ![x] = [reaction[x] EXCEPT ![u] = "active"]]
    BY DEF Reacted
<1>4. Withdrawn(x, u) = [reaction EXCEPT ![x] = [reaction[x] EXCEPT ![u] =
          IF reaction[x][u] = "active" THEN "deleted" ELSE reaction[x][u]]]
    BY DEF Withdrawn
<1> DEFINE e == IF reaction[x][u] = "active" THEN "deleted" ELSE reaction[x][u]
<1>5. e \in {"none", "deleted"} /\ e \in {"none", "active", "deleted"}
      /\ Withdrawn(x, u) = [reaction EXCEPT ![x] = [reaction[x] EXCEPT ![u] = e]]
    BY <1>1, <1>4
<1> HIDE DEF e
<1>6. /\ Reacted(x, u) \in [Targets -> [Users -> {"none", "active", "deleted"}]]
      /\ Reacted(x, u)[x][u] = "active"
      /\ \A y \in Targets, v \in Users : ~(y = x /\ v = u) =>
             Reacted(x, u)[y][v] = reaction[y][v]
    BY <1>2, <1>3
<1>7. /\ Withdrawn(x, u) \in [Targets -> [Users -> {"none", "active", "deleted"}]]
      /\ Withdrawn(x, u)[x][u] # "active"
      /\ \A y \in Targets, v \in Users : ~(y = x /\ v = u) =>
             Withdrawn(x, u)[y][v] = reaction[y][v]
    BY <1>2, <1>5
<1> QED
    BY <1>6, <1>7

\* A statement about one row leaves the others as they are.
LEMMA OtherRowsKept ==
    ASSUME TypeOK, NEW x \in Targets, NEW u \in Users,
           NEW y \in Targets, NEW v \in Users, ~(x = y /\ u = v),
           reaction' \in {Reacted(x, u), Withdrawn(x, u), reaction}
    PROVE  reaction'[y][v] = reaction[y][v]
<1>1. \A z \in Targets, w \in Users : ~(z = x /\ w = u) =>
          Reacted(x, u)[z][w] = reaction[z][w] /\ Withdrawn(x, u)[z][w] = reaction[z][w]
    BY RowWritten
<1>2. Reacted(x, u)[y][v] = reaction[y][v] /\ Withdrawn(x, u)[y][v] = reaction[y][v]
    BY <1>1
<1> QED
    BY <1>2

\* An answer touches its own request only.
LEMMA AnswerType ==
    ASSUME TypeOK, NEW t \in Tabs, NEW c \in {0, 204, 404, 500}, Answer(t, c)
    PROVE  /\ pc' \in [Tabs -> {"idle", "check", "run", "answer"}]
           /\ code' \in [Tabs -> {0, 204, 404, 500}]
           /\ UNCHANGED <<op, target, latest, older>>
BY DEF TypeOK, Answer

\* What Set and Unset may do: write the row and answer 204 or 500, or leave
\* it and answer 404 or 500.
LEMMA StatementEffect ==
    ASSUME TypeOK, NEW t \in Tabs, Set(t) \/ Unset(t)
    PROVE  /\ pc[t] = "run" /\ op[t] \in {"set", "unset"} /\ exists' = exists
           /\ \/ /\ \/ op[t] = "set" /\ References(target[t])
                       /\ reaction' = Reacted(target[t], User(t))
                    \/ op[t] = "unset" /\ reaction' = Withdrawn(target[t], User(t))
                 /\ \E c \in {204, 500} : Answer(t, c)
              \/ /\ reaction' = reaction
                 /\ \E c \in {404, 500} : Answer(t, c)
BY DEF Set, Unset, Fails

\* The latest requests about a row once the response to t is there.
LatestAfter(t, x, u) ==
    IF Answering(t, x, u) /\ code[t] # 404
    THEN (latest[x][u] \ (IF code[t] = 204 THEN older[t] ELSE {})) \cup {<<t, op[t]>>}
    ELSE latest[x][u]

\* A response moves its own request into the latest ones about its row, in
\* place of those it followed, and out of what others may follow.
LEMMA RespondEffect ==
    ASSUME TypeOK, NEW t \in Tabs, Respond(t)
    PROVE  /\ pc[t] = "answer"
           /\ pc' = [pc EXCEPT ![t] = "idle"]
           /\ op' = [op EXCEPT ![t] = "none"]
           /\ code' = [code EXCEPT ![t] = 0]
           /\ UNCHANGED <<exists, reaction, target>>
           /\ latest' \in [Targets -> [Users -> SUBSET ((Tabs \cup {"init"}) \X Ops)]]
           /\ older' \in [Tabs -> SUBSET ((Tabs \cup {"init"}) \X Ops)]
           /\ \A x \in Targets, u \in Users :
                  latest'[x][u] = LatestAfter(t, x, u)
           /\ \A y \in Tabs : older'[y] \subseteq older[y]
           /\ code[t] # 404 =>
                  \A y \in Tabs : target[y] = target[t] => <<t, op[t]>> \notin older'[y]
<1> DEFINE H == SUBSET ((Tabs \cup {"init"}) \X Ops)
           mine == <<t, op[t]>>
           followed == IF code[t] = 204 THEN older[t] ELSE {}
<1>1. target[t] \in Targets /\ User(t) \in Users
    BY TabAssumption DEF TypeOK, User
<1>2. mine \in (Tabs \cup {"init"}) \X Ops
    BY DEF TypeOK
<1>3. /\ pc[t] = "answer"
      /\ pc' = [pc EXCEPT ![t] = "idle"]
      /\ op' = [op EXCEPT ![t] = "none"]
      /\ code' = [code EXCEPT ![t] = 0]
      /\ UNCHANGED <<exists, reaction, target>>
    BY DEF Respond, tables
<1>4. CASE code[t] # 404
    <2> DEFINE x == target[t]
               u == User(t)
               row == (latest[x][u] \ followed) \cup {mine}
    <2>1. latest' = [latest EXCEPT ![x] = [latest[x] EXCEPT ![u] = row]]
        BY <1>4 DEF Respond
    <2>2. older' = [y \in Tabs |-> IF y = t THEN {} ELSE
                 IF target[y] = x THEN older[y] \ {mine} ELSE older[y]]
        BY <1>4 DEF Respond
    <2>3. /\ older' \in [Tabs -> H]
          /\ \A y \in Tabs : older'[y] \subseteq older[y]
          /\ \A y \in Tabs : target[y] = x => mine \notin older'[y]
        BY <2>2 DEF TypeOK
    <2>4. latest \in [Targets -> [Users -> H]] /\ row \in H
        BY <1>1, <1>2 DEF TypeOK
    <2> HIDE DEF H, row
    <2>5. [latest[x] EXCEPT ![u] = row] \in [Users -> H]
        BY <1>1, <2>4
    <2>6. /\ latest' \in [Targets -> [Users -> H]]
          /\ latest'[x][u] = row
          /\ \A y \in Targets, v \in Users : ~(y = x /\ v = u) =>
                 latest'[y][v] = latest[y][v]
        BY <1>1, <2>1, <2>4, <2>5
    <2>7. \A y \in Targets, v \in Users : Answering(t, y, v) <=> y = x /\ v = u
        BY <1>3 DEF Answering
    <2> USE DEF H, row
    <2>8. \A y \in Targets, v \in Users :
              latest'[y][v] = LatestAfter(t, y, v)
        <3> SUFFICES ASSUME NEW y \in Targets, NEW v \in Users
                     PROVE  latest'[y][v] = LatestAfter(t, y, v)
            OBVIOUS
        <3>1. CASE y = x /\ v = u
            <4>1. LatestAfter(t, x, u) = row
                BY <1>4, <2>7, <3>1 DEF LatestAfter
            <4> HIDE DEF H, row
            <4> QED
                BY <2>6, <3>1, <4>1
        <3>2. CASE ~(y = x /\ v = u)
            BY <2>6, <2>7, <3>2 DEF LatestAfter
        <3> QED
            BY <3>1, <3>2
    <2> QED
        BY <1>3, <2>3, <2>6, <2>8
<1>5. CASE code[t] = 404
    <2>1. older' = [older EXCEPT ![t] = {}] /\ UNCHANGED latest
        BY <1>5 DEF Respond
    <2>2. /\ older' \in [Tabs -> H]
          /\ \A y \in Tabs : older'[y] \subseteq older[y]
        BY <2>1 DEF TypeOK
    <2>3. \A y \in Targets, v \in Users : latest'[y][v] = LatestAfter(t, y, v)
        BY <1>5, <2>1 DEF LatestAfter
    <2>4. latest' \in [Targets -> [Users -> H]]
        BY <2>1 DEF TypeOK
    <2> QED
        BY <1>3, <1>5, <2>2, <2>3, <2>4
<1> QED
    BY <1>4, <1>5

\* Every step keeps the variables in their types.
LEMMA TypeStep == TypeOK /\ [Next]_vars => TypeOK'
<1> SUFFICES ASSUME TypeOK, [Next]_vars PROVE TypeOK'
    OBVIOUS
<1>1. ASSUME NEW t \in Tabs, Send(t) PROVE TypeOK'
    <2>1. latest[target[t]][User(t)] \in SUBSET ((Tabs \cup {"init"}) \X Ops)
        BY TabAssumption DEF TypeOK, User
    <2>2. older' \in [Tabs -> SUBSET ((Tabs \cup {"init"}) \X Ops)]
        BY <1>1, <2>1 DEF Send, TypeOK
    <2> QED
        BY <1>1, <2>2 DEF Send, TypeOK, tables, Ops
<1>2. ASSUME NEW t \in Tabs, Check(t) PROVE TypeOK'
    <2>1. CASE Answer(t, 404) \/ Answer(t, 500)
        BY <1>2, <2>1, AnswerType DEF Check, TypeOK, tables
    <2>2. CASE pc' = [pc EXCEPT ![t] = "run"]
               /\ UNCHANGED <<op, target, code, latest, older>>
        BY <1>2, <2>2 DEF Check, TypeOK, tables
    <2> QED
        BY <1>2, <2>1, <2>2 DEF Check, Fails
<1>3. ASSUME NEW t \in Tabs, Set(t) \/ Unset(t) PROVE TypeOK'
    <2>1. target[t] \in Targets /\ User(t) \in Users
        BY TabAssumption DEF TypeOK, User
    <2>2. PICK c \in {204, 404, 500} : Answer(t, c)
        BY <1>3, StatementEffect
    <2>3. exists' = exists
          /\ reaction' \in [Targets -> [Users -> {"none", "active", "deleted"}]]
        <3>1. reaction' \in {reaction, Reacted(target[t], User(t)),
                              Withdrawn(target[t], User(t))}
            BY <1>3, StatementEffect
        <3>2. /\ reaction \in [Targets -> [Users -> {"none", "active", "deleted"}]]
              /\ Reacted(target[t], User(t))
                     \in [Targets -> [Users -> {"none", "active", "deleted"}]]
              /\ Withdrawn(target[t], User(t))
                     \in [Targets -> [Users -> {"none", "active", "deleted"}]]
            BY <2>1, RowWritten DEF TypeOK
        <3>3. exists' = exists
            BY <1>3, StatementEffect
        <3> QED
            BY <3>1, <3>2, <3>3
    <2> QED
        BY <2>2, <2>3, AnswerType DEF TypeOK
<1>4. ASSUME NEW t \in Tabs, Respond(t) PROVE TypeOK'
    <2>1. /\ latest' \in [Targets -> [Users -> SUBSET ((Tabs \cup {"init"}) \X Ops)]]
          /\ older' \in [Tabs -> SUBSET ((Tabs \cup {"init"}) \X Ops)]
        BY <1>4, RespondEffect
    <2>2. /\ pc' = [pc EXCEPT ![t] = "idle"]
          /\ op' = [op EXCEPT ![t] = "none"]
          /\ code' = [code EXCEPT ![t] = 0]
          /\ UNCHANGED <<exists, reaction, target>>
        BY <1>4, RespondEffect
    <2> QED
        BY <2>1, <2>2 DEF TypeOK, Ops
<1>5. ASSUME NEW r \in Rumours, Delete(r) PROVE TypeOK'
    <2>1. [u \in Users |-> "none"] \in [Users -> {"none", "active", "deleted"}]
        OBVIOUS
    <2>2. reaction' \in [Targets -> [Users -> {"none", "active", "deleted"}]]
        BY <1>5, <2>1 DEF Delete, TypeOK
    <2> QED
        BY <1>5, <2>2 DEF Delete, TypeOK, request
<1>6. CASE UNCHANGED vars
    BY <1>6 DEF TypeOK, vars, tables, request
<1> QED
    BY <1>1, <1>2, <1>3, <1>4, <1>5, <1>6 DEF Next

\* A row becomes active only while its target exists, and goes with it.
LEMMA CascadeStep ==
    TypeOK /\ NothingOutlivesItsRumour /\ [Next]_vars => NothingOutlivesItsRumour'
<1> SUFFICES ASSUME TypeOK, NothingOutlivesItsRumour, [Next]_vars,
                    NEW x \in Targets \ exists', NEW u \in Users
             PROVE  reaction'[x][u] # "active"
    BY DEF NothingOutlivesItsRumour, Active
<1>1. x \notin exists => reaction[x][u] # "active"
    BY DEF NothingOutlivesItsRumour, Active
<1>2. ASSUME NEW t \in Tabs, Set(t) \/ Unset(t) PROVE reaction'[x][u] # "active"
    <2>1. target[t] \in Targets /\ User(t) \in Users
        BY TabAssumption DEF TypeOK, User
    <2>2. exists' = exists
          /\ \/ References(target[t]) /\ reaction' = Reacted(target[t], User(t))
             \/ reaction' = Withdrawn(target[t], User(t))
             \/ reaction' = reaction
        BY <1>2, StatementEffect
    <2>3. CASE target[t] = x /\ User(t) = u
        BY <1>1, <2>1, <2>2, <2>3, RowWritten DEF References
    <2>4. CASE ~(target[t] = x /\ User(t) = u)
        <3>1. reaction'[x][u] = reaction[x][u]
            BY <2>1, <2>2, <2>4, OtherRowsKept
        <3> QED
            BY <1>1, <2>2, <3>1
    <2> QED
        BY <2>3, <2>4
<1>3. ASSUME NEW r \in Rumours, Delete(r) PROVE reaction'[x][u] # "active"
    BY <1>1, <1>3 DEF Delete, TypeOK
<1>4. CASE UNCHANGED tables
    BY <1>1, <1>4 DEF tables
<1> QED
    BY <1>2, <1>3, <1>4 DEF Next, Send, Check, Respond, vars, tables

-----------------------------------------------------------------------------
\* A step that leaves a row and its history alone, and answers no request
\* about it that was not being answered, keeps its last word.
LEMMA WordKept ==
    ASSUME NEW x, NEW u, Answered(x, u) \/ Unanswered(x, u),
           reaction'[x][u] = reaction[x][u], latest'[x][u] = latest[x][u],
           \A t \in Tabs : Answering(t, x, u)' /\ code'[t] = 204 =>
               Answering(t, x, u) /\ code[t] = 204 /\ older'[t] \subseteq older[t],
           \A t \in Tabs : Answering(t, x, u) =>
               Answering(t, x, u)' /\ code'[t] = code[t] /\ op'[t] = op[t]
    PROVE  (Answered(x, u) \/ Unanswered(x, u))'
<1>1. Value(x, u)' = Value(x, u)
    BY DEF Value
<1>2. Answered(x, u) => Answered(x, u)'
    BY <1>1 DEF Answered
<1>3. Unanswered(x, u) => Unanswered(x, u)'
    BY <1>1 DEF Unanswered
<1> QED
    BY <1>2, <1>3

\* The answer to a statement leaves every other request's answer alone.
LEMMA OneAnswer ==
    ASSUME TypeOK, NEW t \in Tabs, NEW c, pc[t] # "answer", Answer(t, c),
           NEW x, NEW u, NEW y \in Tabs
    PROVE  /\ y # t => (Answering(y, x, u)' <=> Answering(y, x, u))
                       /\ code'[y] = code[y]
           /\ op'[y] = op[y] /\ older'[y] = older[y]
           /\ ~Answering(t, x, u)
           /\ code'[t] = c
           /\ Answering(t, x, u)' <=> User(t) = u /\ target[t] = x
BY DEF TypeOK, Answer, Answering, User

\* A statement leaves the last word about each row, its own or an older one.
LEMMA StatementWord ==
    ASSUME TypeOK, NEW t \in Tabs, Set(t) \/ Unset(t), NEW x \in exists, NEW u \in Users,
           Answered(x, u) \/ Unanswered(x, u)
    PROVE  (Answered(x, u) \/ Unanswered(x, u))'
<1>1. target[t] \in Targets /\ User(t) \in Users /\ x \in Targets /\ pc[t] = "run"
      /\ pc[t] # "answer"
    BY TabAssumption, StatementEffect DEF TypeOK, User
<1>2. CASE /\ target[t] = x /\ User(t) = u
           /\ \/ op[t] = "set" /\ reaction' = Reacted(x, u)
              \/ op[t] = "unset" /\ reaction' = Withdrawn(x, u)
           /\ \E c \in {204, 500} : Answer(t, c)
    <2>1. PICK c \in {204, 500} : Answer(t, c)
        BY <1>2
    <2>2. Value(x, u)' = op[t]
        BY <1>1, <1>2, RowWritten DEF Value
    <2>3. Answering(t, x, u)' /\ code'[t] = c /\ op'[t] = op[t]
        BY <1>1, <1>2, <2>1, OneAnswer
    <2> QED
        BY <2>2, <2>3 DEF Unanswered
<1>3. ASSUME NEW c \in {204, 404, 500}, Answer(t, c), reaction'[x][u] = reaction[x][u],
             target[t] = x /\ User(t) = u => c # 204
      PROVE  (Answered(x, u) \/ Unanswered(x, u))'
    <2>1. latest'[x][u] = latest[x][u]
        BY <1>3 DEF Answer
    <2>2. \A y \in Tabs : Answering(y, x, u)' /\ code'[y] = 204 =>
              Answering(y, x, u) /\ code[y] = 204 /\ older'[y] \subseteq older[y]
        BY <1>1, <1>3, OneAnswer
    <2>3. \A y \in Tabs : Answering(y, x, u) =>
              Answering(y, x, u)' /\ code'[y] = code[y] /\ op'[y] = op[y]
        BY <1>1, <1>3, OneAnswer
    <2> QED
        BY <1>3, <2>1, <2>2, <2>3, WordKept
<1>4. CASE reaction' = reaction /\ \E c \in {404, 500} : Answer(t, c)
    BY <1>3, <1>4
<1>5. CASE /\ ~(target[t] = x /\ User(t) = u)
           /\ reaction' \in {Reacted(target[t], User(t)), Withdrawn(target[t], User(t))}
           /\ \E c \in {204, 500} : Answer(t, c)
    <2>1. reaction'[x][u] = reaction[x][u]
        BY <1>1, <1>5, OtherRowsKept
    <2> QED
        BY <1>3, <1>5, <2>1
<1> QED
    BY <1>2, <1>4, <1>5, StatementEffect

\* RespondEffect for one row.
LEMMA LatestAfterResponse ==
    ASSUME TypeOK, NEW t \in Tabs, Respond(t), NEW x \in Targets, NEW u \in Users
    PROVE  latest'[x][u] = LatestAfter(t, x, u)
<1>1. \A y \in Targets, v \in Users : latest'[y][v] = LatestAfter(t, y, v)
    BY RespondEffect
<1> QED
    BY <1>1

\* A response leaves the last word about each row: it is the answered request
\* itself, or one that the answered request did not follow.
LEMMA RespondWord ==
    ASSUME TypeOK, NEW t \in Tabs, Respond(t), NEW x \in exists, NEW u \in Users,
           Answered(x, u) \/ Unanswered(x, u)
    PROVE  (Answered(x, u) \/ Unanswered(x, u))'
<1> DEFINE mine == <<t, op[t]>>
           followed == IF code[t] = 204 THEN older[t] ELSE {}
<1>1. x \in Targets /\ pc[t] = "answer"
    BY DEF TypeOK, Respond
<1>2. Value(x, u)' = Value(x, u)
    BY RespondEffect DEF Value
<1>3. \A y \in Tabs : Answering(y, x, u)' =>
          y # t /\ Answering(y, x, u) /\ code'[y] = code[y] /\ older'[y] \subseteq older[y]
    <2>1. /\ pc' = [pc EXCEPT ![t] = "idle"] /\ code' = [code EXCEPT ![t] = 0]
          /\ target' = target
        BY RespondEffect
    <2>2. \A y \in Tabs : older'[y] \subseteq older[y]
        BY RespondEffect
    <2> QED
        BY <2>1, <2>2 DEF Answering, TypeOK, User
<1>4. \A y \in Tabs \ {t} : Answering(y, x, u) =>
          Answering(y, x, u)' /\ code'[y] = code[y] /\ op'[y] = op[y]
    <2>1. /\ pc' = [pc EXCEPT ![t] = "idle"] /\ op' = [op EXCEPT ![t] = "none"]
          /\ code' = [code EXCEPT ![t] = 0] /\ target' = target
        BY RespondEffect
    <2> QED
        BY <2>1 DEF Answering, TypeOK, User
<1>5. ASSUME Answering(t, x, u), code[t] # 404
      PROVE  latest'[x][u] = (latest[x][u] \ followed) \cup {mine}
    <2>1. latest'[x][u] = LatestAfter(t, x, u)
        BY <1>1, LatestAfterResponse
    <2> QED
        BY <1>5, <2>1 DEF LatestAfter
<1>6. ASSUME ~Answering(t, x, u) \/ code[t] = 404
      PROVE  latest'[x][u] = latest[x][u]
    <2>1. latest'[x][u] = LatestAfter(t, x, u)
        BY <1>1, LatestAfterResponse
    <2> QED
        BY <1>6, <2>1 DEF LatestAfter
<1>7. CASE Answered(x, u)
    <2>1. PICK w \in latest[x][u] :
              /\ w[2] = Value(x, u)
              /\ \A y \in Tabs : Answering(y, x, u) /\ code[y] = 204 => w \notin older[y]
        BY <1>7 DEF Answered
    <2>2. w \in latest'[x][u]
        BY <1>5, <1>6, <2>1
    <2>3. \A y \in Tabs : Answering(y, x, u)' /\ code'[y] = 204 => w \notin older'[y]
        BY <1>3, <2>1
    <2> QED
        BY <1>2, <2>1, <2>2, <2>3 DEF Answered
<1>8. CASE Unanswered(x, u)
    <2>1. PICK y \in Tabs :
              Answering(y, x, u) /\ code[y] \in {204, 500} /\ op[y] = Value(x, u)
        BY <1>8 DEF Unanswered
    <2>2. CASE y = t
        <3>1. code[t] # 404 /\ target[t] = x /\ mine[2] = Value(x, u)
            BY <2>1, <2>2 DEF Answering
        <3>2. mine \in latest'[x][u]
            BY <1>5, <2>1, <2>2, <3>1
        <3>3. \A z \in Tabs : Answering(z, x, u)' => mine \notin older'[z]
            BY <1>3, <3>1, RespondEffect DEF Answering
        <3> QED
            BY <1>2, <3>1, <3>2, <3>3 DEF Answered
    <2>3. CASE y # t
        BY <1>2, <1>4, <2>1, <2>3 DEF Unanswered
    <2> QED
        BY <2>2, <2>3
<1> QED
    BY <1>7, <1>8

\* Every step keeps the last word about every row.
LEMMA WordStep == TypeOK /\ WordOK /\ [Next]_vars => WordOK'
<1> SUFFICES ASSUME TypeOK, WordOK, [Next]_vars, NEW x \in exists', NEW u \in Users
             PROVE  (Answered(x, u) \/ Unanswered(x, u))'
    BY DEF WordOK
<1>1. x \in exists /\ x \in Targets
    <2>1. exists' \subseteq exists
        BY DEF Next, Send, Check, Set, Unset, Respond, Delete, vars, tables
    <2> QED
        BY <2>1 DEF TypeOK
<1>2. Answered(x, u) \/ Unanswered(x, u)
    BY <1>1 DEF WordOK
<1>3. ASSUME NEW t \in Tabs, Send(t) PROVE (Answered(x, u) \/ Unanswered(x, u))'
    <2>1. \A y \in Tabs : /\ Answering(y, x, u)' <=> Answering(y, x, u)
                          /\ Answering(y, x, u) => /\ code'[y] = code[y] /\ op'[y] = op[y]
                                                   /\ older'[y] = older[y]
        BY <1>3 DEF Send, Answering, User, TypeOK
    <2> QED
        BY <1>2, <1>3, <2>1, WordKept DEF Send, tables
<1>4. ASSUME NEW t \in Tabs, Check(t) PROVE (Answered(x, u) \/ Unanswered(x, u))'
    <2>1. CASE \E c \in {404, 500} : Answer(t, c)
        <3>1. PICK c \in {404, 500} : Answer(t, c)
            BY <2>1
        <3>2. pc[t] # "answer" /\ UNCHANGED <<reaction, latest>>
            BY <1>4, <3>1 DEF Check, Answer, tables
        <3>3. \A y \in Tabs : Answering(y, x, u)' /\ code'[y] = 204 =>
                  Answering(y, x, u) /\ code[y] = 204 /\ older'[y] \subseteq older[y]
            BY <3>1, <3>2, OneAnswer
        <3>4. \A y \in Tabs : Answering(y, x, u) =>
                  Answering(y, x, u)' /\ code'[y] = code[y] /\ op'[y] = op[y]
            BY <3>1, <3>2, OneAnswer
        <3> QED
            BY <1>2, <3>2, <3>3, <3>4, WordKept
    <2>2. CASE pc' = [pc EXCEPT ![t] = "run"]
               /\ UNCHANGED <<op, target, code, latest, older>>
        <3>1. \A y \in Tabs : Answering(y, x, u)' <=> Answering(y, x, u)
            BY <1>4, <2>2 DEF Check, Answering, User, TypeOK
        <3> QED
            BY <1>2, <1>4, <2>2, <3>1, WordKept DEF Check, tables
    <2> QED
        BY <1>4, <2>1, <2>2 DEF Check, Fails
<1>5. ASSUME NEW t \in Tabs, Set(t) \/ Unset(t) \/ Respond(t)
      PROVE  (Answered(x, u) \/ Unanswered(x, u))'
    BY <1>1, <1>2, <1>5, StatementWord, RespondWord
<1>6. ASSUME NEW r \in Rumours, Delete(r) PROVE (Answered(x, u) \/ Unanswered(x, u))'
    <2>1. reaction'[x][u] = reaction[x][u]
        BY <1>1, <1>6 DEF Delete, TypeOK
    <2>2. \A y \in Tabs : Answering(y, x, u)' <=> Answering(y, x, u)
        BY <1>6 DEF Delete, request, Answering, User
    <2> QED
        BY <1>2, <1>6, <2>1, <2>2, WordKept DEF Delete, request
<1>7. CASE UNCHANGED vars
    BY <1>2, <1>7, WordKept DEF vars, tables, request, Answering, User
<1> QED
    BY <1>3, <1>4, <1>5, <1>6, <1>7 DEF Next

\* The invariant holds in every reachable state.
THEOREM InvHolds == Spec => []Inv
<1>1. Inv /\ [Next]_vars => Inv'
    BY TypeStep, CascadeStep, WordStep DEF Inv
<1> QED
    BY InvInit, <1>1, PTL DEF Spec

-----------------------------------------------------------------------------
\* No like outlives its rumour and no follow exists without its club: the
\* foreign key and its cascade, against any overlap with DeleteRumours.
THEOREM CascadeIsComplete == Spec => []NothingOutlivesItsRumour
<1>1. Inv => NothingOutlivesItsRumour
    BY DEF Inv
<1> QED
    BY <1>1, InvHolds, PTL

\* With no request of the user in flight, the reaction is what one of the
\* user's latest answered requests asked for (LikeRumour, UnlikeRumour,
\* FollowClub, UnfollowClub).
THEOREM LastWordStands == Spec => []LikesAreTheLastWord
<1>1. Inv => LikesAreTheLastWord
    <2> SUFFICES ASSUME Inv, NEW x \in exists, NEW u \in Users, ~InFlight(x, u)
                 PROVE  \E w \in latest[x][u] : w[2] = Value(x, u)
        BY DEF LikesAreTheLastWord, Value
    <2>1. ~Unanswered(x, u)
        BY DEF InFlight, Unanswered, Answering
    <2> QED
        BY <2>1 DEF Inv, WordOK, Answered
<1> QED
    BY <1>1, InvHolds, PTL
=============================================================================
