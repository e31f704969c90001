-------------------------- MODULE RosterSyncProofs --------------------------
(***************************************************************************)
(* After a sync the clubs table holds its roster, and a club never becomes *)
(* another one, for every set of versions, names and tables.               *)
(*                                                                         *)
(* The names of the rows are distinct, and so are those a plan gives out;  *)
(* while no other version writes, a plan still speaks of the rows as they  *)
(* are, because extraction of the same version only adds rows its roster   *)
(* does not know by another name.                                          *)
(*                                                                         *)
(* That a row stays with its club needs rosters that agree on what a name  *)
(* stands for (RostersAgree), which is the roster's business, not the      *)
(* code's.                                                                 *)
(***************************************************************************)
EXTENDS RosterSync, FiniteSetTheorems, TLAPS

Types ==
    /\ clubs \in Seq(Row)
    /\ pc \in [Versions -> {"off", "planned"}]
    /\ renames = [v \in Versions |-> renames[v]]
    /\ unmerged = [v \in Versions |-> unmerged[v]]
    /\ mixed \in [Versions -> BOOLEAN]
    /\ disturbed \in BOOLEAN
    /\ synced # NULL => synced \in Versions

\* A plan gives rows of the table different clubs of the roster.
PlanOK(v) ==
    /\ renames[v] = [i \in DOMAIN renames[v] |-> renames[v][i]]
    /\ DOMAIN renames[v] \subseteq Rows
    /\ \A i \in DOMAIN renames[v] : renames[v][i] \in ClubsOf(v)
    /\ \A i, j \in DOMAIN renames[v] : renames[v][i] = renames[v][j] => i = j

\* A plan that no other version wrote under is about the rows as they are.
PlanFresh(v) ==
    /\ \A i \in DOMAIN renames[v] : Target(v, i) = renames[v][i]
    /\ Misnamed(v) = DOMAIN renames[v] \cup unmerged[v]
    /\ DOMAIN renames[v] \cap unmerged[v] = {}
    /\ \A i \in unmerged[v] : i \notin Holders(Target(v, i))

PlansOK ==
    \A v \in Versions : pc[v] = "planned" =>
        PlanOK(v) /\ (~mixed[v] => PlanFresh(v))

\* What a settled sync of version v left.
Stamped(v) == \A c \in ClubsOf(v) : \E i \in Rows : clubs[i] = Stamp(v, c)

OnlyRoster(v) ==
    \A i \in Rows : clubs[i].league \in LeaguesOf(v) => clubs[i].name \in ClubsOf(v)

SettledOK ==
    Settled =>
        /\ Stamped(synced) /\ OnlyRoster(synced)
        /\ Misnamed(synced) = report.unmerged

Inv == Types /\ Distinct(clubs) /\ PlansOK /\ SettledOK

-----------------------------------------------------------------------------
(* The rosters. *)

LEMMA RosterFacts ==
    ASSUME NEW v \in Versions
    PROVE  /\ IsFiniteSet(ClubsOf(v))
           /\ \A n \in Names : Lookup[v][n] = NULL \/ Lookup[v][n] \in ClubsOf(v)
           /\ \A c \in ClubsOf(v) : /\ c \in Names /\ Lookup[v][c] = c /\ c # NULL
                                    /\ Roster[v][c] \in Leagues
                                    /\ Roster[v][c] \in LeaguesOf(v)
           /\ \A m, n \in Names : Key[m] = Key[n] => Lookup[v][m] = Lookup[v][n]
           /\ \A c, d \in ClubsOf(v) : Key[c] = Key[d] => c = d
           /\ NULL \notin LeaguesOf(v) /\ NULL \notin Names
<1>1. LeaguesOf(v) \subseteq Leagues
  BY DEF Leagues
<1>2. \A c \in ClubsOf(v) : Roster[v][c] \in LeaguesOf(v)
  BY DEF LeaguesOf
<1>3. QED
  BY <1>1, <1>2, RosterAssumption, NullAssumption

\* A sequence made of a finite set enumerates it.
LEMMA SetToSeqEnumerates ==
    ASSUME NEW S, IsFiniteSet(S)
    PROVE  /\ SetToSeq(S) \in Seq(S)
           /\ \A i, j \in DOMAIN SetToSeq(S) : SetToSeq(S)[i] = SetToSeq(S)[j] => i = j
           /\ \A x \in S : \E i \in DOMAIN SetToSeq(S) : SetToSeq(S)[i] = x
<1> DEFINE n == Cardinality(S)
           s == SetToSeq(S)
<1>1. n \in Nat /\ ExistsBijection(1..n, S)
  BY FS_CardinalityType
<1>2. \E f \in [1..n -> S] : IsInjective(f)
  BY <1>1 DEF ExistsBijection, Bijection, Injection, IsInjective
<1>3. s \in [1..n -> S] /\ IsInjective(s)
  BY <1>2 DEF SetToSeq
<1>4. IsFiniteSet(1..n) /\ Cardinality(1..n) = n
  BY <1>1, FS_Interval
<1>5. s \in Surjection(1..n, S)
  BY <1>3, <1>4, FS_Injection DEF Injection
<1>6. s \in Seq(S) /\ DOMAIN s = 1..n
  BY <1>1, <1>3
<1>7. QED
  BY <1>3, <1>5, <1>6 DEF Surjection, IsInjective
-----------------------------------------------------------------------------
(* The statements of a sync. *)

LEMMA RowsAreSequence ==
    ASSUME NEW rows \in Seq(Row)
    PROVE  /\ Len(rows) \in Nat /\ DOMAIN rows = 1..Len(rows)
           /\ \A i \in DOMAIN rows : rows[i] \in Row /\ rows[i].name \in Names
                                     /\ rows[i].league \in Leagues \cup {NULL}
<1>1. \A i \in DOMAIN rows : rows[i] \in Row
  OBVIOUS
<1>2. \A r \in Row : r.name \in Names /\ r.league \in Leagues \cup {NULL}
  BY DEF Row
<1>3. QED
  BY <1>1, <1>2

\* Replacing rows in place gives rows again.
LEMMA RowsReplaced ==
    ASSUME NEW rows \in Seq(Row), NEW f, f = [i \in DOMAIN rows |-> f[i]],
           \A i \in DOMAIN rows : f[i] \in Row
    PROVE  f \in Seq(Row) /\ Len(f) = Len(rows) /\ DOMAIN f = DOMAIN rows
<1>1. Len(rows) \in Nat /\ DOMAIN rows = 1..Len(rows)
  OBVIOUS
<1>2. f \in [1..Len(rows) -> Row]
  BY <1>1
<1>3. QED
  BY <1>1, <1>2

\* The rename gives a row its planned name or leaves it alone, and no two
\* rows the same name.
LEMMA RenamedRows ==
    ASSUME NEW v \in Versions, clubs \in Seq(Row), Distinct(clubs), PlanOK(v)
    PROVE  LET rows == Renamed(renames[v], clubs)
           IN  /\ rows \in Seq(Row) /\ DOMAIN rows = Rows /\ Distinct(rows)
               /\ \A i \in Rows :
                     /\ rows[i].league = clubs[i].league
                     /\ rows[i].name = IF i \in Renamable(renames[v])
                                       THEN renames[v][i] ELSE clubs[i].name
<1> DEFINE plan == renames[v]
           new(i) == IF i \in Renamable(plan) THEN [clubs[i] EXCEPT !.name = plan[i]]
                     ELSE clubs[i]
           rows == Renamed(plan, clubs)
<1>1. rows = [i \in Rows |-> new(i)]
  BY DEF Renamed, Rows
<1>2. Renamable(plan) \subseteq Rows
      /\ \A i \in Renamable(plan) : plan[i] \in ClubsOf(v) /\ Holders(plan[i]) \subseteq {i}
  BY DEF Renamable, PlanOK
<1>3. ASSUME NEW i \in Rows
      PROVE  /\ new(i) \in Row /\ new(i).league = clubs[i].league
             /\ new(i).name = IF i \in Renamable(plan) THEN plan[i] ELSE clubs[i].name
  <2>1. clubs[i] \in Row
    BY <1>3, RowsAreSequence DEF Rows
  <2>2. CASE i \in Renamable(plan)
    <3>1. plan[i] \in Names
      BY <1>2, <2>2, RosterFacts
    <3>2. [clubs[i] EXCEPT !.name = plan[i]] \in Row
      BY <2>1, <3>1 DEF Row
    <3>3. QED
      BY <2>1, <2>2, <3>2 DEF Row
  <2>3. CASE i \notin Renamable(plan)
    BY <2>1, <2>3
  <2>4. QED
    BY <2>2, <2>3
<1> HIDE DEF new
<1>4. rows \in Seq(Row) /\ DOMAIN rows = Rows
  BY <1>1, <1>3, RowsReplaced DEF Rows
<1>5. \A i \in Rows : rows[i] = new(i)
  BY <1>1
<1>6. Distinct(rows)
  <2> SUFFICES ASSUME NEW i \in Rows, NEW j \in Rows,
                      Key[rows[i].name] = Key[rows[j].name], i # j
               PROVE  FALSE
    BY <1>4 DEF Distinct
  <2>1. CASE i \in Renamable(plan) /\ j \in Renamable(plan)
    <3>1. /\ plan[i] \in ClubsOf(v) /\ plan[j] \in ClubsOf(v)
          /\ Key[plan[i]] = Key[plan[j]]
      BY <1>2, <1>3, <1>5, <2>1
    <3>2. plan[i] = plan[j]
      BY <3>1, RosterFacts
    <3>3. QED
      BY <2>1, <3>2 DEF PlanOK, Renamable
  <2>2. ASSUME NEW x \in Rows, NEW y \in Rows, x # y,
               Key[rows[x].name] = Key[rows[y].name],
               x \in Renamable(plan), y \notin Renamable(plan)
        PROVE  FALSE
    <3>1. Key[plan[x]] = Key[clubs[y].name]
      BY <1>3, <1>5, <2>2
    <3>2. y \in Holders(plan[x])
      BY <3>1 DEF Holders
    <3>3. QED
      BY <1>2, <2>2, <3>2
  <2>3. CASE i \notin Renamable(plan) /\ j \notin Renamable(plan)
    BY <1>3, <1>5, <2>3 DEF Distinct, Rows
  <2>4. QED
    BY <2>1, <2>2, <2>3
<1>7. QED
  BY <1>3, <1>4, <1>5, <1>6

\* Detaching touches no name, and clears the league of a row of the roster's
\* leagues unless it has the name of a roster club.
LEMMA DetachedRows ==
    ASSUME NEW v, NEW rows \in Seq(Row)
    PROVE  LET out == Detached(v, rows)
           IN  /\ out \in Seq(Row) /\ DOMAIN out = DOMAIN rows
               /\ \A i \in DOMAIN rows :
                     /\ out[i].name = rows[i].name
                     /\ IF /\ rows[i].league \in LeaguesOf(v)
                           /\ \A c \in ClubsOf(v) : Key[rows[i].name] # Key[c]
                        THEN out[i].league = NULL
                        ELSE out[i] = rows[i]
<1> DEFINE gone(i) == /\ rows[i].league \in LeaguesOf(v)
                      /\ Key[rows[i].name] \notin {Key[c] : c \in ClubsOf(v)}
           new(i) == IF gone(i) THEN [rows[i] EXCEPT !.league = NULL] ELSE rows[i]
           out == Detached(v, rows)
<1>1. out = [i \in DOMAIN rows |-> new(i)]
  BY DEF Detached
<1>2. ASSUME NEW i \in DOMAIN rows
      PROVE  /\ new(i) \in Row /\ new(i).name = rows[i].name
             /\ IF gone(i) THEN new(i).league = NULL ELSE new(i) = rows[i]
  <2>1. rows[i] \in Row
    BY <1>2, RowsAreSequence
  <2>2. [rows[i] EXCEPT !.league = NULL] \in Row
    BY <2>1 DEF Row
  <2>3. QED
    BY <2>1, <2>2 DEF Row
<1> HIDE DEF new
<1>3. out \in Seq(Row) /\ DOMAIN out = DOMAIN rows
  BY <1>1, <1>2, RowsReplaced
<1>4. QED
  BY <1>1, <1>2, <1>3

\* The rows of a concatenation.
LEMMA Joined ==
    ASSUME NEW first \in Seq(Row), NEW second \in Seq(Row)
    PROVE  /\ first \o second \in Seq(Row)
           /\ DOMAIN (first \o second) = 1..(Len(first) + Len(second))
           /\ \A i \in 1..Len(first) : (first \o second)[i] = first[i]
           /\ \A i \in 1..Len(second) : (first \o second)[Len(first) + i] = second[i]
<1>1. Len(first) \in Nat /\ Len(second) \in Nat
  OBVIOUS
<1>2. first \o second \in Seq(Row) /\ Len(first \o second) = Len(first) + Len(second)
  OBVIOUS
<1>3. DOMAIN (first \o second) = 1..(Len(first) + Len(second))
  BY <1>1, <1>2
<1>4. \A i \in 1..Len(first) : (first \o second)[i] = first[i]
  OBVIOUS
<1>5. \A i \in 1..Len(second) : (first \o second)[Len(first) + i] = second[i]
  BY <1>1
<1>6. QED
  BY <1>2, <1>3, <1>4, <1>5

\* The upsert stamps the row that has the name of a roster club, leaves the
\* others alone and adds the clubs that have none.
LEMMA UpsertedRows ==
    ASSUME NEW v \in Versions, NEW rows \in Seq(Row), Distinct(rows)
    PROVE  LET out == Upserted(v, rows)
           IN  /\ out \in Seq(Row) /\ DOMAIN rows \subseteq DOMAIN out
               /\ Distinct(out)
               /\ \A i \in DOMAIN rows :
                     \/ /\ \A c \in ClubsOf(v) : Key[rows[i].name] # Key[c]
                        /\ out[i] = rows[i]
                     \/ \E c \in ClubsOf(v) : /\ Key[rows[i].name] = Key[c]
                                              /\ out[i] = Stamp(v, c)
               /\ \A i \in DOMAIN out \ DOMAIN rows :
                     \E c \in ClubsOf(v) : out[i] = Stamp(v, c)
               /\ \A c \in ClubsOf(v) : \E i \in DOMAIN out : out[i] = Stamp(v, c)
<1> DEFINE held == {c \in ClubsOf(v) :
                       \E i \in DOMAIN rows : Key[rows[i].name] = Key[c]}
           Club(row) == {c \in held : Key[c] = Key[row.name]}
           added == SetToSeq(ClubsOf(v) \ held)
           new(i) == IF Club(rows[i]) = {} THEN rows[i]
                     ELSE Stamp(v, CHOOSE c \in Club(rows[i]) : TRUE)
           more(i) == Stamp(v, added[i])
           front == [i \in DOMAIN rows |-> new(i)]
           back == [i \in DOMAIN added |-> more(i)]
           out == Upserted(v, rows)
           n == Len(rows)
           m == Len(added)
<1>1. out = front \o back
  BY DEF Upserted
<1>2. n \in Nat /\ DOMAIN rows = 1..n
  BY RowsAreSequence
<1>3. \A c \in ClubsOf(v) : Stamp(v, c) \in Row /\ Stamp(v, c).name = c
  BY RosterFacts DEF Stamp, Row
<1>4. ASSUME NEW i \in DOMAIN rows
      PROVE  /\ new(i) \in Row
             /\ \/ /\ \A c \in ClubsOf(v) : Key[rows[i].name] # Key[c]
                   /\ new(i) = rows[i]
                \/ \E c \in ClubsOf(v) : /\ Key[rows[i].name] = Key[c]
                                         /\ new(i) = Stamp(v, c)
             /\ Key[new(i).name] = Key[rows[i].name]
  <2>1. rows[i] \in Row
    BY <1>4, RowsAreSequence
  <2>2. CASE Club(rows[i]) = {}
    <3>1. \A c \in ClubsOf(v) : Key[rows[i].name] # Key[c]
      BY <1>4, <2>2
    <3>2. QED
      BY <2>1, <2>2, <3>1
  <2>3. CASE Club(rows[i]) # {}
    <3>1. PICK c \in Club(rows[i]) : new(i) = Stamp(v, c)
      BY <2>3
    <3>2. c \in ClubsOf(v) /\ Key[rows[i].name] = Key[c]
      BY <3>1
    <3> HIDE DEF new
    <3>3. QED
      BY <1>3, <3>1, <3>2
  <2>4. QED
    BY <2>2, <2>3
<1>5. /\ added \in Seq(ClubsOf(v) \ held)
      /\ \A i, j \in DOMAIN added : added[i] = added[j] => i = j
      /\ \A x \in ClubsOf(v) \ held : \E i \in DOMAIN added : added[i] = x
  <2>1. IsFiniteSet(ClubsOf(v) \ held)
    BY RosterFacts, FS_Subset
  <2> HIDE DEF held
  <2>2. QED
    BY <2>1, SetToSeqEnumerates
<1> HIDE DEF held, added
<1>6. m \in Nat /\ DOMAIN added = 1..m
      /\ \A i \in 1..m : added[i] \in ClubsOf(v) \ held
  BY <1>5
<1>7. \A i \in 1..m : more(i) \in Row /\ more(i).name = added[i]
  BY <1>3, <1>6
<1>8. \A c \in held : \E i \in DOMAIN rows : new(i) = Stamp(v, c)
  <2> SUFFICES ASSUME NEW c \in held
               PROVE  \E i \in DOMAIN rows : new(i) = Stamp(v, c)
    OBVIOUS
  <2>1. c \in ClubsOf(v) /\ \E i \in DOMAIN rows : Key[rows[i].name] = Key[c]
    BY DEF held
  <2> PICK i \in DOMAIN rows : Key[rows[i].name] = Key[c]
    BY <2>1
  <2>2. \A d \in ClubsOf(v) : Key[d] = Key[c] => d = c
    BY <2>1, RosterFacts
  <2>3. PICK d \in ClubsOf(v) : Key[rows[i].name] = Key[d] /\ new(i) = Stamp(v, d)
    BY <1>4, <2>1
  <2>4. QED
    BY <2>1, <2>2, <2>3
<1>9. \A i \in 1..m : \A j \in DOMAIN rows : Key[rows[j].name] # Key[added[i]]
  BY <1>6 DEF held
<1> HIDE DEF held, Club, new, more, added
<1>10. front \in Seq(Row) /\ Len(front) = n /\ DOMAIN front = 1..n
  BY <1>2, <1>4
<1>11. back \in Seq(Row) /\ Len(back) = m /\ DOMAIN back = 1..m
  BY <1>6, <1>7
<1>12. /\ out \in Seq(Row) /\ DOMAIN out = 1..(n + m)
       /\ \A i \in 1..n : out[i] = new(i)
       /\ \A i \in (n + 1)..(n + m) : out[i] = more(i - n) /\ i - n \in 1..m
       /\ \A i \in 1..m : out[n + i] = more(i) /\ n + i \in 1..(n + m)
  <2>1. /\ \A i \in 1..n : front[i] = new(i)
        /\ \A i \in 1..m : back[i] = more(i)
    BY <1>2, <1>6
  <2> HIDE DEF out, front, back
  <2>2. /\ out \in Seq(Row) /\ DOMAIN out = 1..(n + m)
        /\ \A i \in 1..n : out[i] = front[i]
        /\ \A i \in 1..m : out[n + i] = back[i]
    <3>1. /\ front \o back \in Seq(Row)
          /\ DOMAIN (front \o back) = 1..(Len(front) + Len(back))
          /\ \A i \in 1..Len(front) : (front \o back)[i] = front[i]
          /\ \A i \in 1..Len(back) : (front \o back)[Len(front) + i] = back[i]
      BY <1>10, <1>11, Joined
    <3>2. QED
      BY <1>1, <1>10, <1>11, <3>1
  <2> HIDE DEF n, m
  <2>3. \A i \in (n + 1)..(n + m) : i - n \in 1..m /\ n + (i - n) = i
    BY <1>2, <1>6
  <2>4. QED
    BY <1>2, <1>6, <2>1, <2>2, <2>3
<1> HIDE DEF out, front, back, n, m
<1>13. \A i \in DOMAIN out \ DOMAIN rows : i \in (n + 1)..(n + m)
  BY <1>2, <1>6, <1>12
<1>14. Distinct(out)
  <2> SUFFICES ASSUME NEW i \in DOMAIN out, NEW j \in DOMAIN out,
                      Key[out[i].name] = Key[out[j].name]
               PROVE  i = j
    BY DEF Distinct
  <2>1. CASE i \in DOMAIN rows /\ j \in DOMAIN rows
    BY <1>2, <1>4, <1>12, <2>1 DEF Distinct
  <2>2. ASSUME NEW x \in DOMAIN rows, NEW y \in DOMAIN out \ DOMAIN rows,
               Key[out[x].name] = Key[out[y].name]
        PROVE  FALSE
    <3>1. Key[out[x].name] = Key[rows[x].name]
      BY <1>2, <1>4, <1>12, <2>2
    <3>2. out[y] = more(y - n) /\ y - n \in 1..m
      BY <1>12, <1>13, <2>2
    <3>3. Key[out[y].name] = Key[added[y - n]]
      BY <1>7, <3>2
    <3>4. QED
      BY <1>9, <2>2, <3>1, <3>2, <3>3
  <2>3. CASE i \notin DOMAIN rows /\ j \notin DOMAIN rows
    <3>1. /\ i - n \in 1..m /\ j - n \in 1..m
          /\ Key[added[i - n]] = Key[added[j - n]]
      BY <1>7, <1>12, <1>13, <2>3
    <3>2. added[i - n] = added[j - n]
      BY <1>6, <3>1, RosterFacts
    <3>3. i - n = j - n
      BY <1>5, <1>6, <3>1, <3>2
    <3>4. QED
      BY <1>2, <1>12, <1>13, <2>3, <3>3
  <2>4. QED
    BY <2>1, <2>2, <2>3
<1>15. \A i \in DOMAIN rows : out[i] = new(i) /\ i \in DOMAIN out
  BY <1>2, <1>6, <1>12
<1>16. \A i \in DOMAIN out \ DOMAIN rows : \E c \in ClubsOf(v) : out[i] = Stamp(v, c)
  BY <1>6, <1>12, <1>13 DEF more
<1>17. \A c \in ClubsOf(v) : \E i \in DOMAIN out : out[i] = Stamp(v, c)
  <2> SUFFICES ASSUME NEW c \in ClubsOf(v)
               PROVE  \E i \in DOMAIN out : out[i] = Stamp(v, c)
    OBVIOUS
  <2>1. CASE c \in held
    BY <1>8, <1>15, <2>1
  <2>2. CASE c \notin held
    <3>1. PICK i \in 1..m : added[i] = c
      BY <1>5, <1>6, <2>2
    <3>2. QED
      BY <1>12, <3>1 DEF more
  <2>3. QED
    BY <2>1, <2>2
<1>18. QED
  BY <1>4, <1>12, <1>14, <1>15, <1>16, <1>17 DEF out
-----------------------------------------------------------------------------
(* The steps. *)

LEMMA Settling == Syncing \subseteq Versions /\ Extracting \subseteq Versions
BY VersionAssumption

\* GetOrCreateClub keeps every row and its name; it stamps a row that has the
\* name of the club it looks for, or adds a row nobody has the name of.
LEMMA CreateEffect ==
    ASSUME Types, Distinct(clubs), NEW v \in Versions, NEW n \in Names,
           GetOrCreateClub(v, n)
    PROVE  /\ clubs' \in Seq(Row) /\ Rows \subseteq Rows' /\ Distinct(clubs')
           /\ \A i \in Rows :
                 /\ clubs'[i].name = clubs[i].name
                 /\ \/ clubs'[i] = clubs[i]
                    \/ \E c \in ClubsOf(v) : /\ Key[clubs[i].name] = Key[c]
                                             /\ clubs'[i].league = Roster[v][c]
           /\ \A i \in Rows' \ Rows :
                 \/ \E c \in ClubsOf(v) : clubs'[i].name = c /\ Holders(c) = {}
                 \/ Lookup[v][clubs'[i].name] = NULL /\ clubs'[i].league = NULL
<1> DEFINE known == Lookup[v][n] # NULL
           name == IF known THEN Lookup[v][n] ELSE n
           league == IF known /\ Roster[v][name] \in leagues
                     THEN Roster[v][name] ELSE NULL
           row == [name |-> name, league |-> league]
           new(i) == IF i \in Holders(name) /\ league # NULL
                     THEN [clubs[i] EXCEPT !.league = league] ELSE clubs[i]
<1>1. \/ Holders(name) = {} /\ clubs' = Append(clubs, row)
      \/ Holders(name) # {} /\ clubs' = [i \in Rows |-> new(i)]
  BY DEF GetOrCreateClub
<1>2. /\ name \in Names /\ league \in Leagues \cup {NULL}
      /\ known => name \in ClubsOf(v)
      /\ ~known => Lookup[v][name] = NULL /\ league = NULL
      /\ league # NULL => known /\ league = Roster[v][name]
  BY RosterFacts
<1>3. row \in Row
  BY <1>2 DEF Row
<1>4. clubs \in Seq(Row) /\ Len(clubs) \in Nat /\ Rows = 1..Len(clubs)
  BY DEF Types, Rows
<1>5. ASSUME NEW i \in Rows
      PROVE  /\ new(i) \in Row /\ new(i).name = clubs[i].name
             /\ \/ new(i) = clubs[i]
                \/ \E c \in ClubsOf(v) : /\ Key[clubs[i].name] = Key[c]
                                         /\ new(i).league = Roster[v][c]
  <2>1. clubs[i] \in Row
    BY <1>4, <1>5
  <2>2. CASE i \in Holders(name) /\ league # NULL
    <3> HIDE DEF name, league
    <3>1. new(i) = [clubs[i] EXCEPT !.league = league]
      BY <2>2
    <3>2. new(i) \in Row /\ new(i).name = clubs[i].name /\ new(i).league = league
      BY <1>2, <2>1, <3>1 DEF Row
    <3>3. Key[clubs[i].name] = Key[name]
      BY <2>2 DEF Holders
    <3> HIDE DEF new
    <3>4. QED
      BY <1>2, <2>2, <3>2, <3>3
  <2>3. CASE ~(i \in Holders(name) /\ league # NULL)
    BY <2>1, <2>3
  <2>4. QED
    BY <2>2, <2>3
<1> HIDE DEF name, league, known, new
<1>6. CASE Holders(name) # {} /\ clubs' = [i \in Rows |-> new(i)]
  <2>1. clubs' \in Seq(Row) /\ Rows' = Rows
    BY <1>4, <1>5, <1>6, RowsReplaced DEF Rows
  <2>2. \A i \in Rows : clubs'[i] = new(i)
    BY <1>6
  <2>3. Distinct(clubs')
    BY <1>5, <2>1, <2>2 DEF Distinct, Rows
  <2>4. QED
    BY <1>5, <2>1, <2>2, <2>3
<1>7. CASE Holders(name) = {} /\ clubs' = Append(clubs, row)
  <2> HIDE DEF row
  <2>1. /\ clubs' \in Seq(Row) /\ Rows' = 1..(Len(clubs) + 1)
        /\ \A i \in Rows : clubs'[i] = clubs[i]
        /\ clubs'[Len(clubs) + 1] = row
    BY <1>3, <1>4, <1>7 DEF Rows
  <2>2. \A i \in Rows' \ Rows : i = Len(clubs) + 1
    BY <1>4, <2>1
  <2>3. row.name = name /\ row.league = league
    BY DEF row
  <2>4. \A i \in Rows : Key[clubs[i].name] # Key[name]
    BY <1>7 DEF Holders
  <2>5. Distinct(clubs')
    <3> SUFFICES ASSUME NEW i \in Rows', NEW j \in Rows',
                        Key[clubs'[i].name] = Key[clubs'[j].name]
                 PROVE  i = j
      BY DEF Distinct, Rows
    <3>1. CASE i \in Rows /\ j \in Rows
      BY <2>1, <3>1 DEF Distinct, Rows
    <3>2. CASE i \in Rows /\ j \notin Rows
      BY <2>1, <2>2, <2>3, <2>4, <3>2
    <3>3. CASE i \notin Rows /\ j \in Rows
      BY <2>1, <2>2, <2>3, <2>4, <3>3
    <3>4. CASE i \notin Rows /\ j \notin Rows
      BY <2>2, <3>4
    <3>5. QED
      BY <3>1, <3>2, <3>3, <3>4
  <2>6. Rows \subseteq Rows'
    BY <1>4, <2>1
  <2>7. \A i \in Rows' \ Rows :
           \/ \E c \in ClubsOf(v) : clubs'[i].name = c /\ Holders(c) = {}
           \/ Lookup[v][clubs'[i].name] = NULL /\ clubs'[i].league = NULL
    BY <1>2, <1>7, <2>1, <2>2, <2>3
  <2>8. QED
    BY <2>1, <2>5, <2>6, <2>7
<1>8. QED
  BY <1>1, <1>6, <1>7

\* What a sync that applies its plan leaves: the roster, nothing else in its
\* leagues, and every other row under the name it had.
LEMMA ApplyEffect ==
    ASSUME Types, Distinct(clubs), NEW v \in Versions, PlanOK(v), Apply(v)
    PROVE  /\ clubs' \in Seq(Row) /\ Rows \subseteq Rows' /\ Distinct(clubs')
           /\ Stamped(v)' /\ OnlyRoster(v)'
           /\ \A i \in Rows :
                 LET name == IF i \in Renamable(renames[v]) THEN renames[v][i]
                             ELSE clubs[i].name
                 IN  \/ /\ clubs'[i].name = name
                        /\ \A c \in ClubsOf(v) : Key[name] # Key[c]
                     \/ /\ clubs'[i].name \in ClubsOf(v)
                        /\ Key[name] = Key[clubs'[i].name]
           /\ \A i \in Rows' \ Rows : clubs'[i].name \in ClubsOf(v)
<1> DEFINE r1 == Renamed(renames[v], clubs)
           r2 == Upserted(v, r1)
           name(i) == IF i \in Renamable(renames[v]) THEN renames[v][i]
                      ELSE clubs[i].name
<1>1. clubs' = Detached(v, r2)
  BY DEF Apply
<1>2. /\ r1 \in Seq(Row) /\ DOMAIN r1 = Rows /\ Distinct(r1)
      /\ \A i \in Rows : r1[i].name = name(i)
  BY RenamedRows DEF Types
<1>3. /\ r2 \in Seq(Row) /\ DOMAIN r1 \subseteq DOMAIN r2 /\ Distinct(r2)
      /\ \A i \in DOMAIN r1 :
            \/ /\ \A c \in ClubsOf(v) : Key[r1[i].name] # Key[c]
               /\ r2[i] = r1[i]
            \/ \E c \in ClubsOf(v) : /\ Key[r1[i].name] = Key[c]
                                     /\ r2[i] = Stamp(v, c)
      /\ \A i \in DOMAIN r2 \ DOMAIN r1 : \E c \in ClubsOf(v) : r2[i] = Stamp(v, c)
      /\ \A c \in ClubsOf(v) : \E i \in DOMAIN r2 : r2[i] = Stamp(v, c)
  <2> HIDE DEF r1
  <2>1. QED
    BY <1>2, UpsertedRows
<1> HIDE DEF r1, r2
<1>4. /\ clubs' \in Seq(Row) /\ Rows' = DOMAIN r2
      /\ \A i \in DOMAIN r2 :
            /\ clubs'[i].name = r2[i].name
            /\ IF /\ r2[i].league \in LeaguesOf(v)
                  /\ \A c \in ClubsOf(v) : Key[r2[i].name] # Key[c]
               THEN clubs'[i].league = NULL
               ELSE clubs'[i] = r2[i]
  BY <1>1, <1>3, DetachedRows DEF Rows
<1>5. \A c : Stamp(v, c).name = c
  BY DEF Stamp
<1>6. Distinct(clubs')
  BY <1>3, <1>4 DEF Distinct, Rows
<1>7. Stamped(v)'
  <2> SUFFICES ASSUME NEW c \in ClubsOf(v)
               PROVE  \E i \in Rows' : clubs'[i] = Stamp(v, c)
    BY DEF Stamped, Stamp
  <2>1. PICK i \in DOMAIN r2 : r2[i] = Stamp(v, c)
    BY <1>3
  <2>2. clubs'[i] = r2[i]
    BY <1>4, <1>5, <2>1
  <2>3. QED
    BY <1>4, <2>1, <2>2
<1>8. OnlyRoster(v)'
  <2> SUFFICES ASSUME NEW i \in DOMAIN r2, clubs'[i].league \in LeaguesOf(v)
               PROVE  clubs'[i].name \in ClubsOf(v)
    BY <1>4 DEF OnlyRoster, LeaguesOf, ClubsOf
  <2>1. NULL \notin LeaguesOf(v)
    BY RosterFacts
  <2>2. clubs'[i] = r2[i] /\ ~(\A c \in ClubsOf(v) : Key[r2[i].name] # Key[c])
    BY <1>4, <2>1
  <2>3. CASE i \in DOMAIN r1
    BY <1>3, <1>5, <2>2, <2>3
  <2>4. CASE i \notin DOMAIN r1
    BY <1>3, <1>5, <2>2, <2>4
  <2>5. QED
    BY <2>3, <2>4
<1>9. ASSUME NEW i \in Rows
      PROVE  \/ /\ clubs'[i].name = name(i)
                /\ \A c \in ClubsOf(v) : Key[name(i)] # Key[c]
             \/ /\ clubs'[i].name \in ClubsOf(v)
                /\ Key[name(i)] = Key[clubs'[i].name]
  <2> HIDE DEF name
  <2>1. i \in DOMAIN r1 /\ i \in DOMAIN r2
    BY <1>2, <1>3
  <2>2. r1[i].name = name(i) /\ clubs'[i].name = r2[i].name
    BY <1>2, <1>4, <2>1
  <2>3. QED
    BY <1>3, <1>5, <2>1, <2>2
<1>10. \A i \in Rows' \ Rows : clubs'[i].name \in ClubsOf(v)
  BY <1>2, <1>3, <1>4, <1>5
<1>11. QED
  BY <1>2, <1>3, <1>4, <1>6, <1>7, <1>8, <1>9, <1>10
-----------------------------------------------------------------------------
(* The invariant. *)

LEMMA InvInit == Init => Inv
<1> SUFFICES ASSUME Init
             PROVE  Inv
  OBVIOUS
<1>1. Types
  BY ExistingAssumption DEF Init, Types
<1>2. Distinct(clubs)
  BY ExistingAssumption DEF Init
<1>3. PlansOK
  BY DEF Init, PlansOK
<1>4. SettledOK
  BY DEF Init, SettledOK, Settled
<1>5. QED
  BY <1>1, <1>2, <1>3, <1>4 DEF Inv

\* A version that files names adds no row that it knows by another name, and
\* keeps its own roster stamped.
LEMMA CreateKeeps ==
    ASSUME Types, Distinct(clubs), NEW v \in Versions, NEW n \in Names,
           GetOrCreateClub(v, n)
    PROVE  /\ Misnamed(v)' = Misnamed(v)
           /\ \A i \in Rows : Target(v, i)' = Target(v, i)
           /\ \A i \in Rows : i \in Holders(Target(v, i))' => i \in Holders(Target(v, i))
           /\ Stamped(v) => Stamped(v)'
           /\ Stamped(v) /\ OnlyRoster(v) => OnlyRoster(v)'
<1>1. /\ clubs \in Seq(Row) /\ clubs' \in Seq(Row) /\ Rows \subseteq Rows'
      /\ \A i \in Rows :
            /\ clubs'[i].name = clubs[i].name
            /\ \/ clubs'[i] = clubs[i]
               \/ \E c \in ClubsOf(v) : /\ Key[clubs[i].name] = Key[c]
                                        /\ clubs'[i].league = Roster[v][c]
      /\ \A i \in Rows' \ Rows :
            \/ clubs'[i].name \in ClubsOf(v)
            \/ Lookup[v][clubs'[i].name] = NULL /\ clubs'[i].league = NULL
  BY CreateEffect DEF Types
<1>2. \A i \in Rows' \ Rows : Lookup[v][clubs'[i].name] \in {NULL, clubs'[i].name}
  BY <1>1, RosterFacts
<1>3. Misnamed(v)' = Misnamed(v)
  BY <1>1, <1>2 DEF Misnamed
<1>4. \A i \in Rows : Target(v, i)' = Target(v, i)
  BY <1>1 DEF Target
<1>5. \A i \in Rows : i \in Holders(Target(v, i))' => i \in Holders(Target(v, i))
  BY <1>1, <1>4 DEF Holders
<1>6. ASSUME Stamped(v), NEW c \in ClubsOf(v)
      PROVE  \E i \in Rows' : clubs'[i] = Stamp(v, c)
  <2>1. PICK i \in Rows : clubs[i] = Stamp(v, c)
    BY <1>6 DEF Stamped
  <2>2. clubs[i].name = c /\ clubs[i].league = Roster[v][c]
    BY <2>1 DEF Stamp
  <2>3. clubs'[i].name = c /\ clubs'[i].league = Roster[v][c]
    BY <1>1, <2>2, RosterFacts
  <2>4. clubs'[i] \in Row
    BY <1>1, RowsAreSequence DEF Rows
  <2>5. clubs'[i] = Stamp(v, c)
    BY <2>3, <2>4 DEF Row, Stamp
  <2>6. QED
    BY <1>1, <2>5
<1>7. ASSUME Stamped(v), OnlyRoster(v), NEW i \in Rows',
             clubs'[i].league \in LeaguesOf(v)
      PROVE  clubs'[i].name \in ClubsOf(v)
  <2>1. CASE i \notin Rows
    BY <1>1, <1>7, <2>1, RosterFacts
  <2>2. CASE i \in Rows /\ clubs'[i] = clubs[i]
    BY <1>7, <2>2 DEF OnlyRoster
  <2>3. ASSUME i \in Rows, NEW c \in ClubsOf(v), Key[clubs[i].name] = Key[c]
        PROVE  clubs'[i].name \in ClubsOf(v)
    <3>1. PICK j \in Rows : clubs[j] = Stamp(v, c)
      BY <1>7 DEF Stamped
    <3>2. clubs[j].name = c
      BY <3>1 DEF Stamp
    <3>3. i = j
      BY <2>3, <3>2 DEF Distinct, Rows
    <3>4. QED
      BY <1>1, <3>2, <3>3
  <2>4. QED
    BY <1>1, <2>1, <2>2, <2>3
<1>8. (Stamped(v) => Stamped(v)') /\ (Stamped(v) /\ OnlyRoster(v) => OnlyRoster(v)')
  BY <1>6, <1>7 DEF Stamped, OnlyRoster, Stamp, ClubsOf, LeaguesOf
<1>9. QED
  BY <1>3, <1>4, <1>5, <1>8

LEMMA CreateStep ==
    ASSUME Inv, NEW v \in Versions, NEW n \in Names, GetOrCreateClub(v, n)
    PROVE  Inv'
<1>1. Types /\ Distinct(clubs) /\ PlansOK /\ SettledOK
  BY DEF Inv
<1>2. /\ UNCHANGED <<leagues, pc, renames, unmerged, report, synced>>
      /\ mixed' = [w \in Versions |-> mixed[w] \/ w # v]
      /\ disturbed' = (disturbed \/ synced # v)
  BY DEF GetOrCreateClub, Writes
<1>3. /\ clubs' \in Seq(Row) /\ Rows \subseteq Rows' /\ Distinct(clubs')
  BY <1>1, CreateEffect
<1>4. /\ Misnamed(v)' = Misnamed(v)
      /\ \A i \in Rows : Target(v, i)' = Target(v, i)
      /\ \A i \in Rows : i \in Holders(Target(v, i))' => i \in Holders(Target(v, i))
      /\ Stamped(v) => Stamped(v)'
      /\ Stamped(v) /\ OnlyRoster(v) => OnlyRoster(v)'
  BY <1>1, CreateKeeps
<1>5. Types'
  BY <1>1, <1>2, <1>3 DEF Types
<1>6. PlansOK'
  <2> SUFFICES ASSUME NEW u \in Versions, pc[u] = "planned"
               PROVE  PlanOK(u)' /\ (~mixed'[u] => PlanFresh(u)')
    BY <1>2 DEF PlansOK
  <2>1. PlanOK(u) /\ (~mixed[u] => PlanFresh(u))
    BY <1>1 DEF PlansOK
  <2>2. PlanOK(u)'
    BY <1>2, <1>3, <2>1 DEF PlanOK, ClubsOf
  <2>3. ASSUME ~mixed'[u]
        PROVE  PlanFresh(u)'
    <3>1. u = v /\ ~mixed[u]
      BY <1>2, <2>3
    <3>2. /\ PlanFresh(v) /\ DOMAIN renames[v] \subseteq Rows
      BY <2>1, <3>1 DEF PlanOK
    <3>3. unmerged[v] \subseteq Rows
      BY <3>2 DEF PlanFresh, Misnamed
    <3>4. PlanFresh(v)'
      BY <1>2, <1>4, <3>2, <3>3 DEF PlanFresh
    <3>5. QED
      BY <3>1, <3>4
  <2>4. QED
    BY <2>2, <2>3
<1>7. SettledOK'
  <2> SUFFICES ASSUME Settled'
               PROVE  /\ Stamped(synced)' /\ OnlyRoster(synced)'
                      /\ Misnamed(synced)' = report'.unmerged
    BY DEF SettledOK
  <2>1. synced = v /\ synced' = v /\ Settled
    BY <1>1, <1>2 DEF Settled, Types
  <2>2. Stamped(v) /\ OnlyRoster(v) /\ Misnamed(v) = report.unmerged
    BY <1>1, <2>1 DEF SettledOK
  <2>3. Stamped(v)' /\ OnlyRoster(v)' /\ Misnamed(v)' = report'.unmerged
    BY <1>2, <1>4, <2>2
  <2>4. QED
    BY <2>1, <2>3 DEF Stamped, OnlyRoster, Misnamed, Stamp, ClubsOf, LeaguesOf, Rows
<1>8. QED
  BY <1>3, <1>5, <1>6, <1>7 DEF Inv

LEMMA PlanStep ==
    ASSUME Inv, NEW v \in Versions, Plan(v)
    PROVE  Inv'
<1> DEFINE plan == [i \in Renames(v) |-> Target(v, i)]
<1>1. Types /\ Distinct(clubs) /\ PlansOK /\ SettledOK
  BY DEF Inv
<1>2. /\ UNCHANGED <<clubs, leagues, report, synced, disturbed>>
      /\ pc' = [pc EXCEPT ![v] = "planned"]
      /\ renames' = [renames EXCEPT ![v] = plan]
      /\ unmerged' = [unmerged EXCEPT ![v] = Misnamed(v) \ Renames(v)]
      /\ mixed' = [mixed EXCEPT ![v] = FALSE]
  BY DEF Plan
<1>3. Types'
  BY <1>1, <1>2 DEF Types
<1>4. renames'[v] = plan /\ unmerged'[v] = Misnamed(v) \ Renames(v)
  BY <1>1, <1>2 DEF Types
<1>5. /\ Renames(v) \subseteq Misnamed(v) /\ Misnamed(v) \subseteq Rows
      /\ Rows \subseteq Nat
  BY <1>1, RowsAreSequence DEF Renames, Misnamed, Types, Rows
<1>6. \A i \in Misnamed(v) : Target(v, i) \in ClubsOf(v)
  <2>1. \A i \in Rows : clubs[i].name \in Names
    BY <1>1, RowsAreSequence DEF Types, Rows
  <2>2. QED
    BY <2>1, RosterFacts DEF Misnamed, Target
<1>7. ASSUME NEW i \in Renames(v), NEW j \in Renames(v), Target(v, i) = Target(v, j)
      PROVE  i = j
  <2>1. CASE i \in Holders(Target(v, i)) /\ j \in Holders(Target(v, i))
    BY <1>1, <2>1 DEF Holders, Distinct, Rows
  <2>2. CASE Holders(Target(v, i)) # {}
    BY <1>7, <2>1, <2>2 DEF Renames
  <2>3. CASE Holders(Target(v, i)) = {}
    <3>1. ~(i < j) /\ ~(j < i)
      BY <1>5, <1>7, <2>3 DEF Renames
    <3>2. i \in Nat /\ j \in Nat
      BY <1>5, <1>7
    <3>3. QED
      BY <3>1, <3>2
  <2>4. QED
    BY <2>2, <2>3
<1>8. PlanOK(v)'
  <2>1. Rows' = Rows
    BY <1>2 DEF Rows
  <2>2. QED
    BY <1>4, <1>5, <1>6, <1>7, <2>1 DEF PlanOK, ClubsOf
<1>9. PlanFresh(v)'
  <2>1. /\ Misnamed(v)' = Misnamed(v)
        /\ \A i : Target(v, i)' = Target(v, i)
        /\ \A i : Holders(Target(v, i))' = Holders(Target(v, i))
    BY <1>2 DEF Misnamed, Target, Holders, Rows
  <2>2. \A i \in Misnamed(v) \ Renames(v) : i \notin Holders(Target(v, i))
    BY DEF Renames
  <2>3. QED
    BY <1>4, <1>5, <2>1, <2>2 DEF PlanFresh
<1>10. PlansOK'
  <2> SUFFICES ASSUME NEW u \in Versions, u # v, pc[u] = "planned"
               PROVE  PlanOK(u)' /\ (~mixed'[u] => PlanFresh(u)')
    BY <1>1, <1>2, <1>8, <1>9 DEF PlansOK, Types
  <2>1. PlanOK(u) /\ (~mixed[u] => PlanFresh(u))
    BY <1>1 DEF PlansOK
  <2>2. renames'[u] = renames[u] /\ unmerged'[u] = unmerged[u] /\ mixed'[u] = mixed[u]
    BY <1>1, <1>2 DEF Types
  <2>3. QED
    BY <1>2, <2>1, <2>2
       DEF PlanOK, PlanFresh, Target, Misnamed, Holders, Rows, ClubsOf
<1>11. SettledOK'
  BY <1>1, <1>2
     DEF SettledOK, Settled, Stamped, OnlyRoster, Misnamed, Rows, Stamp, ClubsOf, LeaguesOf
<1>12. QED
  BY <1>1, <1>2, <1>3, <1>10, <1>11 DEF Inv, Distinct

\* The rows an unmixed sync leaves misnamed are those it reports.
LEMMA ReportIsRight ==
    ASSUME Inv, NEW v \in Versions, Apply(v), ~mixed[v]
    PROVE  Misnamed(v)' = report'.unmerged
<1> DEFINE plan == renames[v]
           name(i) == IF i \in Renamable(plan) THEN plan[i] ELSE clubs[i].name
           left == unmerged[v] \cup (DOMAIN plan \ Renamable(plan))
<1>1. Types /\ Distinct(clubs) /\ PlanOK(v) /\ PlanFresh(v) /\ clubs \in Seq(Row)
  BY DEF Inv, PlansOK, Apply, Types
<1>2. /\ clubs' \in Seq(Row) /\ Rows \subseteq Rows'
      /\ \A i \in Rows :
            \/ /\ clubs'[i].name = name(i)
               /\ \A c \in ClubsOf(v) : Key[name(i)] # Key[c]
            \/ /\ clubs'[i].name \in ClubsOf(v)
               /\ Key[name(i)] = Key[clubs'[i].name]
      /\ \A i \in Rows' \ Rows : clubs'[i].name \in ClubsOf(v)
  BY <1>1, ApplyEffect
<1>3. report'.unmerged = left
  BY DEF Apply, Unmerged
<1>4. \A i \in Rows : clubs[i].name \in Names
  BY <1>1, RowsAreSequence DEF Rows
<1>5. left \subseteq Misnamed(v) /\ Misnamed(v) \subseteq Rows
  BY <1>1 DEF PlanFresh, Misnamed
<1>6. \A i \in Rows' : clubs'[i].name \in ClubsOf(v) => i \notin Misnamed(v)'
  BY RosterFacts DEF Misnamed
<1> HIDE DEF left
<1>7. ASSUME NEW i \in Rows \ left
      PROVE  i \notin Misnamed(v)'
  <2>1. CASE i \in Renamable(plan)
    <3>1. plan[i] \in ClubsOf(v) /\ name(i) = plan[i]
      BY <1>1, <2>1 DEF PlanOK, Renamable
    <3> HIDE DEF name, plan
    <3>2. clubs'[i].name \in ClubsOf(v)
      BY <1>2, <3>1
    <3>3. QED
      BY <1>2, <1>6, <3>2
  <2>2. CASE i \notin Renamable(plan)
    <3>1. i \notin Misnamed(v)
      BY <1>1, <1>7, <2>2 DEF left, PlanFresh
    <3>2. Lookup[v][clubs[i].name] \in {NULL, clubs[i].name} /\ name(i) = clubs[i].name
      BY <2>2, <3>1 DEF Misnamed
    <3> HIDE DEF name, plan
    <3>3. clubs'[i].name = clubs[i].name \/ clubs'[i].name \in ClubsOf(v)
      BY <1>2, <3>2
    <3>4. QED
      BY <1>2, <1>6, <3>2, <3>3 DEF Misnamed
  <2>3. QED
    BY <2>1, <2>2
<1>8. ASSUME NEW i \in left
      PROVE  i \in Misnamed(v)'
  <2>1. i \in Misnamed(v) /\ i \in Rows /\ i \notin Renamable(plan)
    BY <1>1, <1>5, <1>8 DEF left, PlanFresh, Renamable
  <2>2. ASSUME NEW c \in ClubsOf(v), Key[clubs[i].name] = Key[c]
        PROVE  FALSE
    <3>1. Target(v, i) = c
      BY <1>4, <2>1, <2>2, RosterFacts DEF Target
    <3>2. i \in Holders(Target(v, i))
      BY <2>1, <2>2, <3>1 DEF Holders
    <3>3. Holders(Target(v, i)) \subseteq {i}
      BY <1>1, <2>1, <2>2, <3>1 DEF Holders, Distinct, Rows
    <3>4. CASE i \in unmerged[v]
      BY <1>1, <3>2, <3>4 DEF PlanFresh
    <3>5. CASE i \in DOMAIN plan
      BY <1>1, <2>1, <3>3, <3>5 DEF PlanFresh, Renamable
    <3>6. QED
      BY <1>8, <3>4, <3>5 DEF left
  <2>3. name(i) = clubs[i].name
    BY <2>1
  <2> HIDE DEF name, plan
  <2>4. clubs'[i].name = clubs[i].name
    BY <1>2, <2>1, <2>2, <2>3
  <2>5. QED
    BY <1>2, <2>1, <2>4 DEF Misnamed
<1>9. Misnamed(v)' = left
  <2>1. Misnamed(v)' \subseteq Rows'
    BY DEF Misnamed
  <2>2. \A i \in Rows' \ Rows : i \notin Misnamed(v)'
    BY <1>2, <1>6
  <2>3. QED
    BY <1>7, <1>8, <2>1, <2>2
<1>10. QED
  BY <1>3, <1>9

LEMMA ApplyStep ==
    ASSUME Inv, NEW v \in Versions, Apply(v)
    PROVE  Inv'
<1>1. Types /\ Distinct(clubs) /\ PlansOK
  BY DEF Inv
<1>2. /\ pc[v] = "planned" /\ synced' = v /\ disturbed' = mixed[v]
      /\ mixed' = [w \in Versions |-> mixed[w] \/ w # v]
      /\ pc' = [pc EXCEPT ![v] = "off"]
      /\ renames' = [renames EXCEPT ![v] = << >>]
      /\ unmerged' = [unmerged EXCEPT ![v] = {}]
  BY DEF Apply, Writes, Finish
<1>3. PlanOK(v)
  BY <1>1, <1>2 DEF PlansOK
<1>4. /\ clubs' \in Seq(Row) /\ Rows \subseteq Rows' /\ Distinct(clubs')
      /\ Stamped(v)' /\ OnlyRoster(v)'
  BY <1>1, <1>3, ApplyEffect
<1>5. Types'
  BY <1>1, <1>2, <1>4 DEF Types
<1>6. PlansOK'
  <2> SUFFICES ASSUME NEW u \in Versions, pc'[u] = "planned"
               PROVE  PlanOK(u)' /\ mixed'[u]
    BY DEF PlansOK
  <2>1. /\ u # v /\ pc[u] = "planned" /\ mixed'[u] /\ renames'[u] = renames[u]
    BY <1>1, <1>2 DEF Types
  <2>2. PlanOK(u)
    BY <1>1, <2>1 DEF PlansOK
  <2>3. QED
    BY <1>4, <2>1, <2>2 DEF PlanOK, ClubsOf
<1>7. SettledOK'
  <2> SUFFICES ASSUME Settled'
               PROVE  /\ Stamped(synced)' /\ OnlyRoster(synced)'
                      /\ Misnamed(synced)' = report'.unmerged
    BY DEF SettledOK
  <2>1. ~mixed[v]
    BY <1>2 DEF Settled
  <2>2. Misnamed(v)' = report'.unmerged
    BY <2>1, ReportIsRight
  <2>3. QED
    BY <1>2, <1>4, <2>2
       DEF Stamped, OnlyRoster, Misnamed, Stamp, ClubsOf, LeaguesOf, Rows
<1>8. QED
  BY <1>4, <1>5, <1>6, <1>7 DEF Inv

LEMMA AbortStep ==
    ASSUME Inv, NEW v \in Versions, Abort(v)
    PROVE  Inv'
<1>1. Types /\ Distinct(clubs) /\ PlansOK /\ SettledOK
  BY DEF Inv
<1>2. /\ UNCHANGED <<clubs, leagues, report, synced, mixed, disturbed>>
      /\ pc' = [pc EXCEPT ![v] = "off"]
      /\ renames' = [renames EXCEPT ![v] = << >>]
      /\ unmerged' = [unmerged EXCEPT ![v] = {}]
  BY DEF Abort, Finish, history
<1>3. Types'
  BY <1>1, <1>2 DEF Types
<1>4. PlansOK'
  <2> SUFFICES ASSUME NEW u \in Versions, pc'[u] = "planned"
               PROVE  PlanOK(u)' /\ (~mixed'[u] => PlanFresh(u)')
    BY DEF PlansOK
  <2>1. /\ pc[u] = "planned" /\ renames'[u] = renames[u] /\ unmerged'[u] = unmerged[u]
        /\ mixed'[u] = mixed[u]
    BY <1>1, <1>2 DEF Types
  <2>2. PlanOK(u) /\ (~mixed[u] => PlanFresh(u))
    BY <1>1, <2>1 DEF PlansOK
  <2>3. QED
    BY <1>2, <2>1, <2>2
       DEF PlanOK, PlanFresh, Target, Misnamed, Holders, Rows, ClubsOf
<1>5. SettledOK'
  BY <1>1, <1>2
     DEF SettledOK, Settled, Stamped, OnlyRoster, Misnamed, Rows, Stamp, ClubsOf, LeaguesOf
<1>6. QED
  BY <1>1, <1>2, <1>3, <1>4, <1>5 DEF Inv, Distinct

LEMMA InvStep == Inv /\ [Next]_vars => Inv'
<1> SUFFICES ASSUME Inv, [Next]_vars
             PROVE  Inv'
  OBVIOUS
<1>1. ASSUME NEW v \in Extracting, NEW n \in Names, GetOrCreateClub(v, n)
      PROVE  Inv'
  BY <1>1, CreateStep, Settling
<1>2. ASSUME NEW v \in Syncing, Plan(v)
      PROVE  Inv'
  BY <1>2, PlanStep, Settling
<1>3. ASSUME NEW v \in Syncing, Apply(v)
      PROVE  Inv'
  BY <1>3, ApplyStep, Settling
<1>4. ASSUME NEW v \in Syncing, Abort(v)
      PROVE  Inv'
  BY <1>4, AbortStep, Settling
<1>5. CASE UNCHANGED vars
  BY <1>5 DEF vars, history, Inv, Types, Distinct, PlansOK, PlanOK, PlanFresh,
     SettledOK, Settled, Stamped, OnlyRoster, Misnamed, Target, Holders, Rows,
     Stamp, ClubsOf, LeaguesOf
<1>6. QED
  BY <1>1, <1>2, <1>3, <1>4, <1>5 DEF Next

\* The invariant holds in every state of every behaviour: the names of the
\* rows are distinct, the plans speak of the table and the report is right.
THEOREM InvHolds == Spec => []Inv
BY InvInit, InvStep, PTL DEF Spec
-----------------------------------------------------------------------------
(* The properties. *)

\* After a sync that no other version wrote under, every club of the roster
\* has a row with its name and league, and keeps it while the same binary
\* files names (RosterClubsStamped, src/internal/store/roster_sync.go).
THEOREM ClubsAreStamped == Spec => []RosterClubsStamped
<1>1. Inv => RosterClubsStamped
  BY DEF Inv, SettledOK, Stamped, Stamp, RosterClubsStamped
<1>2. QED
  BY <1>1, InvHolds, PTL

\* After such a sync the leagues of the roster hold its clubs only: what left
\* the roster is detached, and extraction brings it back into no league
\* (DepartedClubsDetached).
THEOREM DepartedStayOut == Spec => []DepartedClubsDetached
<1>1. Inv => DepartedClubsDetached
  BY DEF Inv, SettledOK, OnlyRoster, DepartedClubsDetached
<1>2. QED
  BY <1>1, InvHolds, PTL

\* The rows such a sync leaves under a name that is not their club's are those
\* it reported, and the club has another row (MisnamedRowsReported).
THEOREM ReportIsComplete == Spec => []MisnamedRowsReported
<1>1. Inv => MisnamedRowsReported
  <2> SUFFICES ASSUME Inv, Settled
               PROVE  /\ Misnamed(synced) = report.unmerged
                      /\ \A i \in report.unmerged : Holders(Target(synced, i)) \ {i} # {}
    BY DEF MisnamedRowsReported
  <2>1. /\ Stamped(synced) /\ Misnamed(synced) = report.unmerged
        /\ synced \in Versions /\ clubs \in Seq(Row)
    BY DEF Inv, SettledOK, Types, Settled
  <2>2. ASSUME NEW i \in Misnamed(synced)
        PROVE  Holders(Target(synced, i)) \ {i} # {}
    <3>1. i \in Rows /\ clubs[i].name \in Names /\ clubs[i].name # Target(synced, i)
      BY <2>1, RowsAreSequence DEF Misnamed, Target, Rows
    <3>2. Target(synced, i) \in ClubsOf(synced)
      BY <2>1, <3>1, RosterFacts DEF Misnamed, Target
    <3>3. PICK j \in Rows : clubs[j] = Stamp(synced, Target(synced, i))
      BY <2>1, <3>2 DEF Stamped
    <3>4. clubs[j].name = Target(synced, i)
      BY <3>3 DEF Stamp
    <3>5. j # i /\ j \in Holders(Target(synced, i))
      BY <3>1, <3>4 DEF Holders
    <3>6. QED
      BY <3>5
  <2>3. QED
    BY <2>1, <2>2
<1>2. QED
  BY <1>1, InvHolds, PTL
-----------------------------------------------------------------------------
(* Rows keep their club. *)

\* No two of the rosters that are synced take one name for different clubs.
\* It is a fact of the rosters: where it fails, a binary that is deployed
\* gives the row of one club to another, as its roster says it should.
RostersAgree ==
    \A u, v \in Syncing : \A n \in Names :
        Lookup[u][n] # NULL /\ Lookup[v][n] # NULL =>
            Lookup[v][Lookup[u][n]] = Lookup[v][n]

\* The rosters agree when a deployment syncs one version only.
LEMMA OneRosterAgrees ==
    ASSUME NEW v \in Versions, Syncing = {v}
    PROVE  RostersAgree
BY RosterFacts DEF RostersAgree

\* A plan still gives its rows the names its version takes them for.
PlansTold ==
    \A v \in Syncing : pc[v] = "planned" =>
        \A i \in DOMAIN renames[v] : Target(v, i) = renames[v][i]

KeepsClub(v) ==
    \A i \in Rows : Lookup[v][clubs[i].name] # NULL =>
        Lookup[v][clubs'[i].name] = Lookup[v][clubs[i].name]

\* Renaming, stamping and detaching leave every row to the club it stood for.
LEMMA ApplyKeepsClub ==
    ASSUME RostersAgree, Inv, PlansTold, NEW u \in Syncing, NEW v \in Syncing, Apply(u)
    PROVE  KeepsClub(v)
<1> DEFINE plan == renames[u]
           name(i) == IF i \in Renamable(plan) THEN plan[i] ELSE clubs[i].name
<1>1. /\ Types /\ Distinct(clubs) /\ PlanOK(u) /\ clubs \in Seq(Row)
      /\ u \in Versions /\ v \in Versions
      /\ \A i \in DOMAIN plan : Target(u, i) = plan[i]
  BY Settling DEF Inv, PlansOK, Apply, Types, PlansTold
<1>2. /\ clubs' \in Seq(Row) /\ Rows \subseteq Rows'
      /\ \A i \in Rows :
            \/ clubs'[i].name = name(i)
            \/ Key[name(i)] = Key[clubs'[i].name]
  BY <1>1, ApplyEffect
<1> SUFFICES ASSUME NEW i \in Rows, Lookup[v][clubs[i].name] # NULL
             PROVE  Lookup[v][clubs'[i].name] = Lookup[v][clubs[i].name]
  BY DEF KeepsClub
<1>3. clubs[i].name \in Names /\ clubs'[i].name \in Names
  BY <1>1, <1>2, RowsAreSequence DEF Rows
<1>4. name(i) \in Names /\ Lookup[v][name(i)] = Lookup[v][clubs[i].name]
  <2>1. CASE i \in Renamable(plan)
    <3>1. plan[i] \in ClubsOf(u) /\ Lookup[u][clubs[i].name] = plan[i]
      BY <1>1, <2>1 DEF PlanOK, Renamable, Target
    <3>2. plan[i] \in Names /\ plan[i] # NULL
      BY <1>1, <3>1, RosterFacts
    <3>3. Lookup[v][plan[i]] = Lookup[v][clubs[i].name]
      BY <1>3, <3>1, <3>2 DEF RostersAgree
    <3>4. QED
      BY <2>1, <3>2, <3>3
  <2>2. CASE i \notin Renamable(plan)
    BY <1>3, <2>2
  <2>3. QED
    BY <2>1, <2>2
<1> HIDE DEF name
<1>5. QED
  BY <1>1, <1>2, <1>3, <1>4, RosterFacts

LEMMA StepKeepsClubs ==
    ASSUME RostersAgree, Inv, PlansTold, [Next]_vars, NEW v \in Syncing
    PROVE  KeepsClub(v)
<1>1. ASSUME NEW u \in Extracting, NEW n \in Names, GetOrCreateClub(u, n)
      PROVE  KeepsClub(v)
  <2>1. \A i \in Rows : clubs'[i].name = clubs[i].name
    BY <1>1, CreateEffect, Settling DEF Inv
  <2>2. QED
    BY <2>1 DEF KeepsClub
<1>2. ASSUME NEW u \in Syncing, Apply(u)
      PROVE  KeepsClub(v)
  BY <1>2, ApplyKeepsClub
<1>3. CASE UNCHANGED clubs
  BY <1>3 DEF KeepsClub
<1>4. QED
  BY <1>1, <1>2, <1>3 DEF Next, Plan, Abort, vars

LEMMA ToldStep ==
    ASSUME RostersAgree, Inv, PlansTold, [Next]_vars
    PROVE  PlansTold'
<1> SUFFICES ASSUME NEW v \in Syncing, pc'[v] = "planned",
                    NEW i \in DOMAIN renames'[v]
             PROVE  Target(v, i)' = renames'[v][i]
  BY DEF PlansTold
<1>1. v \in Versions /\ Types /\ PlansOK
  BY Settling DEF Inv
<1>2. ASSUME pc[v] = "planned", renames'[v] = renames[v]
      PROVE  Target(v, i)' = renames'[v][i]
  <2>1. i \in Rows /\ renames[v][i] \in ClubsOf(v) /\ Target(v, i) = renames[v][i]
    BY <1>1, <1>2 DEF PlansOK, PlanOK, PlansTold
  <2>2. Lookup[v][clubs[i].name] # NULL
    BY <1>1, <2>1, RosterFacts DEF Target
  <2>3. Lookup[v][clubs'[i].name] = Lookup[v][clubs[i].name]
    BY <2>1, <2>2, StepKeepsClubs DEF KeepsClub
  <2>4. QED
    BY <1>2, <2>1, <2>3 DEF Target
<1>3. CASE Plan(v)
  BY <1>1, <1>3 DEF Plan, Types, Target
<1>4. ASSUME NEW u \in Syncing, u # v, Plan(u) \/ Apply(u) \/ Abort(u)
      PROVE  Target(v, i)' = renames'[v][i]
  <2>1. pc'[v] = pc[v] /\ renames'[v] = renames[v]
    BY <1>1, <1>4 DEF Plan, Apply, Abort, Finish, Types
  <2>2. QED
    BY <1>2, <2>1
<1>5. CASE Apply(v) \/ Abort(v)
  BY <1>1, <1>5 DEF Apply, Abort, Finish, Types
<1>6. ASSUME NEW u \in Extracting, NEW n \in Names, GetOrCreateClub(u, n)
      PROVE  Target(v, i)' = renames'[v][i]
  BY <1>2, <1>6 DEF GetOrCreateClub
<1>7. CASE UNCHANGED vars
  BY <1>2, <1>7 DEF vars
<1>8. QED
  BY <1>3, <1>4, <1>5, <1>6, <1>7 DEF Next

\* Where the rosters agree, no step of an extraction or a sync, whatever
\* happened to the table since it was planned, turns a row that stands for a
\* club into a row of another club (RowsKeepTheirClub).
THEOREM ClubsKeepTheirRows ==
    ASSUME RostersAgree
    PROVE  Spec => RowsKeepTheirClub
<1>1. Init => PlansTold
  BY Settling DEF Init, PlansTold
<1>2. Inv /\ PlansTold /\ [Next]_vars => PlansTold'
  BY ToldStep
<1>3. Inv /\ PlansTold /\ [Next]_vars =>
          [\A v \in Syncing : \A i \in Rows :
              Lookup[v][clubs[i].name] # NULL =>
                  Lookup[v][clubs'[i].name] = Lookup[v][clubs[i].name]]_vars
  <2>1. Inv /\ PlansTold /\ [Next]_vars => \A v \in Syncing : KeepsClub(v)
    BY StepKeepsClubs
  <2>2. QED
    BY <2>1 DEF KeepsClub
<1>4. QED
  BY <1>1, <1>2, <1>3, InvHolds, PTL DEF Spec, RowsKeepTheirClub
=============================================================================
