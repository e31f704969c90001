---------------------------- MODULE PagingProofs ----------------------------
(***************************************************************************)
(* What a walk through the pages of a list may miss while the list grows   *)
(* and shrinks under it, for any list, any limits and any number of        *)
(* concurrent changes: the feed, which grows at the front and is read by   *)
(* offset, and the comments of a rumour, which arrive late.                *)
(*                                                                         *)
(* Both orders are by a time that tells rows apart, so that the number of  *)
(* rows before a row is its position, and a page is full unless it is the  *)
(* last.                                                                   *)
(***************************************************************************)
EXTENDS Feed, Comments, FiniteSetTheorems, TLAPS

\* The position of r in the order of key.
Rank(L, key, r) == Cardinality({q \in L : key[q] < key[r]})

\* The rows at the n positions from first on.
Window(L, key, first, n) ==
    {r \in L : Rank(L, key, r) >= first /\ Rank(L, key, r) < first + n}

Orders(key, L) ==
    /\ \A r \in L : key[r] \in Int
    /\ \A q, r \in L : key[q] = key[r] => q = r

-----------------------------------------------------------------------------
(* Positions. *)

\* A row has fewer rows before it than there are, and more than any row
\* before it has.
LEMMA RankBounds ==
    ASSUME NEW L, IsFiniteSet(L), NEW key, \A r \in L : key[r] \in Int
    PROVE  /\ \A r \in L : Rank(L, key, r) \in 0 .. Cardinality(L) - 1
           /\ \A q, r \in L : key[q] < key[r] => Rank(L, key, q) < Rank(L, key, r)
<1> DEFINE Below(r) == {q \in L : key[q] < key[r]}
<1>1. ASSUME NEW r \in L
      PROVE  IsFiniteSet(Below(r)) /\ Cardinality(Below(r)) \in Nat
  BY FS_Subset, FS_CardinalityType
<1>2. Cardinality(L) \in Nat
  BY FS_CardinalityType
<1>3. ASSUME NEW r \in L
      PROVE  Cardinality(Below(r)) < Cardinality(L)
  <2>1. Below(r) \in SUBSET L /\ Below(r) # L
    OBVIOUS
  <2>2. Cardinality(Below(r)) <= Cardinality(L) /\ Cardinality(Below(r)) # Cardinality(L)
    BY <2>1, FS_Subset
  <2> HIDE DEF Below
  <2>3. QED
    BY <1>1, <1>2, <2>2
<1>4. ASSUME NEW q \in L, NEW r \in L, key[q] < key[r]
      PROVE  Cardinality(Below(q)) < Cardinality(Below(r))
  <2>1. Below(q) \in SUBSET Below(r) /\ Below(q) # Below(r)
    BY <1>4
  <2>2. IsFiniteSet(Below(r))
    BY <1>1
  <2>3. /\ Cardinality(Below(q)) <= Cardinality(Below(r))
        /\ Cardinality(Below(q)) # Cardinality(Below(r))
    BY <2>1, <2>2, FS_Subset
  <2> HIDE DEF Below
  <2>4. QED
    BY <1>1, <2>3
<1>5. \A r \in L : Rank(L, key, r) = Cardinality(Below(r))
  BY DEF Rank
<1> HIDE DEF Below
<1>6. QED
  BY <1>1, <1>2, <1>3, <1>4, <1>5

\* The positions are those from 0 to the number of rows less one.
LEMMA RanksFill ==
    ASSUME NEW L, IsFiniteSet(L), NEW key, Orders(key, L)
    PROVE  /\ \A k \in 0 .. Cardinality(L) - 1 : \E r \in L : Rank(L, key, r) = k
           /\ \A q, r \in L : Rank(L, key, q) = Rank(L, key, r) => q = r
<1> DEFINE n == Cardinality(L)
           rank == [r \in L |-> Rank(L, key, r)]
           places == 0 .. n - 1
<1>1. n \in Nat
  BY FS_CardinalityType
<1>2. /\ \A r \in L : Rank(L, key, r) \in places
      /\ \A q, r \in L : key[q] < key[r] => Rank(L, key, q) < Rank(L, key, r)
  BY RankBounds DEF Orders
<1>3. \A q, r \in L : Rank(L, key, q) = Rank(L, key, r) => q = r
  <2> SUFFICES ASSUME NEW q \in L, NEW r \in L, Rank(L, key, q) = Rank(L, key, r)
               PROVE  q = r
    OBVIOUS
  <2>1. key[q] \in Int /\ key[r] \in Int /\ (key[q] = key[r] => q = r)
    BY DEF Orders
  <2>2. Rank(L, key, q) \in Int
    BY <1>1, <1>2
  <2>3. ~(key[q] < key[r]) /\ ~(key[r] < key[q])
    BY <1>2, <2>2
  <2>4. QED
    BY <2>1, <2>3
<1>4. IsFiniteSet(places) /\ Cardinality(places) = n
  <2>1. 0 \in Int /\ n - 1 \in Int /\ (IF 0 > n - 1 THEN 0 ELSE n - 1 - 0 + 1) = n
    BY <1>1
  <2> HIDE DEF n
  <2>2. QED
    BY <2>1, FS_Interval
<1>5. rank \in Injection(L, places)
  BY <1>2, <1>3 DEF Injection, IsInjective
<1>6. rank \in Surjection(L, places)
  BY <1>4, <1>5, FS_Injection
<1>7. QED
  BY <1>3, <1>6 DEF Surjection

\* A window of n positions holds n rows, or those up to the end of the list.
LEMMA WindowSize ==
    ASSUME NEW L, IsFiniteSet(L), NEW key, Orders(key, L),
           NEW first \in Nat, NEW n \in Nat
    PROVE  /\ IsFiniteSet(Window(L, key, first, n))
           /\ Cardinality(Window(L, key, first, n)) \in 0 .. n
           /\ first + n <= Cardinality(L) =>
                  Cardinality(Window(L, key, first, n)) = n
           /\ first <= Cardinality(L) /\ Cardinality(L) <= first + n =>
                  first + Cardinality(Window(L, key, first, n)) = Cardinality(L)
<1> DEFINE W == Window(L, key, first, n)
           size == Cardinality(L)
           end == IF first + n <= size THEN first + n ELSE size
           places == first .. end - 1
           rank == [r \in W |-> Rank(L, key, r)]
<1>1. /\ size \in Nat /\ end \in Nat /\ IsFiniteSet(places)
      /\ Cardinality(places) = IF first > end - 1 THEN 0 ELSE end - 1 - first + 1
  <2>1. size \in Nat
    BY FS_CardinalityType
  <2> HIDE DEF size
  <2>2. end \in Nat /\ end - 1 \in Int /\ first \in Int
    BY <2>1
  <2> HIDE DEF end
  <2>3. QED
    BY <2>1, <2>2, FS_Interval
<1>2. IsFiniteSet(W) /\ Cardinality(W) \in Nat
  BY FS_Subset, FS_CardinalityType DEF Window
<1>3. \A r \in L : Rank(L, key, r) \in 0 .. size - 1
  BY RankBounds DEF Orders
<1>4. \A r \in W : r \in L /\ Rank(L, key, r) \in places
  BY <1>1, <1>3 DEF Window
<1>5. \A k \in places : \E r \in W : Rank(L, key, r) = k
  <2> SUFFICES ASSUME NEW k \in places
               PROVE  \E r \in W : Rank(L, key, r) = k
    OBVIOUS
  <2>1. k \in 0 .. size - 1 /\ k >= first /\ k < first + n
    BY <1>1
  <2>2. PICK r \in L : Rank(L, key, r) = k
    BY <2>1, RanksFill
  <2>3. QED
    BY <2>1, <2>2 DEF Window
<1>6. \A q, r \in W : Rank(L, key, q) = Rank(L, key, r) => q = r
  BY RanksFill DEF Window
<1> HIDE DEF W, places
<1>7. rank \in Bijection(W, places)
  BY <1>4, <1>5, <1>6 DEF Bijection, Injection, Surjection, IsInjective
<1>8. Cardinality(W) = Cardinality(places)
  BY <1>2, <1>7, FS_Bijection DEF ExistsBijection
<1>9. size = Cardinality(L)
  OBVIOUS
<1> HIDE DEF size
<1>10. /\ Cardinality(W) <= n
       /\ first + n <= size => Cardinality(W) = n
       /\ first <= size /\ size <= first + n => first + Cardinality(W) = size
  BY <1>1, <1>8
<1>11. Cardinality(W) \in 0 .. n
  BY <1>2, <1>10
<1>12. QED
  BY <1>1, <1>2, <1>9, <1>10, <1>11 DEF W

\* The limits of a page are between 1 and the greatest.
LEMMA LimitBounds ==
    ASSUME NEW raw \in Int \cup {Absent, Invalid}, raw # Invalid,
           NEW most \in Nat, NEW default \in 1 .. most
    PROVE  ClampLimit(IntParam(raw, default), most) \in 1 .. most
<1>1. IntParam(raw, default) \in Int
  BY DEF IntParam
<1>2. QED
  BY <1>1 DEF ClampLimit
-----------------------------------------------------------------------------
(* The feed. *)

\* No two rumours were updated at one time.
FeedTypes ==
    /\ clock \in Nat /\ offset \in Nat
    /\ updated \in [Rumours -> 0 .. clock]
    /\ \A q, r \in Rumours : updated[q] = updated[r] /\ updated[q] > 0 => q = r

\* While nothing has left the list, what has stayed in its place and is not
\* received is still ahead of the client.
SteadyOK ==
    filter # NULL /\ ~shrunk =>
        \A r \in steady : r \in Listed(filter) /\
            (r \in seen \/ (more /\ Ahead(filter, r) >= offset))

\* An undisturbed walk has received the rows before its offset.
WholeOK ==
    filter # NULL /\ ~shrunk /\ ~grown =>
        /\ seen = {r \in Listed(filter) : Ahead(filter, r) < offset}
        /\ offset = Cardinality(seen)
        /\ ~more => seen = Listed(filter)

FeedInv == FeedTypes /\ SteadyOK /\ WholeOK

Latest == [r \in Rumours |-> -updated[r]]

\* Only finitely many rumours were ever updated.
LEMMA FeedIsFinite ==
    ASSUME NEW now \in Nat, NEW at \in [Rumours -> 0 .. now],
           \A q, r \in Rumours : at[q] = at[r] /\ at[q] > 0 => q = r,
           NEW L \in SUBSET Rumours, \A r \in L : at[r] > 0
    PROVE  IsFiniteSet(L)
<1>1. \A r \in L : at[r] \in 1 .. now
  OBVIOUS
<1>2. [r \in L |-> at[r]] \in Injection(L, 1 .. now)
  BY <1>1 DEF Injection, IsInjective
<1>3. QED
  BY <1>2, FS_Interval, FS_Injection

\* The feed is ordered, and a page is a window of it.
LEMMA FeedOrder ==
    ASSUME FeedTypes, NEW f
    PROVE  LET L == Listed(f)
           IN  /\ IsFiniteSet(L) /\ Orders(Latest, L)
               /\ \A r \in L : Rank(L, Latest, r) = Ahead(f, r) /\ Ahead(f, r) \in Nat
               /\ \A limit, skip : Page(f, limit, skip) = Window(L, Latest, skip, limit)
<1> DEFINE L == Listed(f)
<1>1. /\ L \subseteq Rumours
      /\ \A r \in L : updated[r] > 0 /\ updated[r] \in 1 .. clock
  BY DEF FeedTypes, Listed
<1>2. \A r \in L : updated[r] \in Int /\ Latest[r] \in Int /\ Latest[r] = -updated[r]
  BY <1>1 DEF FeedTypes, Latest
<1>3. IsFiniteSet(L)
  BY <1>1, FeedIsFinite DEF FeedTypes
<1> HIDE DEF L
<1>4. Orders(Latest, L)
  BY <1>1, <1>2 DEF FeedTypes, Orders
<1>5. ASSUME NEW r \in L
      PROVE  Rank(L, Latest, r) = Ahead(f, r) /\ Ahead(f, r) \in Nat
  <2>1. \A q \in L : Latest[q] < Latest[r] <=> updated[q] > updated[r]
    BY <1>2
  <2>2. {q \in L : Latest[q] < Latest[r]} = {q \in L : updated[q] > updated[r]}
    BY <2>1
  <2>3. Rank(L, Latest, r) = Ahead(f, r)
    BY <2>2 DEF Rank, Ahead, L
  <2>4. IsFiniteSet({q \in L : updated[q] > updated[r]})
    BY <1>3, FS_Subset
  <2>5. Ahead(f, r) \in Nat
    BY <2>4, FS_CardinalityType DEF Ahead, L
  <2>6. QED
    BY <2>3, <2>5
<1>6. ASSUME NEW limit, NEW skip
      PROVE  Page(f, limit, skip) = Window(L, Latest, skip, limit)
  BY <1>5 DEF Page, Window, L
<1>7. QED
  BY <1>3, <1>4, <1>5, <1>6 DEF L

\* A change of the tables moves rumours to the front or takes them away.
LEMMA TablesChange ==
    ASSUME FeedInv, FeedTypes', UNCHANGED walk, Observe,
           \A r \in Rumours : updated'[r] = 0 \/ updated'[r] >= updated[r]
    PROVE  SteadyOK' /\ WholeOK'
<1> DEFINE L == Listed(filter)
           M == Listed(filter)'
<1>1. FeedTypes /\ SteadyOK /\ WholeOK
  BY DEF FeedInv
<1>2. UNCHANGED <<filter, offset, seen, more>>
  BY DEF walk
<1>3. CASE filter = NULL
  BY <1>2, <1>3 DEF SteadyOK, WholeOK
<1>4. CASE filter # NULL
  <2> DEFINE moved == {r \in M : updated'[r] # updated[r]}
  <2>1. /\ steady' = (steady \cap M) \ moved
        /\ shrunk' = (shrunk \/ ~(L \subseteq M))
        /\ grown' = (grown \/ moved # {} \/ ~(M \subseteq L))
    BY <1>4 DEF Observe
  <2>2. /\ \A r \in M : r \in Rumours /\ updated'[r] > 0
        /\ \A r \in L : r \in Rumours /\ updated[r] > 0
        /\ \A r \in Rumours : updated[r] \in Nat /\ updated'[r] \in Nat
    BY <1>1 DEF Listed, FeedTypes
  <2>3. \A r : /\ Ahead(filter, r) = Cardinality({q \in L : updated[q] > updated[r]})
               /\ Ahead(filter, r)' = Cardinality({q \in M : updated'[q] > updated'[r]})
    BY DEF Ahead
  <2>4. IsFiniteSet(L) /\ IsFiniteSet(M)
    <3>1. IsFiniteSet(L)
      BY <1>1, <2>2, FeedIsFinite DEF FeedTypes
    <3>2. IsFiniteSet(M)
      <4> HIDE DEF M
      <4>1. M \in SUBSET Rumours /\ \A r \in M : updated'[r] > 0
        BY <2>2
      <4>2. /\ clock' \in Nat /\ updated' \in [Rumours -> 0 .. clock']
            /\ \A q, r \in Rumours :
                  updated'[q] = updated'[r] /\ updated'[q] > 0 => q = r
        BY DEF FeedTypes
      <4>3. QED
        BY <4>1, <4>2, FeedIsFinite
    <3>3. QED
      BY <3>1, <3>2
  <2> HIDE DEF L, M
  <2>5. ASSUME NEW r \in M, L \subseteq M, updated'[r] = updated[r]
        PROVE  /\ Ahead(filter, r)' >= Ahead(filter, r)
               /\ Ahead(filter, r)' \in Nat /\ Ahead(filter, r) \in Nat
    <3> DEFINE P == {q \in L : updated[q] > updated[r]}
               Q == {q \in M : updated'[q] > updated'[r]}
    <3>1. P \in SUBSET Q
      <4> SUFFICES ASSUME NEW q \in L, updated[q] > updated[r]
                   PROVE  updated'[q] > updated[r]
        BY <2>5
      <4>1. q \in M /\ q \in Rumours /\ r \in Rumours
        BY <2>2, <2>5
      <4>2. updated'[q] > 0 /\ updated'[q] >= updated[q]
        BY <2>2, <4>1
      <4>3. QED
        BY <2>2, <4>1, <4>2
    <3>2. IsFiniteSet(P) /\ IsFiniteSet(Q)
      BY <2>4, FS_Subset
    <3>3. Ahead(filter, r) = Cardinality(P) /\ Ahead(filter, r)' = Cardinality(Q)
      BY <2>3
    <3> HIDE DEF P, Q
    <3>4. QED
      BY <3>1, <3>2, <3>3, FS_Subset, FS_CardinalityType
  <2>6. SteadyOK'
    <3> SUFFICES ASSUME ~shrunk', NEW r \in steady'
                 PROVE  r \in M /\ (r \in seen \/ (more /\ Ahead(filter, r)' >= offset))
      BY <1>2 DEF SteadyOK, M
    <3>1. ~shrunk /\ L \subseteq M /\ r \in steady /\ r \in M /\ updated'[r] = updated[r]
      BY <2>1
    <3>2. r \in seen \/ (more /\ Ahead(filter, r) >= offset)
      BY <1>1, <1>4, <3>1 DEF SteadyOK
    <3>3. offset \in Nat
      BY <1>1 DEF FeedTypes
    <3>4. QED
      BY <2>5, <3>1, <3>2, <3>3
  <2>7. WholeOK'
    <3> SUFFICES ASSUME ~shrunk', ~grown'
                 PROVE  /\ seen = {r \in M : Ahead(filter, r)' < offset}
                        /\ offset = Cardinality(seen)
                        /\ ~more => seen = M
      BY <1>2 DEF WholeOK, M
    <3>1. ~shrunk /\ ~grown /\ L = M /\ \A r \in L : updated'[r] = updated[r]
      BY <2>1
    <3>2. \A r \in L : {q \in L : updated[q] > updated[r]}
                         = {q \in M : updated'[q] > updated'[r]}
      BY <3>1
    <3>3. \A r \in L : Ahead(filter, r)' = Ahead(filter, r)
      BY <2>3, <3>2
    <3>4. /\ seen = {r \in L : Ahead(filter, r) < offset}
          /\ offset = Cardinality(seen)
          /\ ~more => seen = L
      BY <1>1, <1>4, <3>1 DEF WholeOK, L
    <3>5. QED
      BY <3>1, <3>3, <3>4
  <2>8. QED
    BY <2>6, <2>7
<1>5. QED
  BY <1>3, <1>4

LEMMA FeedInvInit == Init => FeedInv
<1> SUFFICES ASSUME Init
             PROVE  FeedInv
  OBVIOUS
<1>1. FeedTypes
  BY DEF Init, FeedTypes
<1>2. SteadyOK /\ WholeOK
  BY DEF Init, SteadyOK, WholeOK
<1>3. QED
  BY <1>1, <1>2 DEF FeedInv

\* A walk begins with everything ahead of the client.
LEMMA WalkBegins ==
    ASSUME FeedInv, NEW f, StartWalk(f)
    PROVE  FeedInv'
<1>1. /\ UNCHANGED tables
      /\ filter' = f /\ offset' = 0 /\ seen' = {} /\ more'
      /\ steady' = Listed(f)
  BY DEF StartWalk
<1>2. FeedTypes'
  BY <1>1 DEF FeedInv, FeedTypes, tables
<1>3. Listed(filter)' = Listed(f)
  BY <1>1 DEF tables, Listed, Matches, Sides
<1>4. \A r \in Listed(f) : Ahead(filter, r)' = Ahead(f, r) /\ Ahead(f, r) \in Nat
  <2>1. \A r : Ahead(filter, r)' = Ahead(f, r)
    BY <1>1, <1>3 DEF Ahead, tables
  <2>2. \A r \in Listed(f) : Ahead(f, r) \in Nat
    BY FeedOrder DEF FeedInv
  <2>3. QED
    BY <2>1, <2>2
<1>5. SteadyOK'
  BY <1>1, <1>3, <1>4 DEF SteadyOK
<1>6. WholeOK'
  <2>1. {r \in Listed(f) : Ahead(f, r) < 0} = {}
    BY <1>4
  <2>2. {r \in Listed(filter)' : Ahead(filter, r)' < offset'} = {}
    BY <1>1, <1>3, <1>4, <2>1
  <2>3. QED
    BY <1>1, <2>2, FS_EmptySet DEF WholeOK
<1>7. QED
  BY <1>2, <1>5, <1>6 DEF FeedInv

\* A page takes the client past the rows it holds and past no other; when it
\* is the last, nothing is left ahead.
LEMMA PageAdvances ==
    ASSUME FeedInv, NEW raw \in Limits, ListRumours(raw)
    PROVE  FeedInv'
<1> DEFINE L == Listed(filter)
           limit == Limit(raw)
           items == Page(filter, limit, offset)
           probe == Page(filter, limit + 1, offset)
           size == Cardinality(L)
           k == Cardinality(items)
<1>1. FeedTypes /\ SteadyOK /\ WholeOK /\ offset \in Nat
  BY DEF FeedInv, FeedTypes
<1>2. /\ filter # NULL /\ more
      /\ more' = (Cardinality(probe) > limit)
      /\ seen' = seen \cup items /\ offset' = offset + k
      /\ UNCHANGED <<tables, filter, steady, shrunk, grown>>
  BY DEF ListRumours, Rows
<1>3. limit \in Nat /\ limit >= 1 /\ limit + 1 \in Nat
  <2>1. raw \in Int \cup {Absent, Invalid} /\ raw # Invalid
    BY LimitAssumption DEF ListRumours
  <2>2. limit \in 1 .. maxRumoursLimit
    BY <2>1, LimitBounds, LimitAssumption DEF Limit
  <2> HIDE DEF limit
  <2>3. QED
    BY <2>2, LimitAssumption
<1>4. /\ IsFiniteSet(L) /\ Orders(Latest, L)
      /\ \A r \in L : Rank(L, Latest, r) = Ahead(filter, r) /\ Ahead(filter, r) \in Nat
      /\ \A n, skip : Page(filter, n, skip) = Window(L, Latest, skip, n)
  BY <1>1, FeedOrder
<1>5. /\ size \in Nat
      /\ \A r \in L : Ahead(filter, r) < size
  <2>1. size \in Nat
    BY <1>4, FS_CardinalityType
  <2>2. \A r \in L : Rank(L, Latest, r) \in 0 .. size - 1
    BY <1>4, RankBounds DEF Orders
  <2> HIDE DEF size, L
  <2>3. QED
    BY <1>4, <2>1, <2>2
<1>6. \A r : r \in items <=>
          r \in L /\ Ahead(filter, r) >= offset /\ Ahead(filter, r) < offset + limit
  BY DEF Page
<1> HIDE DEF L, limit
<1>7. /\ IsFiniteSet(items) /\ k \in Nat /\ k <= limit
      /\ offset + limit <= size => k = limit
      /\ offset <= size /\ size <= offset + limit => offset + k = size
  <2>1. items = Window(L, Latest, offset, limit)
    BY <1>4
  <2> HIDE DEF items
  <2>2. /\ IsFiniteSet(items) /\ Cardinality(items) \in 0 .. limit
        /\ offset + limit <= Cardinality(L) => Cardinality(items) = limit
        /\ offset <= Cardinality(L) /\ Cardinality(L) <= offset + limit =>
               offset + Cardinality(items) = Cardinality(L)
    BY <1>1, <1>3, <1>4, <2>1, WindowSize
  <2>3. Cardinality(items) \in Nat /\ Cardinality(items) <= limit
    BY <1>3, <2>2
  <2>4. QED
    BY <2>2, <2>3
<1>8. ~more' => size <= offset + limit
  <2>1. probe = Window(L, Latest, offset, limit + 1)
    BY <1>4
  <2> HIDE DEF probe
  <2>2. offset + (limit + 1) <= Cardinality(L) => Cardinality(probe) = limit + 1
    BY <1>1, <1>3, <1>4, <2>1, WindowSize
  <2>3. offset + (limit + 1) <= size => Cardinality(probe) > limit
    BY <1>3, <2>2
  <2> HIDE DEF size
  <2>4. ~more' => ~(offset + (limit + 1) <= size)
    BY <1>2, <2>3
  <2>5. ~(offset + (limit + 1) <= size) => size <= offset + limit
    BY <1>1, <1>3, <1>5
  <2>6. QED
    BY <2>4, <2>5
<1> HIDE DEF items, probe, size, k
<1>9. Listed(filter)' = L /\ \A r : Ahead(filter, r)' = Ahead(filter, r)
  BY <1>2 DEF L, tables, Listed, Matches, Sides, Ahead
<1>10. FeedTypes'
  BY <1>1, <1>2, <1>7 DEF FeedTypes, tables
<1>11. SteadyOK'
  <2> SUFFICES ASSUME ~shrunk, NEW r \in steady
               PROVE  r \in L /\ (r \in seen' \/ (more' /\ Ahead(filter, r) >= offset'))
    BY <1>2, <1>9 DEF SteadyOK
  <2>1. r \in L /\ (r \in seen \/ Ahead(filter, r) >= offset)
    BY <1>1, <1>2 DEF SteadyOK, L
  <2>2. CASE r \in seen \/ Ahead(filter, r) < offset + limit
    BY <1>2, <1>6, <2>1, <2>2
  <2>3. CASE Ahead(filter, r) >= offset + limit
    <3>1. Ahead(filter, r) \in Nat /\ Ahead(filter, r) < size
      BY <1>4, <1>5, <2>1
    <3>2. more'
      BY <1>1, <1>3, <1>5, <1>8, <2>3, <3>1
    <3>3. Ahead(filter, r) >= offset'
      BY <1>1, <1>2, <1>3, <1>7, <2>3, <3>1
    <3>4. QED
      BY <2>1, <3>2, <3>3
  <2>4. Ahead(filter, r) \in Nat
    BY <1>4, <2>1
  <2>5. QED
    BY <1>1, <1>3, <2>2, <2>3, <2>4
<1>12. WholeOK'
  <2> SUFFICES ASSUME ~shrunk, ~grown
               PROVE  /\ seen' = {r \in L : Ahead(filter, r) < offset'}
                      /\ offset' = Cardinality(seen')
                      /\ ~more' => seen' = L
    BY <1>2, <1>9 DEF WholeOK
  <2>1. seen = {r \in L : Ahead(filter, r) < offset} /\ offset = Cardinality(seen)
    BY <1>1, <1>2 DEF WholeOK, L
  <2>2. \A r : r \in seen' <=> r \in L /\ Ahead(filter, r) < offset + limit
    <3>1. \A r \in L : \/ Ahead(filter, r) < offset
                       \/ Ahead(filter, r) >= offset /\ Ahead(filter, r) \in Nat
      BY <1>1, <1>4
    <3>2. \A r \in L : Ahead(filter, r) < offset => Ahead(filter, r) < offset + limit
      BY <1>1, <1>3, <1>4
    <3>3. \A r : r \in seen' <=> r \in seen \/ r \in items
      BY <1>2
    <3>4. QED
      BY <1>6, <2>1, <3>1, <3>2, <3>3
  <2>3. IsFiniteSet(seen) /\ offset <= size
    BY <1>4, <2>1, FS_Subset DEF size
  <2>4. offset' = Cardinality(seen')
    <3>1. seen \cap items = {}
      <4>1. \A r \in L : ~(Ahead(filter, r) < offset /\ Ahead(filter, r) >= offset)
        BY <1>1, <1>4
      <4>2. QED
        BY <1>6, <2>1, <4>1
    <3>2. Cardinality(seen') = Cardinality(seen) + Cardinality(items) - Cardinality({})
      BY <1>2, <1>7, <2>3, <3>1, FS_Union
    <3>3. Cardinality({}) = 0
      BY FS_EmptySet
    <3>4. Cardinality(seen') = offset + k - 0
      BY <2>1, <3>2, <3>3 DEF k
    <3>5. QED
      BY <1>1, <1>2, <1>7, <3>4
  <2>5. size <= offset + limit => seen' = L
    <3>1. size <= offset + limit => \A r \in L : Ahead(filter, r) < offset + limit
      BY <1>1, <1>3, <1>4, <1>5
    <3>2. QED
      BY <2>2, <3>1
  <2>6. seen' = {r \in L : Ahead(filter, r) < offset'}
    <3>1. CASE offset + limit <= size
      BY <1>2, <1>7, <2>2, <3>1
    <3>2. CASE ~(offset + limit <= size)
      <4>1. offset' = size /\ seen' = L
        BY <1>1, <1>2, <1>3, <1>5, <1>7, <2>3, <2>5, <3>2
      <4>2. QED
        BY <1>5, <4>1
    <3>3. QED
      BY <3>1, <3>2
  <2>7. QED
    BY <1>8, <2>4, <2>5, <2>6
<1>13. QED
  BY <1>10, <1>11, <1>12 DEF FeedInv

LEMMA FeedInvStep == FeedInv /\ [Next]_vars => FeedInv'
<1> SUFFICES ASSUME FeedInv, [Next]_vars
             PROVE  FeedInv'
  OBVIOUS
<1>1. FeedTypes
  BY DEF FeedInv
<1>2. ASSUME NEW r \in Rumours, NEW c \in Clubs \cup {NULL}, Report(r, c)
      PROVE  FeedInv'
  <2>1. /\ clock' = clock + 1 /\ updated' = [updated EXCEPT ![r] = clock + 1]
        /\ UNCHANGED walk /\ Observe
    BY <1>2 DEF Report
  <2>2. FeedTypes'
    BY <1>1, <2>1 DEF FeedTypes, walk
  <2>3. \A q \in Rumours : updated'[q] = 0 \/ updated'[q] >= updated[q]
    BY <1>1, <2>1 DEF FeedTypes
  <2>4. QED
    BY <2>1, <2>2, <2>3, TablesChange DEF FeedInv
<1>3. ASSUME NEW r \in Rumours, Delete(r)
      PROVE  FeedInv'
  <2>1. /\ clock' = clock /\ updated' = [updated EXCEPT ![r] = 0]
        /\ UNCHANGED walk /\ Observe
    BY <1>3 DEF Delete
  <2>2. FeedTypes'
    BY <1>1, <2>1 DEF FeedTypes, walk
  <2>3. \A q \in Rumours : updated'[q] = 0 \/ updated'[q] >= updated[q]
    BY <1>1, <2>1 DEF FeedTypes
  <2>4. QED
    BY <2>1, <2>2, <2>3, TablesChange DEF FeedInv
<1>4. ASSUME NEW c \in Clubs, Follow(c)
      PROVE  FeedInv'
  <2>1. UNCHANGED <<updated, clock, walk>> /\ Observe
    BY <1>4 DEF Follow
  <2>2. FeedTypes'
    BY <1>1, <2>1 DEF FeedTypes, walk
  <2>3. \A q \in Rumours : updated'[q] = 0 \/ updated'[q] >= updated[q]
    BY <1>1, <2>1 DEF FeedTypes
  <2>4. QED
    BY <2>1, <2>2, <2>3, TablesChange DEF FeedInv
<1>5. ASSUME NEW f \in Filters, StartWalk(f)
      PROVE  FeedInv'
  BY <1>5, WalkBegins
<1>6. ASSUME NEW raw \in Limits, ListRumours(raw)
      PROVE  FeedInv'
  BY <1>6, PageAdvances
<1>7. CASE UNCHANGED vars
  <2>1. UNCHANGED <<tables, walk, steady, shrunk, grown>>
    BY <1>7 DEF vars
  <2>2. \A r : Listed(filter)' = Listed(filter) /\ Ahead(filter, r)' = Ahead(filter, r)
    BY <2>1 DEF tables, walk, Listed, Matches, Sides, Ahead
  <2>3. QED
    BY <2>1, <2>2 DEF tables, walk, FeedInv, FeedTypes, SteadyOK, WholeOK
<1>8. QED
  BY <1>2, <1>3, <1>4, <1>5, <1>6, <1>7 DEF Next

LEMMA FeedInvariant == Spec => []FeedInv
BY FeedInvInit, FeedInvStep, PTL DEF Spec

\* However many rumours move to the front while a client pages through
\* GET /rumours, with any limits, it receives all that stayed where they were,
\* unless one left the list (SteadyRumoursSeen).
THEOREM WalkSkipsNothingSteady == Spec => []SteadyRumoursSeen
<1>1. FeedInv => SteadyRumoursSeen
  BY DEF FeedInv, SteadyOK, SteadyRumoursSeen
<1>2. QED
  BY <1>1, FeedInvariant, PTL

\* The pages of a walk nobody disturbed are the list, each rumour once
\* (UndisturbedWalkIsTheList).
THEOREM WalkIsExact == Spec => []UndisturbedWalkIsTheList
<1>1. FeedInv => UndisturbedWalkIsTheList
  BY DEF FeedInv, WholeOK, UndisturbedWalkIsTheList
<1>2. QED
  BY <1>1, FeedInvariant, PTL
-----------------------------------------------------------------------------
(* The comments. *)

CommentTypes ==
    /\ exists \in BOOLEAN
    /\ state \in [Posts -> {"unsent", "begun", "stored", "none"}]
    /\ created \in [Posts -> Nat] /\ time \in Nat
    /\ answer \in [Posts -> {0, 201, 400, 404, 500}]
    /\ received \in Nat
    /\ IsFiniteSet(Stored)

AckedOK == exists => \A p \in Posts : answer[p] = 201 => state[p] = "stored"

\* A page that was promised has rows.
PromiseOK ==
    exists /\ reading \in {"page", "check", "list"} /\ shown # {} =>
        Cardinality(Stored) > received

\* The rows received end with one that the reader has, and every comment it
\* does not have is after them, unless it came late.
WalkOK ==
    exists /\ ~Tied /\ reading # "none" =>
        /\ shown \subseteq Stored
        /\ received = 0 \/ \E q \in shown : Cardinality(Before(q)) + 1 >= received
        /\ \A p \in Stored \ (late \cup shown) :
              reading # "end" /\ Cardinality(Before(p)) >= received

CommentsInv == CommentTypes /\ AckedOK /\ PromiseOK /\ WalkOK

\* Comments of one created_at share a stretch of the list, and those of
\* different ones do not overlap.
LEMMA StretchesApart ==
    ASSUME CommentTypes, NEW p \in Stored
    PROVE  /\ IsFiniteSet(Before(p)) /\ Cardinality(Before(p)) \in Nat
           /\ IsFiniteSet(Twins(p)) /\ Cardinality(Twins(p)) \in Nat
           /\ \A q \in Stored : created[p] < created[q] =>
                 Cardinality(Before(p)) + Cardinality(Twins(p))
                    <= Cardinality(Before(q))
<1>1. \A q \in Stored : created[q] \in Int
  BY DEF CommentTypes, Stored
<1>2. \A q \in Stored : IsFiniteSet(Before(q)) /\ IsFiniteSet(Twins(q))
  BY FS_Subset DEF Before, Twins, CommentTypes
<1>3. \A q \in Stored : Cardinality(Before(q)) \in Nat /\ Cardinality(Twins(q)) \in Nat
  BY <1>2, FS_CardinalityType
<1>4. ASSUME NEW q \in Stored, created[p] < created[q]
      PROVE  Cardinality(Before(p)) + Cardinality(Twins(p)) <= Cardinality(Before(q))
  <2>1. Before(p) \cap Twins(p) = {}
    BY <1>1 DEF Before, Twins
  <2>2. Before(p) \cup Twins(p) \in SUBSET Before(q)
    BY <1>1, <1>4 DEF Before, Twins
  <2>3. Cardinality(Before(p) \cup Twins(p))
          = Cardinality(Before(p)) + Cardinality(Twins(p)) - Cardinality({})
    BY <1>2, <2>1, FS_Union
  <2>4. Cardinality(Before(p) \cup Twins(p)) <= Cardinality(Before(q))
    BY <1>2, <2>2, FS_Subset
  <2>5. Cardinality({}) = 0
    BY FS_EmptySet
  <2>6. QED
    BY <1>3, <2>3, <2>4, <2>5
<1>5. QED
  BY <1>2, <1>3, <1>4

\* A page has at most limit rows, however ties are broken.
LEMMA PageSize ==
    ASSUME CommentTypes, NEW limit \in Nat, NEW skip \in Nat,
           NEW page \in PagesOf(limit, skip)
    PROVE  IsFiniteSet(page) /\ Cardinality(page) \in Nat /\ Cardinality(page) <= limit
<1> DEFINE Group(p) == page \cap Twins(p)
           first(p) == Cardinality(Before(p))
           n(p) == Cardinality(Twins(p))
           Places(p) == {i \in first(p) .. first(p) + n(p) - 1 :
                            i >= skip /\ i < skip + limit}
           Match(p) == CHOOSE g : g \in Bijection(Group(p), Places(p))
           place == [p \in page |-> Match(p)[p]]
           window == skip .. skip + limit - 1
<1>1. page \subseteq Stored /\ IsFiniteSet(page)
  BY FS_Subset DEF PagesOf, CommentTypes
<1>2. \A p \in Stored : created[p] \in Int
  BY DEF CommentTypes, Stored
<1>3. \A p \in Stored : first(p) \in Nat /\ n(p) \in Nat
  BY StretchesApart
<1>4. ASSUME NEW p \in page
      PROVE  Match(p) \in Bijection(Group(p), Places(p))
  <2>1. Cardinality(Group(p)) = Cardinality(Places(p))
    BY <1>1 DEF PagesOf, Overlap
  <2>2. IsFiniteSet(Group(p))
    BY <1>1, FS_Subset
  <2>3. IsFiniteSet(Places(p))
    <3>1. first(p) \in Int /\ first(p) + n(p) - 1 \in Int
      BY <1>1, <1>3
    <3> HIDE DEF first, n
    <3>2. IsFiniteSet(first(p) .. first(p) + n(p) - 1)
      BY <3>1, FS_Interval
    <3>3. QED
      BY <3>2, FS_Subset
  <2> HIDE DEF Group, Places
  <2>4. ExistsBijection(Group(p), Places(p))
    BY <2>1, <2>2, <2>3, FS_SameCardinalityBij
  <2>5. QED
    BY <2>4 DEF ExistsBijection
<1>5. \A p \in page : p \in Group(p)
  BY <1>1 DEF Twins
<1>6. ASSUME NEW p \in page, NEW q \in page, created[p] = created[q]
      PROVE  q \in Group(p) /\ Match(q) = Match(p)
  <2>1. Twins(p) = Twins(q) /\ Before(p) = Before(q)
    BY <1>6 DEF Twins, Before
  <2>2. q \in Group(p)
    BY <1>1, <1>6 DEF Twins
  <2>3. QED
    BY <2>1, <2>2
<1>7. \A p \in page : \A q \in Places(p) :
          /\ q \in Int /\ q >= first(p) /\ q < first(p) + n(p)
          /\ q \in window
  BY <1>1, <1>3
<1>8. ASSUME NEW p \in page
      PROVE  Match(p)[p] \in Places(p)
  <2> HIDE DEF Group, Places, Match
  <2>1. QED
    BY <1>4, <1>5 DEF Bijection, Injection
<1>9. ASSUME NEW p \in page, NEW q \in page, Match(p)[p] = Match(q)[q]
      PROVE  p = q
  <2>1. CASE created[p] = created[q]
    <3>1. p \in Group(p) /\ q \in Group(p) /\ Match(p)[p] = Match(p)[q]
      BY <1>5, <1>6, <1>9, <2>1
    <3> HIDE DEF Group, Places, Match
    <3>2. QED
      BY <1>4, <3>1 DEF Bijection, Injection, IsInjective
  <2>2. ASSUME NEW x \in page, NEW y \in page, created[x] < created[y]
        PROVE  Match(x)[x] # Match(y)[y]
    <3>1. first(x) + n(x) <= first(y)
      BY <1>1, <2>2, StretchesApart
    <3>2. /\ Match(x)[x] \in Int /\ Match(x)[x] < first(x) + n(x)
          /\ Match(y)[y] \in Int /\ Match(y)[y] >= first(y)
      BY <1>7, <1>8
    <3> HIDE DEF Match, first, n
    <3>3. QED
      BY <1>1, <1>3, <3>1, <3>2
  <2>3. created[p] = created[q] \/ created[p] < created[q] \/ created[q] < created[p]
    BY <1>1, <1>2
  <2>4. QED
    BY <1>9, <2>1, <2>2, <2>3
<1>10. place \in Injection(page, window)
  <2> HIDE DEF Match, window, Places
  <2>1. QED
    BY <1>7, <1>8, <1>9 DEF Injection, IsInjective
<1>11. IsFiniteSet(window) /\ Cardinality(window) = limit
  <2> DEFINE last == skip + limit - 1
  <2>1. /\ skip \in Int /\ last \in Int
        /\ limit = IF skip > last THEN 0 ELSE last - skip + 1
    OBVIOUS
  <2> HIDE DEF last
  <2>2. /\ IsFiniteSet(skip .. last)
        /\ Cardinality(skip .. last) = IF skip > last THEN 0 ELSE last - skip + 1
    BY <2>1, FS_Interval
  <2>3. QED
    BY <2>1, <2>2 DEF last
<1> HIDE DEF place, window
<1>12. Cardinality(page) <= limit
  BY <1>10, <1>11, FS_Injection
<1>13. QED
  BY <1>1, <1>12, FS_CardinalityType

\* Without ties the comments are ordered, and a page is a window of them.
LEMMA PageUntied ==
    ASSUME CommentTypes, ~Tied, NEW limit \in Nat, NEW skip \in Nat,
           NEW page \in PagesOf(limit, skip)
    PROVE  /\ Orders(created, Stored)
           /\ \A p \in Stored : Rank(Stored, created, p) = Cardinality(Before(p))
           /\ page = Window(Stored, created, skip, limit)
<1>1. \A p \in Stored : created[p] \in Int /\ Twins(p) = {p}
  BY DEF CommentTypes, Stored, Tied
<1>2. Orders(created, Stored)
  BY <1>1 DEF Orders, Twins
<1>3. \A p \in Stored : Rank(Stored, created, p) = Cardinality(Before(p))
  BY DEF Rank, Before
<1>4. page \subseteq Stored
  BY DEF PagesOf
<1>5. ASSUME NEW p \in Stored
      PROVE  p \in page <=> Cardinality(Before(p)) >= skip
                            /\ Cardinality(Before(p)) < skip + limit
  <2> DEFINE b == Cardinality(Before(p))
             there == {i \in b .. b + 1 - 1 : i >= skip /\ i < skip + limit}
  <2>1. b \in Nat
    BY StretchesApart
  <2>2. Cardinality({p}) = 1 /\ Cardinality({b}) = 1 /\ Cardinality({}) = 0
    BY FS_Singleton, FS_EmptySet
  <2>3. Cardinality(page \cap {p}) = Cardinality(there)
    BY <1>1, <2>2 DEF PagesOf, Overlap
  <2> HIDE DEF b
  <2>4. there = IF b >= skip /\ b < skip + limit THEN {b} ELSE {}
    BY <2>1
  <2>5. page \cap {p} = IF p \in page THEN {p} ELSE {}
    OBVIOUS
  <2> HIDE DEF there
  <2>6. p \in page <=> b >= skip /\ b < skip + limit
    BY <2>2, <2>3, <2>4, <2>5
  <2>7. QED
    BY <2>6 DEF b
<1>6. QED
  BY <1>2, <1>3, <1>4, <1>5 DEF Window

LEMMA CommentsInvInit == CommentsInit => CommentsInv
<1> SUFFICES ASSUME CommentsInit
             PROVE  CommentsInv
  OBVIOUS
<1>1. Stored = {}
  BY DEF CommentsInit, Stored
<1>2. CommentTypes
  BY <1>1, FS_EmptySet DEF CommentsInit, CommentTypes
<1>3. AckedOK /\ PromiseOK /\ WalkOK
  BY DEF CommentsInit, AckedOK, PromiseOK, WalkOK
<1>4. QED
  BY <1>2, <1>3 DEF CommentsInv

\* A post that is not stored changes nothing for the reader.
LEMMA ReaderUndisturbed ==
    ASSUME CommentTypes, PromiseOK, WalkOK,
           UNCHANGED <<exists, reader>>, Stored' = Stored,
           \A p \in Stored : created'[p] = created[p]
    PROVE  PromiseOK' /\ WalkOK'
<1>1. UNCHANGED <<exists, reading, received, shown, late>>
  BY DEF reader
<1>2. \A p \in Stored : Before(p)' = Before(p) /\ Twins(p)' = Twins(p)
  BY DEF Before, Twins
<1>3. Tied' <=> Tied
  BY <1>2 DEF Tied
<1>4. PromiseOK'
  BY <1>1 DEF PromiseOK
<1>5. WalkOK'
  <2> SUFFICES ASSUME exists, ~Tied, reading # "none"
               PROVE  /\ shown \subseteq Stored
                      /\ \/ received = 0
                         \/ \E q \in shown : Cardinality(Before(q)') + 1 >= received
                      /\ \A p \in Stored \ (late \cup shown) :
                            reading # "end" /\ Cardinality(Before(p)') >= received
    BY <1>1, <1>3 DEF WalkOK
  <2>1. /\ shown \subseteq Stored
        /\ received = 0 \/ \E q \in shown : Cardinality(Before(q)) + 1 >= received
        /\ \A p \in Stored \ (late \cup shown) :
              reading # "end" /\ Cardinality(Before(p)) >= received
    BY DEF WalkOK
  <2>2. \A p \in Stored : Cardinality(Before(p)') = Cardinality(Before(p))
    BY <1>2
  <2>3. QED
    BY <2>1, <2>2
<1>6. QED
  BY <1>4, <1>5

\* A comment that is stored comes behind the reader, and is late, or after
\* all it has received.
LEMMA StoreStep ==
    ASSUME CommentsInv, NEW p \in Posts, StorePost(p)
    PROVE  CommentsInv'
<1>1. CommentTypes /\ AckedOK /\ PromiseOK /\ WalkOK
  BY DEF CommentsInv
<1>2. /\ state[p] = "begun" /\ exists
      /\ state' = [state EXCEPT ![p] = "stored"]
      /\ late' = IF Behind(p) THEN late \cup {p} ELSE late
      /\ UNCHANGED <<exists, created, time, reading, received, shown>>
      /\ answer' = [answer EXCEPT ![p] = 201] \/ answer' = [answer EXCEPT ![p] = 500]
  BY DEF StorePost, Answer, Fails
<1>3. Stored' = Stored \cup {p} /\ p \notin Stored
  BY <1>1, <1>2 DEF CommentTypes, Stored
<1>4. IsFiniteSet(Stored) /\ IsFiniteSet(Stored')
  BY <1>1, <1>3, FS_AddElement DEF CommentTypes
<1>5. CommentTypes'
  <2>1. /\ exists' \in BOOLEAN /\ time' \in Nat /\ received' \in Nat
        /\ state' \in [Posts -> {"unsent", "begun", "stored", "none"}]
        /\ created' \in [Posts -> Nat]
        /\ answer' \in [Posts -> {0, 201, 400, 404, 500}]
    BY <1>1, <1>2 DEF CommentTypes
  <2>2. QED
    BY <1>4, <2>1 DEF CommentTypes
<1>6. AckedOK'
  BY <1>1, <1>2 DEF AckedOK, CommentTypes
<1>7. Cardinality(Stored) \in Nat /\ Cardinality(Stored') >= Cardinality(Stored)
      /\ Cardinality(Stored') \in Nat
  BY <1>3, <1>4, FS_Subset, FS_CardinalityType
<1>8. PromiseOK'
  BY <1>1, <1>2, <1>7 DEF PromiseOK, CommentTypes
<1>9. WalkOK'
  <2> SUFFICES ASSUME ~Tied', reading # "none"
               PROVE  /\ shown \subseteq Stored'
                      /\ \/ received = 0
                         \/ \E q \in shown : Cardinality(Before(q)') + 1 >= received
                      /\ \A q \in Stored' \ (late' \cup shown) :
                            reading # "end" /\ Cardinality(Before(q)') >= received
    BY <1>2 DEF WalkOK
  <2>1. \A q \in Stored' : Twins(q)' = {q}
    BY DEF Tied
  <2>2. \A q \in Stored : created[q] \in Nat /\ created[q] # created[p]
    <3>1. \A q \in Stored : created'[q] # created'[p]
      BY <1>3, <2>1 DEF Twins
    <3>2. QED
      BY <1>1, <1>2, <3>1 DEF CommentTypes, Stored
  <2>3. ~Tied
    <3>1. \A q \in Stored : Twins(q) = {q}
      BY <1>2, <1>3, <2>1 DEF Twins
    <3>2. QED
      BY <3>1 DEF Tied
  <2>4. /\ shown \subseteq Stored
        /\ received = 0 \/ \E q \in shown : Cardinality(Before(q)) + 1 >= received
        /\ \A q \in Stored \ (late \cup shown) :
              reading # "end" /\ Cardinality(Before(q)) >= received
        /\ received \in Nat
    BY <1>1, <1>2, <2>3 DEF WalkOK, CommentTypes
  <2>5. ASSUME NEW q \in Stored'
        PROVE  IsFiniteSet(Before(q)') /\ Cardinality(Before(q)') \in Nat
    BY <1>4, FS_Subset, FS_CardinalityType DEF Before
  <2>6. ASSUME NEW q \in Stored
        PROVE  /\ Cardinality(Before(q)) \in Nat
               /\ Cardinality(Before(q)) <= Cardinality(Before(q)')
    <3>1. Before(q) \in SUBSET Before(q)'
      BY <1>2, <1>3 DEF Before
    <3>2. QED
      BY <1>1, <1>3, <2>5, <3>1, FS_Subset, StretchesApart
  <2>7. \/ received = 0
        \/ \E q \in shown : Cardinality(Before(q)') + 1 >= received
    BY <1>3, <2>4, <2>5, <2>6
  <2>8. ASSUME ~Behind(p)
        PROVE  reading # "end" /\ Cardinality(Before(p)') >= received
    <3>1. /\ reading # "end"
          /\ \A q \in shown : q \in Stored /\ ~(created[q] > created[p])
      BY <2>4, <2>8 DEF Behind
    <3>2. \A q \in shown : created[q] < created[p]
      BY <1>1, <2>2, <3>1 DEF CommentTypes
    <3>3. ASSUME NEW q \in shown, Cardinality(Before(q)) + 1 >= received
          PROVE  Cardinality(Before(p)') >= received
      <4>1. Before(q) \cup {q} \in SUBSET Before(p)'
        BY <1>1, <1>2, <1>3, <2>2, <3>1, <3>2 DEF Before, CommentTypes, Stored
      <4>2. q \notin Before(q) /\ IsFiniteSet(Before(q)) /\ Cardinality(Before(q)) \in Nat
        BY <1>1, <2>2, <3>1, StretchesApart DEF Before
      <4>3. Cardinality(Before(q) \cup {q}) = Cardinality(Before(q)) + 1
        BY <4>2, FS_AddElement
      <4>4. Cardinality(Before(q) \cup {q}) <= Cardinality(Before(p)')
        BY <1>3, <2>5, <4>1, FS_Subset
      <4>5. QED
        BY <1>3, <2>4, <2>5, <3>3, <4>2, <4>3, <4>4
    <3>4. QED
      BY <1>3, <2>4, <2>5, <3>1, <3>3
  <2>9. \A q \in Stored' \ (late' \cup shown) :
            reading # "end" /\ Cardinality(Before(q)') >= received
    <3> SUFFICES ASSUME NEW q \in Stored', q \notin late', q \notin shown
                 PROVE  reading # "end" /\ Cardinality(Before(q)') >= received
      OBVIOUS
    <3>1. CASE q = p
      BY <1>2, <2>8, <3>1
    <3>2. CASE q # p
      <4>1. q \in Stored \ (late \cup shown)
        BY <1>2, <1>3, <3>2
      <4>2. QED
        BY <1>3, <2>4, <2>5, <2>6, <4>1
    <3>3. QED
      BY <3>1, <3>2
  <2>10. QED
    BY <1>3, <2>4, <2>7, <2>9
<1>10. QED
  BY <1>5, <1>6, <1>8, <1>9 DEF CommentsInv

\* A page takes the reader past its rows and past no other.
LEMMA ListStep ==
    ASSUME CommentsInv, NEW raw \in CommentLimits, ListComments(raw)
    PROVE  CommentsInv'
<1> DEFINE limit == ClampLimit(IntParam(raw, defaultCommentsLimit), maxCommentsLimit)
           size == Cardinality(Stored)
<1>1. CommentTypes /\ AckedOK /\ PromiseOK /\ WalkOK /\ received \in Nat
  BY DEF CommentsInv, CommentTypes
<1>2. limit \in Nat /\ limit >= 1
  <2>1. raw \in Int \cup {Absent, Invalid} /\ raw # Invalid
    BY CommentAssumption DEF ListComments
  <2>2. limit \in 1 .. maxCommentsLimit
    BY <2>1, LimitBounds, CommentAssumption
  <2> HIDE DEF limit
  <2>3. QED
    BY <2>2, CommentAssumption
<1>3. PICK page \in PagesOf(limit, received) :
          /\ shown' = shown \cup page
          /\ received' = received + Cardinality(page)
  BY DEF ListComments
<1>4. /\ reading = "list"
      /\ reading' = IF size > received + limit THEN "page" ELSE "end"
      /\ UNCHANGED <<exists, state, created, answer, time, faults, late>>
  BY DEF ListComments, HasMore, thread
<1> DEFINE k == Cardinality(page)
<1> HIDE DEF limit
<1>5. k \in Nat /\ k <= limit /\ page \subseteq Stored
  BY <1>1, <1>2, PageSize DEF PagesOf
<1>6. size \in Nat /\ IsFiniteSet(Stored)
  BY <1>1, FS_CardinalityType DEF CommentTypes
<1> HIDE DEF k, size
<1>7. Stored' = Stored /\ \A p : Before(p)' = Before(p) /\ Twins(p)' = Twins(p)
  BY <1>4 DEF Stored, Before, Twins
<1>8. CommentTypes'
  BY <1>1, <1>3, <1>4, <1>5, <1>7 DEF CommentTypes, k
<1>9. AckedOK'
  BY <1>1, <1>4 DEF AckedOK
<1>10. PromiseOK'
  <2> SUFFICES ASSUME reading' \in {"page", "check", "list"}
               PROVE  size > received'
    BY <1>7 DEF PromiseOK, size
  <2>1. size > received + limit
    BY <1>4
  <2>2. QED
    BY <1>1, <1>2, <1>3, <1>5, <1>6, <2>1 DEF k
<1>11. WalkOK'
  <2> SUFFICES ASSUME exists, ~Tied
               PROVE  /\ shown' \subseteq Stored
                      /\ \/ received' = 0
                         \/ \E q \in shown' : Cardinality(Before(q)) + 1 >= received'
                      /\ \A p \in Stored \ (late \cup shown') :
                            reading' # "end" /\ Cardinality(Before(p)) >= received'
    BY <1>4, <1>7 DEF WalkOK, Tied
  <2>1. /\ shown \subseteq Stored
        /\ received = 0 \/ \E q \in shown : Cardinality(Before(q)) + 1 >= received
        /\ \A p \in Stored \ (late \cup shown) : Cardinality(Before(p)) >= received
    BY <1>1, <1>4 DEF WalkOK
  <2>2. /\ Orders(created, Stored)
        /\ \A p \in Stored : Rank(Stored, created, p) = Cardinality(Before(p))
        /\ page = Window(Stored, created, received, limit)
    BY <1>1, <1>2, PageUntied
  <2>3. /\ received + limit <= size => k = limit
        /\ received <= size /\ size <= received + limit => received + k = size
    BY <1>1, <1>2, <1>6, <2>2, WindowSize DEF size, k
  <2>4. \A p \in Stored : p \in page <=>
            Cardinality(Before(p)) >= received /\ Cardinality(Before(p)) < received + limit
    BY <2>2 DEF Window
  <2>5. \A p \in Stored : Cardinality(Before(p)) \in 0 .. size - 1
    BY <1>6, <2>2, RankBounds DEF Orders, size
  <2>6. \/ received' = 0
        \/ \E q \in shown' : Cardinality(Before(q)) + 1 >= received'
    <3>1. CASE k = 0
      BY <1>1, <1>3, <2>1, <3>1 DEF k
    <3>2. CASE k # 0
      <4>1. page # {}
        BY <3>2, FS_EmptySet DEF k
      <4>2. PICK p \in Stored : Cardinality(Before(p)) >= received
        BY <1>5, <2>4, <4>1
      <4>3. received < size
        BY <1>1, <1>6, <2>5, <4>2
      <4>4. received + k - 1 \in 0 .. size - 1 /\ received + k - 1 >= received
            /\ received + k - 1 < received + limit
        BY <1>1, <1>2, <1>5, <1>6, <2>3, <3>2, <4>3
      <4>5. PICK q \in Stored : Rank(Stored, created, q) = received + k - 1
        BY <1>6, <2>2, <4>4, RanksFill DEF size
      <4>6. Cardinality(Before(q)) = received + k - 1
        BY <2>2, <4>5
      <4>7. q \in page
        BY <2>4, <4>4, <4>6
      <4>8. Cardinality(Before(q)) + 1 >= received'
        BY <1>1, <1>3, <1>5, <4>6 DEF k
      <4>9. QED
        BY <1>3, <4>7, <4>8
    <3>3. QED
      BY <3>1, <3>2
  <2>7. ASSUME NEW p \in Stored \ (late \cup shown')
        PROVE  reading' # "end" /\ Cardinality(Before(p)) >= received'
    <3>1. p \notin page /\ Cardinality(Before(p)) >= received
      BY <1>3, <2>1, <2>7
    <3>2. Cardinality(Before(p)) >= received + limit /\ Cardinality(Before(p)) < size
      BY <1>1, <1>2, <1>6, <2>4, <2>5, <2>7, <3>1
    <3>3. Cardinality(Before(p)) \in Nat
      BY <1>6, <2>5, <2>7
    <3>4. size > received + limit
      BY <1>1, <1>2, <1>6, <3>2, <3>3
    <3>5. Cardinality(Before(p)) >= received'
      BY <1>1, <1>2, <1>3, <1>5, <3>2, <3>3 DEF k
    <3>6. QED
      BY <1>4, <3>4, <3>5
  <2>8. QED
    BY <1>3, <1>5, <2>1, <2>6, <2>7
<1>12. QED
  BY <1>8, <1>9, <1>10, <1>11 DEF CommentsInv

\* A post that is refused or begins leaves the stored comments alone.
LEMMA PostStep ==
    ASSUME CommentsInv, NEW p \in Posts, RefuseBody(p) \/ BeginPost(p) \/ RefusePost(p)
    PROVE  CommentsInv'
<1>1. CommentTypes /\ AckedOK /\ PromiseOK /\ WalkOK
  BY DEF CommentsInv
<1>2. /\ state[p] \in {"unsent", "begun"}
      /\ \E s \in {"begun", "none"} : state' = [state EXCEPT ![p] = s]
      /\ UNCHANGED <<exists, reader>>
  BY DEF RefuseBody, BeginPost, RefusePost
<1>3. \/ answer' = answer
      \/ \E c \in {400, 404, 500} : answer' = [answer EXCEPT ![p] = c]
  BY DEF RefuseBody, BeginPost, RefusePost, Answer, Fails
<1>4. time' \in Nat
  <2>1. CASE BeginPost(p)
    <3>1. time' \in {time, time + 1}
      BY <2>1 DEF BeginPost
    <3>2. QED
      BY <1>1, <3>1 DEF CommentTypes
  <2>2. CASE RefuseBody(p) \/ RefusePost(p)
    BY <1>1, <2>2 DEF RefuseBody, RefusePost, CommentTypes
  <2>3. QED
    BY <2>1, <2>2
<1>5. created' = [created EXCEPT ![p] = time'] \/ created' = created
  BY DEF RefuseBody, BeginPost, RefusePost
<1>6. Stored' = Stored /\ \A q \in Stored : created'[q] = created[q]
  BY <1>1, <1>2, <1>5 DEF CommentTypes, Stored
<1>7. CommentTypes'
  <2>1. state' \in [Posts -> {"unsent", "begun", "stored", "none"}]
    BY <1>1, <1>2 DEF CommentTypes
  <2>2. answer' \in [Posts -> {0, 201, 400, 404, 500}]
    BY <1>1, <1>3 DEF CommentTypes
  <2>3. created' \in [Posts -> Nat]
    BY <1>1, <1>4, <1>5 DEF CommentTypes
  <2>4. exists' \in BOOLEAN /\ received' \in Nat
    BY <1>1, <1>2 DEF CommentTypes, reader
  <2>5. IsFiniteSet(Stored')
    BY <1>1, <1>6 DEF CommentTypes
  <2>6. QED
    BY <1>4, <2>1, <2>2, <2>3, <2>4, <2>5 DEF CommentTypes
<1>8. AckedOK'
  BY <1>1, <1>2, <1>3 DEF AckedOK, CommentTypes
<1>9. PromiseOK' /\ WalkOK'
  BY <1>1, <1>2, <1>6, ReaderUndisturbed
<1>10. QED
  BY <1>7, <1>8, <1>9 DEF CommentsInv

\* Between two pages the reader only moves on, starts again or gives up.
LEMMA ReaderStep ==
    ASSUME CommentsInv, StartReading \/ NextPage \/ Check \/ FailRead
    PROVE  CommentsInv'
<1>1. CommentTypes /\ AckedOK /\ PromiseOK /\ WalkOK
  BY DEF CommentsInv
<1>2. UNCHANGED <<exists, state, created, answer, time, faults>>
  BY DEF StartReading, NextPage, Check, FailRead, thread
<1>3. Stored' = Stored /\ \A p : Before(p)' = Before(p) /\ Twins(p)' = Twins(p)
  BY <1>2 DEF Stored, Before, Twins
<1>4. Tied' <=> Tied
  BY <1>3 DEF Tied
<1>5. AckedOK'
  BY <1>1, <1>2 DEF AckedOK
<1>6. CASE StartReading
  <2>1. reading' = "check" /\ received' = 0 /\ shown' = {} /\ late' = {}
    BY <1>6 DEF StartReading
  <2>2. CommentTypes'
    BY <1>1, <1>2, <1>3, <2>1 DEF CommentTypes
  <2>3. PromiseOK'
    BY <2>1 DEF PromiseOK
  <2>4. \A p \in Stored : Cardinality(Before(p)) >= 0
    BY <1>1, StretchesApart
  <2>5. WalkOK'
    BY <1>3, <2>1, <2>4 DEF WalkOK
  <2>6. QED
    BY <1>5, <2>2, <2>3, <2>5 DEF CommentsInv
<1>7. CASE NextPage \/ Check \/ FailRead
  <2>1. /\ reading \in {"page", "check", "list"} /\ reading' \in {"check", "list", "none"}
        /\ UNCHANGED <<received, shown, late>>
    BY <1>7 DEF NextPage, Check, FailRead
  <2>2. CommentTypes'
    BY <1>1, <1>2, <1>3, <2>1 DEF CommentTypes
  <2>3. PromiseOK'
    BY <1>1, <1>2, <1>3, <2>1 DEF PromiseOK
  <2>4. WalkOK'
    BY <1>1, <1>2, <1>3, <1>4, <2>1 DEF WalkOK
  <2>5. QED
    BY <1>5, <2>2, <2>3, <2>4 DEF CommentsInv
<1>8. QED
  BY <1>6, <1>7

LEMMA CommentsInvStep == CommentsInv /\ [CommentsNext]_commentVars => CommentsInv'
<1> SUFFICES ASSUME CommentsInv, [CommentsNext]_commentVars
             PROVE  CommentsInv'
  OBVIOUS
<1>1. CommentTypes /\ AckedOK /\ PromiseOK /\ WalkOK
  BY DEF CommentsInv
<1>2. ASSUME NEW p \in Posts, RefuseBody(p) \/ BeginPost(p) \/ RefusePost(p)
      PROVE  CommentsInv'
  BY <1>2, PostStep
<1>3. ASSUME NEW p \in Posts, StorePost(p)
      PROVE  CommentsInv'
  BY <1>3, StoreStep
<1>4. CASE DeleteThread
  <2>1. /\ exists' = FALSE
        /\ state' = [p \in Posts |-> IF p \in Stored THEN "none" ELSE state[p]]
        /\ UNCHANGED <<created, answer, time, received>>
    BY <1>4 DEF DeleteThread, reader
  <2>2. Stored' = {}
    BY <2>1 DEF Stored
  <2>3. CommentTypes'
    <3>1. state' \in [Posts -> {"unsent", "begun", "stored", "none"}]
      BY <1>1, <2>1 DEF CommentTypes
    <3>2. /\ exists' \in BOOLEAN
          /\ created' \in [Posts -> Nat] /\ time' \in Nat
          /\ answer' \in [Posts -> {0, 201, 400, 404, 500}]
          /\ received' \in Nat
      BY <1>1, <2>1 DEF CommentTypes
    <3>3. IsFiniteSet(Stored')
      BY <2>2, FS_EmptySet
    <3>4. QED
      BY <3>1, <3>2, <3>3 DEF CommentTypes
  <2>4. AckedOK' /\ PromiseOK' /\ WalkOK'
    BY <2>1 DEF AckedOK, PromiseOK, WalkOK
  <2>5. QED
    BY <2>3, <2>4 DEF CommentsInv
<1>5. CASE StartReading \/ NextPage \/ Check \/ FailRead
  BY <1>5, ReaderStep
<1>6. ASSUME NEW raw \in CommentLimits, ListComments(raw)
      PROVE  CommentsInv'
  BY <1>6, ListStep
<1>7. CASE UNCHANGED commentVars
  <2>1. UNCHANGED <<exists, state, created, answer, time, faults, reader>>
    BY <1>7 DEF commentVars, thread
  <2>2. Stored' = Stored
    BY <2>1 DEF Stored
  <2>3. CommentTypes' /\ AckedOK'
    BY <1>1, <2>1, <2>2 DEF CommentTypes, AckedOK, reader
  <2>4. PromiseOK' /\ WalkOK'
    BY <1>1, <2>1, <2>2, ReaderUndisturbed
  <2>5. QED
    BY <2>3, <2>4 DEF CommentsInv
<1>8. QED
  BY <1>2, <1>3, <1>4, <1>5, <1>6, <1>7 DEF CommentsNext

LEMMA CommentsInvariant == CommentsSpec => []CommentsInv
BY CommentsInvInit, CommentsInvStep, PTL DEF CommentsSpec

\* A walk through the comments of a rumour to its end shows every comment that
\* is stored or was answered with a 201, whatever is posted, fails or is
\* refused meanwhile, but those stored behind the reader; two comments of one
\* created_at may be swapped between pages (WalkMissesOnlyLatecomers).
THEOREM WalkShowsTheComments == CommentsSpec => []WalkMissesOnlyLatecomers
<1>1. CommentsInv => WalkMissesOnlyLatecomers
  <2> SUFFICES ASSUME CommentsInv, reading = "end", exists, ~Tied
               PROVE  (Stored \cup Created) \ late \subseteq shown
    BY DEF WalkMissesOnlyLatecomers
  <2>1. Created \subseteq Stored
    BY DEF CommentsInv, AckedOK, Created, Stored
  <2>2. Stored \ late \subseteq shown
    BY DEF CommentsInv, WalkOK
  <2>3. QED
    BY <2>1, <2>2
<1>2. QED
  BY <1>1, CommentsInvariant, PTL

\* has_more is kept: the page it promises has a row, in every order of ties,
\* unless the rumour was deleted since (EmptyPageMeansDeleted).
THEOREM PromisedPageHasRows == CommentsSpec => []EmptyPageMeansDeleted
<1>1. CommentsInv => EmptyPageMeansDeleted
  <2> SUFFICES ASSUME CommentsInv, reading = "list", shown # {}, exists,
                      Cardinality(Stored) <= received
               PROVE  FALSE
    BY DEF EmptyPageMeansDeleted
  <2>1. Cardinality(Stored) > received
    BY DEF CommentsInv, PromiseOK
  <2>2. Cardinality(Stored) \in Nat /\ received \in Nat
    BY FS_CardinalityType DEF CommentsInv, CommentTypes
  <2>3. QED
    BY <2>1, <2>2
<1>2. QED
  BY <1>1, CommentsInvariant, PTL
=============================================================================
