-------------------------- MODULE OrderBookProofs --------------------------
(***************************************************************************)
(* Proofs about OrderBook: its type invariant, that views are the best     *)
(* levels in order, that everyone who reads a book sees the same one, and, *)
(* with one event in an envelope, that a fresh book is the venue's.        *)
(***************************************************************************)
EXTENDS OrderBook, FiniteSetTheorems, FunctionTheorems, SequenceTheorems, TLAPS

-----------------------------------------------------------------------------
(* The inductive invariants *)

Envelope == [seq : 1..MaxSeq, events : Seq(Event)]

\* TypeOK, in the form in which it is inductive
BooksTyped ==
  /\ venueBook \in [Topics -> VenueBook]
  /\ nextSeq \in 1..(MaxSeq + 1)
  /\ owed \subseteq wanted /\ wanted \subseteq Topics
  /\ covered \subseteq wanted /\ covered \subseteq KnownTopics /\ KnownTopics \subseteq Topics
  /\ wire \in Seq(Envelope) /\ Len(wire) <= MaxInFlight
  /\ \A i \in 1..Len(wire) : wire[i].events # <<>>
  /\ reconnects \in 0..MaxReconnects
  /\ suspended \in Seq(Envelope)
  /\ reading \in BOOLEAN
  /\ books \in [KnownTopics -> BookState]
  /\ expected \in [Topics -> VenueBook]

\* What a subscriber was last given is what the store has, and a book has a
\* reason to be stale exactly when it is.
SeenIsCurrent ==
  /\ \A t \in wanted : seen[t] = IF Known(t) THEN Content(FullView(t)) ELSE Unseen
  /\ \A t \in KnownTopics : books[t].stale <=> books[t].staleReason # ""

\* seen is typed only by what views return
SeenTyped == seen \in [Topics -> [bids : Seq(Level), asks : Seq(Level), sequence : 0..MaxSeq]]

ReadersInv == BooksTyped /\ SeenTyped /\ SeenIsCurrent

\* With one event in an envelope no handle() call has a frame left after the
\* await of its first one.
SingleEvents ==
  /\ \A i \in 1..Len(wire) : Len(wire[i].events) = 1
  /\ \A i \in 1..Len(suspended) : suspended[i].events = <<>>

\* The event of the i-th envelope on a wire.  The place after the last
\* envelope stands for what the venue sends next: it has the venue's book
\* and the next number.
Sent(w, i) == w[i].events[1]
Places(w) == 1..(Len(w) + 1)
NumberAt(w, n, i) == IF i = Len(w) + 1 THEN n ELSE w[i].seq
At(w, t, i) == i <= Len(w) => Sent(w, i).topic = t

\* What comes at a place is a change of book b, or a book of its own.
Follows(w, v, i, b) ==
  IF i = Len(w) + 1 THEN v = b
  ELSE Sent(w, i).kind = "update" => Sent(w, i).after = Changed(b, Sent(w, i).change)

\* Every event of a topic follows the one before it, and the venue's book
\* follows the last one.
Chained(w, v, t) ==
  \A j \in 1..Len(w), i \in Places(w) :
    /\ j < i
    /\ Sent(w, j).topic = t
    /\ At(w, t, i)
    /\ \A k \in 1..Len(w) : j < k /\ k < i => Sent(w, k).topic # t
    => Follows(w, v, i, Sent(w, j).after)

\* The first event of a topic follows book b, unless a snapshot is owed.
Continues(w, v, o, t, b) ==
  \A i \in Places(w) :
    /\ At(w, t, i)
    /\ \A k \in 1..Len(w) : k < i => Sent(w, k).topic # t
    /\ i = Len(w) + 1 => t \notin o
    => Follows(w, v, i, b)

\* Until a snapshot of the topic comes its events are newer than number s.
Newer(w, n, o, t, s) ==
  \A i \in Places(w) :
    /\ At(w, t, i)
    /\ \A k \in 1..Len(w) : k <= i /\ Sent(w, k).topic = t => Sent(w, k).kind = "update"
    /\ i = Len(w) + 1 => t \notin o
    => NumberAt(w, n, i) > s

Numbered(w, n) == \A i, j \in Places(w) : i < j => NumberAt(w, n, i) < NumberAt(w, n, j)

\* A fresh book of a subscribed topic is the venue's after the last event
\* that reached the hub, and the next event applies to it.
BookIsCurrent(t) ==
  /\ books[t].levels = expected[t]
  /\ Continues(wire, venueBook[t], owed, t, expected[t])
  /\ Newer(wire, nextSeq, owed, t, books[t].sequence)

WireIsChained == Numbered(wire, nextSeq) /\ \A t \in Topics : Chained(wire, venueBook[t], t)

FreshInv ==
  /\ SingleEvents
  /\ WireIsChained
  /\ \A t \in covered : books[t].stale \/ BookIsCurrent(t)

-----------------------------------------------------------------------------
(* Sorting *)

\* Levels of which no two have the same price, as the keys of a Map
Distinct(levels) ==
  /\ levels \subseteq Level
  /\ IsFiniteSet(levels)
  /\ \A l, m \in levels : l.price = m.price => l = m

Ahead(levels, side, l) == {m \in levels : Better(side, m.price, l.price)}

Rank(levels, side, l) == 1 + Cardinality(Ahead(levels, side, l))

(* parseFloat has been applied: prices are numbers.                        *)
LEMMA PriceIsNumber ==
  ASSUME NEW l \in Level
  PROVE  l.price \in Int
<1>1. l.price \in Prices BY DEF Level
<1>2. \A p \in Prices : p \in Int BY LevelsAssumption
<1> QED BY <1>1, <1>2, Zenon

(* A level has fewer levels ahead than every level it is ahead of:         *)
(* comparing prices (topNLevels) orders the levels.                        *)
LEMMA RankFollowsPrice ==
  ASSUME NEW levels, NEW side, Distinct(levels), NEW l \in levels, NEW m \in levels,
         Better(side, l.price, m.price)
  PROVE  Rank(levels, side, l) < Rank(levels, side, m)
<1>0. levels \subseteq Level /\ l \in Level /\ m \in Level /\ IsFiniteSet(levels) BY DEF Distinct
<1>1. l.price \in Int /\ m.price \in Int BY <1>0, PriceIsNumber
<1>2. Ahead(levels, side, l) \subseteq Ahead(levels, side, m)
  <2>1. SUFFICES ASSUME NEW k \in levels, Better(side, k.price, l.price)
                 PROVE  Better(side, k.price, m.price)
    BY DEF Ahead
  <2>2. k.price \in Int BY <1>0, PriceIsNumber
  <2> QED BY <1>1, <2>1, <2>2 DEF Better
<1>3. l \in Ahead(levels, side, m) BY DEF Ahead
<1>4. l \notin Ahead(levels, side, l) BY <1>1 DEF Ahead, Better
<1>5. /\ IsFiniteSet(Ahead(levels, side, m))
      /\ Ahead(levels, side, m) \in SUBSET levels
  <2>1. Ahead(levels, side, m) \in SUBSET levels BY DEF Ahead
  <2> QED BY <2>1, <1>0, FS_Subset
<1>6. /\ Cardinality(Ahead(levels, side, l)) <= Cardinality(Ahead(levels, side, m))
      /\ Cardinality(Ahead(levels, side, m)) # Cardinality(Ahead(levels, side, l))
      /\ IsFiniteSet(Ahead(levels, side, l))
  BY <1>2, <1>3, <1>4, <1>5, FS_Subset
<1>7. Cardinality(Ahead(levels, side, l)) \in Nat /\ Cardinality(Ahead(levels, side, m)) \in Nat
  BY <1>5, <1>6, FS_CardinalityType
<1> QED BY <1>6, <1>7 DEF Rank

(* Of two levels one is ahead: no two levels of a side have one price.     *)
LEMMA OneIsAhead ==
  ASSUME NEW levels, NEW side, Distinct(levels), NEW l \in levels, NEW m \in levels, l # m
  PROVE  Better(side, l.price, m.price) \/ Better(side, m.price, l.price)
<1>0. l \in Level /\ m \in Level BY DEF Distinct
<1>1. l.price \in Int /\ m.price \in Int BY <1>0, PriceIsNumber
<1>2. l.price # m.price BY DEF Distinct
<1> QED BY <1>1, <1>2 DEF Better

(* The rank of a level is a position in the sorted sequence.               *)
LEMMA RankIsPosition ==
  ASSUME NEW levels, NEW side, Distinct(levels), NEW l \in levels
  PROVE  Rank(levels, side, l) \in 1..Cardinality(levels)
<1>0. IsFiniteSet(levels) /\ l \in Level BY DEF Distinct
<1>1. IsFiniteSet(levels) /\ l.price \in Int BY <1>0, PriceIsNumber
<1>2. Ahead(levels, side, l) \in SUBSET levels BY DEF Ahead
<1>3. l \notin Ahead(levels, side, l) BY <1>1 DEF Ahead, Better
<1>4. /\ Cardinality(Ahead(levels, side, l)) <= Cardinality(levels)
      /\ Cardinality(levels) # Cardinality(Ahead(levels, side, l))
      /\ IsFiniteSet(Ahead(levels, side, l))
  BY <1>1, <1>2, <1>3, FS_Subset
<1>5. Cardinality(Ahead(levels, side, l)) \in Nat /\ Cardinality(levels) \in Nat
  BY <1>1, <1>4, FS_CardinalityType
<1> QED BY <1>4, <1>5 DEF Rank

(* There is a sorted sequence of the levels of a side, so BestFirst, which *)
(* stands for Array.sort in topNLevels, is one.                            *)
LEMMA BestFirstSorts ==
  ASSUME NEW levels, NEW side, Distinct(levels)
  PROVE  LET n == Cardinality(levels)
             s == BestFirst(levels, side)
         IN /\ n \in Nat
            /\ s \in [1..n -> levels]
            /\ \A i, j \in 1..n : i < j => Better(side, s[i].price, s[j].price)
<1> DEFINE n == Cardinality(levels)
           rank == [l \in levels |-> Rank(levels, side, l)]
<1>1. IsFiniteSet(levels) /\ n \in Nat BY FS_CardinalityType DEF Distinct
<1>2. rank \in [levels -> 1..n] BY RankIsPosition
<1>3. \A l, m \in levels : rank[l] = rank[m] => l = m
  <2>1. SUFFICES ASSUME NEW l \in levels, NEW m \in levels, l # m PROVE rank[l] # rank[m]
    BY Zenon
  <2>2. rank[l] \in Int /\ rank[m] \in Int BY <1>2, <1>1
  <2>3. rank[l] < rank[m] \/ rank[m] < rank[l]
    BY <2>1, OneIsAhead, RankFollowsPrice
  <2> HIDE DEF rank
  <2> QED BY <2>2, <2>3
<1>4. rank \in Injection(levels, 1..n)
  BY <1>2, <1>3, Fun_IsInj
<1>5. IsFiniteSet(1..n) /\ Cardinality(1..n) = n
  <2>1. IsFiniteSet(1..n) /\ Cardinality(1..n) = IF 1 > n THEN 0 ELSE n - 1 + 1
    BY <1>1, FS_Interval
  <2> HIDE DEF n
  <2> QED BY <2>1, <1>1
<1>6. rank \in Surjection(levels, 1..n)
  <2>1. Cardinality(levels) = Cardinality(1..n) <=> rank \in Surjection(levels, 1..n)
    BY <1>4, <1>5, FS_Injection, Zenon
  <2> QED BY <2>1, <1>5
<1>7. \A i \in 1..n : \E l \in levels : rank[l] = i
  <2> HIDE DEF rank
  <2> QED BY <1>6, Fun_SurjectionProperties, Zenon
<1> DEFINE s == [i \in 1..n |-> CHOOSE l \in levels : rank[l] = i]
<1>8. s \in [1..n -> levels] /\ \A i \in 1..n : rank[s[i]] = i
  BY <1>7
<1>9. ASSUME NEW i \in 1..n, NEW j \in 1..n, i < j
      PROVE  Better(side, s[i].price, s[j].price)
  <2>1. s[i] \in levels /\ s[j] \in levels /\ rank[s[i]] = i /\ rank[s[j]] = j BY <1>8
  <2>2. s[i] # s[j] BY <2>1, <1>9
  <2>3. CASE Better(side, s[j].price, s[i].price)
    <3>1. rank[s[j]] < rank[s[i]] BY <2>1, <2>3, RankFollowsPrice
    <3> HIDE DEF rank, s
    <3> QED BY <3>1, <2>1, <1>9
  <2> HIDE DEF s
  <2> QED BY <2>1, <2>2, <2>3, OneIsAhead
<1> HIDE DEF s, rank
<1>10. \E f \in [1..n -> levels] :
         \A i, j \in 1..n : i < j => Better(side, f[i].price, f[j].price)
  BY <1>8, <1>9
<1> QED BY <1>1, <1>10 DEF BestFirst

(* A side is a Map from price to size (BookState): its levels are distinct *)
(* and finitely many.                                                      *)
LEMMA SideIsDistinct ==
  ASSUME NEW b \in BookState, NEW side \in Sides
  PROVE  Distinct(LevelsOf(b, side))
<1> DEFINE map == b.levels[side]
           prices == {q \in Prices : map[q] # 0}
           level == [p \in prices |-> [price |-> p, size |-> map[p]]]
<1>1. map \in [Prices -> Sizes] BY DEF BookState, VenueBook
<1>2. LevelsOf(b, side) = {[price |-> p, size |-> map[p]] : p \in prices} BY DEF LevelsOf
<1> HIDE DEF map
<1>3. LevelsOf(b, side) \subseteq Level BY <1>1, <1>2 DEF Level
<1>4. IsFiniteSet(prices) BY LevelsAssumption, FS_Subset, prices \in SUBSET Prices
<1>5. level \in Surjection(prices, LevelsOf(b, side))
  <2>1. level \in [prices -> LevelsOf(b, side)] BY <1>2
  <2>2. \A l \in LevelsOf(b, side) : \E p \in prices : level[p] = l BY <1>2
  <2> HIDE DEF level
  <2> QED BY <2>1, <2>2, Fun_IsSurj
<1> HIDE DEF level, prices
<1>6. IsFiniteSet(LevelsOf(b, side)) BY <1>4, <1>5, FS_Surjection
<1>7. \A l, m \in LevelsOf(b, side) : l.price = m.price => l = m BY <1>2
<1> QED BY <1>3, <1>6, <1>7 DEF Distinct

\* The number of levels topNLevels returns
Shown(b, side, depth) ==
  IF depth < Cardinality(LevelsOf(b, side)) THEN depth ELSE Cardinality(LevelsOf(b, side))

(* topNLevels: the first levels of the sorted side, as many as there are.  *)
LEMMA TopNLevelsAreFirst ==
  ASSUME NEW b \in BookState, NEW side \in Sides, NEW depth \in Nat
  PROVE  LET s == BestFirst(LevelsOf(b, side), side)
             k == Shown(b, side, depth)
             top == TopNLevels(b, side, depth)
         IN /\ k \in Nat
            /\ top \in Seq(Level)
            /\ DOMAIN top = 1..k
            /\ \A i \in 1..k : top[i] = s[i]
<1> DEFINE levels == LevelsOf(b, side)
           n == Cardinality(levels)
           s == BestFirst(levels, side)
           k == Shown(b, side, depth)
<1>1. Distinct(levels) BY SideIsDistinct
<1>2. n \in Nat /\ s \in [1..n -> levels] BY <1>1, BestFirstSorts
<1>3. levels \subseteq Level BY <1>1 DEF Distinct
<1>4. k = IF depth < n THEN depth ELSE n BY DEF Shown
<1>5. TopNLevels(b, side, depth) = SubSeq(s, 1, IF depth < Len(s) THEN depth ELSE Len(s))
  BY DEF TopNLevels
<1> HIDE DEF n, k, s, levels
<1>6. s \in Seq(Level) /\ Len(s) = n
  <2>1. s \in [1..n -> Level] BY <1>2, <1>3
  <2> QED BY <2>1, <1>2
<1>7. TopNLevels(b, side, depth) = SubSeq(s, 1, k) BY <1>4, <1>5, <1>6
<1>8. k \in 0..n BY <1>2, <1>4
<1>9. /\ SubSeq(s, 1, k) \in Seq(Level)
      /\ DOMAIN SubSeq(s, 1, k) = 1..k
      /\ \A i \in 1..k : SubSeq(s, 1, k)[i] = s[i]
  BY <1>2, <1>6, <1>8
<1> QED BY <1>2, <1>7, <1>8, <1>9 DEF s, k, levels

(* A view and what is published of it are lists of levels (getView).       *)
LEMMA ContentIsTyped ==
  ASSUME NEW b \in BookState, NEW depth \in Nat
  PROVE  Content(View(b, depth)) \in [bids : Seq(Level), asks : Seq(Level), sequence : 0..MaxSeq]
<1>1. TopNLevels(b, "bid", depth) \in Seq(Level) BY TopNLevelsAreFirst DEF Sides
<1>2. TopNLevels(b, "offer", depth) \in Seq(Level) BY TopNLevelsAreFirst DEF Sides
<1>3. b.sequence \in 0..MaxSeq
  <2>1. b.sequence \in 1..MaxSeq BY DEF BookState
  <2>2. MaxSeq \in Nat BY BoundsAssumption
  <2> QED BY <2>1, <2>2
<1> QED BY <1>1, <1>2, <1>3 DEF Content, View

(* What is published of a book does not depend on its staleness.           *)
LEMMA ContentIsOfLevels ==
  ASSUME NEW b, NEW c, NEW depth, b.levels = c.levels, b.sequence = c.sequence
  PROVE  Content(View(b, depth)) = Content(View(c, depth))
<1>1. \A side : LevelsOf(b, side) = LevelsOf(c, side) BY DEF LevelsOf
<1>2. ASSUME NEW side PROVE TopNLevels(b, side, depth) = TopNLevels(c, side, depth)
  <2>1. LevelsOf(b, side) = LevelsOf(c, side) BY <1>1
  <2> QED BY <2>1, Zenon DEF TopNLevels
<1> QED BY <1>2 DEF Content, View

(* ViewsAreBestFirst of one book: the levels shown are those with fewer    *)
(* better ones than the depth, in order, and the search for the best level *)
(* (bestPriceLevel) finds the first.                                       *)
LEMMA TopNLevelsAreBest ==
  ASSUME NEW b \in BookState, NEW side \in Sides, NEW depth \in Nat \ {0}
  PROVE  LET top == TopNLevels(b, side, depth)
         IN /\ ToSet(top) = BestLevels(b, side, depth)
            /\ \A i, j \in DOMAIN top : i < j => Better(side, top[i].price, top[j].price)
            /\ BestPriceLevel(b, side) = {top[i] : i \in DOMAIN top \cap {1}}
<1> DEFINE levels == LevelsOf(b, side)
           n == Cardinality(levels)
           s == BestFirst(levels, side)
           k == Shown(b, side, depth)
           top == TopNLevels(b, side, depth)
<1>1. Distinct(levels) BY SideIsDistinct
<1>2. /\ n \in Nat
      /\ s \in [1..n -> levels]
      /\ \A i, j \in 1..n : i < j => Better(side, s[i].price, s[j].price)
  BY <1>1, BestFirstSorts
<1>3. /\ DOMAIN top = 1..k
      /\ \A i \in 1..k : top[i] = s[i]
  BY TopNLevelsAreFirst
<1>4. k = IF depth < n THEN depth ELSE n BY DEF Shown
<1> HIDE DEF n, s, k, top, levels
<1>5. \A l \in levels : l.price \in Int
  BY <1>1, PriceIsNumber DEF Distinct
<1>6. k \in Nat /\ k <= n /\ k <= depth /\ (k < n => k = depth) BY <1>2, <1>4
<1>7. \A i \in 1..n : s[i] \in levels BY <1>2
<1>8. \A i, j \in 1..n : Better(side, s[i].price, s[j].price) <=> i < j
  <2>1. SUFFICES ASSUME NEW i \in 1..n, NEW j \in 1..n, ~(i < j)
                 PROVE  ~Better(side, s[i].price, s[j].price)
    BY <1>2, Zenon
  <2>2. s[i].price \in Int /\ s[j].price \in Int BY <1>5, <1>7
  <2>3. CASE i = j BY <2>2, <2>3 DEF Better
  <2>4. CASE i # j
    <3>1. j < i BY <2>1, <2>4, <1>2
    <3>2. Better(side, s[j].price, s[i].price) BY <3>1, <1>2
    <3> QED BY <3>2, <2>2 DEF Better
  <2> QED BY <2>3, <2>4
<1>9. \A l \in levels : \E i \in 1..n : s[i] = l
  <2>1. \A i, j \in 1..n : s[i] = s[j] => i = j
    <3>1. SUFFICES ASSUME NEW i \in 1..n, NEW j \in 1..n, s[i] = s[j], i # j PROVE FALSE
      BY Zenon
    <3>2. i < j \/ j < i BY <3>1, <1>2
    <3>3. Better(side, s[i].price, s[i].price) BY <3>1, <3>2, <1>8
    <3>4. s[i].price \in Int BY <1>5, <1>7
    <3> QED BY <3>3, <3>4 DEF Better
  <2>2. s \in Injection(1..n, levels) BY <1>2, <2>1, Fun_IsInj
  <2>3. IsFiniteSet(levels) BY <1>1 DEF Distinct
  <2>4. Cardinality(1..n) = n
    <3>1. Cardinality(1..n) = IF 1 > n THEN 0 ELSE n - 1 + 1 BY <1>2, FS_Interval
    <3> QED BY <3>1, <1>2
  <2>5. Cardinality(1..n) = Cardinality(levels) <=> s \in Surjection(1..n, levels)
    BY <2>2, <2>3, FS_Injection, Zenon
  <2>6. s \in Surjection(1..n, levels) BY <2>4, <2>5 DEF n
  <2> QED BY <2>6 DEF Surjection
<1>10. \A i \in 1..n : Cardinality(Ahead(levels, side, s[i])) = i - 1
  <2>1. SUFFICES ASSUME NEW i \in 1..n PROVE Cardinality(Ahead(levels, side, s[i])) = i - 1
    BY Zenon
  <2> DEFINE first == [j \in 1..(i - 1) |-> s[j]]
  <2>2. Ahead(levels, side, s[i]) = {s[j] : j \in 1..(i - 1)}
    <3>1. ASSUME NEW m \in Ahead(levels, side, s[i]) PROVE \E j \in 1..(i - 1) : m = s[j]
      <4>1. m \in levels /\ Better(side, m.price, s[i].price) BY DEF Ahead
      <4>2. PICK j \in 1..n : s[j] = m BY <4>1, <1>9
      <4>3. j < i BY <4>1, <4>2, <1>8
      <4> QED BY <4>2, <4>3, <1>2
    <3>2. ASSUME NEW j \in 1..(i - 1) PROVE s[j] \in Ahead(levels, side, s[i])
      <4>1. j \in 1..n /\ j < i BY <1>2
      <4> QED BY <4>1, <1>7, <1>8 DEF Ahead
    <3> QED BY <3>1, <3>2
  <2>3. first \in Injection(1..(i - 1), Ahead(levels, side, s[i]))
    <3>1. first \in [1..(i - 1) -> Ahead(levels, side, s[i])] BY <2>2
    <3>2. ASSUME NEW j \in 1..(i - 1), NEW m \in 1..(i - 1), first[j] = first[m] PROVE j = m
      <4>1. j \in 1..n /\ m \in 1..n /\ s[j] = s[m] BY <1>2, <3>2
      <4>2. s[j].price \in Int BY <4>1, <1>5, <1>7
      <4>3. ~Better(side, s[j].price, s[m].price) /\ ~Better(side, s[m].price, s[j].price)
        BY <4>1, <4>2 DEF Better
      <4> QED BY <4>1, <4>3, <1>8, <1>2
    <3> HIDE DEF first
    <3> QED BY <3>1, <3>2, Fun_IsInj
  <2>4. first \in Surjection(1..(i - 1), Ahead(levels, side, s[i]))
    <3>1. first \in [1..(i - 1) -> Ahead(levels, side, s[i])] BY <2>2
    <3>2. \A l \in Ahead(levels, side, s[i]) : \E j \in 1..(i - 1) : first[j] = l BY <2>2
    <3> HIDE DEF first
    <3> QED BY <3>1, <3>2, Fun_IsSurj
  <2> HIDE DEF first
  <2>5. ExistsBijection(1..(i - 1), Ahead(levels, side, s[i]))
    BY <2>3, <2>4, Fun_IsBij, Fun_ExistsBij
  <2>6. i - 1 \in Nat BY <1>2
  <2> QED BY <2>5, <2>6, FS_CountingElements
<1>11. BestLevels(b, side, depth) = {l \in levels : Cardinality(Ahead(levels, side, l)) < depth}
  BY DEF BestLevels, Ahead, levels
<1>12. ToSet(top) = BestLevels(b, side, depth)
  <2>1. ASSUME NEW i \in 1..k
        PROVE  top[i] \in levels /\ Cardinality(Ahead(levels, side, top[i])) < depth
    <3>1. i \in 1..n /\ i - 1 < depth /\ top[i] = s[i] BY <1>2, <1>3, <1>6
    <3> QED BY <3>1, <1>7, <1>10
  <2>2. ASSUME NEW l \in levels, Cardinality(Ahead(levels, side, l)) < depth
        PROVE  \E i \in 1..k : top[i] = l
    <3>1. PICK i \in 1..n : s[i] = l BY <1>9
    <3>2. i - 1 < depth BY <3>1, <2>2, <1>10
    <3>3. i \in 1..k BY <3>2, <1>2, <1>6
    <3> QED BY <3>1, <3>3, <1>3
  <2>3. ToSet(top) = {top[i] : i \in 1..k} BY <1>3 DEF ToSet
  <2> QED BY <1>11, <2>1, <2>2, <2>3
<1>13. \A i, j \in DOMAIN top : i < j => Better(side, top[i].price, top[j].price)
  BY <1>2, <1>3, <1>6
<1>14. BestPriceLevel(b, side) = {top[i] : i \in DOMAIN top \cap {1}}
  <2>1. BestPriceLevel(b, side) = {l \in levels : \A m \in levels : ~Better(side, m.price, l.price)}
    BY DEF BestPriceLevel, levels
  <2>2. CASE n = 0
    <3>1. levels = {} BY <1>9, <2>2
    <3>2. 1 \notin DOMAIN top BY <1>3, <1>6, <2>2
    <3> QED BY <2>1, <3>1, <3>2
  <2>3. CASE n # 0
    <3>1. 1 \in 1..n /\ 1 \in 1..k BY <2>3, <1>2, <1>4
    <3>2. top[1] = s[1] /\ {top[i] : i \in DOMAIN top \cap {1}} = {s[1]} BY <3>1, <1>3
    <3>3. \A i \in 1..n : ~Better(side, s[i].price, s[1].price) BY <3>1, <1>8
    <3>4. \A m \in levels : ~Better(side, m.price, s[1].price) BY <3>3, <1>9, Zenon
    <3>5. ASSUME NEW l \in levels, \A m \in levels : ~Better(side, m.price, l.price)
          PROVE  l = s[1]
      <4>1. PICK i \in 1..n : s[i] = l BY <1>9
      <4>2. ~(1 < i) BY <4>1, <3>1, <3>5, <1>7, <1>8
      <4> QED BY <4>1, <4>2, <1>2
    <3> QED BY <2>1, <3>1, <3>2, <3>4, <3>5, <1>7
  <2> QED BY <2>2, <2>3
<1> QED BY <1>12, <1>13, <1>14 DEF top

-----------------------------------------------------------------------------
(* The wire *)

(* An envelope sent comes last.                                            *)
LEMMA WireGrows ==
  ASSUME NEW w \in Seq(Envelope), NEW m \in Envelope
  PROVE  /\ Append(w, m) \in Seq(Envelope)
         /\ Len(w) \in Nat
         /\ Len(Append(w, m)) = Len(w) + 1
         /\ \A i \in 1..Len(w) : Append(w, m)[i] = w[i]
         /\ Append(w, m)[Len(w) + 1] = m
<1> HIDE DEF Envelope
<1> QED OBVIOUS

(* The envelope handled was the first.                                     *)
LEMMA WireShrinks ==
  ASSUME NEW w \in Seq(Envelope), w # <<>>
  PROVE  /\ Tail(w) \in Seq(Envelope)
         /\ Len(w) \in Nat \ {0}
         /\ Len(Tail(w)) = Len(w) - 1
         /\ \A i \in 1..(Len(w) - 1) : Tail(w)[i] = w[i + 1]
         /\ Head(w) = w[1]
         /\ Head(w) \in Envelope
<1> HIDE DEF Envelope
<1> QED OBVIOUS

(* Sending an event of the topic keeps the chain.                          *)
LEMMA ChainGrows ==
  ASSUME NEW w \in Seq(Envelope), NEW m \in Envelope, NEW v, NEW t, Chained(w, v, t),
         m.events[1].topic = t,
         m.events[1].kind = "update" => m.events[1].after = Changed(v, m.events[1].change)
  PROVE  Chained(Append(w, m), m.events[1].after, t)
<1> DEFINE x == Append(w, m)
           n == Len(w)
<1>1. /\ n \in Nat /\ Len(x) = n + 1
      /\ \A i \in 1..n : Sent(x, i) = Sent(w, i)
      /\ Sent(x, n + 1) = m.events[1]
  BY WireGrows DEF Sent
<1> HIDE DEF x, n
<1> SUFFICES ASSUME NEW j \in 1..Len(x), NEW i \in Places(x),
                    j < i, Sent(x, j).topic = t, At(x, t, i),
                    \A k \in 1..Len(x) : j < k /\ k < i => Sent(x, k).topic # t
             PROVE  Follows(x, m.events[1].after, i, Sent(x, j).after)
  BY Zenon DEF Chained, x
<1>2. CASE i = n + 2
  <2>1. j = n + 1 BY <1>1, <1>2
  <2> QED BY <1>1, <1>2, <2>1 DEF Follows
<1>3. CASE i = n + 1
  <2>1. j \in 1..n /\ i \in Places(w) /\ At(w, t, i) BY <1>1, <1>3 DEF Places, At, n
  <2>2. \A k \in 1..n : j < k /\ k < i => Sent(w, k).topic # t BY <1>1, <1>3
  <2>3. Sent(w, j).topic = t BY <1>1, <2>1
  <2>4. Follows(w, v, i, Sent(w, j).after) BY <2>1, <2>2, <2>3 DEF Chained, n
  <2>5. v = Sent(w, j).after BY <2>4, <1>3 DEF Follows, n
  <2> QED BY <2>5, <1>1, <1>3, <2>1 DEF Follows
<1>4. CASE i \in 1..n
  <2>1. j \in 1..n /\ i \in Places(w) /\ At(w, t, i) BY <1>1, <1>4 DEF Places, At, n
  <2>2. \A k \in 1..n : j < k /\ k < i => Sent(w, k).topic # t BY <1>1, <1>4
  <2>3. Sent(w, j).topic = t BY <1>1, <2>1
  <2>4. Follows(w, v, i, Sent(w, j).after) BY <2>1, <2>2, <2>3 DEF Chained, n
  <2> QED BY <2>4, <1>1, <1>4, <2>1 DEF Follows, n
<1> QED BY <1>1, <1>2, <1>3, <1>4 DEF Places

(* So does sending an event of another topic.                              *)
LEMMA ChainIgnoresOthers ==
  ASSUME NEW w \in Seq(Envelope), NEW m \in Envelope, NEW v, NEW t, Chained(w, v, t),
         m.events[1].topic # t
  PROVE  Chained(Append(w, m), v, t)
<1> DEFINE x == Append(w, m)
           n == Len(w)
<1>1. /\ n \in Nat /\ Len(x) = n + 1
      /\ \A i \in 1..n : Sent(x, i) = Sent(w, i)
      /\ Sent(x, n + 1) = m.events[1]
  BY WireGrows DEF Sent
<1> HIDE DEF x, n
<1> SUFFICES ASSUME NEW j \in 1..Len(x), NEW i \in Places(x),
                    j < i, Sent(x, j).topic = t, At(x, t, i),
                    \A k \in 1..Len(x) : j < k /\ k < i => Sent(x, k).topic # t
             PROVE  Follows(x, v, i, Sent(x, j).after)
  BY Zenon DEF Chained, x
<1>0. j \in 1..n /\ i # n + 1 BY <1>1 DEF At
<1>2. CASE i = n + 2
  <2>1. n + 1 \in Places(w) /\ At(w, t, n + 1) /\ j < n + 1 BY <1>1, <1>0 DEF Places, At, n
  <2>2. \A k \in 1..n : j < k /\ k < n + 1 => Sent(w, k).topic # t BY <1>1, <1>2
  <2>3. Sent(w, j).topic = t BY <1>1, <1>0
  <2>4. Follows(w, v, n + 1, Sent(w, j).after) BY <1>0, <2>1, <2>2, <2>3 DEF Chained, n
  <2>5. v = Sent(w, j).after BY <2>4 DEF Follows, n
  <2> QED BY <2>5, <1>0, <1>1, <1>2 DEF Follows
<1>4. CASE i \in 1..n
  <2>1. i \in Places(w) /\ At(w, t, i) BY <1>1, <1>4 DEF Places, At, n
  <2>2. \A k \in 1..n : j < k /\ k < i => Sent(w, k).topic # t BY <1>1, <1>4
  <2>3. Sent(w, j).topic = t BY <1>1, <1>0
  <2>4. Follows(w, v, i, Sent(w, j).after) BY <1>0, <2>1, <2>2, <2>3 DEF Chained, n
  <2> QED BY <2>4, <1>0, <1>1, <1>4 DEF Follows, n
<1> QED BY <1>0, <1>1, <1>2, <1>4 DEF Places

(* What is left of a chain is one.                                         *)
LEMMA ChainShrinks ==
  ASSUME NEW w \in Seq(Envelope), w # <<>>, NEW v, NEW t, Chained(w, v, t)
  PROVE  Chained(Tail(w), v, t)
<1> DEFINE x == Tail(w)
           n == Len(w)
<1>1. /\ n \in Nat \ {0} /\ Len(x) = n - 1
      /\ \A i \in 1..(n - 1) : Sent(x, i) = Sent(w, i + 1)
  BY WireShrinks DEF Sent
<1> HIDE DEF x, n
<1> SUFFICES ASSUME NEW j \in 1..Len(x), NEW i \in Places(x),
                    j < i, Sent(x, j).topic = t, At(x, t, i),
                    \A k \in 1..Len(x) : j < k /\ k < i => Sent(x, k).topic # t
             PROVE  Follows(x, v, i, Sent(x, j).after)
  BY Zenon DEF Chained, x
<1>2. j + 1 \in 1..n /\ i + 1 \in Places(w) /\ j + 1 < i + 1 BY <1>1 DEF Places, n
<1>3. At(w, t, i + 1)
  <2>1. CASE i + 1 <= n BY <2>1, <1>1 DEF At, Places, n
  <2>2. CASE ~(i + 1 <= n) BY <2>2 DEF At, n
  <2> QED BY <2>1, <2>2
<1>4. ASSUME NEW k \in 1..n, j + 1 < k, k < i + 1 PROVE Sent(w, k).topic # t
  <2>1. k - 1 \in 1..Len(x) /\ j < k - 1 /\ k - 1 < i /\ k - 1 \in 1..(n - 1) /\ (k - 1) + 1 = k
    BY <1>1, <1>4 DEF Places
  <2>2. Sent(x, k - 1).topic # t BY <2>1
  <2> QED BY <1>1, <2>1, <2>2
<1>5. Sent(w, j + 1).topic = t BY <1>1
<1>6. Follows(w, v, i + 1, Sent(w, j + 1).after) BY <1>2, <1>3, <1>4, <1>5 DEF Chained, n
<1>7. Sent(x, j) = Sent(w, j + 1) BY <1>1
<1>8. CASE i = n BY <1>1, <1>6, <1>7, <1>8 DEF Follows, n
<1>9. CASE i # n
  <2>1. i \in 1..(n - 1) /\ i # Len(x) + 1 /\ i + 1 # n + 1 BY <1>1, <1>9 DEF Places
  <2>2. Sent(x, i) = Sent(w, i + 1) BY <2>1, <1>1
  <2> QED BY <2>1, <2>2, <1>6, <1>7 DEF Follows, n
<1> QED BY <1>8, <1>9

(* A book that the venue's next event follows is followed by it once it is *)
(* sent.                                                                   *)
LEMMA ContinuesGrows ==
  ASSUME NEW w \in Seq(Envelope), NEW m \in Envelope, NEW v, NEW o, NEW t, NEW b,
         Continues(w, v, o, t, b),
         m.events[1].topic = t,
         t \in o => m.events[1].kind # "update",
         m.events[1].kind = "update" => m.events[1].after = Changed(v, m.events[1].change),
         NEW v2, NEW o2
  PROVE  Continues(Append(w, m), v2, o2, t, b)
<1> DEFINE x == Append(w, m)
           n == Len(w)
<1>1. /\ n \in Nat /\ Len(x) = n + 1
      /\ \A i \in 1..n : Sent(x, i) = Sent(w, i)
      /\ Sent(x, n + 1) = m.events[1]
  BY WireGrows DEF Sent
<1> HIDE DEF x, n
<1> SUFFICES ASSUME NEW i \in Places(x), At(x, t, i),
                    \A k \in 1..Len(x) : k < i => Sent(x, k).topic # t
             PROVE  Follows(x, v2, i, b)
  BY Zenon DEF Continues, x
<1>2. i # n + 2 BY <1>1
<1>3. i \in Places(w) /\ At(w, t, i) BY <1>1, <1>2 DEF Places, At, n
<1>4. \A k \in 1..n : k < i => Sent(w, k).topic # t BY <1>1
<1>5. CASE i = n + 1
  <2>1. t \notin o => Follows(w, v, i, b) BY <1>3, <1>4 DEF Continues, n
  <2>2. t \notin o => v = b BY <2>1, <1>5 DEF Follows, n
  <2> QED BY <2>2, <1>1, <1>5 DEF Follows
<1>6. CASE i \in 1..n
  <2>1. i # n + 1 BY <1>1, <1>6
  <2>2. Follows(w, v, i, b) BY <2>1, <1>3, <1>4 DEF Continues, n
  <2> QED BY <2>1, <2>2, <1>1, <1>2, <1>6 DEF Follows, n
<1> QED BY <1>1, <1>2, <1>5, <1>6 DEF Places

(* Events of other topics come between a book and what follows it.         *)
LEMMA ContinuesIgnoresOthers ==
  ASSUME NEW w \in Seq(Envelope), NEW m \in Envelope, NEW v, NEW o, NEW t, NEW b,
         Continues(w, v, o, t, b),
         m.events[1].topic # t,
         NEW o2, t \notin o2 => t \notin o
  PROVE  Continues(Append(w, m), v, o2, t, b)
<1> DEFINE x == Append(w, m)
           n == Len(w)
<1>1. /\ n \in Nat /\ Len(x) = n + 1
      /\ \A i \in 1..n : Sent(x, i) = Sent(w, i)
      /\ Sent(x, n + 1) = m.events[1]
  BY WireGrows DEF Sent
<1> HIDE DEF x, n
<1> SUFFICES ASSUME NEW i \in Places(x), At(x, t, i),
                    \A k \in 1..Len(x) : k < i => Sent(x, k).topic # t,
                    i = Len(x) + 1 => t \notin o2
             PROVE  Follows(x, v, i, b)
  BY Zenon DEF Continues, x
<1>2. i # n + 1 BY <1>1 DEF At
<1>3. CASE i = n + 2
  <2>1. n + 1 \in Places(w) /\ At(w, t, n + 1) BY <1>1 DEF Places, At, n
  <2>2. \A k \in 1..n : k < n + 1 => Sent(w, k).topic # t BY <1>1, <1>3
  <2>3. t \notin o BY <1>1, <1>3
  <2>4. Follows(w, v, n + 1, b) BY <2>1, <2>2, <2>3 DEF Continues, n
  <2> QED BY <2>4, <1>1, <1>3 DEF Follows, n
<1>4. CASE i \in 1..n
  <2>1. i # n + 1 /\ i \in Places(w) /\ At(w, t, i) BY <1>1, <1>4 DEF Places, At, n
  <2>2. \A k \in 1..n : k < i => Sent(w, k).topic # t BY <1>1
  <2>3. Follows(w, v, i, b) BY <2>1, <2>2 DEF Continues, n
  <2> QED BY <2>1, <2>3, <1>1, <1>4 DEF Follows, n
<1> QED BY <1>1, <1>2, <1>3, <1>4 DEF Places

(* Handling an event of another topic does not change what follows a book. *)
LEMMA ContinuesShrinks ==
  ASSUME NEW w \in Seq(Envelope), w # <<>>, NEW v, NEW o, NEW t, NEW b,
         Continues(w, v, o, t, b),
         Sent(w, 1).topic # t
  PROVE  Continues(Tail(w), v, o, t, b)
<1> DEFINE x == Tail(w)
           n == Len(w)
<1>1. /\ n \in Nat \ {0} /\ Len(x) = n - 1
      /\ \A i \in 1..(n - 1) : Sent(x, i) = Sent(w, i + 1)
  BY WireShrinks DEF Sent
<1> HIDE DEF x, n
<1> SUFFICES ASSUME NEW i \in Places(x), At(x, t, i),
                    \A k \in 1..Len(x) : k < i => Sent(x, k).topic # t,
                    i = Len(x) + 1 => t \notin o
             PROVE  Follows(x, v, i, b)
  BY Zenon DEF Continues, x
<1>2. i + 1 \in Places(w) BY <1>1 DEF Places, n
<1>3. At(w, t, i + 1)
  <2>1. CASE i + 1 <= n BY <2>1, <1>1 DEF At, Places, n
  <2>2. CASE ~(i + 1 <= n) BY <2>2 DEF At, n
  <2> QED BY <2>1, <2>2
<1>4. ASSUME NEW k \in 1..n, k < i + 1 PROVE Sent(w, k).topic # t
  <2>1. CASE k = 1 BY <2>1
  <2>2. CASE k # 1
    <3>1. k - 1 \in 1..Len(x) /\ k - 1 < i /\ k - 1 \in 1..(n - 1) /\ (k - 1) + 1 = k
      BY <1>1, <1>4, <2>2 DEF Places
    <3>2. Sent(x, k - 1).topic # t BY <3>1
    <3> QED BY <1>1, <3>1, <3>2
  <2> QED BY <2>1, <2>2
<1>5. i + 1 = n + 1 => t \notin o BY <1>1 DEF Places
<1>6. Follows(w, v, i + 1, b) BY <1>2, <1>3, <1>4, <1>5 DEF Continues, n
<1>7. CASE i = n BY <1>1, <1>6, <1>7 DEF Follows, n
<1>8. CASE i # n
  <2>1. i \in 1..(n - 1) /\ i # Len(x) + 1 /\ i + 1 # n + 1 BY <1>1, <1>8 DEF Places
  <2>2. Sent(x, i) = Sent(w, i + 1) BY <2>1, <1>1
  <2> QED BY <2>1, <2>2, <1>6 DEF Follows, n
<1> QED BY <1>7, <1>8

(* The book after the event handled is followed by the rest.               *)
LEMMA ContinuesAfterHead ==
  ASSUME NEW w \in Seq(Envelope), w # <<>>, NEW v, NEW o, NEW t,
         Chained(w, v, t),
         Sent(w, 1).topic = t
  PROVE  Continues(Tail(w), v, o, t, Sent(w, 1).after)
<1> DEFINE x == Tail(w)
           n == Len(w)
<1>1. /\ n \in Nat \ {0} /\ Len(x) = n - 1
      /\ \A i \in 1..(n - 1) : Sent(x, i) = Sent(w, i + 1)
  BY WireShrinks DEF Sent
<1> HIDE DEF x, n
<1> SUFFICES ASSUME NEW i \in Places(x), At(x, t, i),
                    \A k \in 1..Len(x) : k < i => Sent(x, k).topic # t
             PROVE  Follows(x, v, i, Sent(w, 1).after)
  BY Zenon DEF Continues, x
<1>2. 1 \in 1..n /\ i + 1 \in Places(w) /\ 1 < i + 1 BY <1>1 DEF Places, n
<1>3. At(w, t, i + 1)
  <2>1. CASE i + 1 <= n BY <2>1, <1>1 DEF At, Places, n
  <2>2. CASE ~(i + 1 <= n) BY <2>2 DEF At, n
  <2> QED BY <2>1, <2>2
<1>4. ASSUME NEW k \in 1..n, 1 < k, k < i + 1 PROVE Sent(w, k).topic # t
  <2>1. k - 1 \in 1..Len(x) /\ k - 1 < i /\ k - 1 \in 1..(n - 1) /\ (k - 1) + 1 = k
    BY <1>1, <1>4 DEF Places
  <2>2. Sent(x, k - 1).topic # t BY <2>1
  <2> QED BY <1>1, <2>1, <2>2
<1>5. Follows(w, v, i + 1, Sent(w, 1).after) BY <1>2, <1>3, <1>4 DEF Chained, n
<1>6. CASE i = n BY <1>1, <1>5, <1>6 DEF Follows, n
<1>7. CASE i # n
  <2>1. i \in 1..(n - 1) /\ i # Len(x) + 1 /\ i + 1 # n + 1 BY <1>1, <1>7 DEF Places
  <2>2. Sent(x, i) = Sent(w, i + 1) BY <2>1, <1>1
  <2> QED BY <2>1, <2>2, <1>5 DEF Follows, n
<1> QED BY <1>6, <1>7

(* Envelopes are numbered one by one.                                      *)
LEMMA NumberedGrows ==
  ASSUME NEW w \in Seq(Envelope), NEW m \in Envelope, NEW next \in Nat,
         Numbered(w, next), m.seq = next
  PROVE  Numbered(Append(w, m), next + 1)
<1> DEFINE x == Append(w, m)
           n == Len(w)
<1>1. /\ n \in Nat /\ Len(x) = n + 1
      /\ \A i \in 1..n : x[i].seq = w[i].seq
      /\ x[n + 1].seq = next
  BY WireGrows
<1>2. \A i \in 1..n : w[i].seq \in Int
  <2>1. \A i \in 1..n : w[i] \in Envelope OBVIOUS
  <2>2. \A e \in Envelope : e.seq \in 1..MaxSeq BY DEF Envelope
  <2> QED BY <2>1, <2>2
<1> HIDE DEF x, n
<1>3. \A i \in 1..(n + 1) : NumberAt(x, next + 1, i) = NumberAt(w, next, i)
  BY <1>1 DEF NumberAt, n
<1>4. NumberAt(x, next + 1, n + 2) = next + 1 BY <1>1 DEF NumberAt
<1>5. \A i \in 1..(n + 1) : NumberAt(w, next, i) \in Int /\ NumberAt(w, next, i) <= next
  <2>1. SUFFICES ASSUME NEW i \in 1..n
                 PROVE  NumberAt(w, next, i) \in Int /\ NumberAt(w, next, i) <= next
    BY <1>1 DEF NumberAt, n
  <2>2. NumberAt(w, next, i) < NumberAt(w, next, n + 1) BY <2>1, <1>1 DEF Numbered, Places, n
  <2>3. NumberAt(w, next, n + 1) = next BY DEF NumberAt, n
  <2>4. NumberAt(w, next, i) \in Int BY <1>1, <1>2 DEF NumberAt, n
  <2> QED BY <2>2, <2>3, <2>4
<1>6. SUFFICES ASSUME NEW i \in Places(x), NEW j \in Places(x), i < j
               PROVE  NumberAt(x, next + 1, i) < NumberAt(x, next + 1, j)
  BY Zenon DEF Numbered, x
<1>7. i \in 1..(n + 1) /\ j \in 1..(n + 2) BY <1>1, <1>6 DEF Places
<1>8. CASE j = n + 2 BY <1>3, <1>4, <1>5, <1>7, <1>8
<1>9. CASE j # n + 2
  <2>1. j \in 1..(n + 1) BY <1>1, <1>7, <1>9
  <2>2. NumberAt(w, next, i) < NumberAt(w, next, j) BY <2>1, <1>6, <1>7 DEF Numbered, Places, n
  <2> QED BY <2>1, <2>2, <1>3, <1>7
<1> QED BY <1>8, <1>9

(* The places of the rest are those after the first, with their numbers.   *)
LEMMA NumbersShift ==
  ASSUME NEW w \in Seq(Envelope), w # <<>>, NEW next
  PROVE  \A i \in Places(Tail(w)) : i + 1 \in Places(w) /\ NumberAt(Tail(w), next, i) = NumberAt(w, next, i + 1)
<1> DEFINE x == Tail(w)
           n == Len(w)
<1>1. /\ n \in Nat \ {0} /\ Len(x) = n - 1
      /\ \A i \in 1..(n - 1) : x[i].seq = w[i + 1].seq
  BY WireShrinks
<1> HIDE DEF x, n
<1> SUFFICES ASSUME NEW i \in Places(x)
             PROVE  i + 1 \in Places(w) /\ NumberAt(x, next, i) = NumberAt(w, next, i + 1)
  BY DEF x
<1>2. i \in 1..n BY <1>1 DEF Places
<1>3. i + 1 \in Places(w) BY <1>1, <1>2 DEF Places, n
<1>4. CASE i = n BY <1>1, <1>3, <1>4 DEF NumberAt, n
<1>5. CASE i # n
  <2>1. i \in 1..(n - 1) /\ i # Len(x) + 1 /\ i + 1 # n + 1 BY <1>1, <1>2, <1>5
  <2>2. x[i].seq = w[i + 1].seq BY <1>1, <2>1
  <2> QED BY <2>1, <2>2, <1>3 DEF NumberAt, n
<1> QED BY <1>3, <1>4, <1>5

(* The rest is numbered too.                                               *)
LEMMA NumberedShrinks ==
  ASSUME NEW w \in Seq(Envelope), w # <<>>, NEW next, Numbered(w, next)
  PROVE  Numbered(Tail(w), next)
<1> SUFFICES ASSUME NEW i \in Places(Tail(w)), NEW j \in Places(Tail(w)), i < j
             PROVE  NumberAt(Tail(w), next, i) < NumberAt(Tail(w), next, j)
  BY Zenon DEF Numbered
<1>1. i \in Int /\ j \in Int BY WireShrinks DEF Places
<1>2. i + 1 \in Places(w) /\ j + 1 \in Places(w) BY NumbersShift, Zenon
<1>3. i + 1 < j + 1 BY <1>1
<1>4. NumberAt(w, next, i + 1) < NumberAt(w, next, j + 1) BY <1>2, <1>3 DEF Numbered
<1> QED BY <1>4, NumbersShift

(* What is sent is newer than a book that what is sent next is newer than. *)
LEMMA NewerGrows ==
  ASSUME NEW w \in Seq(Envelope), NEW m \in Envelope, NEW next \in Nat, NEW o, NEW t, NEW s \in Int,
         Newer(w, next, o, t, s), m.seq = next,
         m.events[1].topic = t /\ t \in o => m.events[1].kind # "update",
         NEW o2, m.events[1].topic # t /\ t \notin o2 => t \notin o
  PROVE  Newer(Append(w, m), next + 1, o2, t, s)
<1> DEFINE x == Append(w, m)
           n == Len(w)
<1>1. /\ n \in Nat /\ Len(x) = n + 1
      /\ \A i \in 1..n : Sent(x, i) = Sent(w, i) /\ x[i].seq = w[i].seq
      /\ Sent(x, n + 1) = m.events[1] /\ x[n + 1].seq = next
  BY WireGrows DEF Sent
<1> HIDE DEF x, n
<1> SUFFICES ASSUME NEW i \in Places(x), At(x, t, i),
                    \A k \in 1..Len(x) : k <= i /\ Sent(x, k).topic = t => Sent(x, k).kind = "update",
                    i = Len(x) + 1 => t \notin o2
             PROVE  NumberAt(x, next + 1, i) > s
  BY Zenon DEF Newer, x
<1>2. i \in 1..(n + 2) BY <1>1 DEF Places
<1>3. ASSUME i > n PROVE next > s
  <2>1. n + 1 \in 1..Len(x) /\ n + 1 <= i BY <1>1, <1>2, <1>3
  <2>2. m.events[1].topic = t => m.events[1].kind = "update" BY <2>1, <1>1
  <2>3. t \notin o
    <3>1. CASE m.events[1].topic = t BY <3>1, <2>2
    <3>2. CASE m.events[1].topic # t
      <4>1. i # n + 1 BY <3>2, <1>1 DEF At
      <4>2. i = Len(x) + 1 BY <4>1, <1>1, <1>2, <1>3
      <4> QED BY <4>2, <3>2
    <3> QED BY <3>1, <3>2
  <2>4. n + 1 \in Places(w) /\ At(w, t, n + 1) BY <1>1 DEF Places, At, n
  <2>5. \A k \in 1..n : k <= n + 1 /\ Sent(w, k).topic = t => Sent(w, k).kind = "update"
    BY <1>1, <1>2, <1>3
  <2>6. NumberAt(w, next, n + 1) > s BY <2>3, <2>4, <2>5 DEF Newer, n
  <2> QED BY <2>6 DEF NumberAt, n
<1>4. CASE i = n + 1 BY <1>1, <1>3, <1>4 DEF NumberAt
<1>5. CASE i = n + 2 BY <1>1, <1>3, <1>5 DEF NumberAt
<1>6. CASE i \in 1..n
  <2>1. i # n + 1 /\ i # n + 2 /\ i \in Places(w) /\ At(w, t, i) BY <1>1, <1>6 DEF Places, At, n
  <2>2. \A k \in 1..n : k <= i /\ Sent(w, k).topic = t => Sent(w, k).kind = "update" BY <1>1
  <2>3. NumberAt(w, next, i) > s BY <2>1, <2>2 DEF Newer, n
  <2> QED BY <2>1, <2>3, <1>1, <1>6 DEF NumberAt, n
<1> QED BY <1>1, <1>2, <1>4, <1>5, <1>6

(* Handling an event of another topic leaves what is newer so.             *)
LEMMA NewerShrinks ==
  ASSUME NEW w \in Seq(Envelope), w # <<>>, NEW next, NEW o, NEW t, NEW s,
         Newer(w, next, o, t, s),
         Sent(w, 1).topic # t
  PROVE  Newer(Tail(w), next, o, t, s)
<1> DEFINE x == Tail(w)
           n == Len(w)
<1>1. /\ n \in Nat \ {0} /\ Len(x) = n - 1
      /\ \A i \in 1..(n - 1) : Sent(x, i) = Sent(w, i + 1)
  BY WireShrinks DEF Sent
<1> HIDE DEF x, n
<1> SUFFICES ASSUME NEW i \in Places(x), At(x, t, i),
                    \A k \in 1..Len(x) : k <= i /\ Sent(x, k).topic = t => Sent(x, k).kind = "update",
                    i = Len(x) + 1 => t \notin o
             PROVE  NumberAt(x, next, i) > s
  BY Zenon DEF Newer, x
<1>2. i + 1 \in Places(w) BY <1>1 DEF Places, n
<1>3. At(w, t, i + 1)
  <2>1. CASE i + 1 <= n BY <2>1, <1>1 DEF At, Places, n
  <2>2. CASE ~(i + 1 <= n) BY <2>2 DEF At, n
  <2> QED BY <2>1, <2>2
<1>4. ASSUME NEW k \in 1..n, k <= i + 1, Sent(w, k).topic = t PROVE Sent(w, k).kind = "update"
  <2>1. k # 1 BY <1>4
  <2>2. k - 1 \in 1..Len(x) /\ k - 1 <= i /\ k - 1 \in 1..(n - 1) /\ (k - 1) + 1 = k
    BY <1>1, <1>4, <2>1 DEF Places
  <2>3. Sent(x, k - 1) = Sent(w, k) BY <1>1, <2>2
  <2> QED BY <1>4, <2>2, <2>3
<1>5. i + 1 = n + 1 => t \notin o BY <1>1 DEF Places
<1>6. NumberAt(w, next, i + 1) > s BY <1>2, <1>3, <1>4, <1>5 DEF Newer, n
<1> QED BY <1>6, NumbersShift DEF x

(* The rest is newer than what was handled.                                *)
LEMMA RestIsNewer ==
  ASSUME NEW w \in Seq(Envelope), w # <<>>, NEW next, NEW o, NEW t, Numbered(w, next)
  PROVE  Newer(Tail(w), next, o, t, w[1].seq)
<1> SUFFICES ASSUME NEW i \in Places(Tail(w)) PROVE NumberAt(Tail(w), next, i) > w[1].seq
  BY Zenon DEF Newer
<1>1. Len(w) \in Nat \ {0} /\ Len(Tail(w)) = Len(w) - 1 BY WireShrinks
<1>2. i + 1 \in Places(w) /\ 1 \in Places(w) /\ 1 < i + 1 BY <1>1 DEF Places
<1>3. NumberAt(w, next, 1) < NumberAt(w, next, i + 1) BY <1>2 DEF Numbered
<1>4. NumberAt(w, next, 1) = w[1].seq BY <1>1 DEF NumberAt
<1>5. w[1].seq \in Int /\ NumberAt(Tail(w), next, i) = NumberAt(w, next, i + 1)
  <2>1. w[1] \in Envelope BY <1>1
  <2>2. \A e \in Envelope : e.seq \in 1..MaxSeq BY DEF Envelope
  <2> QED BY <2>1, <2>2, NumbersShift
<1> QED BY <1>3, <1>4, <1>5

-----------------------------------------------------------------------------
(* Events and frames *)

(* What ParsedFrame carries.                                               *)
LEMMA EventIsTyped ==
  ASSUME NEW e \in Event
  PROVE  /\ e.topic \in Topics /\ e.after \in VenueBook
         /\ e.kind \in {"snapshot", "update"}
         /\ e.kind = "update" => e.change \in Change
BY DEF Event

(* A change of one level (applyUpdate) gives a book.                       *)
LEMMA ChangedIsBook ==
  ASSUME NEW b \in VenueBook, NEW c \in Change
  PROVE  Changed(b, c) \in VenueBook
<1>1. c.side \in Sides /\ c.price \in Prices /\ c.size \in Sizes BY DEF Change
<1>2. \A s \in Sides : b[s] \in [Prices -> Sizes] BY DEF VenueBook
<1>3. b \in [Sides -> [Prices -> Sizes]] BY DEF VenueBook
<1>4. [b[c.side] EXCEPT ![c.price] = c.size] \in [Prices -> Sizes] BY <1>1, <1>2
<1>5. Changed(b, c) = [b EXCEPT ![c.side] = [b[c.side] EXCEPT ![c.price] = c.size]] BY DEF Changed
<1> QED BY <1>1, <1>3, <1>4, <1>5 DEF VenueBook

(* The bounds are numbers, and a view asks for some levels.                *)
LEMMA BoundsAreNumbers == MaxSeq \in Nat /\ MaxInFlight \in Nat /\ MaxReconnects \in Nat /\ MaxEvents \in Nat
BY BoundsAssumption

(* The depth at which a whole book is read is a positive number. *)
LEMMA FullDepthIsPositive == FullDepth \in Nat \ {0}
<1>1. IsFiniteSet(Prices) /\ Prices # {} BY LevelsAssumption
<1>2. Cardinality(Prices) \in Nat BY <1>1, FS_CardinalityType
<1>3. Cardinality(Prices) # 0 BY <1>1, FS_EmptySet
<1> QED BY <1>2, <1>3 DEF FullDepth

(* What VenueSends puts on the wire.                                       *)
LEMMA EventsSent ==
  ASSUME BooksTyped, NEW order \in Orders, NEW change \in [ToSet(order) -> Change],
         VenueSends(order, change)
  PROVE  \E events \in Seq(Event) :
           /\ DOMAIN events = DOMAIN order
           /\ \E n \in 1..MaxEvents : order \in [1..n -> wanted] /\ Len(events) = n
           /\ wire' = Append(wire, [seq |-> nextSeq, events |-> events])
           /\ [seq |-> nextSeq, events |-> events] \in Envelope
           /\ \A i \in DOMAIN order :
                /\ events[i].topic = order[i]
                /\ events[i].after = Changed(venueBook[order[i]], change[order[i]])
                /\ order[i] \in owed => events[i].kind = "snapshot"
                /\ order[i] \notin owed => events[i].kind = "update" /\ events[i].change = change[order[i]]
<1> DEFINE after(t) == Changed(venueBook[t], change[t])
           event(t) == IF t \in owed THEN [kind |-> "snapshot", topic |-> t, after |-> after(t)]
                       ELSE [kind |-> "update", topic |-> t, change |-> change[t], after |-> after(t)]
           events == [i \in DOMAIN order |-> event(order[i])]
<1>1. PICK n \in 1..MaxEvents : order \in [1..n -> wanted] BY DEF Orders
<1>2. DOMAIN order = 1..n /\ n \in Nat BY <1>1, BoundsAreNumbers
<1>3. ASSUME NEW i \in 1..n PROVE event(order[i]) \in Event
  <2>1. order[i] \in ToSet(order) BY <1>2 DEF ToSet
  <2>2. order[i] \in Topics /\ change[order[i]] \in Change BY <1>1, <2>1 DEF BooksTyped
  <2>3. venueBook[order[i]] \in VenueBook BY <2>2 DEF BooksTyped
  <2>4. after(order[i]) \in VenueBook BY <2>2, <2>3, ChangedIsBook
  <2> HIDE DEF after
  <2> QED BY <2>2, <2>4 DEF Event
<1>4. events \in [1..n -> Event] BY <1>2, <1>3
<1>5. events \in Seq(Event) /\ Len(events) = n
  <2> HIDE DEF events
  <2> QED BY <1>2, <1>4
<1>6. wire' = Append(wire, [seq |-> nextSeq, events |-> events]) /\ nextSeq <= MaxSeq
  BY DEF VenueSends
<1>7. [seq |-> nextSeq, events |-> events] \in Envelope
  <2>1. nextSeq \in 1..MaxSeq BY <1>6, BoundsAreNumbers DEF BooksTyped
  <2> HIDE DEF events
  <2> QED BY <2>1, <1>5 DEF Envelope
<1>8. ASSUME NEW i \in DOMAIN order
      PROVE  /\ events[i].topic = order[i]
             /\ events[i].after = Changed(venueBook[order[i]], change[order[i]])
             /\ order[i] \in owed => events[i].kind = "snapshot"
             /\ order[i] \notin owed => events[i].kind = "update" /\ events[i].change = change[order[i]]
  <2>1. events[i] = event(order[i]) OBVIOUS
  <2> HIDE DEF events
  <2>2. CASE order[i] \in owed BY <2>1, <2>2
  <2>3. CASE order[i] \notin owed BY <2>1, <2>3
  <2> QED BY <2>2, <2>3
<1>9. DOMAIN events = DOMAIN order OBVIOUS
<1> HIDE DEF events
<1> QED BY <1>1, <1>5, <1>6, <1>7, <1>8, <1>9

(* ApplySnapshot and ApplyUpdate keep the store's books well formed, and   *)
(* what they write they publish: a subscriber has what the store has.      *)
LEMMA FrameIsPublished ==
  ASSUME BooksTyped, SeenTyped, SeenIsCurrent, wanted' = wanted,
         NEW e \in Event, NEW seq \in 1..MaxSeq, ProcessFrame(e, seq)
  PROVE  /\ books' \in [DOMAIN books' -> BookState]
         /\ DOMAIN books \subseteq DOMAIN books' /\ DOMAIN books' \subseteq Topics
         /\ covered' \subseteq wanted /\ covered' \subseteq DOMAIN books'
         /\ SeenTyped' /\ SeenIsCurrent'
<1> DEFINE t == e.topic
<1>1. t \in Topics /\ e.after \in VenueBook BY EventIsTyped
<1>2. /\ DOMAIN books \subseteq Topics /\ books \in [DOMAIN books -> BookState]
      /\ covered \subseteq wanted /\ covered \subseteq DOMAIN books /\ wanted \subseteq Topics
  BY DEF BooksTyped, KnownTopics
<1>3. /\ \A u \in wanted : seen[u] = IF u \in DOMAIN books THEN Content(View(books[u], FullDepth)) ELSE Unseen
      /\ \A u \in DOMAIN books : books[u].stale <=> books[u].staleReason # ""
  BY DEF SeenIsCurrent, Known, KnownTopics, FullView
<1> HIDE DEF t
<1>4. ASSUME Publish(t), books' \in [DOMAIN books' -> BookState], t \in DOMAIN books',
             DOMAIN books' = DOMAIN books \cup {t},
             \A u \in DOMAIN books : u # t => books'[u] = books[u],
             books'[t].stale <=> books'[t].staleReason # ""
      PROVE  SeenTyped' /\ SeenIsCurrent'
  <2>1. CASE t \in wanted
    <3>1. seen' = [seen EXCEPT ![t] = Content(View(books'[t], FullDepth))] BY <1>4, <2>1 DEF Publish
    <3>2. Content(View(books'[t], FullDepth)) \in [bids : Seq(Level), asks : Seq(Level), sequence : 0..MaxSeq]
      BY <1>4, ContentIsTyped, FullDepthIsPositive
    <3>3. SeenTyped' BY <3>1, <3>2 DEF SeenTyped
    <3>4. \A u \in wanted : seen'[u] = IF u \in DOMAIN books' THEN Content(View(books'[u], FullDepth)) ELSE Unseen
      BY <1>1, <1>2, <1>3, <1>4, <3>1 DEF SeenTyped
    <3>5. \A u \in DOMAIN books' : books'[u].stale <=> books'[u].staleReason # ""
      BY <1>3, <1>4
    <3> QED BY <3>3, <3>4, <3>5 DEF SeenIsCurrent, Known, KnownTopics, FullView
  <2>2. CASE t \notin wanted
    <3>1. seen' = seen BY <1>4, <2>2 DEF Publish
    <3>2. \A u \in wanted : seen'[u] = IF u \in DOMAIN books' THEN Content(View(books'[u], FullDepth)) ELSE Unseen
      BY <1>3, <1>4, <2>2, <3>1
    <3>3. \A u \in DOMAIN books' : books'[u].stale <=> books'[u].staleReason # ""
      BY <1>3, <1>4
    <3> QED BY <3>1, <3>2, <3>3 DEF SeenTyped, SeenIsCurrent, Known, KnownTopics, FullView
  <2> QED BY <2>1, <2>2
<1>5. CASE e.kind = "snapshot"
  <2> DEFINE b == [levels |-> e.after, sequence |-> seq, stale |-> FALSE, staleReason |-> ""]
  <2>1. /\ books' = [u \in DOMAIN books \cup {t} |-> IF u = t THEN b ELSE books[u]]
        /\ Publish(t)
        /\ covered' = covered \cup ({t} \cap wanted)
    BY <1>5 DEF ProcessFrame, ApplySnapshot, t, KnownTopics
  <2>2. b \in BookState /\ b.stale = FALSE /\ b.staleReason = "" BY <1>1 DEF BookState
  <2> HIDE DEF b
  <2>3. /\ DOMAIN books' = DOMAIN books \cup {t}
        /\ books'[t] = b
        /\ \A u \in DOMAIN books : u # t => books'[u] = books[u]
    BY <2>1
  <2>4. \A u \in DOMAIN books' : books'[u] \in BookState BY <1>2, <2>2, <2>3
  <2>5. books' \in [DOMAIN books' -> BookState] BY <2>1, <2>4
  <2>6. SeenTyped' /\ SeenIsCurrent' BY <1>4, <2>1, <2>2, <2>3, <2>5
  <2> QED BY <1>1, <1>2, <2>1, <2>3, <2>5, <2>6
<1>6. CASE e.kind # "snapshot"
  <2>1. ApplyUpdate(e, seq) /\ e.change \in Change BY <1>6, EventIsTyped DEF ProcessFrame
  <2>2. CASE IsNews(e, seq)
    <3>1. t \in DOMAIN books BY <2>2 DEF IsNews, Known, t
    <3>2. /\ books' = [books EXCEPT ![t].levels = Changed(@, e.change), ![t].sequence = seq]
          /\ Publish(t) /\ covered' = covered
      BY <2>1, <2>2 DEF ApplyUpdate, t
    <3>3. books[t] \in BookState /\ books[t].levels \in VenueBook BY <1>2, <3>1 DEF BookState
    <3>4. Changed(books[t].levels, e.change) \in VenueBook BY <2>1, <3>3, ChangedIsBook
    <3> DEFINE b == [books[t] EXCEPT !.levels = Changed(@, e.change), !.sequence = seq]
    <3>5. books' = [books EXCEPT ![t] = b] BY <1>2, <3>1, <3>2
    <3>6. b \in BookState /\ b.stale = books[t].stale /\ b.staleReason = books[t].staleReason
      BY <3>3, <3>4 DEF BookState
    <3> HIDE DEF b
    <3>7. books' \in [DOMAIN books -> BookState] /\ books'[t] = b
          /\ \A u \in DOMAIN books : u # t => books'[u] = books[u]
      BY <1>2, <3>1, <3>5, <3>6
    <3>8. DOMAIN books' = DOMAIN books /\ DOMAIN books = DOMAIN books \cup {t} BY <3>1, <3>7
    <3>9. books'[t].stale <=> books'[t].staleReason # "" BY <1>3, <3>1, <3>6, <3>7
    <3>10. SeenTyped' /\ SeenIsCurrent'
      BY <1>4, <3>1, <3>2, <3>7, <3>8, <3>9
    <3> QED BY <1>1, <1>2, <3>2, <3>7, <3>8, <3>10
  <2>3. CASE ~IsNews(e, seq)
    <3>1. books' = books /\ seen' = seen /\ covered' = covered BY <2>1, <2>3 DEF ApplyUpdate
    <3>2. SeenTyped' /\ SeenIsCurrent' BY <3>1 DEF SeenTyped, SeenIsCurrent, Known, KnownTopics, FullView
    <3> QED BY <1>2, <3>1, <3>2
  <2> QED BY <2>2, <2>3
<1> QED BY <1>5, <1>6

-----------------------------------------------------------------------------
(* What readers see, with any number of events in an envelope *)

(* Before anything happens there is no book, and what no reader has seen is
   not out of date. *)
LEMMA ReadersStart == Init => ReadersInv
<1> SUFFICES ASSUME Init PROVE ReadersInv OBVIOUS
<1>1. Empty \in VenueBook BY LevelsAssumption DEF Empty, VenueBook
<1>2. DOMAIN books = {} /\ books \in [{} -> BookState] BY DEF Init
<1>3. BooksTyped
  <2>1. wire = <<>> /\ suspended = <<>> /\ Len(wire) = 0 BY DEF Init
  <2>2. wire \in Seq(Envelope) /\ suspended \in Seq(Envelope) BY <2>1
  <2>3. nextSeq \in 1..(MaxSeq + 1) /\ reconnects \in 0..MaxReconnects /\ Len(wire) <= MaxInFlight
    BY <2>1, BoundsAreNumbers DEF Init
  <2>4. venueBook \in [Topics -> VenueBook] /\ expected \in [Topics -> VenueBook]
    BY <1>1 DEF Init
  <2>5. \A i \in 1..Len(wire) : wire[i].events # <<>> BY <2>1
  <2>6. owed = {} /\ wanted = {} /\ covered = {} /\ reading = FALSE BY DEF Init
  <2> QED BY <1>2, <2>2, <2>3, <2>4, <2>5, <2>6 DEF BooksTyped, KnownTopics
<1>4. SeenTyped
  <2>1. Unseen \in [bids : Seq(Level), asks : Seq(Level), sequence : 0..MaxSeq]
    BY BoundsAreNumbers DEF Unseen
  <2> QED BY <2>1 DEF Init, SeenTyped
<1>5. SeenIsCurrent BY <1>2 DEF Init, SeenIsCurrent, KnownTopics
<1> QED BY <1>3, <1>4, <1>5 DEF ReadersInv

(* VenueSends touches the venue and the wire only.                         *)
LEMMA VenueKeepsReaders ==
  ASSUME ReadersInv, NEW order \in Orders, NEW change \in [ToSet(order) -> Change],
         VenueSends(order, change)
  PROVE  ReadersInv'
<1> USE DEF ReadersInv
<1>1. PICK events \in Seq(Event) :
        /\ DOMAIN events = DOMAIN order
        /\ \E n \in 1..MaxEvents : order \in [1..n -> wanted] /\ Len(events) = n
        /\ wire' = Append(wire, [seq |-> nextSeq, events |-> events])
        /\ [seq |-> nextSeq, events |-> events] \in Envelope
        /\ \A i \in DOMAIN order :
             /\ events[i].topic = order[i]
             /\ events[i].after = Changed(venueBook[order[i]], change[order[i]])
  BY EventsSent, Zenon
<1>2. /\ nextSeq <= MaxSeq /\ Len(wire) < MaxInFlight
      /\ nextSeq' = nextSeq + 1
      /\ venueBook' = [t \in Topics |-> IF t \in ToSet(order) THEN Changed(venueBook[t], change[t]) ELSE venueBook[t]]
      /\ owed' = owed \ ToSet(order)
      /\ UNCHANGED <<reconnects, suspended, reading, books, wanted, seen, expected, covered>>
  BY DEF VenueSends, handlerVars, historyVars
<1> DEFINE m == [seq |-> nextSeq, events |-> events]
<1>3. m \in Envelope /\ m.events = events /\ wire' = Append(wire, m) BY <1>1
<1>4. events # <<>> BY <1>1, BoundsAreNumbers
<1> HIDE DEF m
<1>5. /\ wire \in Seq(Envelope) /\ Len(wire) <= MaxInFlight
      /\ \A i \in 1..Len(wire) : wire[i].events # <<>>
  BY DEF BooksTyped
<1>6. /\ wire' \in Seq(Envelope) /\ Len(wire') = Len(wire) + 1 /\ Len(wire) \in Nat
      /\ \A i \in 1..Len(wire) : wire'[i] = wire[i]
      /\ wire'[Len(wire) + 1] = m
  BY <1>3, <1>5, WireGrows
<1>7. Len(wire') <= MaxInFlight BY <1>2, <1>6, BoundsAreNumbers
<1>8. \A i \in 1..Len(wire') : wire'[i].events # <<>> BY <1>3, <1>4, <1>5, <1>6
<1>9. venueBook' \in [Topics -> VenueBook]
  <2>1. ASSUME NEW t \in Topics, t \in ToSet(order)
        PROVE  Changed(venueBook[t], change[t]) \in VenueBook
    <3>1. change[t] \in Change /\ venueBook[t] \in VenueBook BY <2>1 DEF BooksTyped
    <3> QED BY <3>1, ChangedIsBook
  <2>2. \A t \in Topics : venueBook[t] \in VenueBook BY DEF BooksTyped
  <2> QED BY <1>2, <2>1, <2>2
<1>10. nextSeq' \in 1..(MaxSeq + 1) BY <1>2, BoundsAreNumbers DEF BooksTyped
<1>11. BooksTyped' BY <1>2, <1>6, <1>7, <1>8, <1>9, <1>10 DEF BooksTyped, KnownTopics
<1>12. SeenTyped' /\ SeenIsCurrent' BY <1>2 DEF SeenTyped, SeenIsCurrent, Known, KnownTopics, FullView
<1> QED BY <1>11, <1>12

(* HandleEnvelope: the first frame of the next envelope.                   *)
LEMMA EnvelopeKeepsReaders ==
  ASSUME ReadersInv, HandleEnvelope
  PROVE  ReadersInv'
<1> USE DEF ReadersInv
<1> DEFINE m == Head(wire)
<1>1. /\ wire # <<>> /\ wire' = Tail(wire)
      /\ ProcessFrame(Head(m.events), m.seq)
      /\ suspended' = Append(suspended, [seq |-> m.seq, events |-> Tail(m.events)])
      /\ reading' = TRUE
      /\ expected' = [t \in Topics |->
           IF t \in wanted /\ \E i \in DOMAIN m.events : m.events[i].topic = t
           THEN (CHOOSE ev \in ToSet(m.events) : ev.topic = t).after ELSE expected[t]]
      /\ UNCHANGED <<venueBook, nextSeq, owed, reconnects, wanted>>
  BY DEF HandleEnvelope
<1>2. /\ wire \in Seq(Envelope) /\ Len(wire) <= MaxInFlight
      /\ \A i \in 1..Len(wire) : wire[i].events # <<>>
      /\ suspended \in Seq(Envelope)
      /\ expected \in [Topics -> VenueBook]
  BY DEF BooksTyped
<1>3. /\ Tail(wire) \in Seq(Envelope) /\ Len(wire) \in Nat \ {0} /\ Len(Tail(wire)) = Len(wire) - 1
      /\ \A i \in 1..(Len(wire) - 1) : Tail(wire)[i] = wire[i + 1]
      /\ m = wire[1] /\ m \in Envelope
  BY <1>1, <1>2, WireShrinks
<1> HIDE DEF m
<1>4. m.seq \in 1..MaxSeq /\ m.events \in Seq(Event) /\ m.events # <<>>
  BY <1>2, <1>3 DEF Envelope
<1>5. Head(m.events) \in Event /\ Tail(m.events) \in Seq(Event)
  <2> HIDE DEF Event
  <2> QED BY <1>4
<1>6. suspended' \in Seq(Envelope)
  <2>1. [seq |-> m.seq, events |-> Tail(m.events)] \in Envelope BY <1>4, <1>5 DEF Envelope
  <2> QED BY <1>1, <1>2, <2>1, WireGrows
<1>7. expected' \in [Topics -> VenueBook]
  <2>1. ASSUME NEW t \in Topics, \E i \in DOMAIN m.events : m.events[i].topic = t
        PROVE  (CHOOSE ev \in ToSet(m.events) : ev.topic = t).after \in VenueBook
    <3>1. \E ev \in ToSet(m.events) : ev.topic = t BY <2>1 DEF ToSet
    <3>2. (CHOOSE ev \in ToSet(m.events) : ev.topic = t) \in ToSet(m.events) BY <3>1
    <3>3. ToSet(m.events) \subseteq Event
      <4> HIDE DEF Event
      <4> QED BY <1>4 DEF ToSet
    <3> QED BY <3>2, <3>3, EventIsTyped
  <2> QED BY <1>1, <1>2, <2>1
<1>8. /\ books' \in [DOMAIN books' -> BookState]
      /\ DOMAIN books \subseteq DOMAIN books' /\ DOMAIN books' \subseteq Topics
      /\ covered' \subseteq wanted /\ covered' \subseteq DOMAIN books'
      /\ SeenTyped' /\ SeenIsCurrent'
  BY <1>1, <1>4, <1>5, FrameIsPublished
<1>9. Len(wire') <= MaxInFlight BY <1>1, <1>2, <1>3, BoundsAreNumbers
<1>10. \A i \in 1..Len(wire') : wire'[i].events # <<>>
  <2>1. SUFFICES ASSUME NEW i \in 1..(Len(wire) - 1) PROVE wire[i + 1].events # <<>>
    BY <1>1, <1>3
  <2>2. i + 1 \in 1..Len(wire) BY <1>3
  <2> QED BY <2>2, <1>2
<1>11. BooksTyped' BY <1>1, <1>3, <1>6, <1>7, <1>8, <1>9, <1>10 DEF BooksTyped, KnownTopics
<1> QED BY <1>8, <1>11

(* HandleContinues: the next frame of the handle() that has waited longest. *)
LEMMA ContinuationKeepsReaders ==
  ASSUME ReadersInv, HandleContinues
  PROVE  ReadersInv'
<1> USE DEF ReadersInv
<1> DEFINE h == Head(suspended)
<1>1. /\ suspended # <<>> /\ reading' = FALSE
      /\ UNCHANGED <<venueBook, nextSeq, owed, wire, reconnects, wanted, expected>>
  BY DEF HandleContinues, venueVars
<1>2. suspended \in Seq(Envelope) BY DEF BooksTyped
<1>3. Tail(suspended) \in Seq(Envelope) /\ h \in Envelope BY <1>1, <1>2, WireShrinks
<1>4. CASE h.events = <<>>
  <2>1. suspended' = Tail(suspended) /\ UNCHANGED <<books, seen, covered>>
    BY <1>4 DEF HandleContinues
  <2>2. SeenTyped' /\ SeenIsCurrent'
    BY <1>1, <2>1 DEF SeenTyped, SeenIsCurrent, Known, KnownTopics, FullView
  <2>3. BooksTyped' BY <1>1, <1>3, <2>1 DEF BooksTyped, KnownTopics
  <2> QED BY <2>2, <2>3
<1>5. CASE h.events # <<>>
  <2>1. /\ ProcessFrame(Head(h.events), h.seq)
        /\ suspended' = Append(Tail(suspended), [seq |-> h.seq, events |-> Tail(h.events)])
    BY <1>5 DEF HandleContinues
  <2> HIDE DEF h
  <2>2. h.seq \in 1..MaxSeq /\ h.events \in Seq(Event) BY <1>3 DEF Envelope
  <2>3. Head(h.events) \in Event /\ Tail(h.events) \in Seq(Event)
    <3> HIDE DEF Event
    <3> QED BY <2>2, <1>5
  <2>4. suspended' \in Seq(Envelope)
    <3>1. [seq |-> h.seq, events |-> Tail(h.events)] \in Envelope BY <2>2, <2>3 DEF Envelope
    <3> QED BY <1>3, <2>1, <3>1, WireGrows
  <2>5. /\ books' \in [DOMAIN books' -> BookState]
        /\ DOMAIN books \subseteq DOMAIN books' /\ DOMAIN books' \subseteq Topics
        /\ covered' \subseteq wanted /\ covered' \subseteq DOMAIN books'
        /\ SeenTyped' /\ SeenIsCurrent'
    BY <1>1, <2>1, <2>2, <2>3, FrameIsPublished
  <2>6. BooksTyped' BY <1>1, <2>4, <2>5 DEF BooksTyped, KnownTopics
  <2> QED BY <2>5, <2>6
<1> QED BY <1>4, <1>5

(* HandleGap marks books stale (markAllStale): their levels stay, and so   *)
(* does what subscribers have of them.                                     *)
LEMMA GapKeepsReaders ==
  ASSUME ReadersInv, HandleGap
  PROVE  ReadersInv'
<1> USE DEF ReadersInv
<1>1. /\ wire # <<>> /\ wire' = Tail(wire) /\ owed' = wanted
      /\ books' = [t \in DOMAIN books |->
           IF t \in wanted THEN [books[t] EXCEPT !.stale = TRUE, !.staleReason = "sequence_gap"] ELSE books[t]]
      /\ UNCHANGED <<venueBook, nextSeq, reconnects, suspended, reading, wanted, seen, expected, covered>>
  BY DEF HandleGap, MarkAllStale, KnownTopics, handlerVars, historyVars
<1>2. /\ wire \in Seq(Envelope) /\ Len(wire) <= MaxInFlight
      /\ \A i \in 1..Len(wire) : wire[i].events # <<>>
      /\ books \in [DOMAIN books -> BookState]
  BY DEF BooksTyped, KnownTopics
<1>3. /\ Tail(wire) \in Seq(Envelope) /\ Len(wire) \in Nat \ {0} /\ Len(Tail(wire)) = Len(wire) - 1
      /\ \A i \in 1..(Len(wire) - 1) : Tail(wire)[i] = wire[i + 1]
  BY <1>1, <1>2, WireShrinks
<1>4. DOMAIN books' = DOMAIN books BY <1>1
<1>5. ASSUME NEW t \in DOMAIN books
      PROVE  /\ books'[t] \in BookState
             /\ books'[t].levels = books[t].levels /\ books'[t].sequence = books[t].sequence
             /\ books[t].stale <=> books[t].staleReason # ""
             /\ books'[t].stale <=> books'[t].staleReason # ""
  <2>1. books[t] \in BookState BY <1>2
  <2>2. books[t].stale <=> books[t].staleReason # "" BY DEF SeenIsCurrent, KnownTopics
  <2>3. CASE t \in wanted
    <3>1. books'[t] = [books[t] EXCEPT !.stale = TRUE, !.staleReason = "sequence_gap"] BY <1>1, <2>3
    <3> QED BY <2>1, <2>2, <3>1 DEF BookState
  <2>4. CASE t \notin wanted
    <3>1. books'[t] = books[t] BY <1>1, <2>4
    <3> QED BY <2>1, <2>2, <3>1
  <2> QED BY <2>3, <2>4
<1>6. books' \in [DOMAIN books' -> BookState]
  <2>1. \A t \in DOMAIN books' : books'[t] \in BookState BY <1>4, <1>5
  <2> QED BY <1>1, <1>4, <2>1
<1>7. Len(wire') <= MaxInFlight
  <2>1. Len(wire') = Len(wire) - 1 BY <1>1, <1>3, Zenon
  <2>2. Len(wire) <= MaxInFlight /\ Len(wire) \in Nat BY <1>2, <1>3
  <2> QED BY <2>1, <2>2, BoundsAreNumbers
<1>8. \A i \in 1..Len(wire') : wire'[i].events # <<>>
  <2>1. SUFFICES ASSUME NEW i \in 1..(Len(wire) - 1) PROVE wire[i + 1].events # <<>>
    BY <1>1, <1>3
  <2>2. i + 1 \in 1..Len(wire) BY <1>3
  <2> QED BY <2>2, <1>2
<1>9. BooksTyped' BY <1>1, <1>3, <1>4, <1>6, <1>7, <1>8 DEF BooksTyped, KnownTopics
<1>10. ASSUME NEW t \in wanted
       PROVE  seen'[t] = IF t \in DOMAIN books' THEN Content(View(books'[t], FullDepth)) ELSE Unseen
  <2>1. seen[t] = IF t \in DOMAIN books THEN Content(View(books[t], FullDepth)) ELSE Unseen
    BY DEF SeenIsCurrent, Known, KnownTopics, FullView
  <2>2. t \in DOMAIN books => Content(View(books'[t], FullDepth)) = Content(View(books[t], FullDepth))
    <3> SUFFICES ASSUME t \in DOMAIN books
                 PROVE  Content(View(books'[t], FullDepth)) = Content(View(books[t], FullDepth))
      OBVIOUS
    <3>1. books'[t].levels = books[t].levels /\ books'[t].sequence = books[t].sequence BY <1>5
    <3> HIDE <1>1, <1>2, <1>3, <1>4, <1>5
    <3> QED BY <3>1, ContentIsOfLevels
  <2> QED BY <1>1, <1>4, <2>1, <2>2
<1>11. SeenIsCurrent' BY <1>1, <1>4, <1>5, <1>10 DEF SeenIsCurrent, Known, KnownTopics, FullView
<1>12. SeenTyped' BY <1>1 DEF SeenTyped
<1> QED BY <1>9, <1>11, <1>12

(* A connection that is lost leaves the books as they are.                 *)
LEMMA ReconnectKeepsReaders ==
  ASSUME ReadersInv, Reconnect
  PROVE  ReadersInv'
<1> USE DEF ReadersInv
<1>1. /\ reconnects < MaxReconnects /\ reconnects' = reconnects + 1
      /\ wire' = <<>> /\ nextSeq' = 1 /\ owed' = wanted
      /\ UNCHANGED <<venueBook, suspended, reading, books, wanted, seen, expected, covered>>
  BY DEF Reconnect, handlerVars, historyVars
<1>2. wire' \in Seq(Envelope) /\ Len(wire') = 0 BY <1>1
<1>3. /\ nextSeq' \in 1..(MaxSeq + 1) /\ reconnects' \in 0..MaxReconnects /\ Len(wire') <= MaxInFlight
  BY <1>1, <1>2, BoundsAreNumbers DEF BooksTyped
<1>4. \A i \in 1..Len(wire') : wire'[i].events # <<>> BY <1>2
<1>5. BooksTyped' BY <1>1, <1>2, <1>3, <1>4 DEF BooksTyped, KnownTopics
<1>6. SeenTyped' /\ SeenIsCurrent' BY <1>1 DEF SeenTyped, SeenIsCurrent, Known, KnownTopics, FullView
<1> QED BY <1>5, <1>6

(* handleSubscribe sends the view there is, which is what the next reader  *)
(* gets.                                                                   *)
LEMMA JoinKeepsReaders ==
  ASSUME ReadersInv, NEW t \in Topics, ConsumerJoins(t)
  PROVE  ReadersInv'
<1> USE DEF ReadersInv
<1>1. /\ wanted' = wanted \cup {t} /\ owed' = owed \cup {t}
      /\ seen' = [seen EXCEPT ![t] = IF t \in DOMAIN books THEN Content(View(books[t], FullDepth)) ELSE Unseen]
      /\ UNCHANGED <<venueBook, nextSeq, wire, reconnects, suspended, reading, books, expected, covered>>
  BY DEF ConsumerJoins, handlerVars, historyVars, Known, KnownTopics, FullView
<1>2. BooksTyped' BY <1>1 DEF BooksTyped, KnownTopics
<1>3. Content(View(books[t], FullDepth)) \in [bids : Seq(Level), asks : Seq(Level), sequence : 0..MaxSeq]
      \/ t \notin DOMAIN books
  <2>1. t \in DOMAIN books => books[t] \in BookState BY DEF BooksTyped, KnownTopics
  <2> QED BY <2>1, ContentIsTyped, FullDepthIsPositive
<1>4. Unseen \in [bids : Seq(Level), asks : Seq(Level), sequence : 0..MaxSeq]
  BY BoundsAreNumbers DEF Unseen
<1>5. SeenTyped' BY <1>1, <1>3, <1>4 DEF SeenTyped
<1>6. \A u \in wanted : seen[u] = IF u \in DOMAIN books THEN Content(View(books[u], FullDepth)) ELSE Unseen
  BY DEF SeenIsCurrent, Known, KnownTopics, FullView
<1>7. \A u \in wanted' : seen'[u] = IF u \in DOMAIN books THEN Content(View(books[u], FullDepth)) ELSE Unseen
  <2>1. DOMAIN seen = Topics /\ wanted \subseteq Topics BY DEF SeenTyped, BooksTyped
  <2> QED BY <1>1, <1>6, <2>1
<1>8. SeenIsCurrent' BY <1>1, <1>7 DEF SeenIsCurrent, Known, KnownTopics, FullView
<1> QED BY <1>2, <1>5, <1>8

(* Whoever leaves is no reader any more.                                   *)
LEMMA LeaveKeepsReaders ==
  ASSUME ReadersInv, NEW t \in Topics, ConsumerLeaves(t)
  PROVE  ReadersInv'
<1> USE DEF ReadersInv
<1>1. /\ wanted' = wanted \ {t} /\ owed' = owed \ {t} /\ covered' = covered \ {t}
      /\ seen' = [seen EXCEPT ![t] = Unseen]
      /\ expected' = [expected EXCEPT ![t] = Empty]
      /\ UNCHANGED <<venueBook, nextSeq, wire, reconnects, suspended, reading, books>>
  BY DEF ConsumerLeaves, handlerVars
<1>2. Empty \in VenueBook BY LevelsAssumption DEF Empty, VenueBook
<1>3. expected' \in [Topics -> VenueBook] BY <1>1, <1>2 DEF BooksTyped
<1>4. BooksTyped' BY <1>1, <1>3 DEF BooksTyped, KnownTopics
<1>5. Unseen \in [bids : Seq(Level), asks : Seq(Level), sequence : 0..MaxSeq]
  BY BoundsAreNumbers DEF Unseen
<1>6. SeenTyped' BY <1>1, <1>5 DEF SeenTyped
<1>7. \A u \in wanted : seen[u] = IF u \in DOMAIN books THEN Content(View(books[u], FullDepth)) ELSE Unseen
  BY DEF SeenIsCurrent, Known, KnownTopics, FullView
<1>8. \A u \in wanted' : seen'[u] = seen[u]
  <2>1. DOMAIN seen = Topics /\ wanted \subseteq Topics BY DEF SeenTyped, BooksTyped
  <2> QED BY <1>1, <2>1
<1>9. SeenIsCurrent' BY <1>1, <1>7, <1>8 DEF SeenIsCurrent, Known, KnownTopics, FullView
<1> QED BY <1>4, <1>6, <1>9

(* ReadersInv is inductive.                                                *)
THEOREM ReadersInvariant == Spec => []ReadersInv
<1>1. ASSUME ReadersInv, [Next]_vars PROVE ReadersInv'
  <2>1. CASE UNCHANGED vars
    <3>1. UNCHANGED <<venueBook, nextSeq, owed, wire, reconnects, suspended, reading, books, wanted, seen, expected, covered>>
      BY <2>1 DEF vars, venueVars, handlerVars, historyVars
    <3>2. BooksTyped' BY <1>1, <3>1 DEF ReadersInv, BooksTyped, KnownTopics
    <3>3. SeenTyped' /\ SeenIsCurrent'
      BY <1>1, <3>1 DEF ReadersInv, SeenTyped, SeenIsCurrent, Known, KnownTopics, FullView
    <3> QED BY <3>2, <3>3 DEF ReadersInv
  <2>2. ASSUME NEW order \in Orders, NEW change \in [ToSet(order) -> Change], VenueSends(order, change)
        PROVE  ReadersInv'
    BY <1>1, <2>2, VenueKeepsReaders
  <2>3. ASSUME NEW t \in Topics, ConsumerJoins(t) \/ ConsumerLeaves(t) PROVE ReadersInv'
    BY <1>1, <2>3, JoinKeepsReaders, LeaveKeepsReaders
  <2>4. CASE HandleEnvelope BY <1>1, <2>4, EnvelopeKeepsReaders
  <2>5. CASE HandleContinues BY <1>1, <2>5, ContinuationKeepsReaders
  <2>6. CASE HandleGap BY <1>1, <2>6, GapKeepsReaders
  <2>7. CASE Reconnect BY <1>1, <2>7, ReconnectKeepsReaders
  <2> QED BY <1>1, <2>1, <2>2, <2>3, <2>4, <2>5, <2>6, <2>7 DEF Next
<1> QED BY <1>1, ReadersStart, PTL DEF Spec

(* TypeOK holds of every reachable state, whatever the bounds: the books,  *)
(* the frames in flight and in an await, and what was published.           *)
THEOREM BooksTypeCorrect == Spec => []TypeOK
<1>1. ASSUME ReadersInv PROVE TypeOK
  <2> USE <1>1 DEF ReadersInv
  <2>1. ASSUME NEW w \in Seq(Envelope)
        PROVE  \A i \in DOMAIN w : w[i].seq \in 1..MaxSeq /\ w[i].events \in Seq(Event)
    <3>1. \A i \in DOMAIN w : w[i] \in Envelope
      <4> HIDE DEF Envelope
      <4> QED OBVIOUS
    <3>2. \A m \in Envelope : m.seq \in 1..MaxSeq /\ m.events \in Seq(Event) BY DEF Envelope
    <3> QED BY <3>1, <3>2
  <2>2. wire \in Seq(Envelope) /\ suspended \in Seq(Envelope) BY DEF BooksTyped
  <2>3. \A i \in DOMAIN wire : wire[i].seq \in 1..MaxSeq /\ wire[i].events \in Seq(Event)
    BY <2>1, <2>2
  <2>4. \A i \in DOMAIN suspended : suspended[i].seq \in 1..MaxSeq /\ suspended[i].events \in Seq(Event)
    BY <2>1, <2>2
  <2>5. owed \subseteq Topics /\ wanted \subseteq Topics /\ covered \subseteq Topics /\ KnownTopics \subseteq Topics
    BY DEF BooksTyped
  <2>6. \A t \in KnownTopics : books[t] \in BookState BY DEF BooksTyped
  <2> QED BY <2>3, <2>4, <2>5, <2>6 DEF TypeOK, BooksTyped, SeenTyped
<1> QED BY <1>1, ReadersInvariant, PTL

(* ViewsAreBestFirst: getView lists the best levels of each side at every  *)
(* depth, best first, and getTopOfBook finds where they start.             *)
THEOREM ViewsAreAlwaysBestFirst == Spec => []ViewsAreBestFirst
<1>1. ASSUME ReadersInv PROVE ViewsAreBestFirst
  <2>1. SUFFICES ASSUME NEW t \in KnownTopics, NEW side \in Sides, NEW depth \in 1..FullDepth
                 PROVE  LET top == TopNLevels(books[t], side, depth)
                        IN /\ ToSet(top) = BestLevels(books[t], side, depth)
                           /\ \A i, j \in DOMAIN top : i < j => Better(side, top[i].price, top[j].price)
                           /\ BestPriceLevel(books[t], side) = {top[i] : i \in DOMAIN top \cap {1}}
    BY DEF ViewsAreBestFirst
  <2>2. books[t] \in BookState BY <1>1 DEF ReadersInv, BooksTyped
  <2>3. depth \in Nat \ {0} BY FullDepthIsPositive
  <2> QED BY <2>2, <2>3, TopNLevelsAreBest
<1> QED BY <1>1, ReadersInvariant, PTL

(* What get_top_of_book says is where the full view starts, and status and *)
(* describe_topic have the number and the staleness of the view.           *)
LEMMA TopStartsTheView ==
  ASSUME NEW b \in BookState
  PROVE  LET view == View(b, FullDepth)
             top == TopOfBook(b)
         IN /\ top.bid = {view.bids[i] : i \in DOMAIN view.bids \cap {1}}
            /\ top.ask = {view.asks[i] : i \in DOMAIN view.asks \cap {1}}
            /\ top.sequence = view.sequence /\ top.stale = view.stale /\ top.staleReason = view.staleReason
            /\ view.sequence = b.sequence /\ view.stale = b.stale /\ view.staleReason = b.staleReason
<1>1. BestPriceLevel(b, "bid") =
        {TopNLevels(b, "bid", FullDepth)[i] : i \in DOMAIN TopNLevels(b, "bid", FullDepth) \cap {1}}
  BY FullDepthIsPositive, TopNLevelsAreBest DEF Sides
<1>2. BestPriceLevel(b, "offer") =
        {TopNLevels(b, "offer", FullDepth)[i] : i \in DOMAIN TopNLevels(b, "offer", FullDepth) \cap {1}}
  BY FullDepthIsPositive, TopNLevelsAreBest DEF Sides
<1> QED BY <1>1, <1>2 DEF View, TopOfBook

(* SurfacesAgree: the bus, the gateway's snapshots, the MCP tools and      *)
(* resources and both status pages never show two versions of a book.      *)
THEOREM SurfacesAlwaysAgree == Spec => []SurfacesAgree
<1>1. ASSUME ReadersInv, NEW t \in Topics
      PROVE  LET read == Resource(t)
                 top == Tools.get_top_of_book[t]
                 warm == Known(t) \/ t \in wanted
             IN
             /\ read.stale <=> read.staleReason # ""
             /\ Tools.describe_topic[t].sequence = read.sequence
             /\ Known(t) =>
                  /\ Tools.get_book_snapshot[t][FullDepth] = read
                  /\ <<top.sequence, top.stale, top.staleReason>> = <<read.sequence, read.stale, read.staleReason>>
                  /\ top.bid = {read.bids[i] : i \in DOMAIN read.bids \cap {1}}
                  /\ top.ask = {read.asks[i] : i \in DOMAIN read.asks \cap {1}}
                  /\ Tools.describe_topic[t].stale = read.stale
             /\ \A status \in {BuildStatus.active, Tools.get_hub_status.active} :
                  /\ t \in DOMAIN status <=> warm
                  /\ warm => [stale |-> status[t].stale, sequence |-> status[t].sequence] = Tools.describe_topic[t]
             /\ t \in wanted => seen[t] = IF Known(t) THEN Content(read) ELSE Unseen
  <2> DEFINE b == books[t]
             read == Resource(t)
             top == Tools.get_top_of_book[t]
             shown == [stale |-> IF Known(t) THEN read.stale ELSE FALSE, sequence |-> read.sequence]
  <2>1. /\ Known(t) => b \in BookState
        /\ Known(t) => (b.stale <=> b.staleReason # "")
        /\ t \in wanted => seen[t] = IF Known(t) THEN Content(FullView(t)) ELSE Unseen
        /\ KnownTopics \subseteq Topics /\ wanted \subseteq Topics
    BY <1>1 DEF ReadersInv, BooksTyped, SeenIsCurrent, Known, KnownTopics
  <2>2. Known(t) =>
          /\ read = View(b, FullDepth)
          /\ read.stale = b.stale /\ read.staleReason = b.staleReason /\ read.sequence = b.sequence
          /\ TopOfBook(b).stale = b.stale /\ TopOfBook(b).sequence = b.sequence
          /\ TopOfBook(b).staleReason = b.staleReason
    BY DEF Resource, FullView, View, TopOfBook
  <2>3. ~Known(t) => read.stale = TRUE /\ read.staleReason = "awaiting initial snapshot" /\ read.sequence = 0
    BY DEF Resource
  <2>4. top = GetTopOfBook(t) /\ Tools.describe_topic[t] = DescribeTopic(t)
        /\ Tools.get_hub_status = BuildMcpStatus
        /\ Tools.get_book_snapshot[t][FullDepth] = GetBookSnapshot(t, FullDepth)
    <3>1. t \in Catalog BY DEF Catalog
    <3>2. FullDepth \in 1..FullDepth
      <4> HIDE DEF FullDepth
      <4> QED BY FullDepthIsPositive
    <3>3. Tools.get_top_of_book = [u \in Catalog |-> GetTopOfBook(u)] BY DEF Tools
    <3>4. Tools.describe_topic = [u \in Catalog |-> DescribeTopic(u)] BY DEF Tools
    <3>5. Tools.get_book_snapshot = [u \in Catalog |-> [depth \in 1..FullDepth |-> GetBookSnapshot(u, depth)]]
      BY DEF Tools
    <3>6. Tools.get_hub_status = BuildMcpStatus BY DEF Tools
    <3>7. top = GetTopOfBook(t) BY <3>1, <3>3
    <3>8. Tools.describe_topic[t] = DescribeTopic(t) BY <3>1, <3>4
    <3>9. Tools.get_book_snapshot[t][FullDepth] = GetBookSnapshot(t, FullDepth) BY <3>1, <3>2, <3>5
    <3> QED BY <3>6, <3>7, <3>8, <3>9
  <2>5. read.stale <=> read.staleReason # "" BY <2>1, <2>2, <2>3
  <2>6. DescribeTopic(t) = shown BY <2>2, <2>3 DEF DescribeTopic
  <2>7. ASSUME Known(t)
        PROVE  /\ GetBookSnapshot(t, FullDepth) = read
               /\ <<top.sequence, top.stale, top.staleReason>> = <<read.sequence, read.stale, read.staleReason>>
               /\ top.bid = {read.bids[i] : i \in DOMAIN read.bids \cap {1}}
               /\ top.ask = {read.asks[i] : i \in DOMAIN read.asks \cap {1}}
    <3>1. top = TopOfBook(b) /\ GetBookSnapshot(t, FullDepth) = View(b, FullDepth)
      BY <2>4, <2>7 DEF GetTopOfBook, GetBookSnapshot
    <3>2. b \in BookState /\ read = View(b, FullDepth) BY <2>1, <2>2, <2>7
    <3> HIDE DEF top, read, b
    <3> QED BY <3>1, <3>2, TopStartsTheView
  <2>8. /\ t \in DOMAIN BuildStatus.active <=> Known(t) \/ t \in wanted
        /\ Known(t) \/ t \in wanted =>
             [stale |-> BuildStatus.active[t].stale, sequence |-> BuildStatus.active[t].sequence] = shown
    <3>1. BuildStatus.active =
            [u \in KnownTopics \cup wanted |->
               [consumerCount |-> IF u \in wanted THEN 1 ELSE 0,
                stale |-> u \in {x \in KnownTopics : TopOfBook(books[x]).stale},
                sequence |-> IF Known(u) THEN TopOfBook(books[u]).sequence ELSE 0]]
      BY DEF BuildStatus
    <3>2. Known(t) <=> t \in KnownTopics BY DEF Known, KnownTopics
    <3>3. DOMAIN BuildStatus.active = KnownTopics \cup wanted BY <3>1
    <3>4. ASSUME Known(t) \/ t \in wanted
          PROVE  BuildStatus.active[t].stale = shown.stale /\ BuildStatus.active[t].sequence = shown.sequence
      <4>1. /\ BuildStatus.active[t].stale = (t \in {x \in KnownTopics : TopOfBook(books[x]).stale})
            /\ BuildStatus.active[t].sequence = IF Known(t) THEN TopOfBook(books[t]).sequence ELSE 0
        BY <3>1, <3>2, <3>4
      <4>2. CASE Known(t)
        <5>1. b.stale \in BOOLEAN BY <2>1, <4>2 DEF BookState
        <5>2. BuildStatus.active[t].stale = b.stale BY <3>2, <4>1, <4>2, <5>1, <2>2
        <5> QED BY <5>2, <4>1, <4>2, <2>2
      <4>3. CASE ~Known(t)
        <5>0. ~(t \in {x \in KnownTopics : TopOfBook(books[x]).stale}) BY <3>2, <4>3
        <5>1. BuildStatus.active[t].stale = FALSE
          <6> DEFINE staleTopics == {x \in KnownTopics : TopOfBook(books[x]).stale}
          <6>1. BuildStatus.active[t].stale = (t \in staleTopics) /\ t \notin staleTopics BY <4>1, <5>0
          <6> HIDE DEF staleTopics
          <6>2. BuildStatus.active[t].stale \in BOOLEAN BY <6>1
          <6> QED BY <6>1, <6>2
        <5> QED BY <5>1, <4>1, <4>3, <2>3
      <4> QED BY <4>2, <4>3
    <3> QED BY <3>2, <3>3, <3>4
  <2>9. /\ t \in DOMAIN BuildMcpStatus.active <=> Known(t) \/ t \in wanted
        /\ Known(t) \/ t \in wanted =>
             [stale |-> BuildMcpStatus.active[t].stale, sequence |-> BuildMcpStatus.active[t].sequence] = shown
    <3>1. BuildMcpStatus.active =
            [u \in wanted \cup KnownTopics |->
               [consumerCount |-> Cardinality({u} \cap wanted),
                stale |-> Known(u) /\ TopOfBook(books[u]).stale,
                sequence |-> IF Known(u) THEN TopOfBook(books[u]).sequence ELSE 0]]
      BY DEF BuildMcpStatus
    <3>2. Known(t) <=> t \in KnownTopics BY DEF Known, KnownTopics
    <3>3. DOMAIN BuildMcpStatus.active = KnownTopics \cup wanted BY <3>1
    <3>4. ASSUME Known(t) \/ t \in wanted
          PROVE  BuildMcpStatus.active[t].stale = shown.stale /\ BuildMcpStatus.active[t].sequence = shown.sequence
      <4>1. /\ BuildMcpStatus.active[t].stale = (Known(t) /\ TopOfBook(books[t]).stale)
            /\ BuildMcpStatus.active[t].sequence = IF Known(t) THEN TopOfBook(books[t]).sequence ELSE 0
        BY <3>1, <3>2, <3>4
      <4>2. CASE Known(t)
        <5>1. b.stale \in BOOLEAN BY <2>1, <4>2 DEF BookState
        <5>2. BuildMcpStatus.active[t].stale = b.stale BY <3>2, <4>1, <4>2, <5>1, <2>2
        <5> QED BY <5>2, <4>1, <4>2, <2>2
      <4>3. CASE ~Known(t)
        <5>1. BuildMcpStatus.active[t].stale = FALSE BY <3>2, <4>1, <4>3
        <5> QED BY <5>1, <4>1, <4>3, <2>3
      <4> QED BY <4>2, <4>3
    <3> QED BY <3>2, <3>3, <3>4
  <2>10. t \in wanted => seen[t] = IF Known(t) THEN Content(read) ELSE Unseen
    BY <2>1, <2>2 DEF FullView
  <2> HIDE DEF read, top
  <2>11. shown.sequence = read.sequence /\ (Known(t) => shown.stale = read.stale) OBVIOUS
  <2> HIDE DEF shown
  <2> QED BY <2>4, <2>5, <2>6, <2>7, <2>8, <2>9, <2>10, <2>11 DEF read, top
<1>2. ReadersInv => SurfacesAgree BY <1>1 DEF SurfacesAgree
<1> QED BY <1>2, ReadersInvariant, PTL

-----------------------------------------------------------------------------
(* Fresh books, with one event in an envelope *)

(* Owing another topic a snapshot changes nothing for this one.            *)
LEMMA OwedElsewhere ==
  ASSUME NEW w, NEW v, NEW next, NEW o, NEW o2, NEW t, NEW b, NEW s,
         Continues(w, v, o, t, b), Newer(w, next, o, t, s),
         t \notin o2 => t \notin o
  PROVE  Continues(w, v, o2, t, b) /\ Newer(w, next, o2, t, s)
<1>1. Continues(w, v, o2, t, b)
  <2>1. SUFFICES ASSUME NEW i \in Places(w), At(w, t, i),
                        \A k \in 1..Len(w) : k < i => Sent(w, k).topic # t,
                        i = Len(w) + 1 => t \notin o2
                 PROVE  Follows(w, v, i, b)
    BY Zenon DEF Continues
  <2>2. i = Len(w) + 1 => t \notin o BY <2>1
  <2> QED BY <2>1, <2>2, Zenon DEF Continues
<1>2. Newer(w, next, o2, t, s)
  <2>1. SUFFICES ASSUME NEW i \in Places(w), At(w, t, i),
                        \A k \in 1..Len(w) : k <= i /\ Sent(w, k).topic = t => Sent(w, k).kind = "update",
                        i = Len(w) + 1 => t \notin o2
                 PROVE  NumberAt(w, next, i) > s
    BY Zenon DEF Newer
  <2>2. i = Len(w) + 1 => t \notin o BY <2>1
  <2> QED BY <2>1, <2>2, Zenon DEF Newer
<1> QED BY <1>1, <1>2

(* Before anything happens no connection has sent anything and no topic is
   covered by a snapshot. *)
LEMMA FreshStart == ReadersInv /\ Init => FreshInv
<1> SUFFICES ASSUME ReadersInv, Init PROVE FreshInv OBVIOUS
<1>1. wire = <<>> /\ suspended = <<>> /\ covered = {} /\ Len(wire) = 0 /\ Len(suspended) = 0
  BY DEF Init
<1>2. SingleEvents BY <1>1 DEF SingleEvents
<1>3. \A t \in Topics : Chained(wire, venueBook[t], t) BY <1>1 DEF Chained
<1>4. Numbered(wire, nextSeq) BY <1>1 DEF Numbered, Places
<1> QED BY <1>1, <1>2, <1>3, <1>4 DEF FreshInv, WireIsChained

(* VenueSends: the next event of a topic follows the last.                 *)
LEMMA VenueKeepsFresh ==
  ASSUME MaxEvents = 1, ReadersInv, FreshInv,
         NEW order \in Orders, NEW change \in [ToSet(order) -> Change], VenueSends(order, change)
  PROVE  FreshInv'
<1>0. BooksTyped BY DEF ReadersInv
<1>1. PICK events \in Seq(Event) :
        /\ DOMAIN events = DOMAIN order
        /\ \E n \in 1..MaxEvents : order \in [1..n -> wanted] /\ Len(events) = n
        /\ wire' = Append(wire, [seq |-> nextSeq, events |-> events])
        /\ [seq |-> nextSeq, events |-> events] \in Envelope
        /\ \A i \in DOMAIN order :
             /\ events[i].topic = order[i]
             /\ events[i].after = Changed(venueBook[order[i]], change[order[i]])
             /\ order[i] \in owed => events[i].kind = "snapshot"
             /\ order[i] \notin owed => events[i].kind = "update" /\ events[i].change = change[order[i]]
  BY <1>0, EventsSent, Zenon
<1>2. order \in [1..1 -> wanted] /\ Len(events) = 1
  <2>1. PICK n \in 1..MaxEvents : order \in [1..n -> wanted] /\ Len(events) = n BY <1>1
  <2>2. n = 1 OBVIOUS
  <2> QED BY <2>1, <2>2
<1> DEFINE m == [seq |-> nextSeq, events |-> events]
           e == m.events[1]
           u == order[1]
<1>3. DOMAIN order = {1} /\ ToSet(order) = {u} BY <1>2 DEF ToSet
<1>4. /\ e.topic = u
      /\ e.after = Changed(venueBook[u], change[u])
      /\ u \in owed => e.kind # "update"
      /\ e.kind = "update" => e.after = Changed(venueBook[u], e.change)
  <2>1. 1 \in DOMAIN order /\ e = events[1] BY <1>3
  <2>2. /\ e.topic = u
        /\ e.after = Changed(venueBook[u], change[u])
        /\ u \in owed => e.kind = "snapshot"
        /\ u \notin owed => e.kind = "update" /\ e.change = change[u]
    BY <1>1, <2>1
  <2> HIDE DEF e, u
  <2> QED BY <2>2
<1>5. /\ nextSeq' = nextSeq + 1
      /\ venueBook' = [t \in Topics |-> IF t \in {u} THEN Changed(venueBook[t], change[t]) ELSE venueBook[t]]
      /\ owed' = owed \ {u}
      /\ UNCHANGED <<suspended, books, expected, covered>>
  BY <1>3 DEF VenueSends, handlerVars, historyVars
<1>6. m \in Envelope /\ m.seq = nextSeq /\ Len(m.events) = 1 /\ wire' = Append(wire, m)
  BY <1>1, <1>2
<1>7. u \in Topics /\ covered \subseteq Topics /\ nextSeq \in Nat /\ wire \in Seq(Envelope)
  BY <1>0, <1>2, BoundsAreNumbers DEF BooksTyped
<1> HIDE DEF m, e, u
<1>8. /\ Len(wire') = Len(wire) + 1 /\ Len(wire) \in Nat
      /\ \A i \in 1..Len(wire) : wire'[i] = wire[i]
      /\ wire'[Len(wire) + 1] = m
  BY <1>6, <1>7, WireGrows
<1>9. SingleEvents' BY <1>5, <1>6, <1>8 DEF FreshInv, SingleEvents
<1>10. ASSUME NEW t \in Topics PROVE Chained(wire', venueBook'[t], t)
  <2>1. Chained(wire, venueBook[t], t) BY DEF FreshInv, WireIsChained
  <2>2. CASE t = u
    <3>1. venueBook'[t] = e.after BY <1>4, <1>5, <2>2
    <3> QED BY <1>4, <1>6, <1>7, <2>1, <2>2, <3>1, ChainGrows DEF e
  <2>3. CASE t # u
    <3>1. venueBook'[t] = venueBook[t] BY <1>5, <2>3
    <3> QED BY <1>4, <1>6, <1>7, <2>1, <2>3, <3>1, ChainIgnoresOthers DEF e
  <2> QED BY <2>2, <2>3
<1>11. Numbered(wire', nextSeq')
  <2>1. Numbered(wire, nextSeq) BY DEF FreshInv, WireIsChained
  <2> QED BY <1>5, <1>6, <1>7, <2>1, NumberedGrows
<1>12. ASSUME NEW t \in covered, ~books[t].stale
       PROVE  /\ books[t].levels = expected[t]
              /\ Continues(wire', venueBook'[t], owed', t, expected[t])
              /\ Newer(wire', nextSeq', owed', t, books[t].sequence)
  <2>1. /\ books[t].levels = expected[t]
        /\ Continues(wire, venueBook[t], owed, t, expected[t])
        /\ Newer(wire, nextSeq, owed, t, books[t].sequence)
    BY <1>12 DEF FreshInv, BookIsCurrent
  <2>2. books[t].sequence \in Int
    <3>1. books[t] \in BookState BY <1>0 DEF BooksTyped
    <3>2. books[t].sequence \in 1..MaxSeq BY <3>1 DEF BookState
    <3> QED BY <3>2, BoundsAreNumbers
  <2>3. e.topic = t /\ t \in owed => e.kind # "update" BY <1>4
  <2>4. e.topic # t /\ t \notin owed' => t \notin owed BY <1>4, <1>5
  <2>5. Newer(wire', nextSeq', owed', t, books[t].sequence)
    BY <1>5, <1>6, <1>7, <2>1, <2>2, <2>3, <2>4, NewerGrows DEF e
  <2>6. CASE t = u
    <3>1. Continues(Append(wire, m), venueBook'[t], owed', t, expected[t])
      BY <1>4, <1>6, <1>7, <2>1, <2>6, ContinuesGrows DEF e
    <3> QED BY <1>6, <2>1, <2>5, <3>1
  <2>7. CASE t # u
    <3>1. venueBook'[t] = venueBook[t] BY <1>5, <1>7, <2>7
    <3>2. Continues(Append(wire, m), venueBook[t], owed', t, expected[t])
      BY <1>4, <1>6, <1>7, <2>1, <2>4, <2>7, ContinuesIgnoresOthers DEF e
    <3> QED BY <1>6, <2>1, <2>5, <3>1, <3>2
  <2> QED BY <2>6, <2>7
<1> QED BY <1>5, <1>9, <1>10, <1>11, <1>12 DEF FreshInv, WireIsChained, BookIsCurrent

(* HandleEnvelope: in order, an event is applied to the book it is a       *)
(* change of, and is newer than it: the store does not skip it.            *)
LEMMA EnvelopeKeepsFresh ==
  ASSUME ReadersInv, ReadersInv', FreshInv, HandleEnvelope
  PROVE  FreshInv'
<1> DEFINE m == wire[1]
           e == Sent(wire, 1)
           u == e.topic
<1>1. /\ wire # <<>> /\ wire' = Tail(wire)
      /\ ProcessFrame(Head(Head(wire).events), Head(wire).seq)
      /\ suspended' = Append(suspended, [seq |-> Head(wire).seq, events |-> Tail(Head(wire).events)])
      /\ expected' = [t \in Topics |->
           IF t \in wanted /\ \E i \in DOMAIN Head(wire).events : Head(wire).events[i].topic = t
           THEN (CHOOSE ev \in ToSet(Head(wire).events) : ev.topic = t).after ELSE expected[t]]
      /\ UNCHANGED <<venueBook, nextSeq, owed, wanted>>
  BY DEF HandleEnvelope
<1>2. /\ wire \in Seq(Envelope) /\ suspended \in Seq(Envelope)
      /\ covered \subseteq wanted /\ covered \subseteq DOMAIN books /\ wanted \subseteq Topics
      /\ books \in [DOMAIN books -> BookState]
  BY DEF ReadersInv, BooksTyped, KnownTopics
<1>3. covered' \subseteq wanted /\ covered' \subseteq Topics
  BY <1>1, <1>2 DEF ReadersInv, BooksTyped
<1>4. /\ Len(wire) \in Nat \ {0} /\ Len(Tail(wire)) = Len(wire) - 1
      /\ \A i \in 1..(Len(wire) - 1) : Tail(wire)[i] = wire[i + 1]
      /\ Head(wire) = m /\ m \in Envelope
  BY <1>1, <1>2, WireShrinks
<1>5. Len(m.events) = 1 /\ m.events \in Seq(Event) /\ m.seq \in 1..MaxSeq
  <2>1. 1 \in 1..Len(wire) BY <1>4
  <2> QED BY <2>1, <1>4 DEF FreshInv, SingleEvents, Envelope
<1>6. /\ Head(m.events) = e /\ e \in Event /\ Tail(m.events) = <<>>
      /\ DOMAIN m.events = {1} /\ ToSet(m.events) = {e}
  <2>1. e = m.events[1] BY DEF Sent
  <2> HIDE DEF m, e, Event
  <2> DEFINE s == m.events
  <2>2. s \in Seq(Event) /\ Len(s) = 1 /\ e = s[1] BY <1>5, <2>1
  <2> HIDE DEF s
  <2>3. s # <<>> /\ s[1] \in Event /\ Head(s) = s[1] BY <2>2
  <2>4. Len(Tail(s)) = 0 /\ Tail(s) \in Seq(Event) BY <2>2, <2>3, HeadTailProperties
  <2>5. Tail(s) = <<>> BY <2>4, EmptySeq
  <2>6. e \in Event /\ Head(m.events) = e /\ Tail(m.events) = <<>> BY <2>2, <2>3, <2>5 DEF s
  <2>7. DOMAIN m.events = {1} BY <1>5
  <2>8. ToSet(m.events) = {e} BY <2>1, <2>7 DEF ToSet
  <2> QED BY <2>6, <2>7, <2>8
<1>7. /\ e.after \in VenueBook /\ u \in Topics
      /\ e.kind \in {"snapshot", "update"}
      /\ e.kind = "update" => e.change \in Change
  BY <1>6, EventIsTyped
<1>8. ProcessFrame(e, m.seq) BY <1>1, <1>4, <1>6
<1>9. ASSUME NEW t \in Topics
      PROVE  expected'[t] = IF t \in wanted /\ t = u THEN e.after ELSE expected[t]
  <2>1. (\E i \in DOMAIN m.events : m.events[i].topic = t) <=> u = t BY <1>6 DEF Sent
  <2>2. u = t => (CHOOSE ev \in ToSet(m.events) : ev.topic = t) = e
    <3> HIDE DEF e
    <3> QED BY <1>6 DEF u
  <2>3. expected'[t] =
          IF t \in wanted /\ \E i \in DOMAIN m.events : m.events[i].topic = t
          THEN (CHOOSE ev \in ToSet(m.events) : ev.topic = t).after ELSE expected[t]
    BY <1>1, <1>4
  <2> QED BY <2>1, <2>2, <2>3
<1>10. suspended' = Append(suspended, [seq |-> m.seq, events |-> <<>>])
  BY <1>1, <1>4, <1>6
<1> HIDE DEF m, e, u
<1>11. SingleEvents'
  <2>1. \A i \in 1..Len(wire') : Len(wire'[i].events) = 1
    <3>1. SUFFICES ASSUME NEW i \in 1..(Len(wire) - 1) PROVE Len(wire[i + 1].events) = 1
      BY <1>1, <1>4
    <3>2. i + 1 \in 1..Len(wire) BY <1>4
    <3> QED BY <3>2 DEF FreshInv, SingleEvents
  <2>2. \A i \in 1..Len(suspended') : suspended'[i].events = <<>>
    <3>1. [seq |-> m.seq, events |-> <<>>] \in Envelope BY <1>5 DEF Envelope
    <3>2. /\ Len(suspended) \in Nat /\ Len(suspended') = Len(suspended) + 1
          /\ \A i \in 1..Len(suspended) : suspended'[i] = suspended[i]
          /\ suspended'[Len(suspended) + 1] = [seq |-> m.seq, events |-> <<>>]
      BY <1>2, <1>10, <3>1, WireGrows
    <3>3. \A i \in 1..Len(suspended) : suspended[i].events = <<>> BY DEF FreshInv, SingleEvents
    <3> QED BY <3>2, <3>3
  <2> QED BY <2>1, <2>2 DEF SingleEvents
<1>12. Numbered(wire, nextSeq) /\ \A t \in Topics : Chained(wire, venueBook[t], t)
  BY DEF FreshInv, WireIsChained
<1>13. WireIsChained'
  <2>1. Numbered(wire', nextSeq') BY <1>1, <1>2, <1>12, NumberedShrinks
  <2>2. \A t \in Topics : Chained(wire', venueBook'[t], t) BY <1>1, <1>2, <1>12, ChainShrinks
  <2> QED BY <2>1, <2>2 DEF WireIsChained
<1>14. \A t \in DOMAIN books : t # u => t \in DOMAIN books' /\ books'[t] = books[t]
  <2>1. CASE e.kind = "snapshot" BY <1>8, <2>1 DEF ProcessFrame, ApplySnapshot, KnownTopics, u
  <2>2. CASE e.kind # "snapshot"
    <3>1. ApplyUpdate(e, m.seq) BY <1>8, <2>2 DEF ProcessFrame
    <3>2. CASE IsNews(e, m.seq)
      <4>1. books' = [books EXCEPT ![u].levels = Changed(@, e.change), ![u].sequence = m.seq]
        BY <3>1, <3>2 DEF ApplyUpdate, u
      <4> QED BY <4>1
    <3>3. CASE ~IsNews(e, m.seq) BY <3>1, <3>3 DEF ApplyUpdate
    <3> QED BY <3>2, <3>3
  <2> QED BY <2>1, <2>2
<1>15. covered' \ {u} \subseteq covered /\ (e.kind = "update" => covered' = covered)
  BY <1>8 DEF ProcessFrame, ApplySnapshot, ApplyUpdate, u
<1>16. ASSUME NEW t \in covered', ~books'[t].stale
       PROVE  /\ books'[t].levels = expected'[t]
              /\ Continues(wire', venueBook'[t], owed', t, expected'[t])
              /\ Newer(wire', nextSeq', owed', t, books'[t].sequence)
  <2>1. CASE t # u
    <3>1. t \in covered /\ books'[t] = books[t] /\ expected'[t] = expected[t]
      BY <1>2, <1>3, <1>9, <1>14, <1>15, <2>1
    <3>2. /\ books[t].levels = expected[t]
          /\ Continues(wire, venueBook[t], owed, t, expected[t])
          /\ Newer(wire, nextSeq, owed, t, books[t].sequence)
      BY <1>16, <3>1 DEF FreshInv, BookIsCurrent
    <3>3. Sent(wire, 1).topic # t BY <2>1 DEF u, e
    <3>4. Continues(Tail(wire), venueBook[t], owed, t, expected[t])
      BY <1>1, <1>2, <3>2, <3>3, ContinuesShrinks
    <3>5. Newer(Tail(wire), nextSeq, owed, t, books[t].sequence)
      BY <1>1, <1>2, <3>2, <3>3, NewerShrinks
    <3> QED BY <1>1, <3>1, <3>2, <3>4, <3>5
  <2>2. CASE t = u
    <3>1. t \in wanted /\ t \in Topics /\ expected'[t] = e.after BY <1>3, <1>9, <2>2
    <3>2. Continues(Tail(wire), venueBook[t], owed, t, e.after)
      BY <1>1, <1>2, <1>12, <2>2, <3>1, ContinuesAfterHead DEF u, e
    <3>3. Newer(Tail(wire), nextSeq, owed, t, m.seq)
      BY <1>1, <1>2, <1>12, RestIsNewer DEF m
    <3>4. books'[t].levels = e.after /\ books'[t].sequence = m.seq
      <4>1. CASE e.kind = "snapshot"
        <5>1. books' = [x \in DOMAIN books \cup {u} |->
                IF x = u THEN [levels |-> e.after, sequence |-> m.seq, stale |-> FALSE, staleReason |-> ""]
                ELSE books[x]]
          BY <1>8, <4>1 DEF ProcessFrame, ApplySnapshot, KnownTopics, u
        <5> QED BY <5>1, <2>2
      <4>2. CASE e.kind = "update"
        <5>1. ApplyUpdate(e, m.seq) /\ t \in covered BY <1>8, <1>15, <4>2 DEF ProcessFrame
        <5>2. t \in DOMAIN books /\ books[t] \in BookState BY <5>1, <1>2
        <5>3. ~books[t].stale
          <6>1. CASE IsNews(e, m.seq)
            <7>1. books' = [books EXCEPT ![t].levels = Changed(@, e.change), ![t].sequence = m.seq]
              BY <5>1, <6>1, <2>2 DEF ApplyUpdate, u
            <7>2. books'[t] = [books[t] EXCEPT !.levels = Changed(@, e.change), !.sequence = m.seq]
              BY <7>1, <5>2
            <7>3. books'[t].stale = books[t].stale BY <7>2, <5>2 DEF BookState
            <7> QED BY <7>3, <1>16
          <6>2. CASE ~IsNews(e, m.seq)
            <7>1. books' = books BY <5>1, <6>2 DEF ApplyUpdate
            <7> QED BY <7>1, <1>16
          <6> QED BY <6>1, <6>2
        <5>4. /\ books[t].levels = expected[t]
              /\ Continues(wire, venueBook[t], owed, t, expected[t])
              /\ Newer(wire, nextSeq, owed, t, books[t].sequence)
          BY <5>1, <5>3 DEF FreshInv, BookIsCurrent
        <5>5. 1 \in Places(wire) /\ At(wire, t, 1) /\ 1 # Len(wire) + 1
          BY <1>4, <2>2 DEF Places, At, u, e
        <5>6. Follows(wire, venueBook[t], 1, expected[t])
          <6>1. \A k \in 1..Len(wire) : k < 1 => Sent(wire, k).topic # t BY <1>4
          <6> QED BY <5>4, <5>5, <6>1 DEF Continues
        <5>7. e.after = Changed(expected[t], e.change) BY <5>5, <5>6, <4>2 DEF Follows, e
        <5>8. m.seq > books[t].sequence
          <6>1. \A k \in 1..Len(wire) : k <= 1 /\ Sent(wire, k).topic = t => Sent(wire, k).kind = "update"
            <7>1. \A k \in 1..Len(wire) : k <= 1 => k = 1 BY <1>4
            <7> QED BY <7>1, <4>2 DEF e
          <6>2. NumberAt(wire, nextSeq, 1) > books[t].sequence BY <5>4, <5>5, <6>1 DEF Newer
          <6> QED BY <6>2, <5>5 DEF NumberAt, m
        <5>9. IsNews(e, m.seq) BY <5>2, <5>8, <2>2 DEF IsNews, Known, KnownTopics, u
        <5>10. books' = [books EXCEPT ![t].levels = Changed(@, e.change), ![t].sequence = m.seq]
          BY <5>1, <5>9, <2>2 DEF ApplyUpdate, u
        <5>11. books'[t] = [books[t] EXCEPT !.levels = Changed(@, e.change), !.sequence = m.seq]
          BY <5>10, <5>2
        <5>12. books'[t].levels = Changed(books[t].levels, e.change) /\ books'[t].sequence = m.seq
          BY <5>11, <5>2 DEF BookState
        <5> QED BY <5>4, <5>7, <5>12
      <4> QED BY <4>1, <4>2, <1>7
    <3> QED BY <1>1, <3>1, <3>2, <3>3, <3>4
  <2> QED BY <2>1, <2>2
<1> QED BY <1>11, <1>13, <1>16 DEF FreshInv, BookIsCurrent

(* HandleContinues: no handle() has a frame left.                          *)
LEMMA ContinuationKeepsFresh ==
  ASSUME ReadersInv, FreshInv, HandleContinues
  PROVE  FreshInv'
<1>1. /\ suspended # <<>>
      /\ UNCHANGED <<venueBook, nextSeq, owed, wire, wanted, expected>>
  BY DEF HandleContinues, venueVars
<1>2. suspended \in Seq(Envelope) BY DEF ReadersInv, BooksTyped
<1>3. /\ Len(suspended) \in Nat \ {0} /\ Len(Tail(suspended)) = Len(suspended) - 1
      /\ \A i \in 1..(Len(suspended) - 1) : Tail(suspended)[i] = suspended[i + 1]
      /\ Head(suspended) = suspended[1]
  BY <1>1, <1>2, WireShrinks
<1>4. \A i \in 1..Len(suspended) : suspended[i].events = <<>> BY DEF FreshInv, SingleEvents
<1>5. Head(suspended).events = <<>> BY <1>3, <1>4
<1>6. suspended' = Tail(suspended) /\ UNCHANGED <<books, covered>> BY <1>5 DEF HandleContinues
<1>7. \A i \in 1..Len(suspended') : suspended'[i].events = <<>>
  <2>1. SUFFICES ASSUME NEW i \in 1..(Len(suspended) - 1) PROVE suspended[i + 1].events = <<>>
    BY <1>3, <1>6
  <2>2. i + 1 \in 1..Len(suspended) BY <1>3
  <2> QED BY <2>2, <1>4
<1>8. SingleEvents' BY <1>1, <1>7 DEF FreshInv, SingleEvents
<1> QED BY <1>1, <1>6, <1>8 DEF FreshInv, WireIsChained, BookIsCurrent

(* HandleGap: what is lost is lost with every covered book marked stale.   *)
LEMMA GapKeepsFresh ==
  ASSUME ReadersInv, FreshInv, HandleGap
  PROVE  FreshInv'
<1>1. /\ wire # <<>> /\ wire' = Tail(wire)
      /\ books' = [t \in DOMAIN books |->
           IF t \in wanted THEN [books[t] EXCEPT !.stale = TRUE, !.staleReason = "sequence_gap"] ELSE books[t]]
      /\ UNCHANGED <<venueBook, nextSeq, suspended, wanted, expected, covered>>
  BY DEF HandleGap, MarkAllStale, KnownTopics, handlerVars, historyVars
<1>2. /\ wire \in Seq(Envelope)
      /\ covered \subseteq wanted /\ covered \subseteq DOMAIN books
      /\ books \in [DOMAIN books -> BookState]
  BY DEF ReadersInv, BooksTyped, KnownTopics
<1>3. /\ Len(wire) \in Nat \ {0} /\ Len(Tail(wire)) = Len(wire) - 1
      /\ \A i \in 1..(Len(wire) - 1) : Tail(wire)[i] = wire[i + 1]
  BY <1>1, <1>2, WireShrinks
<1>4. SingleEvents'
  <2>1. ASSUME NEW i \in 1..(Len(wire) - 1) PROVE Len(Tail(wire)[i].events) = 1
    <3>1. i + 1 \in 1..Len(wire) BY <1>3
    <3> QED BY <1>3, <3>1 DEF FreshInv, SingleEvents
  <2>2. \A i \in 1..Len(suspended) : suspended[i].events = <<>> BY DEF FreshInv, SingleEvents
  <2> QED BY <1>1, <1>3, <2>1, <2>2 DEF SingleEvents
<1>5. WireIsChained'
  <2>1. Numbered(wire, nextSeq) /\ \A t \in Topics : Chained(wire, venueBook[t], t)
    BY DEF FreshInv, WireIsChained
  <2>2. Numbered(wire', nextSeq') BY <1>1, <1>2, <2>1, NumberedShrinks
  <2>3. \A t \in Topics : Chained(wire', venueBook'[t], t) BY <1>1, <1>2, <2>1, ChainShrinks
  <2> QED BY <2>2, <2>3 DEF WireIsChained
<1>6. ASSUME NEW t \in covered PROVE books'[t].stale
  <2>1. t \in DOMAIN books /\ books[t] \in BookState /\ t \in wanted BY <1>2
  <2>2. books'[t] = [books[t] EXCEPT !.stale = TRUE, !.staleReason = "sequence_gap"] BY <1>1, <2>1
  <2> QED BY <2>1, <2>2 DEF BookState
<1> QED BY <1>1, <1>4, <1>5, <1>6 DEF FreshInv

(* Reconnect: every channel is asked for again, so whatever comes next of  *)
(* a topic is its snapshot, although numbers start anew.                   *)
LEMMA ReconnectKeepsFresh ==
  ASSUME ReadersInv, FreshInv, Reconnect
  PROVE  FreshInv'
<1>1. /\ wire' = <<>> /\ nextSeq' = 1 /\ owed' = wanted /\ Len(wire') = 0
      /\ UNCHANGED <<venueBook, suspended, books, wanted, expected, covered>>
  BY DEF Reconnect, handlerVars, historyVars
<1>2. covered \subseteq wanted BY DEF ReadersInv, BooksTyped
<1>3. SingleEvents' BY <1>1 DEF FreshInv, SingleEvents
<1>4. WireIsChained' BY <1>1 DEF WireIsChained, Numbered, Chained, Places
<1>5. ASSUME NEW t \in covered, ~books[t].stale
      PROVE  /\ books[t].levels = expected[t]
             /\ Continues(wire', venueBook'[t], owed', t, expected[t])
             /\ Newer(wire', nextSeq', owed', t, books[t].sequence)
  <2>1. t \in owed' /\ \A i \in Places(wire') : i = Len(wire') + 1 BY <1>1, <1>2 DEF Places
  <2>2. Continues(wire', venueBook'[t], owed', t, expected[t]) BY <2>1, Zenon DEF Continues
  <2>3. Newer(wire', nextSeq', owed', t, books[t].sequence) BY <2>1, Zenon DEF Newer
  <2>4. books[t].levels = expected[t] BY <1>5 DEF FreshInv, BookIsCurrent
  <2> QED BY <2>2, <2>3, <2>4
<1> QED BY <1>1, <1>3, <1>4, <1>5 DEF FreshInv, BookIsCurrent

(* Subscribing: the topic had no covered book, and others are not touched. *)
LEMMA JoinKeepsFresh ==
  ASSUME ReadersInv, FreshInv, NEW t \in Topics, ConsumerJoins(t)
  PROVE  FreshInv'
<1>1. /\ t \notin wanted /\ owed' = owed \cup {t}
      /\ UNCHANGED <<venueBook, nextSeq, wire, suspended, books, expected, covered>>
  BY DEF ConsumerJoins, handlerVars, historyVars
<1>2. covered \subseteq wanted BY DEF ReadersInv, BooksTyped
<1>3. SingleEvents' /\ WireIsChained' BY <1>1 DEF FreshInv, SingleEvents, WireIsChained
<1>4. ASSUME NEW u \in covered, ~books[u].stale
      PROVE  /\ books[u].levels = expected[u]
             /\ Continues(wire, venueBook[u], owed', u, expected[u])
             /\ Newer(wire, nextSeq, owed', u, books[u].sequence)
  <2>1. /\ books[u].levels = expected[u]
        /\ Continues(wire, venueBook[u], owed, u, expected[u])
        /\ Newer(wire, nextSeq, owed, u, books[u].sequence)
    BY <1>4 DEF FreshInv, BookIsCurrent
  <2>2. u \notin owed' => u \notin owed BY <1>1
  <2> QED BY <2>1, <2>2, OwedElsewhere
<1> QED BY <1>1, <1>3, <1>4 DEF FreshInv, BookIsCurrent

(* Unsubscribing: the book left in the store is covered no more.           *)
LEMMA LeaveKeepsFresh ==
  ASSUME ReadersInv, FreshInv, NEW t \in Topics, ConsumerLeaves(t)
  PROVE  FreshInv'
<1>1. /\ owed' = owed \ {t} /\ covered' = covered \ {t}
      /\ expected' = [expected EXCEPT ![t] = Empty]
      /\ UNCHANGED <<venueBook, nextSeq, wire, suspended, books>>
  BY DEF ConsumerLeaves, handlerVars
<1>2. covered \subseteq Topics /\ expected \in [Topics -> VenueBook] BY DEF ReadersInv, BooksTyped
<1>3. SingleEvents' /\ WireIsChained' BY <1>1 DEF FreshInv, SingleEvents, WireIsChained
<1>4. ASSUME NEW u \in covered', ~books[u].stale
      PROVE  /\ books[u].levels = expected'[u]
             /\ Continues(wire, venueBook[u], owed', u, expected'[u])
             /\ Newer(wire, nextSeq, owed', u, books[u].sequence)
  <2>1. u \in covered /\ u # t /\ expected'[u] = expected[u] BY <1>1, <1>2
  <2>2. /\ books[u].levels = expected[u]
        /\ Continues(wire, venueBook[u], owed, u, expected[u])
        /\ Newer(wire, nextSeq, owed, u, books[u].sequence)
    BY <1>4, <2>1 DEF FreshInv, BookIsCurrent
  <2>3. u \notin owed' => u \notin owed BY <1>1, <2>1
  <2>4. /\ Continues(wire, venueBook[u], owed', u, expected[u])
        /\ Newer(wire, nextSeq, owed', u, books[u].sequence)
    BY <2>2, <2>3, OwedElsewhere
  <2> QED BY <2>1, <2>2, <2>4
<1> QED BY <1>1, <1>3, <1>4 DEF FreshInv, BookIsCurrent

(* FreshBookIsVenueBook, for envelopes of one event: the store's numbers   *)
(* skip nothing that comes in order, and every way of losing an event ends *)
(* in a stale book or a snapshot.  With two events it is false, which the  *)
(* run of SkippingLosesNothing shows.                                      *)
THEOREM FreshBookIsAlwaysVenueBook ==
  ASSUME MaxEvents = 1
  PROVE  Spec => []FreshBookIsVenueBook
<1>1. ASSUME ReadersInv, ReadersInv', FreshInv, [Next]_vars PROVE FreshInv'
  <2>1. CASE UNCHANGED vars
    <3>1. UNCHANGED <<venueBook, nextSeq, owed, wire, suspended, books, wanted, expected, covered>>
      BY <2>1 DEF vars, venueVars, handlerVars, historyVars
    <3> QED BY <1>1, <3>1 DEF FreshInv, SingleEvents, WireIsChained, BookIsCurrent
  <2>2. ASSUME NEW order \in Orders, NEW change \in [ToSet(order) -> Change], VenueSends(order, change)
        PROVE  FreshInv'
    BY <1>1, <2>2, VenueKeepsFresh
  <2>3. ASSUME NEW t \in Topics, ConsumerJoins(t) \/ ConsumerLeaves(t) PROVE FreshInv'
    BY <1>1, <2>3, JoinKeepsFresh, LeaveKeepsFresh
  <2>4. CASE HandleEnvelope BY <1>1, <2>4, EnvelopeKeepsFresh
  <2>5. CASE HandleContinues BY <1>1, <2>5, ContinuationKeepsFresh
  <2>6. CASE HandleGap BY <1>1, <2>6, GapKeepsFresh
  <2>7. CASE Reconnect BY <1>1, <2>7, ReconnectKeepsFresh
  <2> QED BY <1>1, <2>1, <2>2, <2>3, <2>4, <2>5, <2>6, <2>7 DEF Next
<1>2. FreshInv => FreshBookIsVenueBook BY DEF FreshInv, FreshBookIsVenueBook, BookIsCurrent
<1> QED BY <1>1, <1>2, FreshStart, ReadersInvariant, PTL DEF Spec
=============================================================================
