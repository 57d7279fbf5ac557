------------------------------ MODULE AhuProofs ------------------------------
(***************************************************************************)
(* Facts about the bundle format, for bundles of any size: sorting puts    *)
(* every entry in its place, laying out keeps every payload, a file that   *)
(* was built is read back as it was meant, and both searches find a slot   *)
(* exactly when it is there.                                               *)
(***************************************************************************)
EXTENDS Ahu, SequenceTheorems, FiniteSetTheorems, WellFoundedInduction, TLAPS

-----------------------------------------------------------------------------
(* Numbers and finite sets *)

\* A non-empty set of natural numbers has a smallest one.
LEMMA Smallest ==
  ASSUME NEW S, S \subseteq Nat, S # {}
  PROVE  \E m \in S : \A n \in S : m <= n
<1> DEFINE R == OpToRel(<, Nat)
<1>1. IsWellFoundedOn(R, Nat)
  BY NatLessThanWellFounded, Zenon
<1>2. \A x \in S, y \in S : x < y => <<x, y>> \in R
  BY DEF OpToRel
<1> HIDE DEF R
<1>3. PICK m \in S : \A n \in S : ~(<<n, m>> \in R)
  BY <1>1, WFMin
<1>4. \A n \in S : n \in Nat /\ m \in Nat
  OBVIOUS
<1>5. \A n \in S : ~(n < m)
  BY <1>2, <1>3
<1> QED
  BY <1>4, <1>5

\* What holds of 0 and is passed on by every number holds of all numbers.
LEMMA Induction ==
  ASSUME NEW S, 0 \in S, \A n \in Nat : n \in S => n + 1 \in S
  PROVE  \A n \in Nat : n \in S
<1> SUFFICES ASSUME NEW k \in Nat, k \notin S PROVE FALSE
  OBVIOUS
<1> DEFINE T == {n \in Nat : n \notin S}
<1>1. T \subseteq Nat /\ T # {}
  OBVIOUS
<1>2. PICK m \in T : \A n \in T : m <= n
  BY <1>1, Smallest
<1>3. m \in Nat /\ m # 0 /\ m \notin S
  BY <1>2
<1>4. m - 1 \in Nat /\ ~(m <= m - 1) /\ (m - 1) + 1 = m
  BY <1>3
<1>5. m - 1 \in S
  BY <1>2, <1>4
<1> QED
  BY <1>3, <1>4, <1>5

\* A non-empty finite set of numbers has a greatest one.
LEMMA FiniteGreatest ==
  ASSUME NEW S, S \subseteq Int, IsFiniteSet(S), S # {}
  PROVE  \E m \in S : \A n \in S : n <= m
<1> SUFFICES ASSUME \A m \in S : \E n \in S : ~(n <= m) PROVE FALSE
  OBVIOUS
<1> DEFINE Above(m) == {n \in S : ~(n <= m)}
           T == {Above(m) : m \in S}
<1>1. \A m \in S : Above(m) \in FiniteSubsetsOf(S)
  <2> SUFFICES ASSUME NEW m \in S PROVE Above(m) \in FiniteSubsetsOf(S)
    OBVIOUS
  <2>1. Above(m) \in SUBSET S
    OBVIOUS
  <2> HIDE DEF Above
  <2>2. IsFiniteSet(Above(m))
    BY <2>1, FS_Subset
  <2> QED
    BY <2>1, <2>2 DEF FiniteSubsetsOf
<1>2. T \subseteq FiniteSubsetsOf(S) /\ T # {}
  BY <1>1
<1>3. IsWellFoundedOn(StrictSubsetOrdering(S), FiniteSubsetsOf(S))
  BY FS_StrictSubsetOrderingWellFounded
<1>4. PICK A \in T : \A B \in T : ~(<<B, A>> \in StrictSubsetOrdering(S))
  BY <1>2, <1>3, WFMin
<1>5. PICK m \in S : A = Above(m)
  BY <1>4
<1>6. PICK n \in S : ~(n <= m)
  OBVIOUS
<1>7. m \in Int /\ n \in Int /\ \A x \in S : ~(x <= n) => ~(x <= m)
  BY <1>6
<1>8. n \in Above(m) /\ n \notin Above(n) /\ Above(n) \subseteq Above(m)
  <2>1. n <= n
    BY <1>7
  <2>2. n \in Above(m)
    BY <1>6
  <2>3. n \notin Above(n)
    BY <2>1
  <2>4. Above(n) \subseteq Above(m)
    BY <1>7
  <2> QED
    BY <2>2, <2>3, <2>4
<1>9. Above(n) \in T /\ Above(n) \in SUBSET S /\ A \in SUBSET S
  BY <1>4
<1>10. <<Above(n), A>> \in StrictSubsetOrdering(S)
  BY <1>5, <1>8, <1>9 DEF StrictSubsetOrdering
<1> QED
  BY <1>4, <1>9, <1>10

-----------------------------------------------------------------------------
(* Sorting *)

\* R orders the set S strictly and totally.
Orders(R, S) ==
  /\ \A x \in S : <<x, x>> \notin R
  /\ \A x, y \in S : x # y => <<x, y>> \in R \/ <<y, x>> \in R
  /\ \A x, y, z \in S : <<x, y>> \in R /\ <<y, z>> \in R => <<x, z>> \in R

\* The members of S that come before x.
Ahead(S, R, x) == {y \in S : <<y, x>> \in R}

\* What comes later has more members ahead of it.
LEMMA RankGrows ==
  ASSUME NEW S, NEW R, IsFiniteSet(S), Orders(R, S),
         NEW x \in S, NEW y \in S, <<x, y>> \in R
  PROVE  Cardinality(Ahead(S, R, x)) < Cardinality(Ahead(S, R, y))
<1>1. Ahead(S, R, x) \in SUBSET S /\ Ahead(S, R, y) \in SUBSET S
  BY DEF Ahead
<1>2. Ahead(S, R, x) \in SUBSET Ahead(S, R, y)
  BY DEF Ahead, Orders
<1>3. x \in Ahead(S, R, y) /\ x \notin Ahead(S, R, x)
  BY DEF Ahead, Orders
<1>4. /\ IsFiniteSet(Ahead(S, R, x)) /\ IsFiniteSet(Ahead(S, R, y))
  BY <1>1, FS_Subset
<1>5. /\ Cardinality(Ahead(S, R, x)) <= Cardinality(Ahead(S, R, y))
      /\ Cardinality(Ahead(S, R, x)) # Cardinality(Ahead(S, R, y))
  BY <1>2, <1>3, <1>4, FS_Subset
<1>6. Cardinality(Ahead(S, R, x)) \in Nat /\ Cardinality(Ahead(S, R, y)) \in Nat
  BY <1>4, FS_CardinalityType
<1> QED
  BY <1>5, <1>6

\* The ranks are the numbers below the size of the set, each taken once.
LEMMA Ranks ==
  ASSUME NEW S, NEW R, IsFiniteSet(S), Orders(R, S)
  PROVE  /\ Cardinality(S) \in Nat
         /\ \A x \in S : Cardinality(Ahead(S, R, x)) \in 0..(Cardinality(S) - 1)
         /\ \A x, y \in S : Cardinality(Ahead(S, R, x)) = Cardinality(Ahead(S, R, y)) => x = y
         /\ \A k \in 1..Cardinality(S) : \E x \in S : Cardinality(Ahead(S, R, x)) = k - 1
<1> DEFINE n == Cardinality(S)
           rank == [x \in S |-> Cardinality(Ahead(S, R, x)) + 1]
<1>1. n \in Nat
  BY FS_CardinalityType
<1>2. ASSUME NEW x \in S PROVE Cardinality(Ahead(S, R, x)) \in 0..(n - 1)
  <2>1. Ahead(S, R, x) \in SUBSET (S \ {x})
    BY DEF Ahead, Orders
  <2>2. IsFiniteSet(S \ {x}) /\ Cardinality(S \ {x}) = n - 1
    BY FS_RemoveElement
  <2>3. IsFiniteSet(Ahead(S, R, x)) /\ Cardinality(Ahead(S, R, x)) <= n - 1
    BY <2>1, <2>2, FS_Subset
  <2>4. Cardinality(Ahead(S, R, x)) \in Nat
    BY <2>3, FS_CardinalityType
  <2> QED
    BY <1>1, <2>3, <2>4
<1>3. ASSUME NEW x \in S, NEW y \in S, Cardinality(Ahead(S, R, x)) = Cardinality(Ahead(S, R, y))
      PROVE  x = y
  <2>1. Cardinality(Ahead(S, R, x)) \in Int
    BY <1>1, <1>2
  <2>2. ASSUME <<x, y>> \in R \/ <<y, x>> \in R PROVE FALSE
    BY <1>3, <2>1, <2>2, RankGrows
  <2> QED
    BY <2>2 DEF Orders
<1>4. rank \in [S -> 1..n]
  BY <1>1, <1>2
<1>5. \A x, y \in S : rank[x] = rank[y] => x = y
  <2> SUFFICES ASSUME NEW x \in S, NEW y \in S, rank[x] = rank[y] PROVE x = y
    OBVIOUS
  <2>1. Cardinality(Ahead(S, R, x)) \in Int /\ Cardinality(Ahead(S, R, y)) \in Int
    BY <1>1, <1>2
  <2>2. Cardinality(Ahead(S, R, x)) = Cardinality(Ahead(S, R, y))
    BY <2>1
  <2> QED
    BY <1>3, <2>2
<1>6. rank \in Injection(S, 1..n)
  <2> HIDE DEF rank
  <2> QED
    BY <1>4, <1>5 DEF Injection, IsInjective
<1>7. IsFiniteSet(1..n) /\ Cardinality(1..n) = n
  BY <1>1, FS_Interval
<1>8. rank \in Surjection(S, 1..n)
  <2> HIDE DEF rank
  <2> QED
    BY <1>6, <1>7, FS_Injection
<1>9. \A k \in 1..n : \E x \in S : rank[x] = k
  <2> HIDE DEF rank
  <2> QED
    BY <1>8 DEF Surjection
<1>10. ASSUME NEW k \in 1..n PROVE \E x \in S : Cardinality(Ahead(S, R, x)) = k - 1
  <2>1. PICK x \in S : rank[x] = k
    BY <1>9
  <2>2. Cardinality(Ahead(S, R, x)) \in Int /\ k \in Int
    BY <1>1, <1>2
  <2> QED
    BY <2>1, <2>2
<1> QED
  BY <1>1, <1>2, <1>3, <1>10

\* The sequence has every member once, and in the order R.
LEMMA Sorted ==
  ASSUME NEW S, NEW R, IsFiniteSet(S), Orders(R, S)
  PROVE  /\ Cardinality(S) \in Nat
         /\ InOrder(S, R) \in [1..Cardinality(S) -> S]
         /\ \A x \in S : \E k \in 1..Cardinality(S) : InOrder(S, R)[k] = x
         /\ \A j, k \in 1..Cardinality(S) :
              j < k => <<InOrder(S, R)[j], InOrder(S, R)[k]>> \in R
<1> DEFINE n == Cardinality(S)
           s == InOrder(S, R)
<1>1. n \in Nat
  BY FS_CardinalityType
<1>2. ASSUME NEW k \in 1..n
      PROVE  s[k] \in S /\ Cardinality(Ahead(S, R, s[k])) = k - 1
  <2>1. \E x \in S : Cardinality(Ahead(S, R, x)) = k - 1
    BY Ranks
  <2>2. s[k] = CHOOSE x \in S : Cardinality(Ahead(S, R, x)) = k - 1
    BY DEF InOrder, Ahead
  <2> QED
    BY <2>1, <2>2
<1>3. s \in [1..n -> S]
  <2> DEFINE e(k) == CHOOSE x \in S : Cardinality(Ahead(S, R, x)) = k - 1
  <2>1. s = [k \in 1..n |-> e(k)]
    BY DEF InOrder, Ahead
  <2> HIDE DEF e, s, n
  <2>2. \A k \in 1..n : e(k) \in S
    BY <1>2, <2>1
  <2> QED
    BY <2>1, <2>2
<1>4. ASSUME NEW x \in S PROVE \E k \in 1..n : s[k] = x
  <2>1. Cardinality(Ahead(S, R, x)) \in 0..(n - 1)
    BY Ranks
  <2> DEFINE k == Cardinality(Ahead(S, R, x)) + 1
  <2>2. k \in 1..n /\ k - 1 = Cardinality(Ahead(S, R, x))
    BY <1>1, <2>1
  <2> HIDE DEF k, s
  <2>3. s[k] \in S /\ Cardinality(Ahead(S, R, s[k])) = Cardinality(Ahead(S, R, x))
    BY <1>2, <2>2
  <2>4. s[k] = x
    BY <2>3, Ranks
  <2> QED
    BY <2>2, <2>4
<1>5. ASSUME NEW j \in 1..n, NEW k \in 1..n, j < k PROVE <<s[j], s[k]>> \in R
  <2> HIDE DEF s
  <2>1. s[j] # s[k]
    BY <1>1, <1>2, <1>5
  <2>2. ASSUME <<s[k], s[j]>> \in R PROVE FALSE
    <3>1. Cardinality(Ahead(S, R, s[k])) < Cardinality(Ahead(S, R, s[j]))
      BY <1>2, <2>2, RankGrows
    <3> QED
      BY <1>1, <1>2, <1>5, <3>1
  <2> QED
    BY <1>2, <2>1, <2>2 DEF Orders
<1> QED
  BY <1>1, <1>3, <1>4, <1>5

\* The keys that entries are compared by are numbers.
Keyed(entries) ==
  \A i \in DOMAIN entries : entries[i].record.key \in Int /\ entries[i].record.disc \in Int

\* No two entries have the same slot.
Distinct(entries) ==
  \A i, j \in DOMAIN entries : i # j =>
    \/ entries[i].record.key # entries[j].record.key
    \/ entries[i].record.disc # entries[j].record.disc

\* The stable order is a strict total order of the positions.
LEMMA StableOrders ==
  ASSUME NEW E, NEW entries \in Seq(E), Keyed(entries)
  PROVE  Orders(StableOrder(entries), DOMAIN entries)
<1> DEFINE D == DOMAIN entries
           R == StableOrder(entries)
           K(i) == entries[i].record.key
           C(i) == entries[i].record.disc
           L(i, j) == K(i) < K(j) \/ (K(i) = K(j) /\ C(i) < C(j))
<1>1. \A i \in D : i \in Int /\ K(i) \in Int /\ C(i) \in Int
  BY DEF Keyed
<1>2. \A i, j \in D : <<i, j>> \in R <=> L(i, j) \/ (~L(j, i) /\ i < j)
  BY DEF StableOrder, Precedes
<1> HIDE DEF D, R, K, C
<1>3. \A i \in D : <<i, i>> \notin R
  BY <1>1, <1>2
<1>4. \A i, j \in D : i # j => <<i, j>> \in R \/ <<j, i>> \in R
  BY <1>1, <1>2
<1>5. \A i, j, k \in D : <<i, j>> \in R /\ <<j, k>> \in R => <<i, k>> \in R
  BY <1>1, <1>2
<1> QED
  BY <1>3, <1>4, <1>5 DEF D, R, Orders

\* BundleBuilder::build sorts: every entry stays, and where no two have the
\* same slot, each comes strictly before the next.
LEMMA EntriesSorted ==
  ASSUME NEW E, NEW entries \in Seq(E), Keyed(entries)
  PROVE  /\ SortEntries(entries) \in Seq(E)
         /\ Len(SortEntries(entries)) = Len(entries)
         /\ \A i \in 1..Len(entries) : \E k \in 1..Len(entries) : SortEntries(entries)[k] = entries[i]
         /\ \A k \in 1..Len(entries) : \E i \in 1..Len(entries) : SortEntries(entries)[k] = entries[i]
         /\ Distinct(entries) =>
              \A j, k \in 1..Len(entries) : j < k =>
                Precedes(SortEntries(entries)[j].record, SortEntries(entries)[k].record)
<1> DEFINE n == Len(entries)
           R == StableOrder(entries)
           order == InOrder(1..n, R)
           sorted == SortEntries(entries)
<1>1. n \in Nat /\ DOMAIN entries = 1..n /\ \A i \in 1..n : entries[i] \in E
  OBVIOUS
<1>2. IsFiniteSet(1..n) /\ Cardinality(1..n) = n
  <2> HIDE DEF n
  <2>1. 1 \in Int /\ n \in Int /\ (1 > n => n = 0) /\ n - 1 + 1 = n
    BY <1>1
  <2> QED
    BY <2>1, FS_Interval
<1>3. Orders(R, 1..n)
  BY <1>1, StableOrders
<1>4. /\ order \in [1..n -> 1..n]
      /\ \A i \in 1..n : \E k \in 1..n : order[k] = i
      /\ \A j, k \in 1..n : j < k => <<order[j], order[k]>> \in R
  <2> HIDE DEF n, R
  <2> QED
    BY <1>2, <1>3, Sorted
<1>5. sorted = [i \in 1..n |-> entries[order[i]]]
  BY <1>1 DEF SortEntries
<1> HIDE DEF order, sorted
<1>6. \A i \in 1..n : sorted[i] = entries[order[i]] /\ order[i] \in 1..n
  BY <1>4, <1>5
<1>7. sorted \in Seq(E) /\ Len(sorted) = n
  BY <1>1, <1>4, <1>5, SMTT(30)
<1>8. ASSUME Distinct(entries), NEW j \in 1..n, NEW k \in 1..n, j < k
      PROVE  Precedes(sorted[j].record, sorted[k].record)
  <2>1. <<order[j], order[k]>> \in R /\ order[j] \in 1..n /\ order[k] \in 1..n
    BY <1>4, <1>8
  <2>2. \/ Precedes(entries[order[j]].record, entries[order[k]].record)
        \/ /\ ~Precedes(entries[order[k]].record, entries[order[j]].record)
           /\ order[j] < order[k]
    BY <2>1 DEF StableOrder
  <2>3. order[j] < order[k] => order[j] # order[k]
    BY <2>1
  <2>4. /\ entries[order[j]].record.key \in Int /\ entries[order[j]].record.disc \in Int
        /\ entries[order[k]].record.key \in Int /\ entries[order[k]].record.disc \in Int
    BY <1>1, <2>1 DEF Keyed
  <2>5. order[j] # order[k] =>
          \/ entries[order[j]].record.key # entries[order[k]].record.key
          \/ entries[order[j]].record.disc # entries[order[k]].record.disc
    BY <1>1, <1>8, <2>1 DEF Distinct
  <2>6. Precedes(entries[order[j]].record, entries[order[k]].record)
    BY <2>2, <2>3, <2>4, <2>5 DEF Precedes
  <2> QED
    BY <1>6, <2>6
<1> QED
  BY <1>4, <1>6, <1>7, <1>8 DEF sorted

-----------------------------------------------------------------------------
(* The data section *)

\* The loop computes its next result from the one before.
LEMMA PlacedSteps ==
  ASSUME NEW E, NEW sorted \in Seq(E)
  PROVE  /\ Placed(sorted)[0] = NothingPlaced
         /\ \A n \in 1..Len(sorted) : Placed(sorted)[n] = Place(Placed(sorted)[n - 1], sorted[n])
<1> DEFINE Body(g, m) == [n \in 0..m |-> IF n = 0 THEN NothingPlaced ELSE Place(g[n - 1], sorted[n])]
           S == {m \in Nat : \E g : g = Body(g, m)}
           N == Len(sorted)
<1>1. N \in Nat
  OBVIOUS
<1>2. 0 \in S
  <2> DEFINE g == [n \in 0..0 |-> NothingPlaced]
  <2>1. g = Body(g, 0)
    OBVIOUS
  <2> QED
    BY <2>1
<1>3. ASSUME NEW m \in Nat, m \in S PROVE m + 1 \in S
  <2>1. PICK g : g = Body(g, m)
    BY <1>3
  <2> DEFINE h == [n \in 0..(m + 1) |-> IF n = m + 1 THEN Place(g[m], sorted[m + 1]) ELSE g[n]]
  <2>2. ASSUME NEW n \in 0..(m + 1)
        PROVE  h[n] = IF n = 0 THEN NothingPlaced ELSE Place(h[n - 1], sorted[n])
    <3>1. CASE n = m + 1
      <4>1. n # 0 /\ n - 1 = m /\ n - 1 \in 0..(m + 1) /\ n - 1 # m + 1
        BY <3>1
      <4>2. h[n - 1] = g[m]
        BY <4>1
      <4> QED
        BY <3>1, <4>1, <4>2
    <3>2. CASE n # m + 1
      <4>1. n \in 0..m
        BY <3>2
      <4>2. g[n] = IF n = 0 THEN NothingPlaced ELSE Place(g[n - 1], sorted[n])
        BY <2>1, <4>1
      <4>3. n # 0 => n - 1 \in 0..(m + 1) /\ n - 1 # m + 1
        BY <4>1
      <4> QED
        BY <3>2, <4>2, <4>3
    <3> QED
      BY <3>1, <3>2
  <2>3. h = Body(h, m + 1)
    <3>1. DOMAIN h = 0..(m + 1)
      OBVIOUS
    <3> HIDE DEF h
    <3>2. h = [n \in 0..(m + 1) |-> h[n]]
      BY <3>1
    <3> QED
      BY <2>2, <3>2
  <2> HIDE DEF h, Body
  <2>4. m + 1 \in Nat /\ \E f : f = Body(f, m + 1)
    BY <2>3
  <2> QED
    BY <2>4
<1>4. \E g : g = Body(g, N)
  <2> HIDE DEF S
  <2>1. N \in S
    BY <1>1, <1>2, <1>3, Induction
  <2> QED
    BY <2>1 DEF S
<1>5. Placed(sorted) = Body(Placed(sorted), N)
  <2>1. Placed(sorted) = CHOOSE g : g = Body(g, N)
    BY DEF Placed
  <2> HIDE DEF Body
  <2> QED
    BY <1>4, <2>1
<1>6. \A n \in 0..N : Placed(sorted)[n] =
        IF n = 0 THEN NothingPlaced ELSE Place(Placed(sorted)[n - 1], sorted[n])
  <2> DEFINE P == Placed(sorted)
  <2>1. P = Body(P, N)
    BY <1>5
  <2> HIDE DEF P
  <2> QED
    BY <2>1 DEF P
<1> QED
  BY <1>1, <1>6

\* An index record, and what is handed to the builder: a record and its payload,
\* made of members of X.
IndexEntry == [key : Int, disc : Int, offset : Nat, length : Nat, flags : SUBSET {"ALIAS", "MULTI", "TOMBSTONE"}]

BuilderEntry(X) == [record : IndexEntry, payload : Seq(X)]

\* The length that an entry is added with is that of its payload.
Sized(entries) == \A i \in DOMAIN entries : entries[i].record.length = Len(entries[i].payload)

\* The data section has the payload p after position `at`.
Holds(data, at, p) ==
  /\ at \in Nat
  /\ at + Len(p) <= Len(data)
  /\ \A j \in 1..Len(p) : data[at + j] = p[j]

\* The record r was written for the entry e.
Stored(data, r, e) ==
  /\ r.key = e.record.key
  /\ r.disc = e.record.disc
  /\ r.flags = e.record.flags
  /\ IsTombstone(e.record) => r.offset = 0 /\ r.length = 0
  /\ ~IsTombstone(e.record) => r.length = Len(e.payload) /\ Holds(data, r.offset, e.payload)

\* The first n entries are laid out.
LaidOut(placed, sorted, n, X) ==
  /\ placed \in [index : Seq(IndexEntry), data : Seq(X),
                 aliases : SUBSET [payload : Seq(X), offset : Nat]]
  /\ Len(placed.index) = n
  /\ \A a \in placed.aliases : Holds(placed.data, a.offset, a.payload)
  /\ \A i \in 1..n : Stored(placed.data, placed.index[i], sorted[i])

\* What is stored stays where it is when more is appended.
LEMMA StillHolds ==
  ASSUME NEW X, NEW data \in Seq(X), NEW more \in Seq(X), NEW at, NEW p \in Seq(X),
         Holds(data, at, p)
  PROVE  Holds(data \o more, at, p)
<1>1. /\ at \in Nat /\ Len(p) \in Nat /\ Len(data) \in Nat /\ Len(more) \in Nat
      /\ at + Len(p) <= Len(data) /\ Len(data \o more) = Len(data) + Len(more)
  BY DEF Holds
<1>2. ASSUME NEW j \in 1..Len(p) PROVE (data \o more)[at + j] = p[j]
  <2>1. at + j \in 1..Len(data)
    BY <1>1
  <2>2. (data \o more)[at + j] = data[at + j]
    BY <1>1, <2>1
  <2> QED
    BY <2>2 DEF Holds
<1> QED
  BY <1>1, <1>2 DEF Holds

\* What is appended is stored.
LEMMA NowHolds ==
  ASSUME NEW X, NEW data \in Seq(X), NEW p \in Seq(X)
  PROVE  Holds(data \o p, Len(data), p)
<1>1. Len(p) \in Nat /\ Len(data) \in Nat /\ Len(data \o p) = Len(data) + Len(p)
  OBVIOUS
<1>2. ASSUME NEW j \in 1..Len(p) PROVE (data \o p)[Len(data) + j] = p[j]
  BY <1>1
<1> QED
  BY <1>1, <1>2 DEF Holds

\* What a sequence of entries consists of.
LEMMA EntryTypes ==
  ASSUME NEW X, NEW entries \in Seq(BuilderEntry(X))
  PROVE  /\ Len(entries) \in Nat
         /\ DOMAIN entries = 1..Len(entries)
         /\ \A i \in 1..Len(entries) :
              /\ entries[i] \in BuilderEntry(X)
              /\ entries[i].record \in IndexEntry
              /\ entries[i].payload \in Seq(X)
              /\ Len(entries[i].payload) \in Nat
<1>1. ASSUME NEW i \in 1..Len(entries)
      PROVE  /\ entries[i] \in BuilderEntry(X)
             /\ entries[i].record \in IndexEntry
             /\ entries[i].payload \in Seq(X)
             /\ Len(entries[i].payload) \in Nat
  <2>1. entries[i] \in BuilderEntry(X)
    OBVIOUS
  <2>2. entries[i].record \in IndexEntry /\ entries[i].payload \in Seq(X)
    BY <2>1 DEF BuilderEntry
  <2> QED
    BY <2>1, <2>2
<1> QED
  BY <1>1

\* One step of the loop.
LEMMA PlaceStep ==
  ASSUME NEW X, NEW sorted \in Seq(BuilderEntry(X)), Sized(sorted),
         NEW n \in 1..Len(sorted), NEW placed, LaidOut(placed, sorted, n - 1, X)
  PROVE  LaidOut(Place(placed, sorted[n]), sorted, n, X)
<1> DEFINE e == sorted[n]
           r == e.record
           at == Len(placed.data)
           shared == Shared(placed, e)
           Put(offset, length) == [r EXCEPT !.offset = offset, !.length = length]
           after == Place(placed, e)
<1>1. /\ n \in Nat /\ n - 1 \in Nat
      /\ e \in BuilderEntry(X) /\ r \in IndexEntry /\ e.payload \in Seq(X)
      /\ r.length = Len(e.payload) /\ Len(e.payload) \in Nat
  BY EntryTypes DEF Sized
<1>2. /\ placed \in [index : Seq(IndexEntry), data : Seq(X),
                     aliases : SUBSET [payload : Seq(X), offset : Nat]]
      /\ placed.index \in Seq(IndexEntry) /\ Len(placed.index) = n - 1
      /\ placed.data \in Seq(X) /\ at \in Nat
      /\ \A a \in placed.aliases : a.payload \in Seq(X) /\ Holds(placed.data, a.offset, a.payload)
      /\ \A i \in 1..(n - 1) : Stored(placed.data, placed.index[i], sorted[i])
  BY DEF LaidOut
<1>3. \A i \in 1..(n - 1) : sorted[i].payload \in Seq(X) /\ i \in 1..Len(sorted)
  BY EntryTypes
\* An index record that is appended, over a data section that has grown.
<1>4. ASSUME NEW o \in Nat, NEW l \in Nat, NEW data \in Seq(X),
             \A p \in Seq(X) : \A x : Holds(placed.data, x, p) => Holds(data, x, p),
             Stored(data, Put(o, l), e)
      PROVE  LET index == Append(placed.index, Put(o, l)) IN
             /\ index \in Seq(IndexEntry)
             /\ Len(index) = n
             /\ \A i \in 1..n : Stored(data, index[i], sorted[i])
  <2> DEFINE q == Put(o, l)
             index == Append(placed.index, q)
  <2>1. q \in IndexEntry
    BY <1>1 DEF IndexEntry
  <2>2. Stored(data, q, e)
    BY <1>4
  <2> HIDE DEF q
  <2>3. index \in Seq(IndexEntry) /\ Len(index) = n /\ index[n] = q
    BY <1>1, <1>2, <2>1
  <2>4. ASSUME NEW i \in 1..n PROVE Stored(data, index[i], sorted[i])
    <3>1. CASE i = n
      BY <2>2, <2>3, <3>1
    <3>2. CASE i # n
      <4>1. i \in 1..(n - 1)
        BY <1>1, <3>2
      <4>2. index[i] = placed.index[i]
        BY <1>1, <1>2, <4>1
      <4>3. Stored(placed.data, placed.index[i], sorted[i])
        BY <1>2, <4>1
      <4> QED
        BY <1>3, <1>4, <4>1, <4>2, <4>3 DEF Stored
    <3> QED
      BY <3>1, <3>2
  <2> QED
    BY <2>3, <2>4 DEF q
<1>5. CASE IsTombstone(r)
  <2>1. after = [placed EXCEPT !.index = Append(placed.index, Put(0, 0))]
    BY <1>5 DEF Place
  <2>2. Stored(placed.data, Put(0, 0), e)
    BY <1>1, <1>5 DEF Stored, IndexEntry
  <2>3. LET index == Append(placed.index, Put(0, 0)) IN
        /\ index \in Seq(IndexEntry)
        /\ Len(index) = n
        /\ \A i \in 1..n : Stored(placed.data, index[i], sorted[i])
    BY <1>2, <1>4, <2>2
  <2> HIDE DEF Put, after, e
  <2> QED
    BY <1>2, <2>1, <2>3 DEF LaidOut, after, e
<1>6. CASE ~IsTombstone(r) /\ shared # {}
  <2> DEFINE a == CHOOSE x \in shared : TRUE
  <2>1. after = [placed EXCEPT !.index = Append(placed.index, Put(a.offset, r.length))]
    BY <1>6 DEF Place
  <2>2. a \in placed.aliases /\ a.payload = e.payload
    BY <1>6 DEF Shared
  <2>3. a.offset \in Nat /\ Holds(placed.data, a.offset, e.payload)
    BY <1>2, <2>2
  <2>4. Stored(placed.data, Put(a.offset, r.length), e)
    BY <1>1, <1>6, <2>3 DEF Stored, IndexEntry
  <2>5. LET index == Append(placed.index, Put(a.offset, r.length)) IN
        /\ index \in Seq(IndexEntry)
        /\ Len(index) = n
        /\ \A i \in 1..n : Stored(placed.data, index[i], sorted[i])
    BY <1>1, <1>2, <1>4, <2>3, <2>4
  <2> HIDE DEF Put, after, e, a
  <2> QED
    BY <1>2, <2>1, <2>5 DEF LaidOut, after, e
<1>7. CASE ~IsTombstone(r) /\ shared = {}
  <2> DEFINE data == placed.data \o e.payload
             l == Len(e.payload)
             aliases == IF IsAlias(r) THEN placed.aliases \cup {[payload |-> e.payload, offset |-> at]}
                        ELSE placed.aliases
  <2>1. after = [index |-> Append(placed.index, Put(at, l)), data |-> data, aliases |-> aliases]
    BY <1>7 DEF Place
  <2>2. data \in Seq(X)
    BY <1>1, <1>2
  <2>3. \A p \in Seq(X) : \A x : Holds(placed.data, x, p) => Holds(data, x, p)
    BY <1>1, <1>2, StillHolds
  <2>4. Holds(data, at, e.payload)
    BY <1>1, <1>2, NowHolds
  <2>5. Stored(data, Put(at, l), e)
    BY <1>1, <1>7, <2>4 DEF Stored, IndexEntry
  <2>6. LET index == Append(placed.index, Put(at, l)) IN
        /\ index \in Seq(IndexEntry)
        /\ Len(index) = n
        /\ \A i \in 1..n : Stored(data, index[i], sorted[i])
    BY <1>1, <1>2, <1>4, <2>2, <2>3, <2>5
  <2>7. /\ aliases \in SUBSET [payload : Seq(X), offset : Nat]
        /\ \A a \in aliases : Holds(data, a.offset, a.payload)
    BY <1>1, <1>2, <2>3, <2>4
  <2> HIDE DEF Put, after, e, data, aliases, l, at
  <2> QED
    BY <2>1, <2>2, <2>6, <2>7 DEF LaidOut, after, e
<1> QED
  BY <1>5, <1>6, <1>7

\* The data section that is built holds the payload of every entry where its
\* index record says.
LEMMA LayoutHolds ==
  ASSUME NEW X, NEW entries \in Seq(BuilderEntry(X)), Sized(entries)
  PROVE  LaidOut(Layout(entries), SortEntries(entries), Len(entries), X)
<1> DEFINE sorted == SortEntries(entries)
           N == Len(entries)
           S == {n \in Nat : n <= N => LaidOut(Placed(sorted)[n], sorted, n, X)}
<1>1. Keyed(entries) /\ N \in Nat /\ DOMAIN entries = 1..N
  BY EntryTypes DEF Keyed, IndexEntry
<1>2. sorted \in Seq(BuilderEntry(X)) /\ Len(sorted) = N
  BY <1>1, EntriesSorted
<1>3. Sized(sorted)
  <2> SUFFICES ASSUME NEW k \in 1..N PROVE sorted[k].record.length = Len(sorted[k].payload)
    BY <1>1, <1>2 DEF Sized
  <2>1. PICK i \in 1..N : sorted[k] = entries[i]
    BY <1>1, EntriesSorted
  <2> QED
    BY <1>1, <2>1 DEF Sized
<1> HIDE DEF sorted
<1>4. 0 \in S
  <2>1. Placed(sorted)[0] = NothingPlaced
    BY <1>2, PlacedSteps
  <2>2. LaidOut(NothingPlaced, sorted, 0, X)
    BY DEF LaidOut, NothingPlaced
  <2> QED
    BY <2>1, <2>2
<1>5. ASSUME NEW n \in Nat, n \in S PROVE n + 1 \in S
  <2> SUFFICES ASSUME n + 1 <= N PROVE LaidOut(Placed(sorted)[n + 1], sorted, n + 1, X)
    OBVIOUS
  <2>1. n <= N /\ n + 1 \in 1..Len(sorted) /\ (n + 1) - 1 = n
    BY <1>1, <1>2
  <2>2. LaidOut(Placed(sorted)[n], sorted, n, X)
    BY <1>5, <2>1
  <2>3. Placed(sorted)[n + 1] = Place(Placed(sorted)[n], sorted[n + 1])
    BY <1>2, <2>1, PlacedSteps
  <2> HIDE DEF N
  <2> QED
    BY <1>2, <1>3, <2>1, <2>2, <2>3, PlaceStep
<1>6. N \in S
  <2> HIDE DEF S, N
  <2> QED
    BY <1>1, <1>4, <1>5, Induction
<1> QED
  BY <1>1, <1>6 DEF Layout, sorted

-----------------------------------------------------------------------------
(* Files *)

\* t is four sequences one after the other.
InARow(t, a, b, c, d, Z) ==
  LET B == Len(a)
      C == B + Len(b)
      D == C + Len(c)
  IN /\ t \in Seq(Z)
     /\ Len(t) = D + Len(d)
     /\ \A j \in 1..Len(a) : t[j] = a[j]
     /\ \A j \in 1..Len(b) : t[B + j] = b[j]
     /\ \A j \in 1..Len(c) : t[C + j] = c[j]
     /\ \A j \in 1..Len(d) : t[D + j] = d[j]

\* Concatenation puts four sequences one after the other.
LEMMA FourInARow ==
  ASSUME NEW Z, NEW a \in Seq(Z), NEW b \in Seq(Z), NEW c \in Seq(Z), NEW d \in Seq(Z)
  PROVE  InARow(a \o b \o c \o d, a, b, c, d, Z)
<1> DEFINE u == a \o b
           v == u \o c
           t == v \o d
<1>1. Len(a) \in Nat /\ Len(b) \in Nat /\ Len(c) \in Nat /\ Len(d) \in Nat
  OBVIOUS
<1>2. /\ u \in Seq(Z)
      /\ Len(u) = Len(a) + Len(b)
      /\ \A i \in 1..(Len(a) + Len(b)) : u[i] = IF i <= Len(a) THEN a[i] ELSE b[i - Len(a)]
  BY ConcatProperties
<1> HIDE DEF u
<1>3. /\ v \in Seq(Z)
      /\ Len(v) = Len(u) + Len(c)
      /\ \A i \in 1..(Len(u) + Len(c)) : v[i] = IF i <= Len(u) THEN u[i] ELSE c[i - Len(u)]
  <2>1. u \in Seq(Z)
    BY <1>2
  <2> QED
    BY <2>1, ConcatProperties
<1> HIDE DEF v
<1>4. /\ t \in Seq(Z)
      /\ Len(t) = Len(v) + Len(d)
      /\ \A i \in 1..(Len(v) + Len(d)) : t[i] = IF i <= Len(v) THEN v[i] ELSE d[i - Len(v)]
  <2>1. v \in Seq(Z)
    BY <1>3
  <2> QED
    BY <2>1, ConcatProperties
<1> HIDE DEF t
<1>5. ASSUME NEW j \in 1..Len(a) PROVE t[j] = a[j]
  <2>1. /\ j \in 1..(Len(a) + Len(b)) /\ j <= Len(a)
        /\ j \in 1..(Len(u) + Len(c)) /\ j <= Len(u)
        /\ j \in 1..(Len(v) + Len(d)) /\ j <= Len(v)
    BY <1>1, <1>2, <1>3
  <2> QED
    BY <1>2, <1>3, <1>4, <2>1
<1>6. ASSUME NEW j \in 1..Len(b) PROVE t[Len(a) + j] = b[j]
  <2> DEFINE i == Len(a) + j
  <2>1. /\ i \in 1..(Len(a) + Len(b)) /\ ~(i <= Len(a)) /\ i - Len(a) = j
        /\ i \in 1..(Len(u) + Len(c)) /\ i <= Len(u)
        /\ i \in 1..(Len(v) + Len(d)) /\ i <= Len(v)
    BY <1>1, <1>2, <1>3
  <2> HIDE DEF i
  <2>2. t[i] = b[j]
    BY <1>2, <1>3, <1>4, <2>1
  <2> QED
    BY <2>2 DEF i
<1>7. ASSUME NEW j \in 1..Len(c) PROVE t[Len(u) + j] = c[j]
  <2> DEFINE i == Len(u) + j
  <2>1. /\ i \in 1..(Len(u) + Len(c)) /\ ~(i <= Len(u)) /\ i - Len(u) = j
        /\ i \in 1..(Len(v) + Len(d)) /\ i <= Len(v)
    BY <1>1, <1>2, <1>3
  <2> HIDE DEF i
  <2>2. t[i] = c[j]
    BY <1>3, <1>4, <2>1
  <2> QED
    BY <2>2 DEF i
<1>8. ASSUME NEW j \in 1..Len(d) PROVE t[Len(v) + j] = d[j]
  <2> DEFINE i == Len(v) + j
  <2>1. /\ i \in 1..(Len(v) + Len(d)) /\ ~(i <= Len(v)) /\ i - Len(v) = j
    BY <1>1, <1>2, <1>3
  <2> HIDE DEF i
  <2>2. t[i] = d[j]
    BY <1>4, <2>1
  <2> QED
    BY <2>2 DEF i
<1> QED
  BY <1>2, <1>3, <1>4, <1>5, <1>6, <1>7, <1>8 DEF InARow, t, u, v

\* What a cell may hold.
CellKinds == {"manifest", "seal", "record", "response", "garbled"}

\* The cells of each section have a kind of their own.
LEMMA Kinds ==
  /\ SectionKinds[1] = "manifest"
  /\ SectionKinds[2] = "seal"
  /\ SectionKinds[3] = "record"
  /\ SectionKinds[4] = "response"
BY DEF SectionKinds

\* p holds the members of a, as cells of one kind.
CellsHold(p, a, kind, Y) ==
  /\ p \in Seq([kind : CellKinds, value : Y])
  /\ Len(p) = Len(a)
  /\ \A j \in 1..Len(a) : p[j].kind = kind /\ p[j].value = a[j]

\* The cells of one section.
LEMMA CellsOf ==
  ASSUME NEW Y, NEW a \in Seq(Y), NEW i \in 1..4
  PROVE  CellsHold(Cells(a, i), a, SectionKinds[i], Y)
<1> DEFINE Z == [kind : CellKinds, value : Y]
<1>1. SectionKinds[i] \in CellKinds
  <2>1. i = 1 \/ i = 2 \/ i = 3 \/ i = 4
    OBVIOUS
  <2> QED
    BY <2>1, Kinds DEF CellKinds
<1>2. \A j \in 1..Len(a) : [kind |-> SectionKinds[i], value |-> a[j]] \in Z
  BY <1>1
<1>3. DOMAIN a = 1..Len(a) /\ Len(a) \in Nat
  OBVIOUS
<1> HIDE DEF Z
<1>4. Cells(a, i) = [j \in 1..Len(a) |-> [kind |-> SectionKinds[i], value |-> a[j]]]
  BY <1>3 DEF Cells
<1>5. Cells(a, i) \in Seq(Z) /\ Len(Cells(a, i)) = Len(a)
  BY <1>2, <1>3, <1>4
<1> QED
  BY <1>4, <1>5 DEF Z, CellsHold

\* f is a file of the sections a, b, c and d: its header locates them one after
\* the other, in bounds, and they hold their cells.
FileOf(f, a, b, c, d, Y) ==
  LET B == Len(a)
      C == B + Len(b)
      D == C + Len(c)
  IN /\ f.header[1].offset = 0 /\ f.header[1].length = Len(a)
     /\ f.header[2].offset = B /\ f.header[2].length = Len(b)
     /\ f.header[3].offset = C /\ f.header[3].length = Len(c)
     /\ f.header[4].offset = D /\ f.header[4].length = Len(d)
     /\ f.cells \in Seq([kind : CellKinds, value : Y])
     /\ Len(f.cells) = D + Len(d)
     /\ \A j \in 1..Len(a) : f.cells[j].kind = "manifest" /\ f.cells[j].value = a[j]
     /\ \A j \in 1..Len(b) : f.cells[B + j].kind = "seal" /\ f.cells[B + j].value = b[j]
     /\ \A j \in 1..Len(c) : f.cells[C + j].kind = "record" /\ f.cells[C + j].value = c[j]
     /\ \A j \in 1..Len(d) : f.cells[D + j].kind = "response" /\ f.cells[D + j].value = d[j]

\* Assemble writes such a file.
LEMMA Assembled ==
  ASSUME NEW Y, NEW a \in Seq(Y), NEW b \in Seq(Y), NEW c \in Seq(Y), NEW d \in Seq(Y)
  PROVE  FileOf(Assemble(<<a, b, c, d>>), a, b, c, d, Y)
<1> DEFINE f == Assemble(<<a, b, c, d>>)
           Z == [kind : CellKinds, value : Y]
           B == Len(a)
           C == B + Len(b)
           D == C + Len(c)
           p == Cells(a, 1)
           q == Cells(b, 2)
           r == Cells(c, 3)
           s == Cells(d, 4)
           t == p \o q \o r \o s
<1>1. /\ f.cells = t
      /\ f.header = [i \in 1..4 |-> [offset |-> <<0, B, C, D>>[i], length |-> Len(<<a, b, c, d>>[i])]]
  BY DEF Assemble
<1>2. /\ f.header[1].offset = 0 /\ f.header[1].length = Len(a)
      /\ f.header[2].offset = B /\ f.header[2].length = Len(b)
      /\ f.header[3].offset = C /\ f.header[3].length = Len(c)
      /\ f.header[4].offset = D /\ f.header[4].length = Len(d)
  <2> HIDE DEF f, B, C, D
  <2> QED
    BY <1>1
<1>3. 1 \in 1..4 /\ 2 \in 1..4 /\ 3 \in 1..4 /\ 4 \in 1..4
  OBVIOUS
<1>4. /\ p \in Seq(Z) /\ Len(p) = Len(a)
      /\ \A j \in 1..Len(a) : p[j].kind = "manifest" /\ p[j].value = a[j]
  <2>1. CellsHold(p, a, "manifest", Y)
    BY <1>3, CellsOf, Kinds
  <2> HIDE DEF p
  <2> QED
    BY <2>1 DEF CellsHold
<1>5. /\ q \in Seq(Z) /\ Len(q) = Len(b)
      /\ \A j \in 1..Len(b) : q[j].kind = "seal" /\ q[j].value = b[j]
  <2>1. CellsHold(q, b, "seal", Y)
    BY <1>3, CellsOf, Kinds
  <2> HIDE DEF q
  <2> QED
    BY <2>1 DEF CellsHold
<1>6. /\ r \in Seq(Z) /\ Len(r) = Len(c)
      /\ \A j \in 1..Len(c) : r[j].kind = "record" /\ r[j].value = c[j]
  <2>1. CellsHold(r, c, "record", Y)
    BY <1>3, CellsOf, Kinds
  <2> HIDE DEF r
  <2> QED
    BY <2>1 DEF CellsHold
<1>7. /\ s \in Seq(Z) /\ Len(s) = Len(d)
      /\ \A j \in 1..Len(d) : s[j].kind = "response" /\ s[j].value = d[j]
  <2>1. CellsHold(s, d, "response", Y)
    BY <1>3, CellsOf, Kinds
  <2> HIDE DEF s
  <2> QED
    BY <2>1 DEF CellsHold
<1> HIDE DEF Z, p, q, r, s, f
<1>8. p \in Seq(Z) /\ q \in Seq(Z) /\ r \in Seq(Z) /\ s \in Seq(Z)
  BY <1>4, <1>5, <1>6, <1>7
<1>9. InARow(t, p, q, r, s, Z)
  BY <1>8, FourInARow
<1> HIDE DEF t
<1>10. /\ t \in Seq(Z) /\ Len(t) = D + Len(d)
       /\ \A j \in 1..Len(a) : t[j].kind = "manifest" /\ t[j].value = a[j]
       /\ \A j \in 1..Len(b) : t[B + j].kind = "seal" /\ t[B + j].value = b[j]
       /\ \A j \in 1..Len(c) : t[C + j].kind = "record" /\ t[C + j].value = c[j]
       /\ \A j \in 1..Len(d) : t[D + j].kind = "response" /\ t[D + j].value = d[j]
  <2>1. t \in Seq(Z) /\ Len(t) = D + Len(d)
    BY <1>4, <1>5, <1>6, <1>7, <1>9 DEF InARow
  <2>2. \A j \in 1..Len(a) : t[j].kind = "manifest" /\ t[j].value = a[j]
    BY <1>4, <1>9 DEF InARow
  <2>3. \A j \in 1..Len(b) : t[B + j].kind = "seal" /\ t[B + j].value = b[j]
    <3>1. \A j \in 1..Len(q) : t[Len(p) + j] = q[j]
      BY <1>9 DEF InARow
    <3>2. \A j \in 1..Len(b) : t[B + j] = q[j]
      BY <1>4, <1>5, <3>1
    <3> QED
      BY <1>5, <3>2
  <2>4. \A j \in 1..Len(c) : t[C + j].kind = "record" /\ t[C + j].value = c[j]
    <3>1. \A j \in 1..Len(r) : t[Len(p) + Len(q) + j] = r[j]
      BY <1>9 DEF InARow
    <3>2. \A j \in 1..Len(c) : t[C + j] = r[j]
      BY <1>4, <1>5, <1>6, <3>1
    <3> QED
      BY <1>6, <3>2
  <2>5. \A j \in 1..Len(d) : t[D + j].kind = "response" /\ t[D + j].value = d[j]
    BY <1>4, <1>5, <1>6, <1>7, <1>9 DEF InARow
  <2> QED
    BY <2>1, <2>2, <2>3, <2>4, <2>5
<1> QED
  BY <1>1, <1>2, <1>10, ZenonT(60) DEF FileOf, Z, f

\* A section is read back as it was written.
LEMMA SectionReads ==
  ASSUME NEW Y, NEW a \in Seq(Y), NEW i \in 1..4, NEW f, NEW o \in Nat,
         f.header[i].offset = o, f.header[i].length = Len(a),
         \A j \in 1..Len(a) : f.cells[o + j].kind = SectionKinds[i],
         \A j \in 1..Len(a) : f.cells[o + j].value = a[j]
  PROVE  Intact(f, i) /\ read_section(f, i) = a
<1> DEFINE K == SectionKinds[i]
<1>2. Intact(f, i)
  BY DEF Intact
<1>3. read_section(f, i) = [j \in 1..Len(a) |-> IF f.cells[o + j].kind = SectionKinds[i] THEN f.cells[o + j].value ELSE Garbled]
  BY DEF read_section
<1>4. read_section(f, i) = [j \in 1..Len(a) |-> a[j]]
  BY <1>3
<1>5. a = [j \in 1..Len(a) |-> a[j]]
  OBVIOUS
<1>6. read_section(f, i) = a
  BY <1>4, <1>5, Zenon
<1> QED
  BY <1>2, <1>6

\* The sections that are read from f.
ReadsAs(f, a, b, c, d) ==
  /\ validate_bounds(f.header, Len(f.cells))
  /\ Intact(f, 1) /\ read_section(f, 1) = a
  /\ Intact(f, 2) /\ read_section(f, 2) = b
  /\ Intact(f, 3) /\ read_section(f, 3) = c
  /\ Intact(f, 4) /\ read_section(f, 4) = d

\* Each of four sections ends where the last one ends, or before.
LEMMA SumsGrow ==
  ASSUME NEW k \in Nat, NEW l \in Nat, NEW m \in Nat, NEW n \in Nat
  PROVE  /\ 0 + k <= k + l + m + n /\ k + l <= k + l + m + n
         /\ k + l + m <= k + l + m + n /\ k + l + m + n <= k + l + m + n
OBVIOUS

\* from_bytes reads the sections that were written, and refuses none of them.
LEMMA ReadBack ==
  ASSUME NEW Y, NEW a \in Seq(Y), NEW b \in Seq(Y), NEW c \in Seq(Y), NEW d \in Seq(Y),
         NEW f, FileOf(f, a, b, c, d, Y)
  PROVE  ReadsAs(f, a, b, c, d)
<1>1. Len(a) \in Nat /\ Len(b) \in Nat /\ Len(c) \in Nat /\ Len(d) \in Nat
  OBVIOUS
<1>2. Intact(f, 1) /\ read_section(f, 1) = a
  <2> DEFINE o == 0
  <2>1. \A j \in 1..Len(a) : f.cells[o + j].kind = SectionKinds[1] /\ f.cells[o + j].value = a[j]
    BY <1>1, Kinds DEF FileOf
  <2>2. o \in Nat /\ f.header[1].offset = o /\ f.header[1].length = Len(a) /\ 1 \in 1..4
    BY <1>1 DEF FileOf
  <2> HIDE DEF o
  <2> QED
    BY <2>1, <2>2, SectionReads
<1>3. Intact(f, 2) /\ read_section(f, 2) = b
  <2> DEFINE o == Len(a)
  <2>1. \A j \in 1..Len(b) : f.cells[o + j].kind = SectionKinds[2] /\ f.cells[o + j].value = b[j]
    BY <1>1, Kinds DEF FileOf
  <2>2. o \in Nat /\ f.header[2].offset = o /\ f.header[2].length = Len(b) /\ 2 \in 1..4
    BY <1>1 DEF FileOf
  <2> HIDE DEF o
  <2> QED
    BY <2>1, <2>2, SectionReads
<1>4. Intact(f, 3) /\ read_section(f, 3) = c
  <2> DEFINE o == Len(a) + Len(b)
  <2>1. \A j \in 1..Len(c) : f.cells[o + j].kind = SectionKinds[3] /\ f.cells[o + j].value = c[j]
    BY <1>1, Kinds DEF FileOf
  <2>2. o \in Nat /\ f.header[3].offset = o /\ f.header[3].length = Len(c) /\ 3 \in 1..4
    BY <1>1 DEF FileOf
  <2> HIDE DEF o
  <2> QED
    BY <2>1, <2>2, SectionReads
<1>5. Intact(f, 4) /\ read_section(f, 4) = d
  <2> DEFINE o == Len(a) + Len(b) + Len(c)
  <2>1. \A j \in 1..Len(d) : f.cells[o + j].kind = SectionKinds[4] /\ f.cells[o + j].value = d[j]
    BY <1>1, Kinds DEF FileOf
  <2>2. o \in Nat /\ f.header[4].offset = o /\ f.header[4].length = Len(d) /\ 4 \in 1..4
    BY <1>1 DEF FileOf
  <2> HIDE DEF o
  <2> QED
    BY <2>1, <2>2, SectionReads, ZenonT(60)
<1>6. validate_bounds(f.header, Len(f.cells))
  <2> SUFFICES ASSUME NEW i \in 1..4 PROVE f.header[i].offset + f.header[i].length <= Len(f.cells)
    BY DEF validate_bounds
  <2>1. i = 1 \/ i = 2 \/ i = 3 \/ i = 4
    OBVIOUS
  <2>2. Len(f.cells) = Len(a) + Len(b) + Len(c) + Len(d)
    BY DEF FileOf
  <2>3. /\ f.header[1].offset = 0 /\ f.header[1].length = Len(a)
        /\ f.header[2].offset = Len(a) /\ f.header[2].length = Len(b)
        /\ f.header[3].offset = Len(a) + Len(b) /\ f.header[3].length = Len(c)
        /\ f.header[4].offset = Len(a) + Len(b) + Len(c) /\ f.header[4].length = Len(d)
    BY DEF FileOf
  <2>4. /\ 0 + Len(a) <= Len(f.cells) /\ Len(a) + Len(b) <= Len(f.cells)
        /\ Len(a) + Len(b) + Len(c) <= Len(f.cells)
        /\ Len(a) + Len(b) + Len(c) + Len(d) <= Len(f.cells)
    BY <1>1, <2>2, SumsGrow
  <2> QED
    BY <2>1, <2>3, <2>4, Zenon
<1> QED
  BY <1>2, <1>3, <1>4, <1>5, <1>6 DEF ReadsAs

-----------------------------------------------------------------------------
(* The manifest *)

\* No two fields have the same key in the map.
LEMMA FieldsDiffer ==
  \A i, j \in 1..13 : ManifestFields[i] = ManifestFields[j] => i = j
<1> SUFFICES ASSUME NEW i \in 1..13, NEW j \in 1..13, ManifestFields[i] = ManifestFields[j] PROVE i = j
  OBVIOUS
<1>1. i = 1 \/ i = 2 \/ i = 3 \/ i = 4 \/ i = 5 \/ i = 6 \/ i = 7 \/ i = 8 \/ i = 9 \/ i = 10
      \/ i = 11 \/ i = 12 \/ i = 13
  OBVIOUS
<1>2. j = 1 \/ j = 2 \/ j = 3 \/ j = 4 \/ j = 5 \/ j = 6 \/ j = 7 \/ j = 8 \/ j = 9 \/ j = 10
      \/ j = 11 \/ j = 12 \/ j = 13
  OBVIOUS
<1> QED
  BY <1>1, <1>2 DEF ManifestFields

\* What is read for a field.
LEMMA FieldRead ==
  ASSUME NEW cbor, NEW i \in 1..13
  PROVE  from_cbor(cbor)[ManifestFields[i]] =
           IF i \in DOMAIN cbor.fields THEN cbor.fields[i] ELSE None
<1> DEFINE f == ManifestFields[i]
           c == CHOOSE j \in 1..13 : ManifestFields[j] = f
<1>1. DOMAIN ManifestFields = 1..13
  BY DEF ManifestFields
<1>2. f \in Range(ManifestFields)
  BY <1>1 DEF Range
<1>3. from_cbor(cbor)[f] = IF c \in DOMAIN cbor.fields THEN cbor.fields[c] ELSE None
  BY <1>2 DEF from_cbor
<1>4. c \in 1..13 /\ ManifestFields[c] = f
  OBVIOUS
<1>5. c = i
  <2> HIDE DEF c
  <2> QED
    BY <1>4, FieldsDiffer
<1> QED
  BY <1>3, <1>5

\* A manifest is decoded as it was encoded.
LEMMA FieldsSurvive ==
  ASSUME NEW m, NEW i \in 1..13
  PROVE  from_cbor(to_cbor(m))[ManifestFields[i]] = m[ManifestFields[i]]
<1> DEFINE present == (1..10) \cup {j \in 11..13 : m[ManifestFields[j]] # None}
<1>1. to_cbor(m).fields = [j \in present |-> m[ManifestFields[j]]]
  BY DEF to_cbor
<1>2. from_cbor(to_cbor(m))[ManifestFields[i]] = IF i \in present THEN m[ManifestFields[i]] ELSE None
  BY <1>1, FieldRead
<1>3. CASE i \in present
  BY <1>2, <1>3
<1>4. CASE i \notin present
  <2>1. i \in 11..13
    BY <1>4
  <2>2. m[ManifestFields[i]] = None
    BY <1>4, <2>1
  <2> QED
    BY <1>2, <1>4, <2>2
<1> QED
  BY <1>3, <1>4

\* The fields by name.
LEMMA ManifestSurvives ==
  ASSUME NEW m, NEW r, r = from_cbor(to_cbor(m))
  PROVE  /\ Decodes(to_cbor(m))
         /\ r.producer_id = m.producer_id
         /\ r.bundle_type = m.bundle_type
         /\ r.ca_scopes = m.ca_scopes
         /\ r.window = m.window
         /\ r.integrity = m.integrity
         /\ r.continuity = m.continuity
         /\ r.compression = m.compression
<1>1. Decodes(to_cbor(m))
  BY DEF Decodes, to_cbor
<1>2. 3 \in 1..13 /\ 5 \in 1..13 /\ 6 \in 1..13 /\ 7 \in 1..13 /\ 8 \in 1..13 /\ 10 \in 1..13 /\ 12 \in 1..13
  OBVIOUS
<1>3. /\ ManifestFields[3] = "producer_id" /\ ManifestFields[5] = "bundle_type"
      /\ ManifestFields[6] = "ca_scopes" /\ ManifestFields[7] = "window"
      /\ ManifestFields[8] = "integrity" /\ ManifestFields[10] = "continuity"
      /\ ManifestFields[12] = "compression"
  BY DEF ManifestFields
<1>4. /\ r["producer_id"] = m["producer_id"] /\ r["bundle_type"] = m["bundle_type"]
      /\ r["ca_scopes"] = m["ca_scopes"] /\ r["window"] = m["window"]
      /\ r["integrity"] = m["integrity"] /\ r["continuity"] = m["continuity"]
      /\ r["compression"] = m["compression"]
  BY <1>2, <1>3, FieldsSurvive
<1> QED
  BY <1>1, <1>4

-----------------------------------------------------------------------------
(* Bundles *)

\* A manifest has all fields.
IsManifest(m) == \A i \in 1..13 : ManifestFields[i] \in DOMAIN m

\* The manifest that build encodes, and the seal section.
FilledIn(manifest, entries) ==
  LET laid == Layout(entries)
  IN [manifest EXCEPT !.integrity = [index_digest |-> laid.index, data_digest |-> laid.data],
                      !.entry_count = Len(laid.index)]

Sealed(bytes, sealer) ==
  IF sealer = None THEN <<>> ELSE <<create_cms_seal(bytes, sealer.key, sealer.cert)>>

\* What the cells of the file may hold.
Contents(manifest, entries, sealer, X) ==
  LET bytes == to_cbor(FilledIn(manifest, entries))
  IN {bytes, create_cms_seal(bytes, sealer.key, sealer.cert)} \cup IndexEntry \cup X

\* build writes a file of the encoded manifest, the seal, the index and the data.
LEMMA BuildsFile ==
  ASSUME NEW X, NEW entries \in Seq(BuilderEntry(X)), Sized(entries), NEW manifest, NEW sealer
  PROVE  LET bytes == to_cbor(FilledIn(manifest, entries))
             Y == Contents(manifest, entries, sealer, X)
         IN /\ <<bytes>> \in Seq(Y)
            /\ Sealed(bytes, sealer) \in Seq(Y)
            /\ Layout(entries).index \in Seq(Y)
            /\ Layout(entries).data \in Seq(Y)
            /\ FileOf(build(manifest, entries, sealer), <<bytes>>, Sealed(bytes, sealer),
                      Layout(entries).index, Layout(entries).data, Y)
<1> DEFINE laid == Layout(entries)
           bytes == to_cbor(FilledIn(manifest, entries))
           mark == create_cms_seal(bytes, sealer.key, sealer.cert)
           Y == Contents(manifest, entries, sealer, X)
           seal == Sealed(bytes, sealer)
<1>1. build(manifest, entries, sealer) = Assemble(<<<<bytes>>, seal, laid.index, laid.data>>)
  BY DEF build, FilledIn, Sealed
<1>2. laid.index \in Seq(IndexEntry) /\ laid.data \in Seq(X)
  BY LayoutHolds DEF LaidOut
<1>3. bytes \in Y /\ mark \in Y /\ IndexEntry \subseteq Y /\ X \subseteq Y
  BY DEF Contents
<1>4. seal = <<>> \/ seal = <<mark>>
  BY DEF Sealed
<1> HIDE DEF laid, bytes, mark, Y, seal
<1>5. laid.index \in Seq(Y) /\ laid.data \in Seq(Y)
  BY <1>2, <1>3, SeqMonotonic
<1>6. <<bytes>> \in Seq(Y) /\ seal \in Seq(Y)
  <2>1. <<bytes>> \in Seq(Y) /\ <<mark>> \in Seq(Y) /\ <<>> \in Seq(Y)
    BY <1>3
  <2> QED
    BY <1>4, <2>1
<1>7. FileOf(Assemble(<<<<bytes>>, seal, laid.index, laid.data>>), <<bytes>>, seal, laid.index, laid.data, Y)
  BY <1>5, <1>6, Assembled
<1> QED
  BY <1>1, <1>5, <1>6, <1>7 DEF laid, bytes, Y, seal

\* It is read as it was meant.
LEMMA ReadsBuilt ==
  ASSUME NEW X, NEW entries \in Seq(BuilderEntry(X)), Sized(entries), NEW manifest, NEW sealer,
         NEW f, f = build(manifest, entries, sealer),
         NEW bytes, bytes = to_cbor(FilledIn(manifest, entries))
  PROVE  /\ Readable(f)
         /\ from_bytes(f) = [manifest |-> from_cbor(bytes), manifest_bytes |-> bytes,
                             seal |-> Sealed(bytes, sealer),
                             index |-> Layout(entries).index, data |-> Layout(entries).data]
<1> DEFINE Y == Contents(manifest, entries, sealer, X)
           seal == Sealed(bytes, sealer)
           laid == Layout(entries)
<1>1. /\ <<bytes>> \in Seq(Y) /\ seal \in Seq(Y) /\ laid.index \in Seq(Y) /\ laid.data \in Seq(Y)
      /\ FileOf(f, <<bytes>>, seal, laid.index, laid.data, Y)
  BY BuildsFile
<1> HIDE DEF Y, seal, laid
<1>2. ReadsAs(f, <<bytes>>, seal, laid.index, laid.data)
  BY <1>1, ReadBack
<1>3. read_section(f, 1)[1] = bytes
  BY <1>2 DEF ReadsAs
<1>4. f.header[1].length = 1
  <2>1. f.header[1].length = Len(<<bytes>>)
    BY <1>1 DEF FileOf
  <2> QED
    BY <2>1
<1>5. Decodes(bytes)
  BY ManifestSurvives
<1> QED
  BY <1>2, <1>3, <1>4, <1>5 DEF ReadsAs, Readable, from_bytes, seal, laid

\* The fields of the encoded manifest are those it was built from, and the
\* digests are of what was laid out.
LEMMA FilledInFields ==
  ASSUME NEW entries, NEW manifest, IsManifest(manifest),
         NEW r, r = from_cbor(to_cbor(FilledIn(manifest, entries)))
  PROVE  /\ Decodes(to_cbor(FilledIn(manifest, entries)))
         /\ r.producer_id = manifest.producer_id
         /\ r.bundle_type = manifest.bundle_type
         /\ r.ca_scopes = manifest.ca_scopes
         /\ r.window = manifest.window
         /\ r.integrity = [index_digest |-> Layout(entries).index, data_digest |-> Layout(entries).data]
         /\ r.continuity = manifest.continuity
         /\ r.compression = manifest.compression
<1> DEFINE m == FilledIn(manifest, entries)
<1>1. /\ "producer_id" \in DOMAIN manifest /\ "bundle_type" \in DOMAIN manifest
      /\ "ca_scopes" \in DOMAIN manifest /\ "window" \in DOMAIN manifest
      /\ "integrity" \in DOMAIN manifest /\ "continuity" \in DOMAIN manifest
      /\ "compression" \in DOMAIN manifest
  <2>1. 3 \in 1..13 /\ 5 \in 1..13 /\ 6 \in 1..13 /\ 7 \in 1..13 /\ 8 \in 1..13 /\ 10 \in 1..13 /\ 12 \in 1..13
    OBVIOUS
  <2> QED
    BY <2>1 DEF IsManifest, ManifestFields
<1>2. /\ m["producer_id"] = manifest["producer_id"]
      /\ m["bundle_type"] = manifest["bundle_type"]
      /\ m["ca_scopes"] = manifest["ca_scopes"]
      /\ m["window"] = manifest["window"]
      /\ m["integrity"] = [index_digest |-> Layout(entries).index, data_digest |-> Layout(entries).data]
      /\ m["continuity"] = manifest["continuity"]
      /\ m["compression"] = manifest["compression"]
  BY <1>1 DEF FilledIn
<1> HIDE DEF m
<1> QED
  BY <1>2, ManifestSurvives DEF m

\* What an index consists of.
LEMMA IndexTypes ==
  ASSUME NEW index \in Seq(IndexEntry)
  PROVE  /\ Len(index) \in Nat
         /\ DOMAIN index = 1..Len(index)
         /\ \A i \in 1..Len(index) : /\ index[i].key \in Int /\ index[i].disc \in Int
                                     /\ index[i].offset \in Nat /\ index[i].length \in Nat
<1>1. ASSUME NEW i \in 1..Len(index)
      PROVE  /\ index[i].key \in Int /\ index[i].disc \in Int
             /\ index[i].offset \in Nat /\ index[i].length \in Nat
  <2>1. index[i] \in IndexEntry
    OBVIOUS
  <2> QED
    BY <2>1 DEF IndexEntry
<1> QED
  BY <1>1

\* Every record comes strictly before all later ones.
SortedIndex(index) ==
  \A i, j \in 1..Len(index) : i < j => Precedes(index[i], index[j])

\* An index whose neighbours are in order is in order throughout.
LEMMA NeighboursSuffice ==
  ASSUME NEW index \in Seq(IndexEntry), validate_sort_order(index)
  PROVE  SortedIndex(index)
<1> DEFINE N == Len(index)
           S == {d \in Nat : \A i \in 1..N : i + d + 1 <= N => Precedes(index[i], index[i + d + 1])}
<1>1. N \in Nat /\ \A i \in 1..N : index[i].key \in Int /\ index[i].disc \in Int
  BY IndexTypes
<1>2. \A i \in 1..(N - 1) : Precedes(index[i], index[i + 1])
  BY DEF validate_sort_order
<1>3. 0 \in S
  <2> SUFFICES ASSUME NEW i \in 1..N, i + 0 + 1 <= N PROVE Precedes(index[i], index[i + 0 + 1])
    OBVIOUS
  <2>1. i \in 1..(N - 1) /\ i + 0 + 1 = i + 1
    BY <1>1
  <2> QED
    BY <1>2, <2>1
<1>4. ASSUME NEW d \in Nat, d \in S PROVE d + 1 \in S
  <2> SUFFICES ASSUME NEW i \in 1..N, i + (d + 1) + 1 <= N PROVE Precedes(index[i], index[i + (d + 1) + 1])
    OBVIOUS
  <2> DEFINE j == i + d + 1
             k == i + (d + 1) + 1
  <2>1. j \in 1..(N - 1) /\ j \in 1..N /\ k = j + 1 /\ k \in 1..N /\ i + d + 1 <= N
    BY <1>1
  <2>2. Precedes(index[i], index[j])
    BY <1>4, <2>1
  <2>3. Precedes(index[j], index[k])
    BY <1>2, <2>1
  <2> HIDE DEF j, k
  <2>4. Precedes(index[i], index[k])
    BY <1>1, <2>1, <2>2, <2>3 DEF Precedes
  <2> QED
    BY <2>4 DEF k
<1>5. \A d \in Nat : d \in S
  <2> HIDE DEF S
  <2> QED
    BY <1>3, <1>4, Induction
<1> SUFFICES ASSUME NEW i \in 1..N, NEW j \in 1..N, i < j PROVE Precedes(index[i], index[j])
  BY DEF SortedIndex
<1> DEFINE d == j - i - 1
<1>6. d \in Nat /\ i + d + 1 <= N /\ i + d + 1 = j
  BY <1>1
<1>7. Precedes(index[i], index[i + d + 1])
  <2> HIDE DEF d
  <2> QED
    BY <1>5, <1>6
<1> QED
  BY <1>6, <1>7

\* The record at position i is the one searched for.
Hit(index, i, key, disc) == index[i].key = key /\ index[i].disc = disc

\* v is the position searched for among lo + 1 .. hi, 0 for none.
Found(index, key, disc, lo, hi, v) ==
  \/ v \in (lo + 1)..hi /\ Hit(index, v, key, disc)
  \/ v = 0 /\ \A i \in (lo + 1)..hi : ~Hit(index, i, key, disc)

\* A slot is in an ordered index at most once.
LEMMA FoundOnce ==
  ASSUME NEW index \in Seq(IndexEntry), SortedIndex(index), NEW key, NEW disc,
         NEW lo \in 0..Len(index), NEW hi \in 0..Len(index), NEW v, NEW w,
         Found(index, key, disc, lo, hi, v), Found(index, key, disc, lo, hi, w)
  PROVE  v = w
<1>1. /\ Len(index) \in Nat
      /\ \A i \in 1..Len(index) : index[i].key \in Int /\ index[i].disc \in Int
  BY IndexTypes
<1>2. \A i \in (lo + 1)..hi : i \in 1..Len(index) /\ i # 0
  BY <1>1
<1>3. ASSUME NEW i \in (lo + 1)..hi, NEW j \in (lo + 1)..hi,
             Hit(index, i, key, disc), Hit(index, j, key, disc), i < j
      PROVE  FALSE
  <2>1. Precedes(index[i], index[j])
    BY <1>2, <1>3 DEF SortedIndex
  <2> QED
    BY <1>1, <1>2, <1>3, <2>1 DEF Precedes, Hit
<1>4. \A i, j \in (lo + 1)..hi : Hit(index, i, key, disc) /\ Hit(index, j, key, disc) => i = j
  <2> SUFFICES ASSUME NEW i \in (lo + 1)..hi, NEW j \in (lo + 1)..hi,
                      Hit(index, i, key, disc), Hit(index, j, key, disc), i # j
               PROVE  FALSE
    OBVIOUS
  <2>1. i < j \/ j < i
    OBVIOUS
  <2> QED
    BY <1>3, <2>1
<1> QED
  BY <1>4 DEF Found

\* The standard library's search finds the slot where it is.
LEMMA StandardSearch ==
  ASSUME NEW index \in Seq(IndexEntry), NEW key, NEW disc
  PROVE  Found(index, key, disc, 0, Len(index), binary_search_with_discriminator(index, key, disc))
<1> DEFINE hits == {i \in DOMAIN index : index[i].key = key /\ index[i].disc = disc}
           v == binary_search_with_discriminator(index, key, disc)
<1>1. DOMAIN index = (0 + 1)..Len(index)
  OBVIOUS
<1>2. v = IF hits = {} THEN 0 ELSE CHOOSE i \in hits : TRUE
  BY DEF binary_search_with_discriminator
<1>3. CASE hits = {}
  BY <1>1, <1>2, <1>3 DEF Found, Hit
<1>4. CASE hits # {}
  <2>1. v \in hits
    BY <1>2, <1>4
  <2> QED
    BY <1>1, <2>1 DEF Found, Hit
<1> QED
  BY <1>3, <1>4

\* After a probe in the middle, the slot is there or in the half that is searched next.
Halves(index, key, disc, lo, hi, mid) ==
  LET r == index[mid + 1]
      hit == r.key = key /\ r.disc = disc
      low == r.key < key \/ (r.key = key /\ r.disc < disc)
  IN /\ mid \in lo..(hi - 1)
     /\ mid + 1 \in 1..Len(index)
     /\ hit => Found(index, key, disc, lo, hi, mid + 1)
     /\ low => \A v : Found(index, key, disc, mid + 1, hi, v) => Found(index, key, disc, lo, hi, v)
     /\ ~hit /\ ~low => \A v : Found(index, key, disc, lo, mid, v) => Found(index, key, disc, lo, hi, v)

\* The mapped reader's search probes in the middle.
LEMMA ProbeStep ==
  ASSUME NEW index \in Seq(IndexEntry), SortedIndex(index), NEW key \in Int, NEW disc \in Int,
         NEW lo \in 0..Len(index), NEW hi \in 0..Len(index), lo < hi,
         NEW mid, mid = lo + (hi - lo) \div 2
  PROVE  Halves(index, key, disc, lo, hi, mid)
<1> DEFINE N == Len(index)
           r == index[mid + 1]
<1>1. N \in Nat /\ lo \in Nat /\ hi \in Nat /\ hi <= N
  OBVIOUS
<1>2. mid \in lo..(hi - 1)
  BY <1>1
<1> HIDE DEF N
<1>3. mid + 1 \in 1..N /\ mid + 1 \in (lo + 1)..hi /\ mid \in Int
  BY <1>1, <1>2
<1>4. \A i \in 1..N : index[i].key \in Int /\ index[i].disc \in Int
  BY IndexTypes DEF N
<1>5. \A i, j \in 1..N : i < j => Precedes(index[i], index[j])
  BY DEF SortedIndex, N
<1>6. ASSUME r.key = key /\ r.disc = disc PROVE Found(index, key, disc, lo, hi, mid + 1)
  BY <1>3, <1>6 DEF Found, Hit
<1>7. ASSUME r.key < key \/ (r.key = key /\ r.disc < disc), NEW v, Found(index, key, disc, mid + 1, hi, v)
      PROVE  Found(index, key, disc, lo, hi, v)
  <2>1. \A i \in (lo + 1)..(mid + 1) : ~Hit(index, i, key, disc)
    <3> SUFFICES ASSUME NEW i \in (lo + 1)..(mid + 1), Hit(index, i, key, disc) PROVE FALSE
      OBVIOUS
    <3>1. i \in 1..N /\ (i = mid + 1 \/ i < mid + 1)
      BY <1>1, <1>2, <1>3
    <3>2. i = mid + 1 \/ Precedes(index[i], r)
      BY <1>3, <1>5, <3>1
    <3> QED
      BY <1>3, <1>4, <1>7, <3>1, <3>2 DEF Precedes, Hit
  <2>2. \A i \in (lo + 1)..hi : i \in (lo + 1)..(mid + 1) \/ i \in ((mid + 1) + 1)..hi
    BY <1>1, <1>2
  <2>3. \A i \in ((mid + 1) + 1)..hi : i \in (lo + 1)..hi
    BY <1>1, <1>2
  <2> QED
    BY <1>7, <2>1, <2>2, <2>3 DEF Found
<1>8. ASSUME ~(r.key = key /\ r.disc = disc), ~(r.key < key \/ (r.key = key /\ r.disc < disc)),
             NEW v, Found(index, key, disc, lo, mid, v)
      PROVE  Found(index, key, disc, lo, hi, v)
  <2>1. \A i \in (mid + 1)..hi : ~Hit(index, i, key, disc)
    <3> SUFFICES ASSUME NEW i \in (mid + 1)..hi, Hit(index, i, key, disc) PROVE FALSE
      OBVIOUS
    <3>1. i \in 1..N /\ (i = mid + 1 \/ mid + 1 < i)
      BY <1>1, <1>2, <1>3
    <3>2. i = mid + 1 \/ Precedes(r, index[i])
      BY <1>3, <1>5, <3>1
    <3> QED
      BY <1>3, <1>4, <1>8, <3>1, <3>2 DEF Precedes, Hit
  <2>2. \A i \in (lo + 1)..hi : i \in (lo + 1)..mid \/ i \in (mid + 1)..hi
    BY <1>1, <1>2
  <2>3. \A i \in (lo + 1)..mid : i \in (lo + 1)..hi
    BY <1>1, <1>2
  <2> QED
    BY <1>8, <2>1, <2>2, <2>3 DEF Found
<1> QED
  BY <1>2, <1>3, <1>6, <1>7, <1>8 DEF N, Halves

\* One probe, given what the later ones will find.
ProbeFrom(index, key, disc, P, lo, hi) ==
  LET mid == lo + (hi - lo) \div 2
      r == index[mid + 1]
  IN CASE lo >= hi -> 0
       [] lo < hi /\ r.key = key /\ r.disc = disc -> mid + 1
       [] lo < hi /\ (r.key < key \/ (r.key = key /\ r.disc < disc)) -> P[<<mid + 1, hi>>]
       [] OTHER -> P[<<lo, mid>>]

\* It finds the slot between lo and hi if the later ones do in their halves.
LEMMA ProbeFinds ==
  ASSUME NEW index \in Seq(IndexEntry), SortedIndex(index), NEW key \in Int, NEW disc \in Int,
         NEW lo \in 0..Len(index), NEW hi \in 0..Len(index), NEW P,
         \A l, h \in 0..Len(index) : h - l < hi - lo => Found(index, key, disc, l, h, P[<<l, h>>])
  PROVE  Found(index, key, disc, lo, hi, ProbeFrom(index, key, disc, P, lo, hi))
<1> DEFINE N == Len(index)
           mid == lo + (hi - lo) \div 2
           r == index[mid + 1]
           v == ProbeFrom(index, key, disc, P, lo, hi)
<1>1. N \in Nat /\ lo \in Nat /\ hi \in Nat /\ hi <= N /\ lo <= N
  OBVIOUS
<1>2. CASE lo >= hi
  <2>1. v = 0
    BY <1>2 DEF ProbeFrom
  <2>2. \A i \in (lo + 1)..hi : FALSE
    BY <1>1, <1>2
  <2> QED
    BY <2>1, <2>2 DEF Found
<1>3. CASE lo < hi
  <2>1. ~(lo >= hi)
    BY <1>1, <1>3
  <2>2. v = CASE lo >= hi -> 0
       [] lo < hi /\ r.key = key /\ r.disc = disc -> mid + 1
       [] lo < hi /\ (r.key < key \/ (r.key = key /\ r.disc < disc)) -> P[<<mid + 1, hi>>]
       [] OTHER -> P[<<lo, mid>>]
    BY DEF ProbeFrom
  <2>3. mid = lo + (hi - lo) \div 2
    OBVIOUS
  <2> HIDE DEF mid, v
  <2>4. /\ mid \in lo..(hi - 1) /\ mid + 1 \in 1..N
        /\ r.key = key /\ r.disc = disc => Found(index, key, disc, lo, hi, mid + 1)
        /\ r.key < key \/ (r.key = key /\ r.disc < disc) =>
              \A x : Found(index, key, disc, mid + 1, hi, x) => Found(index, key, disc, lo, hi, x)
        /\ ~(r.key = key /\ r.disc = disc) /\ ~(r.key < key \/ (r.key = key /\ r.disc < disc)) =>
              \A x : Found(index, key, disc, lo, mid, x) => Found(index, key, disc, lo, hi, x)
    <3>1. Halves(index, key, disc, lo, hi, mid)
      BY <1>3, <2>3, ProbeStep
    <3> QED
      BY <3>1 DEF Halves
  <2>5. r.key \in Int /\ r.disc \in Int
    BY <2>4, IndexTypes
  <2>6. CASE r.key = key /\ r.disc = disc
    <3>1. v = mid + 1
      BY <1>3, <2>1, <2>2, <2>6
    <3> QED
      BY <2>4, <2>6, <3>1 DEF v
  <2>7. CASE r.key < key \/ (r.key = key /\ r.disc < disc)
    <3>1. ~(r.key = key /\ r.disc = disc)
      BY <2>5, <2>7
    <3>2. v = P[<<mid + 1, hi>>]
      BY <1>3, <2>1, <2>2, <2>7, <3>1
    <3>3. mid + 1 \in 0..N /\ hi - (mid + 1) < hi - lo
      BY <1>1, <2>4
    <3>4. Found(index, key, disc, mid + 1, hi, v)
      BY <3>2, <3>3
    <3> QED
      BY <2>4, <2>7, <3>4 DEF v
  <2>8. CASE /\ ~(r.key = key /\ r.disc = disc)
             /\ ~(r.key < key \/ (r.key = key /\ r.disc < disc))
    <3>1. v = P[<<lo, mid>>]
      BY <1>3, <2>1, <2>2, <2>8
    <3>2. mid \in 0..N /\ mid - lo < hi - lo
      BY <1>1, <2>4
    <3>3. Found(index, key, disc, lo, mid, v)
      BY <3>1, <3>2
    <3> QED
      BY <2>4, <2>8, <3>3 DEF v
  <2> QED
    BY <2>6, <2>7, <2>8
<1> QED
  BY <1>1, <1>2, <1>3

\* MmapBundle::binary_search_disc terminates, and finds the slot where it is.
LEMMA MappedSearch ==
  ASSUME NEW index \in Seq(IndexEntry), SortedIndex(index), NEW key \in Int, NEW disc \in Int
  PROVE  Found(index, key, disc, 0, Len(index), binary_search_disc(index, key, disc))
<1> DEFINE N == Len(index)
           D == (0..N) \X (0..N)
           Body(P) == [span \in D |-> ProbeFrom(index, key, disc, P, span[1], span[2])]
           Ok(lo, hi, v) == Found(index, key, disc, lo, hi, v)
           Q == [span \in D |-> CHOOSE v : Ok(span[1], span[2], v)]
           P == CHOOSE f : f = Body(f)
<1>1. N \in Nat
  OBVIOUS
<1>2. \A lo, hi \in 0..N : \E v : Ok(lo, hi, v)
  <2> SUFFICES ASSUME NEW lo \in 0..N, NEW hi \in 0..N PROVE \E v : Ok(lo, hi, v)
    OBVIOUS
  <2>1. CASE \E i \in (lo + 1)..hi : Hit(index, i, key, disc)
    BY <2>1 DEF Found
  <2>2. CASE \A i \in (lo + 1)..hi : ~Hit(index, i, key, disc)
    <3>1. Ok(lo, hi, 0)
      BY <2>2 DEF Found
    <3> QED
      BY <3>1
  <2> QED
    BY <2>1, <2>2
<1>3. \A lo, hi \in 0..N : Ok(lo, hi, Q[<<lo, hi>>])
  BY <1>2
<1>4. Q = Body(Q)
  <2>1. ASSUME NEW lo \in 0..N, NEW hi \in 0..N
        PROVE  Q[<<lo, hi>>] = ProbeFrom(index, key, disc, Q, lo, hi)
    <3> HIDE DEF Q
    <3>1. Ok(lo, hi, ProbeFrom(index, key, disc, Q, lo, hi))
      BY <1>3, ProbeFinds
    <3>2. Ok(lo, hi, Q[<<lo, hi>>])
      BY <1>3
    <3> QED
      BY <3>1, <3>2, FoundOnce
  <2> HIDE DEF Ok
  <2>2. Q = [span \in D |-> Q[span]]
    OBVIOUS
  <2> HIDE DEF Q
  <2>3. ASSUME NEW span \in D PROVE Q[span] = ProbeFrom(index, key, disc, Q, span[1], span[2])
    <3>1. span = <<span[1], span[2]>> /\ span[1] \in 0..N /\ span[2] \in 0..N
      OBVIOUS
    <3> QED
      BY <2>1, <3>1
  <2> QED
    BY <2>2, <2>3
<1>5. P = Body(P)
  <2> HIDE DEF Body, Q
  <2> QED
    BY <1>4
<1> HIDE DEF P, Q
<1>6. \A lo, hi \in 0..N : P[<<lo, hi>>] = ProbeFrom(index, key, disc, P, lo, hi)
  BY <1>5
<1> DEFINE S == {d \in Nat : \A lo, hi \in 0..N : hi - lo <= d => Ok(lo, hi, P[<<lo, hi>>])}
<1>7. 0 \in S
  <2> SUFFICES ASSUME NEW lo \in 0..N, NEW hi \in 0..N, hi - lo <= 0 PROVE Ok(lo, hi, P[<<lo, hi>>])
    OBVIOUS
  <2>1. lo >= hi /\ \A i \in (lo + 1)..hi : FALSE
    BY <1>1
  <2>2. ProbeFrom(index, key, disc, P, lo, hi) = 0
    BY <2>1 DEF ProbeFrom
  <2>3. P[<<lo, hi>>] = 0
    BY <1>6, <2>2
  <2> QED
    BY <2>1, <2>3 DEF Found
<1>8. ASSUME NEW d \in Nat, d \in S PROVE d + 1 \in S
  <2> SUFFICES ASSUME NEW lo \in 0..N, NEW hi \in 0..N, hi - lo <= d + 1 PROVE Ok(lo, hi, P[<<lo, hi>>])
    OBVIOUS
  <2>1. \A l, h \in 0..N : h - l < hi - lo => h - l <= d
    BY <1>1
  <2>2. \A l, h \in 0..N : h - l < hi - lo => Ok(l, h, P[<<l, h>>])
    BY <1>8, <2>1
  <2>3. Ok(lo, hi, ProbeFrom(index, key, disc, P, lo, hi))
    BY <2>2, ProbeFinds
  <2> QED
    BY <1>6, <2>3
<1>9. \A d \in Nat : d \in S
  <2> HIDE DEF S
  <2> QED
    BY <1>7, <1>8, Induction
<1>10. Ok(0, N, P[<<0, N>>])
  <2>1. 0 \in 0..N /\ N \in 0..N /\ N - 0 <= N /\ N \in S
    BY <1>1, <1>9
  <2> QED
    BY <2>1
<1>11. binary_search_disc(index, key, disc) = P[<<0, N>>]
  BY DEF binary_search_disc, ProbeFrom, LowerHalf, P
<1> QED
  BY <1>10, <1>11

\* Both readers find the same position for every slot.
LEMMA SearchesAgree ==
  ASSUME NEW index \in Seq(IndexEntry), SortedIndex(index), NEW key \in Int, NEW disc \in Int
  PROVE  binary_search_disc(index, key, disc) = binary_search_with_discriminator(index, key, disc)
<1>1. 0 \in 0..Len(index) /\ Len(index) \in 0..Len(index)
  OBVIOUS
<1> QED
  BY <1>1, StandardSearch, MappedSearch, FoundOnce

\* The mapped reader returns what the reader in memory does, whatever is preferred.
LEMMA MappedLookupAgrees ==
  ASSUME NEW bundle, bundle.index \in Seq(IndexEntry), SortedIndex(bundle.index),
         NEW key \in Int, NEW preferences \in Seq(Int)
  PROVE  lookup_mapped(bundle, key, preferences) = lookup_preferred(bundle, key, preferences)
<1> DEFINE T == Tried(preferences)
           index == bundle.index
<1>1. \A j \in DOMAIN T : T[j] \in Int
  <2>1. Append(preferences, 0) \in Seq(Int)
    OBVIOUS
  <2>2. T \in Seq(Int)
    BY <2>1 DEF Tried
  <2> HIDE DEF T
  <2> QED
    BY <2>2
<1> HIDE DEF T
<1>2. \A j \in DOMAIN T : binary_search_disc(index, key, T[j]) = binary_search_with_discriminator(index, key, T[j])
  BY <1>1, SearchesAgree
<1>3. [j \in DOMAIN T |-> binary_search_disc(index, key, T[j])] =
        [j \in DOMAIN T |-> binary_search_with_discriminator(index, key, T[j])]
  BY <1>2
<1> QED
  BY <1>3 DEF lookup_mapped, lookup_preferred, binary_search_preferred, T

\* An index for the entries: ordered, with a record for each and for nothing else.
IndexOf(laid, entries, X) ==
  /\ laid.index \in Seq(IndexEntry)
  /\ laid.data \in Seq(X)
  /\ Len(laid.index) = Len(entries)
  /\ SortedIndex(laid.index)
  /\ \A k \in 1..Len(entries) : \E i \in 1..Len(entries) : Stored(laid.data, laid.index[k], entries[i])
  /\ \A i \in 1..Len(entries) : \E k \in 1..Len(entries) : Stored(laid.data, laid.index[k], entries[i])

\* Laying entries of distinct slots out gives such an index.
LEMMA LayoutIndexes ==
  ASSUME NEW X, NEW entries \in Seq(BuilderEntry(X)), Sized(entries), Distinct(entries)
  PROVE  IndexOf(Layout(entries), entries, X)
<1> DEFINE laid == Layout(entries)
           sorted == SortEntries(entries)
           N == Len(entries)
<1>1. LaidOut(laid, sorted, N, X)
  BY LayoutHolds
<1>2. Keyed(entries)
  BY EntryTypes DEF Keyed, IndexEntry
<1>3. /\ \A i \in 1..N : \E k \in 1..N : sorted[k] = entries[i]
      /\ \A k \in 1..N : \E i \in 1..N : sorted[k] = entries[i]
      /\ \A j, k \in 1..N : j < k => Precedes(sorted[j].record, sorted[k].record)
  BY <1>2, EntriesSorted
<1> HIDE DEF laid, sorted, N
<1>4. /\ laid.index \in Seq(IndexEntry) /\ laid.data \in Seq(X) /\ Len(laid.index) = N
      /\ \A k \in 1..N : Stored(laid.data, laid.index[k], sorted[k])
  BY <1>1 DEF LaidOut
<1>5. SortedIndex(laid.index)
  <2> SUFFICES ASSUME NEW j \in 1..N, NEW k \in 1..N, j < k PROVE Precedes(laid.index[j], laid.index[k])
    BY <1>4 DEF SortedIndex
  <2>1. Precedes(sorted[j].record, sorted[k].record)
    BY <1>3
  <2>2. /\ laid.index[j].key = sorted[j].record.key /\ laid.index[j].disc = sorted[j].record.disc
        /\ laid.index[k].key = sorted[k].record.key /\ laid.index[k].disc = sorted[k].record.disc
    BY <1>4 DEF Stored
  <2> QED
    BY <2>1, <2>2 DEF Precedes
<1>6. \A k \in 1..N : \E i \in 1..N : Stored(laid.data, laid.index[k], entries[i])
  <2> SUFFICES ASSUME NEW k \in 1..N PROVE \E i \in 1..N : Stored(laid.data, laid.index[k], entries[i])
    OBVIOUS
  <2>1. PICK i \in 1..N : sorted[k] = entries[i]
    BY <1>3
  <2>2. Stored(laid.data, laid.index[k], sorted[k])
    BY <1>4
  <2> QED
    BY <2>1, <2>2
<1>7. \A i \in 1..N : \E k \in 1..N : Stored(laid.data, laid.index[k], entries[i])
  <2> SUFFICES ASSUME NEW i \in 1..N PROVE \E k \in 1..N : Stored(laid.data, laid.index[k], entries[i])
    OBVIOUS
  <2>1. PICK k \in 1..N : sorted[k] = entries[i]
    BY <1>3
  <2>2. Stored(laid.data, laid.index[k], sorted[k])
    BY <1>4
  <2> QED
    BY <2>1, <2>2
<1> QED
  BY <1>4, <1>5, <1>6, <1>7 DEF IndexOf, laid, N

\* The bytes that a record refers to are the payload of the entry it was written for.
LEMMA StoredBytes ==
  ASSUME NEW X, NEW bundle, bundle.data \in Seq(X), NEW r, NEW e, e.payload \in Seq(X),
         Stored(bundle.data, r, e)
  PROVE  /\ IsTombstone(r) <=> IsTombstone(e.record)
         /\ ~IsTombstone(e.record) => HasBytes(bundle, r) /\ entry_bytes(bundle, r) = e.payload
         /\ HasBytes(bundle, r) <=> ~IsTombstone(e.record)
<1> DEFINE D == bundle.data
           p == e.payload
<1>1. IsTombstone(r) <=> IsTombstone(e.record)
  BY DEF Stored, IsTombstone
<1>2. ASSUME ~IsTombstone(e.record) PROVE HasBytes(bundle, r) /\ entry_bytes(bundle, r) = p
  <2>1. /\ r.length = Len(p) /\ r.offset \in Nat /\ r.offset + Len(p) <= Len(D)
        /\ \A j \in 1..Len(p) : D[r.offset + j] = p[j]
    BY <1>2 DEF Stored, Holds
  <2>2. HasBytes(bundle, r)
    BY <1>1, <1>2, <2>1 DEF HasBytes
  <2> DEFINE o == r.offset
             s == SubSeq(D, o + 1, o + Len(p))
  <2>3. Len(p) \in Nat /\ Len(D) \in Nat /\ o \in Nat
    BY <2>1
  <2>4. \A i \in (o + 1)..(o + Len(p)) : D[i] \in X
    <3>1. \A i \in (o + 1)..(o + Len(p)) : i \in 1..Len(D)
      BY <2>1, <2>3
    <3> QED
      BY <3>1
  <2> HIDE DEF o
  <2>5. /\ s \in Seq(X)
        /\ Len(s) = IF o + 1 <= o + Len(p) THEN (o + Len(p)) - (o + 1) + 1 ELSE 0
        /\ \A i \in 1..((o + Len(p)) - (o + 1) + 1) : s[i] = D[(o + 1) + i - 1]
    <3>1. o + 1 \in Int /\ o + Len(p) \in Int
      BY <2>3
    <3> QED
      BY <2>4, <3>1, SubSeqProperties
  <2> HIDE DEF s
  <2>6. Len(s) = Len(p) /\ \A i \in 1..Len(p) : s[i] = D[o + i]
    <3>1. (o + Len(p)) - (o + 1) + 1 = Len(p) /\ \A i \in 1..Len(p) : (o + 1) + i - 1 = o + i
      BY <2>3
    <3>2. Len(s) = Len(p)
      BY <2>3, <2>5
    <3> QED
      BY <2>5, <3>1, <3>2
  <2>7. s = p
    <3>1. \A i \in 1..Len(s) : s[i] = p[i]
      BY <2>1, <2>6 DEF o
    <3> QED
      BY <2>5, <2>6, <3>1, SeqEqual
  <2>8. entry_bytes(bundle, r) = s
    BY <2>1, <2>2 DEF entry_bytes, s, o
  <2> QED
    BY <2>2, <2>7, <2>8
<1>3. HasBytes(bundle, r) => ~IsTombstone(e.record)
  BY <1>1 DEF HasBytes
<1> QED
  BY <1>1, <1>2, <1>3

\* A bundle that was built verifies, holds what it was built from, and has the
\* manifest it was built with.
LEMMA BuiltVerifies ==
  ASSUME NEW X, NEW entries \in Seq(BuilderEntry(X)), Sized(entries), Distinct(entries),
         NEW manifest, IsManifest(manifest), NEW sealer,
         manifest.bundle_type = "Delta" => manifest.continuity.base # {},
         NEW b, b = from_bytes(build(manifest, entries, sealer))
  PROVE  /\ verify_structure(b)
         /\ IndexOf(b, entries, X)
         /\ b.manifest_bytes = to_cbor(FilledIn(manifest, entries))
         /\ b.manifest = from_cbor(b.manifest_bytes)
         /\ b.seal = Sealed(b.manifest_bytes, sealer)
         /\ b.manifest.producer_id = manifest.producer_id
         /\ b.manifest.bundle_type = manifest.bundle_type
         /\ b.manifest.ca_scopes = manifest.ca_scopes
         /\ b.manifest.window = manifest.window
         /\ b.manifest.continuity = manifest.continuity
         /\ b.manifest.compression = manifest.compression
         /\ b.manifest.compression = manifest.compression
<1> DEFINE laid == Layout(entries)
           bytes == to_cbor(FilledIn(manifest, entries))
           m == from_cbor(bytes)
<1>1. b = [manifest |-> m, manifest_bytes |-> bytes, seal |-> Sealed(bytes, sealer),
           index |-> laid.index, data |-> laid.data]
  BY ReadsBuilt
<1>2. /\ b.manifest = m /\ b.manifest_bytes = bytes /\ b.seal = Sealed(bytes, sealer)
      /\ b.index = laid.index /\ b.data = laid.data
  BY <1>1
<1>3. /\ Decodes(bytes)
      /\ m.producer_id = manifest.producer_id
      /\ m.bundle_type = manifest.bundle_type
      /\ m.ca_scopes = manifest.ca_scopes
      /\ m.window = manifest.window
      /\ m.integrity = [index_digest |-> laid.index, data_digest |-> laid.data]
      /\ m.continuity = manifest.continuity
      /\ m.compression = manifest.compression
  BY FilledInFields
<1>4. IndexOf(laid, entries, X)
  BY LayoutIndexes
<1> HIDE DEF laid, bytes, m
<1>5. IndexOf(b, entries, X)
  BY <1>2, <1>4 DEF IndexOf
<1>6. validate_sort_order(b.index)
  <2>1. Len(b.index) \in Nat /\ SortedIndex(b.index)
    BY <1>5 DEF IndexOf
  <2> SUFFICES ASSUME NEW i \in 1..(Len(b.index) - 1) PROVE Precedes(b.index[i], b.index[i + 1])
    BY DEF validate_sort_order
  <2>2. i \in 1..Len(b.index) /\ i + 1 \in 1..Len(b.index) /\ i < i + 1
    BY <2>1
  <2> QED
    BY <2>1, <2>2 DEF SortedIndex
<1>7. \A i \in DOMAIN b.index : IsTombstone(b.index[i]) \/ HasBytes(b, b.index[i])
  <2> SUFFICES ASSUME NEW k \in DOMAIN b.index PROVE IsTombstone(b.index[k]) \/ HasBytes(b, b.index[k])
    OBVIOUS
  <2>1. k \in 1..Len(entries) /\ b.data \in Seq(X)
    <3>1. b.index \in Seq(IndexEntry) /\ Len(b.index) = Len(entries) /\ b.data \in Seq(X)
      BY <1>5 DEF IndexOf
    <3>2. DOMAIN b.index = 1..Len(b.index)
      BY <3>1, IndexTypes
    <3> QED
      BY <3>1, <3>2
  <2>2. PICK i \in 1..Len(entries) : Stored(b.data, b.index[k], entries[i])
    BY <1>5, <2>1 DEF IndexOf
  <2>3. entries[i].payload \in Seq(X)
    BY EntryTypes
  <2> QED
    BY <2>1, <2>2, <2>3, StoredBytes
<1>8. DigestsMatch(m, b)
  BY <1>2, <1>3 DEF DigestsMatch
<1>9. verify_structure(b)
  BY <1>2, <1>3, <1>6, <1>7, <1>8 DEF verify_structure, m
<1> QED
  BY <1>2, <1>3, <1>5, <1>9 DEF m, bytes

\* The search finds the record of an entry.
LEMMA SlotFound ==
  ASSUME NEW X, NEW entries, NEW b, IndexOf(b, entries, X), NEW i \in 1..Len(entries),
         NEW v, v = binary_search_with_discriminator(b.index, entries[i].record.key, entries[i].record.disc)
  PROVE  v \in 1..Len(entries) /\ v # 0 /\ Stored(b.data, b.index[v], entries[i])
<1> DEFINE key == entries[i].record.key
           disc == entries[i].record.disc
           N == Len(entries)
<1>1. PICK k \in 1..N : Stored(b.data, b.index[k], entries[i])
  BY DEF IndexOf
<1>2. b.index \in Seq(IndexEntry) /\ SortedIndex(b.index) /\ Len(b.index) = N /\ N \in Nat
  BY DEF IndexOf
<1>3. Found(b.index, key, disc, 0, N, v)
  BY <1>2, StandardSearch
<1>4. Found(b.index, key, disc, 0, N, k)
  BY <1>1, <1>2 DEF Stored, Found, Hit
<1>5. 0 \in 0..N /\ N \in 0..N
  BY <1>2
<1> HIDE DEF N, key, disc
<1>6. v = k
  BY <1>2, <1>3, <1>4, <1>5, FoundOnce
<1> QED
  BY <1>1, <1>2, <1>6 DEF N

\* It finds no record for what is not an entry.
LEMMA SlotMissing ==
  ASSUME NEW X, NEW entries, NEW b, IndexOf(b, entries, X), NEW key, NEW disc,
         \A i \in 1..Len(entries) : ~(entries[i].record.key = key /\ entries[i].record.disc = disc)
  PROVE  binary_search_with_discriminator(b.index, key, disc) = 0
<1> DEFINE v == binary_search_with_discriminator(b.index, key, disc)
           N == Len(entries)
<1>1. b.index \in Seq(IndexEntry) /\ Len(b.index) = N
  BY DEF IndexOf
<1>2. Found(b.index, key, disc, 0, N, v)
  BY <1>1, StandardSearch
<1>3. ASSUME v \in 1..N, Hit(b.index, v, key, disc) PROVE FALSE
  <2>1. PICK i \in 1..N : Stored(b.data, b.index[v], entries[i])
    BY <1>3 DEF IndexOf
  <2> QED
    BY <1>3, <2>1 DEF Stored, Hit
<1> QED
  BY <1>2, <1>3 DEF Found

\* The first position that is not 0.
LEMMA FirstFoundAt ==
  ASSUME NEW n \in Nat, NEW found, DOMAIN found = 1..n, NEW i \in 1..n, found[i] # 0,
         \A j \in 1..n : j < i => found[j] = 0
  PROVE  FirstFound(found) = found[i]
<1> DEFINE hits == {j \in DOMAIN found : found[j] # 0}
           Least(x) == x \in hits /\ \A y \in hits : x <= y
<1>1. i \in hits /\ \A y \in hits : i <= y
  OBVIOUS
<1>2. \A x : Least(x) => x = i
  <2> SUFFICES ASSUME NEW x, Least(x) PROVE x = i
    OBVIOUS
  <2>1. x <= i /\ i <= x /\ x \in Int /\ i \in Int
    BY <1>1
  <2> QED
    BY <2>1
<1>3. Min(hits) = CHOOSE x \in hits : \A y \in hits : x <= y
  BY DEF Min
<1> HIDE DEF hits
<1>4. Min(hits) = i
  BY <1>1, <1>2, <1>3
<1>5. hits # {}
  BY <1>1
<1>6. FirstFound(found) = IF hits = {} THEN 0 ELSE found[Min(hits)]
  BY DEF FirstFound, hits
<1> QED
  BY <1>4, <1>5, <1>6

\* Nothing was found.
LEMMA NothingFound ==
  ASSUME NEW found, \A j \in DOMAIN found : found[j] = 0
  PROVE  FirstFound(found) = 0
<1>1. {i \in DOMAIN found : found[i] # 0} = {}
  OBVIOUS
<1> QED
  BY <1>1 DEF FirstFound

=============================================================================
