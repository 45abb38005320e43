-------------------------- MODULE AlgorithmsProofs ---------------------------
(***************************************************************************)
(* What the three algorithms pick, from every finite set of servers: round *)
(* robin and weighted round robin go through lists in which every server   *)
(* has its places, least connections finds the first server with the least *)
(* load.                                                                   *)
(***************************************************************************)
EXTENDS Algorithms, FiniteSetTheorems, WellFoundedInduction, TLAPS

-----------------------------------------------------------------------------
(* Numbers and positions                                                   *)

\* A set of numbers has a smallest one.
LEMMA SmallestOf ==
  ASSUME NEW T \in SUBSET Nat, T # {}
  PROVE  \E n \in T : \A m \in T : n <= m
<1> DEFINE R == OpToRel(<, Nat)
<1>1. IsWellFoundedOn(R, Nat)
  BY NatLessThanWellFounded
<1>2. \A m, n \in Nat : m < n => <<m, n>> \in R
  BY DEF OpToRel
<1> HIDE DEF R
<1>3. PICK n \in T : \A m \in T : ~(<<m, n>> \in R)
  BY <1>1, WFMin
<1>4. ASSUME NEW m \in T PROVE n <= m
  <2>1. m \in Nat /\ n \in Nat
    OBVIOUS
  <2>2. ~(m < n)
    BY <1>2, <1>3, <2>1, Zenon
  <2> QED
    BY <2>1, <2>2
<1> QED
  BY <1>4

\* A strict total order of H.
Orders(R, H) ==
  /\ \A s \in H : <<s, s>> \notin R
  /\ \A s, t \in H : s # t => <<s, t>> \in R \/ <<t, s>> \in R
  /\ \A s, t, u \in H : <<s, t>> \in R /\ <<t, u>> \in R => <<s, u>> \in R

\* How many members of H stand before s.
Rank(R, H, s) == Cardinality({t \in H : <<t, s>> \in R})

\* Every position of H is held by one member.
Ranked(R, H) ==
  /\ \A s \in H : Rank(R, H, s) \in 0 .. Cardinality(H) - 1
  /\ \A s, t \in H : Rank(R, H, s) = Rank(R, H, t) => s = t
  /\ \A i \in 0 .. Cardinality(H) - 1 : \E s \in H : Rank(R, H, s) = i

\* So it is if H is finite and R orders it.
LEMMA Ranking ==
  ASSUME NEW H, IsFiniteSet(H), NEW R, Orders(R, H)
  PROVE  Ranked(R, H)
<1> DEFINE Before(s) == {t \in H : <<t, s>> \in R}
           size      == Cardinality(H)
           rank      == [s \in H |-> Cardinality(Before(s))]
<1>1. size \in Nat
  BY FS_CardinalityType
<1>2. ASSUME NEW s \in H
      PROVE  /\ IsFiniteSet(Before(s)) /\ rank[s] \in 0 .. size - 1
             /\ \A t \in H : <<t, s>> \in R => rank[t] < rank[s]
  <2>1. IsFiniteSet(Before(s)) /\ Cardinality(Before(s)) \in Nat
    BY FS_Subset, FS_CardinalityType
  <2>2. Cardinality(Before(s)) < size
    <3>1. Before(s) \in SUBSET H /\ s \notin Before(s)
      BY DEF Orders
    <3> HIDE DEF Before
    <3> QED
      BY <1>1, <2>1, <3>1, FS_Subset
  <2>3. ASSUME NEW t \in H, <<t, s>> \in R
        PROVE  Cardinality(Before(t)) < Cardinality(Before(s))
    <3>1. Before(t) \in SUBSET Before(s) /\ t \in Before(s) /\ t \notin Before(t)
      BY <2>3, Zenon DEF Orders
    <3> HIDE DEF Before
    <3>2. IsFiniteSet(Before(t)) /\ Cardinality(Before(t)) \in Nat
      BY <2>1, <3>1, FS_Subset, FS_CardinalityType
    <3> QED
      BY <2>1, <3>1, <3>2, FS_Subset
  <2> QED
    BY <1>1, <2>1, <2>2, <2>3
<1>3. rank \in [H -> 0 .. size - 1]
  BY <1>2
<1>4. ASSUME NEW s \in H, NEW t \in H, rank[s] = rank[t]
      PROVE  s = t
  <2> HIDE DEF rank
  <2>1. rank[s] \in Int /\ ~(rank[s] < rank[t]) /\ ~(rank[t] < rank[s])
    BY <1>1, <1>3, <1>4
  <2>2. <<s, t>> \notin R /\ <<t, s>> \notin R
    BY <1>2, <2>1, Zenon
  <2> QED
    BY <2>2 DEF Orders
<1>5. rank \in Injection(H, 0 .. size - 1)
  <2> HIDE DEF rank
  <2> QED
    BY <1>3, <1>4 DEF Injection, IsInjective
<1>6. IsFiniteSet(0 .. size - 1) /\ Cardinality(0 .. size - 1) = size
  <2>1. /\ size \in Nat /\ 0 \in Int /\ size - 1 \in Int
        /\ (IF 0 > size - 1 THEN 0 ELSE size - 1 - 0 + 1) = size
    BY <1>1
  <2> HIDE DEF size
  <2>2. /\ IsFiniteSet(0 .. size - 1)
        /\ Cardinality(0 .. size - 1) = IF 0 > size - 1 THEN 0 ELSE size - 1 - 0 + 1
    BY <2>1, FS_Interval
  <2> QED
    BY <2>1, <2>2
<1>7. rank \in Surjection(H, 0 .. size - 1)
  BY <1>5, <1>6, FS_Injection
<1>8. \A i \in 0 .. size - 1 : \E s \in H : rank[s] = i
  BY <1>7 DEF Surjection
<1>9. \A s \in H : rank[s] = Rank(R, H, s)
  BY DEF Rank
<1> HIDE DEF rank
<1> QED
  BY <1>3, <1>4, <1>8, <1>9 DEF Ranked

-----------------------------------------------------------------------------
(* Round robin                                                             *)

\* Every position of a finite list holds a server, each server holds one.
LEMMA NthIs ==
  ASSUME NEW H \in SUBSET Nat, IsFiniteSet(H)
  PROVE  /\ \A i \in 0 .. Cardinality(H) - 1 : Nth(H, i) \in H
         /\ \A s \in H : \E i \in 0 .. Cardinality(H) - 1 :
              \A j \in 0 .. Cardinality(H) - 1 : Nth(H, j) = s <=> j = i
<1> DEFINE R == {p \in H \X H : p[1] < p[2]}
           size == Cardinality(H)
<1>1. \A s, t \in H : <<s, t>> \in R <=> s < t
  OBVIOUS
<1>2. Orders(R, H)
  <2> HIDE DEF R
  <2> QED
    BY <1>1 DEF Orders
<1>3. ASSUME NEW s \in H PROVE Rank(R, H, s) = Cardinality({t \in H : t < s})
  <2>1. {t \in H : t < s} = {t \in H : <<t, s>> \in R}
    BY <1>1
  <2> QED
    BY <2>1, Zenon DEF Rank
<1> HIDE DEF R
<1>4. /\ \A s \in H : Rank(R, H, s) \in 0 .. size - 1
      /\ \A s, t \in H : Rank(R, H, s) = Rank(R, H, t) => s = t
      /\ \A i \in 0 .. size - 1 : \E s \in H : Rank(R, H, s) = i
  <2>1. Ranked(R, H)
    BY <1>2, Ranking
  <2> QED
    BY <2>1 DEF Ranked
<1>5. ASSUME NEW i \in 0 .. size - 1
      PROVE  Nth(H, i) \in H /\ Rank(R, H, Nth(H, i)) = i
  <2>1. \E s \in H : Cardinality({t \in H : t < s}) = i
    BY <1>3, <1>4
  <2>2. Nth(H, i) \in H /\ Cardinality({t \in H : t < Nth(H, i)}) = i
    BY <2>1, Zenon DEF Nth
  <2> QED
    BY <1>3, <2>2
<1>6. ASSUME NEW s \in H
      PROVE  \E i \in 0 .. size - 1 : \A j \in 0 .. size - 1 : Nth(H, j) = s <=> j = i
  <2>1. Rank(R, H, s) \in 0 .. size - 1
    BY <1>4
  <2>2. \A j \in 0 .. size - 1 : Nth(H, j) = s <=> j = Rank(R, H, s)
    BY <1>4, <1>5
  <2> QED
    BY <2>1, <2>2
<1> QED
  BY <1>5, <1>6

\* Round robin picks one of the healthy servers and leaves an index that it
\* can go on from.
LEMMA RoundRobinPicks ==
  ASSUME NEW H \in SUBSET Nat, IsFiniteSet(H), H # {}, NEW index \in Nat
  PROVE  /\ RoundRobin(H, index).server \in H
         /\ RoundRobin(H, index).index \in 0 .. Cardinality(H) - 1
<1>1. Cardinality(H) \in Nat \ {0}
  BY FS_CardinalityType, FS_EmptySet
<1>2. index % Cardinality(H) \in 0 .. Cardinality(H) - 1
  BY <1>1
<1>3. (index + 1) % Cardinality(H) \in 0 .. Cardinality(H) - 1
  BY <1>1
<1>4. Nth(H, index % Cardinality(H)) \in H
  BY <1>2, NthIs
<1> QED
  BY <1>3, <1>4 DEF RoundRobin

-----------------------------------------------------------------------------
(* Least connections                                                       *)

\* Least connections picks a healthy server that has no more connections than any
\* other, and the first of those.
LEMMA LeastPicks ==
  ASSUME NEW H \in SUBSET Nat, H # {}, NEW conns, \A s \in H : conns[s] \in Nat
  PROVE  /\ LeastConnections(H, conns) \in H
         /\ \A t \in H : LET s == LeastConnections(H, conns) IN
              conns[s] < conns[t] \/ (conns[s] = conns[t] /\ s <= t)
<1> DEFINE Loads == {conns[s] : s \in H}
<1>1. Loads \in SUBSET Nat /\ Loads # {}
  OBVIOUS
<1>2. PICK n \in Loads : \A m \in Loads : n <= m
  BY <1>1, SmallestOf
<1> DEFINE First == {s \in H : conns[s] = n}
<1>3. First \in SUBSET Nat /\ First # {}
  OBVIOUS
<1>4. PICK s \in First : \A t \in First : s <= t
  BY <1>3, SmallestOf
<1>5. s \in H /\ \A t \in H : conns[s] < conns[t] \/ (conns[s] = conns[t] /\ s <= t)
  <2>1. ASSUME NEW t \in H PROVE conns[s] < conns[t] \/ (conns[s] = conns[t] /\ s <= t)
    <3>1. n <= conns[t] /\ conns[s] = n /\ conns[t] \in Nat /\ n \in Nat
      BY <1>2
    <3>2. conns[t] = n => s <= t
      BY <1>4
    <3> QED
      BY <3>1, <3>2
  <2> QED
    BY <2>1
<1> DEFINE P(x) == x \in H /\ \A t \in H : conns[x] < conns[t] \/ (conns[x] = conns[t] /\ x <= t)
<1>6. P(LeastConnections(H, conns))
  BY <1>5, Zenon DEF LeastConnections
<1> QED
  BY <1>6

-----------------------------------------------------------------------------
(* Weighted round robin                                                    *)

\* The list in which every server stands as often as its weight says.
Weighted(H, weight) == UNION {{s} \X (1 .. weight[s]) : s \in H}

\* The server at a position of that list, counted from 0.
WeightedNth(H, weight, i) ==
  LET before(w) == {v \in Weighted(H, weight) : v[1] < w[1] \/ (v[1] = w[1] /\ v[2] < w[2])}
  IN  CHOOSE w \in Weighted(H, weight) : Cardinality(before(w)) = i

\* The members of the list.
LEMMA WeightedMember ==
  ASSUME NEW H, NEW weight, NEW x
  PROVE  x \in Weighted(H, weight) <=> \E s \in H : \E i \in 1 .. weight[s] : x = <<s, i>>
<1>1. ASSUME NEW s PROVE x \in {s} \X (1 .. weight[s]) <=> \E i \in 1 .. weight[s] : x = <<s, i>>
  OBVIOUS
<1> QED
  BY <1>1 DEF Weighted

\* Each of them is a server with a number up to its weight.
LEMMA WeightedEntry ==
  ASSUME NEW H, NEW weight, NEW x \in Weighted(H, weight)
  PROVE  x[1] \in H /\ x[2] \in 1 .. weight[x[1]] /\ x = <<x[1], x[2]>>
<1>1. PICK s \in H : \E i \in 1 .. weight[s] : x = <<s, i>>
  BY WeightedMember
<1>2. PICK i \in 1 .. weight[s] : x = <<s, i>>
  BY <1>1
<1> QED
  BY <1>2

\* The list is finite.
LEMMA WeightedFinite ==
  ASSUME NEW H, IsFiniteSet(H), NEW weight, \A s \in H : weight[s] \in Nat
  PROVE  IsFiniteSet(Weighted(H, weight))
<1> DEFINE F == {{s} \X (1 .. weight[s]) : s \in H}
           f == [s \in H |-> {s} \X (1 .. weight[s])]
<1>1. f \in Surjection(H, F)
  <2>1. f \in [H -> F]
    OBVIOUS
  <2>2. \A T \in F : \E s \in H : f[s] = T
    OBVIOUS
  <2> HIDE DEF f, F
  <2> QED
    BY <2>1, <2>2 DEF Surjection
<1>2. \A T \in F : IsFiniteSet(T)
  <2>1. ASSUME NEW s \in H PROVE IsFiniteSet({s} \X (1 .. weight[s]))
    <3> DEFINE n == weight[s]
    <3>1. n \in Int
      OBVIOUS
    <3> HIDE DEF n
    <3>2. IsFiniteSet({s})
      BY FS_Singleton
    <3>3. IsFiniteSet(1 .. n)
      BY <3>1, FS_Interval
    <3>4. IsFiniteSet({s} \X (1 .. n))
      BY <3>2, <3>3, FS_Product
    <3> QED
      BY <3>4 DEF n
  <2> QED
    BY <2>1
<1> HIDE DEF f
<1>3. IsFiniteSet(F)
  BY <1>1, FS_Surjection
<1>4. Weighted(H, weight) = UNION F
  BY Zenon DEF Weighted
<1> HIDE DEF F
<1> QED
  BY <1>2, <1>3, <1>4, FS_UNION

\* Every position of the list holds an entry, every entry holds one position.
LEMMA WeightedNthIs ==
  ASSUME NEW H \in SUBSET Nat, IsFiniteSet(H), NEW weight, \A s \in H : weight[s] \in Nat
  PROVE  LET L == Weighted(H, weight)
             P == 0 .. Cardinality(L) - 1
         IN  /\ \A i \in P : WeightedNth(H, weight, i) \in L
             /\ \A i, j \in P : WeightedNth(H, weight, i) = WeightedNth(H, weight, j) => i = j
             /\ \A w \in L : \E i \in P : WeightedNth(H, weight, i) = w
<1> DEFINE L == Weighted(H, weight)
           size == Cardinality(L)
           Less(v, w) == v[1] < w[1] \/ (v[1] = w[1] /\ v[2] < w[2])
           R == {p \in L \X L : Less(p[1], p[2])}
<1>1. IsFiniteSet(L)
  BY WeightedFinite
<1>2. \A w \in L : w[1] \in H /\ w[1] \in Nat /\ w[2] \in Nat /\ w = <<w[1], w[2]>>
  <2>1. ASSUME NEW w \in L
        PROVE  w[1] \in H /\ w[1] \in Nat /\ w[2] \in Nat /\ w = <<w[1], w[2]>>
    <3>1. w[1] \in H /\ w[2] \in 1 .. weight[w[1]] /\ w = <<w[1], w[2]>>
      BY WeightedEntry
    <3>2. weight[w[1]] \in Nat /\ w[1] \in Nat
      BY <3>1
    <3> QED
      BY <3>1, <3>2
  <2> QED
    BY <2>1
<1> HIDE DEF L
<1>3. \A v, w \in L : <<v, w>> \in R <=> Less(v, w)
  OBVIOUS
<1>4. Orders(R, L)
  <2> HIDE DEF R
  <2>1. \A v \in L : ~Less(v, v)
    BY <1>2
  <2>2. \A v, w \in L : v # w => Less(v, w) \/ Less(w, v)
    BY <1>2
  <2>3. \A u, v, w \in L : Less(u, v) /\ Less(v, w) => Less(u, w)
    BY <1>2
  <2> HIDE DEF Less
  <2> QED
    BY <1>3, <2>1, <2>2, <2>3 DEF Orders
<1>5. ASSUME NEW w \in L PROVE Rank(R, L, w) = Cardinality({v \in L : Less(v, w)})
  <2>1. {v \in L : Less(v, w)} = {v \in L : <<v, w>> \in R}
    <3> HIDE DEF Less, R
    <3> QED
      BY <1>3
  <2> QED
    BY <2>1, Zenon DEF Rank
<1>6. /\ \A w \in L : Rank(R, L, w) \in 0 .. size - 1
      /\ \A v, w \in L : Rank(R, L, v) = Rank(R, L, w) => v = w
      /\ \A i \in 0 .. size - 1 : \E w \in L : Rank(R, L, w) = i
  <2> HIDE DEF R
  <2>1. Ranked(R, L)
    BY <1>1, <1>4, Ranking
  <2> QED
    BY <2>1 DEF Ranked
<1> DEFINE Pos(i) == WeightedNth(H, weight, i)
<1>7. ASSUME NEW i \in 0 .. size - 1
      PROVE  Pos(i) \in L /\ Rank(R, L, Pos(i)) = i
  <2>1. \E w \in L : Cardinality({v \in L : Less(v, w)}) = i
    <3>1. PICK w \in L : Rank(R, L, w) = i
      BY <1>6
    <3>2. Cardinality({v \in L : Less(v, w)}) = i
      BY <1>5, <3>1, Zenon
    <3> HIDE DEF Less
    <3> QED
      BY <3>2
  <2>2. Pos(i) = CHOOSE w \in L : Cardinality({v \in L : Less(v, w)}) = i
    BY Zenon DEF WeightedNth, L
  <2> HIDE DEF Pos, Less
  <2>3. Pos(i) \in L /\ Cardinality({v \in L : Less(v, Pos(i))}) = i
    BY <2>1, <2>2, Zenon
  <2> QED
    BY <1>5, <2>3
<1> HIDE DEF R, Pos
<1>8. \A i, j \in 0 .. size - 1 : Pos(i) = Pos(j) => i = j
  BY <1>7
<1>9. \A w \in L : \E i \in 0 .. size - 1 : Pos(i) = w
  <2>1. ASSUME NEW w \in L PROVE Pos(Rank(R, L, w)) = w /\ Rank(R, L, w) \in 0 .. size - 1
    BY <1>6, <1>7
  <2> QED
    BY <2>1
<1> QED
  BY <1>7, <1>8, <1>9 DEF L, Pos

\* Weighted round robin picks a healthy server, that of the position it has come to.
LEMMA WeightedPicks ==
  ASSUME NEW H \in SUBSET Nat, IsFiniteSet(H), H # {}, NEW weight,
         \A s \in H : weight[s] \in Nat \ {0}, NEW picks \in Nat
  PROVE  LET n == Cardinality(Weighted(H, weight))
         IN  /\ n \in Nat \ {0}
             /\ WeightedRoundRobin(H, weight, picks) = WeightedNth(H, weight, picks % n)[1]
             /\ WeightedRoundRobin(H, weight, picks) \in H
<1> DEFINE L == Weighted(H, weight)
           n == Cardinality(L)
           i == picks % n
<1>1. IsFiniteSet(L)
  BY WeightedFinite
<1>2. L # {}
  <2>1. PICK s \in H : TRUE
    OBVIOUS
  <2>2. weight[s] \in Nat \ {0}
    OBVIOUS
  <2>3. 1 \in 1 .. weight[s]
    BY <2>2
  <2>4. <<s, 1>> \in L
    BY <2>3, WeightedMember
  <2> QED
    BY <2>4
<1> HIDE DEF L
<1>3. n \in Nat \ {0}
  BY <1>1, <1>2, FS_CardinalityType, FS_EmptySet
<1>4. i \in 0 .. n - 1
  BY <1>3
<1>5. WeightedRoundRobin(H, weight, picks) = WeightedNth(H, weight, i)[1]
  BY Zenon DEF WeightedRoundRobin, WeightedNth, Weighted, L
<1>6. WeightedNth(H, weight, i) \in L
  <2>1. \A s \in H : weight[s] \in Nat
    OBVIOUS
  <2> QED
    BY <1>4, <2>1, WeightedNthIs DEF L
<1>7. WeightedNth(H, weight, i)[1] \in H
  BY <1>6, WeightedEntry DEF L
<1> QED
  BY <1>3, <1>5, <1>7 DEF L

-----------------------------------------------------------------------------
(* Cycles                                                                  *)

\* Numbers less than n apart have different rests.
LEMMA DifferentRests ==
  ASSUME NEW n \in Nat \ {0}, NEW x \in Nat, NEW y \in Nat, x < y, y < x + n
  PROVE  x % n # y % n
<1> DEFINE q == x \div n
           r == y \div n
           m == x % n
           k == y % n
<1>1. /\ q \in Nat /\ r \in Nat /\ m \in Nat /\ k \in Nat
      /\ x = q * n + m /\ y = r * n + k
  OBVIOUS
<1> HIDE DEF q, r, m, k
<1> SUFFICES ASSUME m = k PROVE FALSE
  BY DEF m, k
<1>2. CASE r <= q
  <2> DEFINE e == q - r
  <2>1. e \in Nat /\ q = r + e
    BY <1>1, <1>2
  <2> HIDE DEF e
  <2>2. q * n = r * n + e * n /\ e * n \in Nat /\ r * n \in Nat
    BY <1>1, <2>1
  <2> QED
    BY <1>1, <2>2
<1>3. CASE q < r
  <2> DEFINE e == r - q - 1
  <2>1. e \in Nat /\ r = q + 1 + e
    BY <1>1, <1>3
  <2> HIDE DEF e
  <2>2. r * n = q * n + n + e * n /\ e * n \in Nat /\ q * n \in Nat
    BY <1>1, <2>1
  <2> QED
    BY <1>1, <2>2
<1> QED
  BY <1>1, <1>2, <1>3

\* The rest of the next number depends on the rest of a number only.
LEMMA NextRest ==
  ASSUME NEW n \in Nat \ {0}, NEW x \in Nat
  PROVE  (x + 1) % n = IF x % n = n - 1 THEN 0 ELSE (x % n) + 1
<1> DEFINE q == x \div n
           r == (x + 1) \div n
           m == x % n
           k == (x + 1) % n
<1>1. /\ q \in Nat /\ r \in Nat /\ m \in 0 .. n - 1 /\ k \in 0 .. n - 1
      /\ x = q * n + m /\ x + 1 = r * n + k
  OBVIOUS
<1> HIDE DEF q, r, m, k
<1>2. r * n + k = q * n + m + 1 /\ q * n \in Nat /\ r * n \in Nat
  BY <1>1
<1>3. CASE r < q
  <2> DEFINE e == q - r - 1
  <2>1. e \in Nat /\ q = r + 1 + e
    BY <1>1, <1>3
  <2> HIDE DEF e
  <2>2. q * n = r * n + n + e * n /\ e * n \in Nat
    BY <1>1, <2>1
  <2> QED
    BY <1>1, <1>2, <2>2
<1>4. CASE r = q
  <2>1. k = m + 1
    BY <1>1, <1>2, <1>4
  <2> QED
    BY <1>1, <2>1 DEF m, k
<1>5. CASE r = q + 1
  <2>1. r * n = q * n + n
    BY <1>1, <1>5
  <2>2. k + n = m + 1
    BY <1>1, <1>2, <2>1
  <2>3. m = n - 1 /\ k = 0
    BY <1>1, <2>2
  <2> QED
    BY <2>3 DEF m, k
<1>6. CASE q + 1 < r
  <2> DEFINE e == r - q - 2
  <2>1. e \in Nat /\ r = q + 2 + e
    BY <1>1, <1>6
  <2> HIDE DEF e
  <2>2. r * n = q * n + 2 * n + e * n /\ e * n \in Nat
    BY <1>1, <2>1
  <2> QED
    BY <1>1, <1>2, <2>2
<1> QED
  BY <1>1, <1>3, <1>4, <1>5, <1>6

\* Numbers of the same rest have successors of the same rest.
LEMMA SameRests ==
  ASSUME NEW n \in Nat \ {0}, NEW x \in Nat, NEW y \in Nat, x % n = y % n
  PROVE  (x + 1) % n = (y + 1) % n
BY NextRest

\* The first l members of p are those of f, a list of length n, in turn from b on.
InTurn(p, f, b, l, n) == \A i \in 1 .. l : p[i] = f[(b + i - 1) % n]

\* Where s stands in p, between two positions.
Places(p, first, last, s) == {i \in first .. last : p[i] = s}

\* Any n picks in turn from a list f of length n are that list, wherever they began:
\* s is picked as often as it stands there.
LEMMA Cyclic ==
  ASSUME NEW n \in Nat \ {0}, NEW b \in Nat, NEW l \in Nat, n <= l, NEW p, NEW f, NEW s,
         InTurn(p, f, b, l, n)
  PROVE  Cardinality(Places(p, l - n + 1, l, s)) = Cardinality(Places(f, 0, n - 1, s))
<1> DEFINE I == l - n + 1 .. l
           J == 0 .. n - 1
           A == {i \in I : p[i] = s}
           B == {j \in J : f[j] = s}
           g == [i \in I |-> (b + i - 1) % n]
           h == [i \in A |-> (b + i - 1) % n]
<1>1. \A i \in I : i \in 1 .. l /\ b + i - 1 \in Nat
  OBVIOUS
<1>2. \A i \in I : (b + i - 1) % n \in J
  <2>1. \A x \in Nat : x % n \in J
    OBVIOUS
  <2> HIDE DEF I, J
  <2> QED
    BY <1>1, <2>1
<1>3. \A i, k \in I : (b + i - 1) % n = (b + k - 1) % n => i = k
  <2>1. ASSUME NEW i \in I, NEW k \in I, i < k PROVE (b + i - 1) % n # (b + k - 1) % n
    <3> DEFINE x == b + i - 1
               y == b + k - 1
    <3>1. x \in Nat /\ y \in Nat /\ x < y /\ y < x + n
      BY <2>1
    <3> HIDE DEF x, y
    <3>2. x % n # y % n
      BY <3>1, DifferentRests
    <3> QED
      BY <3>2 DEF x, y
  <2>2. \A i, k \in I : i < k \/ i = k \/ k < i
    OBVIOUS
  <2> HIDE DEF I
  <2> QED
    BY <2>1, <2>2
<1>4. /\ IsFiniteSet(I) /\ Cardinality(I) = n
      /\ IsFiniteSet(J) /\ Cardinality(J) = n
  <2>1. l - n + 1 \in Int /\ l \in Int /\ l - n + 1 <= l
    OBVIOUS
  <2>2. n - 1 \in Int
    OBVIOUS
  <2>3. IsFiniteSet(I) /\ Cardinality(I) = IF l - n + 1 > l THEN 0 ELSE l - (l - n + 1) + 1
    BY <2>1, FS_Interval
  <2>4. IsFiniteSet(J) /\ Cardinality(J) = IF 0 > n - 1 THEN 0 ELSE n - 1 - 0 + 1
    BY <2>2, FS_Interval
  <2> QED
    BY <2>1, <2>3, <2>4
<1> HIDE DEF I, J
<1>5. g \in Injection(I, J)
  <2>1. g \in [I -> J]
    BY <1>2
  <2>2. \A i, k \in I : g[i] = g[k] => i = k
    BY <1>3
  <2> HIDE DEF g
  <2> QED
    BY <2>1, <2>2 DEF Injection, IsInjective
<1>6. g \in Surjection(I, J)
  BY <1>4, <1>5, FS_Injection
<1>7. \A i \in I : p[i] = f[g[i]]
  BY <1>1 DEF InTurn
<1>8. \A i \in A : h[i] = g[i]
  OBVIOUS
<1>9. h \in [A -> B]
  <2>1. \A i \in A : (b + i - 1) % n \in B
    BY <1>2, <1>7
  <2> HIDE DEF A, B, g
  <2> QED
    BY <2>1
<1> HIDE DEF g, h
<1>10. \A i, k \in A : h[i] = h[k] => i = k
  BY <1>5, <1>8 DEF Injection, IsInjective
<1>11. \A j \in B : \E i \in A : h[i] = j
  <2>1. ASSUME NEW j \in B PROVE \E i \in A : h[i] = j
    <3>1. PICK i \in I : g[i] = j
      BY <1>6 DEF Surjection
    <3>2. i \in A
      BY <1>7, <3>1
    <3> QED
      BY <1>8, <3>1, <3>2
  <2> QED
    BY <2>1
<1>12. IsFiniteSet(A) /\ IsFiniteSet(B)
  BY <1>4, FS_Subset
<1> HIDE DEF A, B
<1>13. h \in Injection(A, B)
  BY <1>9, <1>10 DEF Injection, IsInjective
<1>14. h \in Surjection(A, B)
  BY <1>9, <1>11 DEF Surjection
<1>15. h \in Bijection(A, B)
  BY <1>13, <1>14 DEF Bijection
<1>16. ExistsBijection(A, B)
  BY <1>15, Zenon DEF ExistsBijection
<1>17. Cardinality(A) = Cardinality(B)
  BY <1>12, <1>16, FS_Bijection
<1> QED
  BY <1>17 DEF A, B, I, J, Places

\* A server holds as many positions of the weighted list as its weight says.
LEMMA WeightedShare ==
  ASSUME NEW H \in SUBSET Nat, IsFiniteSet(H), NEW weight, \A t \in H : weight[t] \in Nat,
         NEW s \in H
  PROVE  LET n == Cardinality(Weighted(H, weight))
         IN  Cardinality({j \in 0 .. n - 1 : WeightedNth(H, weight, j)[1] = s}) = weight[s]
<1> DEFINE L == Weighted(H, weight)
           n == Cardinality(L)
           J == 0 .. n - 1
           P(j) == WeightedNth(H, weight, j)
           A == {j \in J : P(j)[1] = s}
           B == 1 .. weight[s]
           h == [j \in A |-> P(j)[2]]
<1>1. /\ \A j \in J : P(j) \in L
      /\ \A i, j \in J : P(i) = P(j) => i = j
      /\ \A w \in L : \E j \in J : P(j) = w
  BY WeightedNthIs
<1>2. \A w \in L : w[1] = s => w[2] \in B /\ w = <<s, w[2]>>
  BY WeightedEntry
<1>3. ASSUME NEW i \in B PROVE <<s, i>> \in L
  <2>1. \E t \in H : \E k \in 1 .. weight[t] : <<s, i>> = <<t, k>>
    OBVIOUS
  <2> QED
    BY <2>1, WeightedMember, Zenon
<1>4. weight[s] \in Nat
  OBVIOUS
<1>5. IsFiniteSet(B) /\ Cardinality(B) = weight[s]
  <2> DEFINE m == weight[s]
  <2>1. m \in Nat
    BY <1>4
  <2> HIDE DEF m
  <2>2. IsFiniteSet(1 .. m) /\ Cardinality(1 .. m) = m
    BY <2>1, FS_Interval
  <2> QED
    BY <2>2 DEF m
<1> HIDE DEF L, J, P, B
<1>6. h \in [A -> B]
  BY <1>1, <1>2
<1>7. \A j \in A : P(j) = <<s, h[j]>>
  BY <1>1, <1>2
<1>8. \A i, j \in A : h[i] = h[j] => i = j
  BY <1>1, <1>7
<1>9. \A i \in B : \E j \in A : h[j] = i
  <2>1. ASSUME NEW i \in B PROVE \E j \in A : h[j] = i
    <3>1. PICK j \in J : P(j) = <<s, i>>
      BY <1>1, <1>3
    <3>2. j \in A /\ h[j] = i
      BY <3>1
    <3> QED
      BY <3>2
  <2> QED
    BY <2>1
<1> HIDE DEF A, h
<1>10. h \in Injection(A, B)
  BY <1>6, <1>8 DEF Injection, IsInjective
<1>11. h \in Surjection(A, B)
  BY <1>6, <1>9 DEF Surjection
<1>12. IsFiniteSet(A) /\ Cardinality(A) = Cardinality(B)
  <2>1. IsFiniteSet(A)
    BY <1>5, <1>10, FS_Injection
  <2>2. h \in Bijection(A, B)
    BY <1>10, <1>11 DEF Bijection
  <2>3. ExistsBijection(A, B)
    BY <2>2, Zenon DEF ExistsBijection
  <2> QED
    BY <2>1, <2>3, FS_Bijection
<1> QED
  BY <1>5, <1>12 DEF A, J, P, L

\* With all weights 1 the list has one entry for each server.
LEMMA UnitWeights ==
  ASSUME NEW H, IsFiniteSet(H), NEW weight, \A s \in H : weight[s] = 1
  PROVE  Cardinality(Weighted(H, weight)) = Cardinality(H)
<1> DEFINE L == Weighted(H, weight)
           h == [s \in H |-> <<s, 1>>]
<1>1. \A s \in H : <<s, 1>> \in L
  <2>1. ASSUME NEW s \in H PROVE <<s, 1>> \in L
    <3>1. 1 \in 1 .. weight[s]
      OBVIOUS
    <3> QED
      BY <3>1, WeightedMember
  <2> QED
    BY <2>1
<1>2. \A w \in L : w[1] \in H /\ w = <<w[1], 1>>
  <2>1. ASSUME NEW w \in L PROVE w[1] \in H /\ w = <<w[1], 1>>
    <3>1. w[1] \in H /\ w[2] \in 1 .. weight[w[1]] /\ w = <<w[1], w[2]>>
      BY WeightedEntry
    <3>2. w[2] = 1
      BY <3>1
    <3> QED
      BY <3>1, <3>2
  <2> QED
    BY <2>1
<1> HIDE DEF L
<1>3. h \in [H -> L]
  BY <1>1
<1>4. \A s, t \in H : h[s] = h[t] => s = t
  OBVIOUS
<1>5. \A w \in L : \E s \in H : h[s] = w
  BY <1>2
<1> HIDE DEF h
<1>6. h \in Injection(H, L)
  BY <1>3, <1>4 DEF Injection, IsInjective
<1>7. h \in Surjection(H, L)
  BY <1>3, <1>5 DEF Surjection
<1>8. h \in Bijection(H, L)
  BY <1>6, <1>7 DEF Bijection
<1>9. ExistsBijection(H, L)
  BY <1>8, Zenon DEF ExistsBijection
<1>10. Cardinality(L) = Cardinality(H)
  BY <1>9, FS_Bijection
<1> QED
  BY <1>10 DEF L
=============================================================================
