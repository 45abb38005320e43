--------------------------- MODULE RoutingProofs ----------------------------
(***************************************************************************)
(* Every algorithm picks healthy servers only, round robin and weighted    *)
(* round robin give every server its share: for every finite set of        *)
(* servers, all weights and any number of picks, however the pool changes  *)
(* between them.                                                           *)
(***************************************************************************)
EXTENDS Routing, AlgorithmsProofs

-----------------------------------------------------------------------------
(* The invariant                                                           *)

\* Types, with counts that are bounded by the number of picks.
Types ==
  /\ algorithm \in Algorithm
  /\ healthy \in SUBSET Servers
  /\ index \in 0 .. Cardinality(Servers) - 1
  /\ picks \in 0 .. MaxPicks
  /\ waiting \in [Servers -> Nat] /\ conns \in [Servers -> Nat]
  /\ \A s \in Servers : waiting[s] + conns[s] <= picks
  /\ picked \in Seq(healthy) /\ Len(picked) <= picks

\* Since the pool has changed, round robin has gone through the list from where the
\* change has left the index.
RoundInTurn ==
  algorithm = "RoundRobin" /\ healthy # {} =>
    LET n == Cardinality(healthy) IN
    \E b \in 0 .. n - 1 :
      /\ index % n = (b + Len(picked)) % n
      /\ \A i \in 1 .. Len(picked) : picked[i] = Nth(healthy, (b + i - 1) % n)

\* Weighted round robin has gone through the weighted list.
WeightedInTurn ==
  algorithm = "WeightedRoundRobin" =>
    \A i \in 1 .. Len(picked) :
      picked[i] = WeightedRoundRobin(healthy, weight, picks - Len(picked) + i - 1)

RoutingInv == Types /\ RoundInTurn /\ WeightedInTurn

-----------------------------------------------------------------------------
(* Steps                                                                   *)

\* The pool is a finite set of numbers, no larger than the set of servers, and
\* has positive weights.
LEMMA PoolTypes ==
  ASSUME Types
  PROVE  /\ healthy \in SUBSET Nat /\ IsFiniteSet(healthy)
         /\ Cardinality(healthy) \in Nat /\ Cardinality(healthy) <= Cardinality(Servers)
         /\ healthy # {} => Cardinality(healthy) > 0
         /\ Cardinality(Servers) \in Nat \ {0}
         /\ \A s \in healthy : weight[s] \in Nat \ {0}
         /\ \A s \in healthy : conns[s] \in Nat
         /\ picks \in Nat
<1>1. healthy \in SUBSET Servers /\ IsFiniteSet(Servers)
  BY RoutingAssumption DEF Types
<1>2. IsFiniteSet(healthy) /\ Cardinality(healthy) <= Cardinality(Servers)
  BY <1>1, FS_Subset
<1>3. Cardinality(healthy) \in Nat /\ (healthy # {} => Cardinality(healthy) # 0)
  BY <1>2, FS_CardinalityType, FS_EmptySet
<1>4. Cardinality(Servers) \in Nat /\ Cardinality(Servers) # 0
  BY <1>1, RoutingAssumption, FS_CardinalityType, FS_EmptySet
<1> QED
  BY <1>1, <1>2, <1>3, <1>4, RoutingAssumption DEF Types

\* The choice of each algorithm is a healthy server.
LEMMA ChoiceHealthy ==
  ASSUME Types, healthy # {}
  PROVE  /\ Choice \in healthy
         /\ algorithm = "RoundRobin" => Choice = Nth(healthy, index % Cardinality(healthy))
         /\ algorithm = "LeastConnections" => Choice = LeastConnections(healthy, conns)
         /\ algorithm = "WeightedRoundRobin" => Choice = WeightedRoundRobin(healthy, weight, picks)
<1> DEFINE rr == RoundRobin(healthy, index).server
           lc == LeastConnections(healthy, conns)
           wr == WeightedRoundRobin(healthy, weight, picks)
<1>1. Choice = CASE algorithm = "RoundRobin"         -> rr
                 [] algorithm = "LeastConnections"   -> lc
                 [] algorithm = "WeightedRoundRobin" -> wr
  BY Zenon DEF Choice
<1>2. rr \in healthy /\ rr = Nth(healthy, index % Cardinality(healthy))
  <2>1. index \in Nat
    BY PoolTypes DEF Types
  <2>2. rr = Nth(healthy, index % Cardinality(healthy))
    BY DEF RoundRobin
  <2> QED
    BY <2>1, <2>2, PoolTypes, RoundRobinPicks
<1>3. lc \in healthy
  <2>1. \A s \in healthy : conns[s] \in Nat
    BY PoolTypes
  <2> QED
    BY <2>1, PoolTypes, LeastPicks
<1>4. wr \in healthy
  BY PoolTypes, WeightedPicks
<1> HIDE DEF rr, lc, wr
<1>5. algorithm \in {"RoundRobin", "LeastConnections", "WeightedRoundRobin"}
  BY DEF Types, Algorithm
<1> QED
  BY <1>1, <1>2, <1>3, <1>4, <1>5 DEF rr, lc, wr

\* A pick keeps the types.
LEMMA PickTypes ==
  ASSUME Types, Pick
  PROVE  Types'
<1>1. /\ healthy # {} /\ picks < MaxPicks /\ picks' = picks + 1
      /\ picked' = Append(picked, Choice) /\ algorithm' = algorithm /\ healthy' = healthy
      /\ waiting' = [waiting EXCEPT ![Choice] = @ + 1] /\ conns' = conns
      /\ index' = IF algorithm = "RoundRobin" THEN RoundRobin(healthy, index).index ELSE index
  BY Zenon DEF Pick
<1>2. Choice \in healthy /\ Choice \in Servers
  BY <1>1, ChoiceHealthy DEF Types
<1>3. index' \in 0 .. Cardinality(Servers) - 1
  <2>1. index \in Nat
    BY PoolTypes DEF Types
  <2>2. RoundRobin(healthy, index).index \in 0 .. Cardinality(healthy) - 1
    BY <1>1, <2>1, PoolTypes, RoundRobinPicks
  <2> QED
    BY <1>1, <2>2, PoolTypes DEF Types
<1>4. picks' \in 0 .. MaxPicks /\ picks \in Nat
  BY <1>1, PoolTypes, RoutingAssumption
<1>5. /\ waiting' \in [Servers -> Nat]
      /\ \A s \in Servers : waiting'[s] + conns'[s] <= picks'
  <2>1. /\ waiting \in [Servers -> Nat] /\ conns \in [Servers -> Nat]
        /\ \A s \in Servers : waiting[s] + conns[s] <= picks
    BY DEF Types
  <2>2. \A s \in Servers : waiting'[s] = IF s = Choice THEN waiting[s] + 1 ELSE waiting[s]
    BY <1>1, <1>2, <2>1
  <2>3. \A s \in Servers : waiting'[s] \in Nat /\ waiting'[s] + conns'[s] <= picks'
    BY <1>1, <1>4, <2>1, <2>2
  <2>4. waiting' = [s \in Servers |-> waiting'[s]]
    BY <1>1, <2>1
  <2> QED
    BY <2>3, <2>4
<1>6. picked' \in Seq(healthy) /\ Len(picked') = Len(picked) + 1 /\ Len(picked) \in Nat
  BY <1>1, <1>2 DEF Types
<1>7. Len(picked') <= picks'
  BY <1>1, <1>4, <1>6 DEF Types
<1> QED
  BY <1>1, <1>3, <1>4, <1>5, <1>6, <1>7 DEF Types

\* What has been picked, after a pick.
LEMMA PickedAfter ==
  ASSUME Types, Pick
  PROVE  /\ Len(picked) \in Nat /\ Len(picked') = Len(picked) + 1
         /\ \A i \in 1 .. Len(picked') :
              picked'[i] = IF i = Len(picked') THEN Choice ELSE picked[i]
<1>1. picked' = Append(picked, Choice) /\ healthy # {}
  BY DEF Pick
<1>2. Choice \in healthy /\ picked \in Seq(healthy)
  BY <1>1, ChoiceHealthy DEF Types
<1> QED
  BY <1>1, <1>2

\* Round robin picks the next one of its list.
LEMMA PickRound ==
  ASSUME RoutingInv, Pick
  PROVE  RoundInTurn'
<1> DEFINE n == Cardinality(healthy)
           l == Len(picked)
<1>1. Types /\ healthy # {} /\ healthy' = healthy /\ algorithm' = algorithm
  BY DEF RoutingInv, Pick
<1> SUFFICES ASSUME algorithm = "RoundRobin"
             PROVE  \E b \in 0 .. n - 1 :
                      /\ index' % n = (b + Len(picked')) % n
                      /\ \A i \in 1 .. Len(picked') : picked'[i] = Nth(healthy, (b + i - 1) % n)
  BY <1>1 DEF RoundInTurn
<1>2. PICK b \in 0 .. n - 1 :
        /\ index % n = (b + l) % n
        /\ \A i \in 1 .. l : picked[i] = Nth(healthy, (b + i - 1) % n)
  BY <1>1 DEF RoutingInv, RoundInTurn
<1>3. /\ l \in Nat /\ Len(picked') = l + 1
      /\ \A i \in 1 .. l + 1 : picked'[i] = IF i = l + 1 THEN Choice ELSE picked[i]
  BY <1>1, PickedAfter
<1>4. n \in Nat \ {0} /\ index \in Nat
  BY <1>1, PoolTypes DEF Types
<1>5. index' = (index + 1) % n
  <2>1. index' = RoundRobin(healthy, index).index
    BY Zenon DEF Pick
  <2> QED
    BY <2>1 DEF RoundRobin
<1>6. Choice = Nth(healthy, index % n)
  BY <1>1, ChoiceHealthy
<1> HIDE DEF n, l
<1>7. index' % n = (b + (l + 1)) % n
  <2>1. (index + 1) % n = (b + l + 1) % n
    <3> DEFINE x == b + l
    <3>1. x \in Nat /\ index % n = x % n
      BY <1>2, <1>3, <1>4
    <3> HIDE DEF x
    <3>2. (index + 1) % n = (x + 1) % n
      BY <1>4, <3>1, SameRests
    <3> QED
      BY <3>2 DEF x
  <2>2. (index + 1) % n \in 0 .. n - 1
    BY <1>4
  <2>3. \A x \in 0 .. n - 1 : x % n = x
    BY <1>4
  <2>4. b + (l + 1) = b + l + 1
    BY <1>2, <1>3, <1>4
  <2> QED
    BY <1>5, <2>1, <2>2, <2>3, <2>4
<1>8. ASSUME NEW i \in 1 .. l + 1
      PROVE  picked'[i] = Nth(healthy, (b + i - 1) % n)
  <2>1. CASE i = l + 1
    <3>1. b + i - 1 = b + l
      BY <1>2, <1>3, <1>4, <2>1
    <3> QED
      BY <1>2, <1>3, <1>6, <2>1, <3>1
  <2>2. CASE i # l + 1
    <3>1. i \in 1 .. l
      BY <1>3, <2>2
    <3> QED
      BY <1>2, <1>3, <2>2, <3>1
  <2> QED
    BY <2>1, <2>2
<1> QED
  BY <1>2, <1>3, <1>7, <1>8

\* So does weighted round robin.
LEMMA PickWeighted ==
  ASSUME RoutingInv, Pick
  PROVE  WeightedInTurn'
<1> DEFINE l == Len(picked)
<1>1. /\ Types /\ healthy # {} /\ healthy' = healthy /\ algorithm' = algorithm /\ picks' = picks + 1
  BY DEF RoutingInv, Pick
<1>2. /\ l \in Nat /\ Len(picked') = l + 1
      /\ \A k \in 1 .. l + 1 : picked'[k] = IF k = l + 1 THEN Choice ELSE picked[k]
  BY <1>1, PickedAfter
<1>3. algorithm = "WeightedRoundRobin" =>
        \A k \in 1 .. l : picked[k] = WeightedRoundRobin(healthy, weight, picks - l + k - 1)
  BY DEF RoutingInv, WeightedInTurn
<1>4. picks \in Nat
  BY <1>1, PoolTypes
<1>5. algorithm = "WeightedRoundRobin" => Choice = WeightedRoundRobin(healthy, weight, picks)
  BY <1>1, ChoiceHealthy
<1> HIDE DEF l
<1>6. ASSUME algorithm = "WeightedRoundRobin", NEW i \in 1 .. l + 1
      PROVE  picked'[i] = WeightedRoundRobin(healthy, weight, picks + 1 - (l + 1) + i - 1)
  <2>1. picks + 1 - (l + 1) + i - 1 = picks - l + i - 1
    BY <1>2, <1>4
  <2>2. ASSUME i = l + 1
        PROVE  picked'[i] = WeightedRoundRobin(healthy, weight, picks - l + i - 1)
    <3>1. picks - l + i - 1 = picks
      BY <1>2, <1>4, <2>2
    <3> QED
      BY <1>2, <1>5, <1>6, <2>2, <3>1
  <2>3. ASSUME i # l + 1
        PROVE  picked'[i] = WeightedRoundRobin(healthy, weight, picks - l + i - 1)
    <3>1. i \in 1 .. l
      BY <1>2, <2>3
    <3> QED
      BY <1>2, <1>3, <1>6, <2>3, <3>1
  <2> QED
    BY <2>1, <2>2, <2>3
<1>7. ASSUME algorithm' = "WeightedRoundRobin", NEW i \in 1 .. Len(picked')
      PROVE  picked'[i] = WeightedRoundRobin(healthy', weight, picks' - Len(picked') + i - 1)
  <2>1. i \in 1 .. l + 1 /\ algorithm = "WeightedRoundRobin"
    BY <1>1, <1>2, <1>7
  <2>2. picked'[i] = WeightedRoundRobin(healthy, weight, picks + 1 - (l + 1) + i - 1)
    BY <1>6, <2>1
  <2>3. picks' - Len(picked') + i - 1 = picks + 1 - (l + 1) + i - 1
    BY <1>1, <1>2, <1>4, <2>1
  <2>4. healthy' = healthy
    BY <1>1
  <2> QED
    BY <2>2, <2>3, <2>4, Zenon
<1> QED
  BY <1>7 DEF WeightedInTurn

\* A request that ends changes nothing of this, a change of the pool begins anew.
LEMMA NextRouting ==
  ASSUME RoutingInv, [Next]_vars
  PROVE  RoutingInv'
<1>1. Types
  BY DEF RoutingInv
<1>2. CASE Pick
  BY <1>1, <1>2, PickTypes, PickRound, PickWeighted DEF RoutingInv
<1>3. ASSUME NEW s \in Servers, Begin(s) \/ PinFailed(s) \/ Done(s) PROVE RoutingInv'
  <2>1. UNCHANGED <<algorithm, healthy, index, picks, picked>>
    BY <1>3 DEF Begin, PinFailed, Done
  <2>2. /\ waiting \in [Servers -> Nat] /\ conns \in [Servers -> Nat]
        /\ picks \in Nat /\ \A t \in Servers : waiting[t] + conns[t] <= picks
    BY <1>1, PoolTypes DEF Types
  <2>3. /\ waiting' \in [Servers -> Nat] /\ conns' \in [Servers -> Nat]
        /\ \A t \in Servers : waiting'[t] + conns'[t] <= picks
    <3>1. CASE Begin(s)
      BY <2>2, <3>1 DEF Begin
    <3>2. CASE PinFailed(s)
      BY <2>2, <3>2 DEF PinFailed
    <3>3. CASE Done(s)
      BY <2>2, <3>3 DEF Done
    <3> QED
      BY <1>3, <3>1, <3>2, <3>3
  <2>4. Types'
    BY <1>1, <2>1, <2>3 DEF Types
  <2>5. RoundInTurn' /\ WeightedInTurn'
    BY <2>1 DEF RoutingInv, RoundInTurn, WeightedInTurn
  <2> QED
    BY <2>4, <2>5 DEF RoutingInv
<1>4. ASSUME NEW s \in Servers, Change(s) PROVE RoutingInv'
  <2>1. /\ healthy' \in SUBSET Servers /\ picked' = <<>>
        /\ UNCHANGED <<algorithm, index, picks, waiting, conns>>
    BY <1>1, <1>4 DEF Change, Types
  <2>2. picked' \in Seq(healthy') /\ Len(picked') = 0
    BY <2>1
  <2>3. Types'
    BY <1>1, <2>1, <2>2, PoolTypes DEF Types
  <2>4. RoundInTurn'
    <3> DEFINE n == Cardinality(healthy')
    <3> SUFFICES ASSUME healthy' # {}
                 PROVE  \E b \in 0 .. n - 1 :
                          /\ index' % n = (b + Len(picked')) % n
                          /\ \A i \in 1 .. Len(picked') : picked'[i] = Nth(healthy', (b + i - 1) % n)
      BY DEF RoundInTurn
    <3>1. n \in Nat \ {0}
      <4>1. IsFiniteSet(healthy')
        BY <2>1, RoutingAssumption, FS_Subset
      <4> QED
        BY <4>1, FS_CardinalityType, FS_EmptySet
    <3>2. index \in Nat
      BY <1>1, PoolTypes DEF Types
    <3> HIDE DEF n
    <3>3. index % n \in 0 .. n - 1 /\ (index % n) % n = index % n
      BY <3>1, <3>2
    <3>4. (index % n) + 0 = index % n
      BY <3>3, <3>1
    <3> QED
      BY <2>1, <2>2, <3>3, <3>4
  <2>5. WeightedInTurn'
    BY <2>2 DEF WeightedInTurn
  <2> QED
    BY <2>3, <2>4, <2>5 DEF RoutingInv
<1>5. CASE UNCHANGED vars
  BY <1>5 DEF vars, RoutingInv, Types, RoundInTurn, WeightedInTurn
<1> QED
  BY <1>2, <1>3, <1>4, <1>5 DEF Next

\* Nothing has been picked yet.
LEMMA InitRouting == Init => RoutingInv
<1> SUFFICES ASSUME Init PROVE RoutingInv
  OBVIOUS
<1>1. /\ algorithm \in Algorithm /\ healthy = Servers /\ index = 0 /\ picks = 0
      /\ waiting = [s \in Servers |-> 0] /\ conns = [s \in Servers |-> 0] /\ picked = <<>>
  BY DEF Init
<1>2. IsFiniteSet(Servers) /\ Cardinality(Servers) \in Nat \ {0}
  BY RoutingAssumption, FS_CardinalityType, FS_EmptySet
<1>3. picked \in Seq(healthy) /\ Len(picked) = 0
  BY <1>1
<1>4. Types
  BY <1>1, <1>2, <1>3, RoutingAssumption DEF Types
<1>5. RoundInTurn
  <2> DEFINE n == Cardinality(healthy)
  <2>1. 0 \in 0 .. n - 1 /\ index % n = (0 + Len(picked)) % n
    BY <1>1, <1>2, <1>3
  <2> QED
    BY <1>3, <2>1 DEF RoundInTurn
<1>6. WeightedInTurn
  BY <1>3 DEF WeightedInTurn
<1> QED
  BY <1>4, <1>5, <1>6 DEF RoutingInv

-----------------------------------------------------------------------------
(* Fair shares                                                             *)

\* A cycle is as long as the list that the algorithm goes through.
LEMMA CycleIs ==
  ASSUME Types
  PROVE  /\ algorithm = "RoundRobin" => Cycle = Cardinality(healthy)
         /\ algorithm = "WeightedRoundRobin" => Cycle = Cardinality(Weighted(healthy, weight))
<1> DEFINE one == [s \in healthy |-> 1]
<1>1. ASSUME algorithm = "RoundRobin" PROVE Cycle = Cardinality(healthy)
  <2>1. \A s \in healthy : Share(s) = one[s]
    BY <1>1 DEF Share
  <2>2. \A s \in healthy : {s} \X (1 .. Share(s)) = {s} \X (1 .. one[s])
    BY <2>1
  <2>3. {{s} \X (1 .. Share(s)) : s \in healthy} = {{s} \X (1 .. one[s]) : s \in healthy}
    BY <2>2, Zenon
  <2>4. Cycle = Cardinality(Weighted(healthy, one))
    BY <2>3, Zenon DEF Cycle, Weighted
  <2>5. IsFiniteSet(healthy) /\ \A s \in healthy : one[s] = 1
    BY PoolTypes
  <2> QED
    BY <2>4, <2>5, UnitWeights
<1>2. ASSUME algorithm = "WeightedRoundRobin" PROVE Cycle = Cardinality(Weighted(healthy, weight))
  <2>1. \A s \in healthy : Share(s) = weight[s]
    BY <1>2 DEF Share
  <2>2. \A s \in healthy : {s} \X (1 .. Share(s)) = {s} \X (1 .. weight[s])
    BY <2>1
  <2>3. {{s} \X (1 .. Share(s)) : s \in healthy} = {{s} \X (1 .. weight[s]) : s \in healthy}
    BY <2>2, Zenon
  <2> QED
    BY <2>3, Zenon DEF Cycle, Weighted
<1> QED
  BY <1>1, <1>2

\* A server stands once in the list of round robin.
LEMMA RoundShare ==
  ASSUME NEW H \in SUBSET Nat, IsFiniteSet(H), NEW s \in H
  PROVE  Cardinality({j \in 0 .. Cardinality(H) - 1 : Nth(H, j) = s}) = 1
<1> DEFINE J == 0 .. Cardinality(H) - 1
<1>1. PICK i \in J : \A j \in J : Nth(H, j) = s <=> j = i
  BY NthIs
<1>2. {j \in J : Nth(H, j) = s} = {i}
  BY <1>1
<1>3. Cardinality({i}) = 1
  BY FS_Singleton
<1> QED
  BY <1>2, <1>3

\* Round robin gives every server one pick in a cycle.
LEMMA RoundFair ==
  ASSUME RoutingInv, algorithm = "RoundRobin", Len(picked) >= Cycle, NEW s \in healthy
  PROVE  Cardinality({i \in Len(picked) - Cycle + 1 .. Len(picked) : picked[i] = s}) = Share(s)
<1> DEFINE n == Cardinality(healthy)
           l == Len(picked)
           f == [j \in 0 .. n - 1 |-> Nth(healthy, j)]
<1>1. Types /\ Share(s) = 1
  BY DEF RoutingInv, Share
<1>2. Cycle = n /\ n \in Nat \ {0} /\ l \in Nat /\ n <= l
  <2>1. Cycle = n
    BY <1>1, CycleIs
  <2>2. n \in Nat \ {0}
    BY <1>1, PoolTypes
  <2>3. l \in Nat
    BY <1>1 DEF Types
  <2> QED
    BY <2>1, <2>2, <2>3
<1>3. PICK b \in 0 .. n - 1 : \A i \in 1 .. l : picked[i] = Nth(healthy, (b + i - 1) % n)
  BY DEF RoutingInv, RoundInTurn
<1> HIDE DEF n, l
<1>4. InTurn(picked, f, b, l, n)
  <2>1. \A i \in 1 .. l : (b + i - 1) % n \in 0 .. n - 1
    BY <1>2
  <2> QED
    BY <1>3, <2>1 DEF InTurn
<1> HIDE DEF f
<1>5. Cardinality(Places(picked, l - n + 1, l, s)) = Cardinality(Places(f, 0, n - 1, s))
  <2>1. b \in Nat
    BY <1>2
  <2> QED
    BY <1>2, <1>4, <2>1, Cyclic
<1>6. Cardinality(Places(f, 0, n - 1, s)) = 1
  <2>1. Places(f, 0, n - 1, s) = {j \in 0 .. n - 1 : Nth(healthy, j) = s}
    BY DEF f, Places
  <2>2. healthy \in SUBSET Nat /\ IsFiniteSet(healthy)
    BY <1>1, PoolTypes
  <2> QED
    BY <2>1, <2>2, RoundShare DEF n
<1> QED
  BY <1>1, <1>2, <1>5, <1>6 DEF l, Places

\* Weighted round robin gives every server as many as its weight says.
LEMMA WeightedFair ==
  ASSUME RoutingInv, algorithm = "WeightedRoundRobin", Len(picked) >= Cycle, NEW s \in healthy
  PROVE  Cardinality({i \in Len(picked) - Cycle + 1 .. Len(picked) : picked[i] = s}) = Share(s)
<1> DEFINE n == Cardinality(Weighted(healthy, weight))
           l == Len(picked)
           b == picks - l
           f == [j \in 0 .. n - 1 |-> WeightedNth(healthy, weight, j)[1]]
<1>1. Types /\ Share(s) = weight[s]
  BY DEF RoutingInv, Share
<1>2. /\ healthy \in SUBSET Nat /\ IsFiniteSet(healthy) /\ healthy # {}
      /\ \A t \in healthy : weight[t] \in Nat \ {0}
  BY <1>1, PoolTypes
<1>3. \A k \in Nat : /\ n \in Nat \ {0}
                     /\ WeightedRoundRobin(healthy, weight, k) = WeightedNth(healthy, weight, k % n)[1]
  BY <1>2, WeightedPicks
<1>4. Cycle = n /\ n \in Nat \ {0} /\ l \in Nat /\ n <= l /\ b \in Nat
  BY <1>1, <1>3, CycleIs, PoolTypes DEF Types
<1>5. \A i \in 1 .. l : picked[i] = WeightedRoundRobin(healthy, weight, b + i - 1)
  BY DEF RoutingInv, WeightedInTurn
<1> HIDE DEF n, l, b
<1>6. InTurn(picked, f, b, l, n)
  <2>1. \A i \in 1 .. l : b + i - 1 \in Nat /\ (b + i - 1) % n \in 0 .. n - 1
    BY <1>4
  <2> QED
    BY <1>3, <1>5, <2>1 DEF InTurn
<1> HIDE DEF f
<1>7. Cardinality(Places(picked, l - n + 1, l, s)) = Cardinality(Places(f, 0, n - 1, s))
  BY <1>4, <1>6, Cyclic
<1>8. Cardinality(Places(f, 0, n - 1, s)) = weight[s]
  <2>1. Places(f, 0, n - 1, s) = {j \in 0 .. n - 1 : WeightedNth(healthy, weight, j)[1] = s}
    BY DEF f, Places
  <2>2. \A t \in healthy : weight[t] \in Nat
    BY <1>2
  <2> QED
    BY <1>2, <2>1, <2>2, WeightedShare DEF n
<1> QED
  BY <1>1, <1>4, <1>7, <1>8 DEF l, Places

\* Both are fair.
LEMMA Fair ==
  ASSUME RoutingInv
  PROVE  FairShares
<1>1. algorithm \in {"RoundRobin", "LeastConnections", "WeightedRoundRobin"}
  BY DEF RoutingInv, Types, Algorithm
<1> SUFFICES ASSUME algorithm # "LeastConnections", Len(picked) >= Cycle, NEW s \in healthy
             PROVE  Share(s) =
                      Cardinality({i \in Len(picked) - Cycle + 1 .. Len(picked) : picked[i] = s})
  BY DEF FairShares
<1> QED
  BY <1>1, RoundFair, WeightedFair

-----------------------------------------------------------------------------
(* The theorems                                                            *)

\* The invariant holds.
LEMMA RoutingInvariant == Spec => []RoutingInv
<1>1. Init => RoutingInv
  BY InitRouting
<1>2. RoutingInv /\ [Next]_vars => RoutingInv'
  BY NextRouting
<1> QED
  BY <1>1, <1>2, PTL DEF Spec

\* The state of the routing has its types: the index stays in the list, no server
\* has a negative number of connections, and only healthy servers are picked.
THEOREM RoutingTypes == Spec => []TypeOK
<1>1. RoutingInv => TypeOK
  <2> SUFFICES ASSUME RoutingInv PROVE TypeOK
    OBVIOUS
  <2>1. Types
    BY DEF RoutingInv
  <2>2. waiting \in [Servers -> 0 .. MaxPicks] /\ conns \in [Servers -> 0 .. MaxPicks]
    <3>1. /\ waiting \in [Servers -> Nat] /\ conns \in [Servers -> Nat]
          /\ picks \in 0 .. MaxPicks /\ MaxPicks \in Nat
          /\ \A s \in Servers : waiting[s] + conns[s] <= picks
      BY <2>1, RoutingAssumption DEF Types
    <3>2. \A s \in Servers : waiting[s] \in 0 .. MaxPicks /\ conns[s] \in 0 .. MaxPicks
      BY <3>1
    <3> QED
      BY <3>1, <3>2
  <2> QED
    BY <2>1, <2>2 DEF Types, TypeOK
<1> QED
  BY <1>1, RoutingInvariant, PTL

\* From wherever a change of the pool has left the index or the counters, the picks of
\* one cycle give every healthy server its share (algorithms.py:5, algorithms.py:30),
\* for every set of servers and all weights.
THEOREM EveryShareFair == Spec => []FairShares
<1>1. RoutingInv => FairShares
  BY Fair
<1> QED
  BY <1>1, RoutingInvariant, PTL
=============================================================================
