-------------------------- MODULE RedisStoreProofs --------------------------
(***************************************************************************)
(* Theorems about RedisStore, for every set of keys, every limit and every *)
(* resolution of the clock: the types and the MAX_KEYS limit; that the     *)
(* store implements the map of ExpiringMap, command by command;            *)
(* that deadlines are kept by the writes that must not move them; and that *)
(* no write evicts what was used last.                                     *)
(***************************************************************************)
EXTENDS RedisStore, FiniteSetTheorems, TLAPS

-----------------------------------------------------------------------------
(* Types: what the helpers of StoreOps return                              *)

\* Deleting keys leaves a well-formed store.
LEMMA DelKeysType ==
  ASSUME NEW d \in DB, NEW K
  PROVE  DelKeys(d, K) \in DB
BY DEF DelKeys, DB

\* So does moving a key to the end of the order.
LEMMA MoveToEndType ==
  ASSUME NEW d \in DB, NEW k \in Keys
  PROVE  MoveToEnd(d, k) \in DB
BY DEF MoveToEnd, DB, Stored

\* A lookup leaves a well-formed store.
LEMMA GetLiveType ==
  ASSUME NEW d \in DB, NEW t, NEW k \in Keys
  PROVE  GetLive(d, t, k) \in DB
BY DelKeysType, MoveToEndType DEF GetLive

\* So does a write, with the eviction it may cause.
LEMMA PutType ==
  ASSUME NEW d \in DB, NEW k \in Keys, NEW e \in Entry
  PROVE  Put(d, k, e) \in DB
<1> DEFINE w == Assign(d, k, e)
<1>1. w \in DB
  BY DEF DB, Assign
<1>2. MoveToEnd(w, k) \in DB
  BY <1>1, MoveToEndType
<1>3. EvictIfNeeded(MoveToEnd(w, k)) \in DB
  BY <1>2, DelKeysType DEF EvictIfNeeded
<1> QED
  BY <1>3 DEF Put

\* The entry of a stored key is an Entry.
LEMMA LiveEntry ==
  ASSUME NEW d \in DB, NEW t, NEW k \in Live(d, t)
  PROVE  k \in Keys /\ d.data[k] \in Entry
BY DEF Live, Stored, DB

\* A set of keys has a size.
LEMMA KeysFinite ==
  ASSUME NEW K \in SUBSET Keys
  PROVE  IsFiniteSet(K) /\ Cardinality(K) \in Nat
BY FS_Subset, FS_CardinalityType, StoreAssumption

-----------------------------------------------------------------------------
(* Types: what the methods of Store return                                 *)

\* SET leaves a well-formed store and answers OK.
LEMMA SetType ==
  ASSUME NEW d \in DB, NEW t \in Int, NEW k \in Keys, NEW v \in Value,
         NEW ex \in Int \cup {None}, NEW px \in Int \cup {None}
  PROVE  Set(d, t, k, v, ex, px).db \in DB /\ Set(d, t, k, v, ex, px).res \in Reply
<1>1. ExpiresAt(t, ex, px) \in Deadline
  BY StoreAssumption DEF ExpiresAt, Deadline
<1>2. [value |-> v, expires |-> ExpiresAt(t, ex, px)] \in Entry
  BY <1>1 DEF Entry
<1> QED
  BY <1>2, PutType DEF Set, Reply

\* GET leaves a well-formed store and answers a reply.
LEMMA GetType ==
  ASSUME NEW d \in DB, NEW t \in Int, NEW k \in Keys
  PROVE  Get(d, t, k).db \in DB /\ Get(d, t, k).res \in Reply
BY GetLiveType, LiveEntry DEF Get, Reply, Entry

\* So do INCR and INCRBY, of a text, a number or nothing.
LEMMA IncrByType ==
  ASSUME NEW d \in DB, NEW t \in Int, NEW k \in Keys, NEW amount \in Int
  PROVE  IncrBy(d, t, k, amount).db \in DB /\ IncrBy(d, t, k, amount).res \in Reply
<1> DEFINE old == IF k \in Live(d, t) THEN d.data[k] ELSE [value |-> 0, expires |-> None]
<1>1. old \in Entry
  BY LiveEntry DEF Entry, Value, Deadline
<1>2. GetLive(d, t, k) \in DB
  BY GetLiveType
<1>3. CASE old.value \in Texts
  BY <1>2, <1>3 DEF IncrBy, Reply
<1>4. CASE old.value \notin Texts
  <2>1. old.value + amount \in Int
    BY <1>1, <1>4 DEF Entry, Value
  <2>2. [old EXCEPT !.value = old.value + amount] \in Entry
    BY <1>1, <2>1 DEF Entry, Value
  <2>3. Put(GetLive(d, t, k), k, [old EXCEPT !.value = old.value + amount]) \in DB
    BY <1>2, <2>2, PutType
  <2> QED
    BY <1>4, <2>1, <2>3 DEF IncrBy, Reply, Value
<1> QED
  BY <1>3, <1>4

\* So does DEL, which answers a number.
LEMMA DeleteType ==
  ASSUME NEW d \in DB, NEW K \in SUBSET Keys
  PROVE  Delete(d, K).db \in DB /\ Delete(d, K).res \in Reply
<1>1. Cardinality(K \cap Stored(d)) \in Nat
  BY KeysFinite
<1> QED
  BY <1>1, DelKeysType DEF Delete, Reply, Value

\* So does EXISTS, which looks two keys up in turn.
LEMMA ExistsType ==
  ASSUME NEW d \in DB, NEW t \in Int, NEW j \in Keys, NEW k \in Keys
  PROVE  Exists(d, t, j, k).db \in DB /\ Exists(d, t, j, k).res \in Reply
BY GetLiveType DEF Exists, Reply, Value

\* So does EXPIRE, with and without NX.
LEMMA ExpireType ==
  ASSUME NEW d \in DB, NEW t \in Int, NEW k \in Keys, NEW s \in Int, NEW nx \in BOOLEAN
  PROVE  Expire(d, t, k, s, nx).db \in DB /\ Expire(d, t, k, s, nx).res \in Reply
<1>1. GetLive(d, t, k) \in DB
  BY GetLiveType
<1>2. CASE k \notin Live(d, t) \/ (nx /\ d.data[k].expires # None)
  BY <1>1, <1>2 DEF Expire, Reply, Value
<1>3. CASE ~(k \notin Live(d, t) \/ (nx /\ d.data[k].expires # None))
  <2> DEFINE l == GetLive(d, t, k)
  <2>1. l = MoveToEnd(d, k)
    BY <1>3 DEF GetLive
  <2>2. l.data = d.data
    BY <2>1 DEF MoveToEnd, DB
  <2>3. l.data[k] \in Entry
    BY <1>3, <2>2, LiveEntry
  <2>4. t + s * TicksPerSecond \in Deadline
    BY StoreAssumption DEF Deadline
  <2>5. [d.data[k] EXCEPT !.expires = t + s * TicksPerSecond] \in Entry
    BY <2>2, <2>3, <2>4 DEF Entry
  <2>6. Assign(l, k, [d.data[k] EXCEPT !.expires = t + s * TicksPerSecond]) \in DB
    BY <1>1, <2>5 DEF DB, Assign
  <2> QED
    BY <1>3, <2>6 DEF Expire, Reply, Value
<1> QED
  BY <1>2, <1>3

\* So does TTL, which divides by the resolution of the clock.
LEMMA TtlType ==
  ASSUME NEW d \in DB, NEW t \in Int, NEW k \in Keys
  PROVE  Ttl(d, t, k).db \in DB /\ Ttl(d, t, k).res \in Reply
<1>1. CASE k \in Live(d, t) /\ d.data[k].expires # None
  <2>1. d.data[k].expires \in Int
    BY <1>1, LiveEntry DEF Entry, Deadline
  <2>2. (d.data[k].expires - t) \div TicksPerSecond \in Int
    BY <2>1, StoreAssumption
  <2> QED
    BY <1>1, <2>2, GetLiveType DEF Ttl, Reply, Value
<1>2. CASE ~(k \in Live(d, t) /\ d.data[k].expires # None)
  BY <1>2, GetLiveType DEF Ttl, Reply, Value
<1> QED
  BY <1>1, <1>2

\* So does DBSIZE, which purges what has expired.
LEMMA DbSizeType ==
  ASSUME NEW d \in DB, NEW t \in Int
  PROVE  DbSize(d, t).db \in DB /\ DbSize(d, t).res \in Reply
<1>1. Cardinality(Live(d, t)) \in Nat
  BY KeysFinite DEF Live, Stored
<1> QED
  BY <1>1, DelKeysType DEF DbSize, Reply, Value

\* The empty store is well-formed.
LEMMA EmptyType == EmptyDB \in DB
BY DEF EmptyDB, DB

-----------------------------------------------------------------------------
(* Types: the invariant                                                    *)

\* A command that leaves a well-formed store and a proper reply keeps the
\* types of all the variables.
LEMMA RunType ==
  ASSUME TypeOK, NEW op \in Ops, NEW K \in SUBSET Keys, NEW out,
         out.db \in DB, out.res \in Reply, Run(op, K, out)
  PROVE  TypeOK'
BY DEF TypeOK, Run

\* Every step keeps the types.
LEMMA TypeStep == TypeOK /\ [Next]_vars => TypeOK'
<1> SUFFICES ASSUME TypeOK, [Next]_vars PROVE TypeOK'
  OBVIOUS
<1> USE DEF TypeOK
<1>0. now \in Int
  OBVIOUS
<1>1. ASSUME NEW k \in Keys, NEW v \in InputValues, NEW ex \in Seconds \cup {None},
             NEW px \in Millis \cup {None}, SET(k, v, ex, px)
      PROVE  TypeOK'
  <2>1. v \in Value /\ ex \in Int \cup {None} /\ px \in Int \cup {None}
    BY InputAssumption
  <2>2. Set(db, now, k, v, ex, px).db \in DB /\ Set(db, now, k, v, ex, px).res \in Reply
    BY <1>0, <2>1, SetType
  <2> QED
    BY <1>1, <2>2, RunType DEF SET, Ops
<1>2. ASSUME NEW k \in Keys, GET(k) PROVE TypeOK'
  BY <1>0, <1>2, GetType, RunType DEF GET, Ops
<1>3. ASSUME NEW k \in Keys, NEW amount \in Amounts, INCRBY(k, amount) PROVE TypeOK'
  <2>1. amount \in Int
    BY InputAssumption
  <2>2. IncrBy(db, now, k, amount).db \in DB /\ IncrBy(db, now, k, amount).res \in Reply
    BY <1>0, <2>1, IncrByType
  <2> QED
    BY <1>3, <2>2, RunType DEF INCRBY, Ops
<1>4. ASSUME NEW j \in Keys, NEW k \in Keys, EXISTS(j, k) PROVE TypeOK'
  BY <1>0, <1>4, ExistsType, RunType DEF EXISTS, Ops
<1>5. ASSUME NEW k \in Keys, NEW seconds \in Seconds, NEW nx \in BOOLEAN,
             EXPIRE(k, seconds, nx)
      PROVE  TypeOK'
  <2>1. seconds \in Int
    BY InputAssumption
  <2>2. Expire(db, now, k, seconds, nx).db \in DB /\ Expire(db, now, k, seconds, nx).res \in Reply
    BY <1>0, <2>1, ExpireType
  <2> QED
    BY <1>5, <2>2, RunType DEF EXPIRE, Ops
<1>6. ASSUME NEW k \in Keys, TTL(k) PROVE TypeOK'
  BY <1>0, <1>6, TtlType, RunType DEF TTL, Ops
<1>7. ASSUME NEW K \in SUBSET Keys \ {{}}, DEL(K) PROVE TypeOK'
  BY <1>7, DeleteType, RunType DEF DEL, Ops
<1>8. CASE DBSIZE
  BY <1>0, <1>8, DbSizeType, RunType DEF DBSIZE, Ops
<1>9. CASE FLUSHALL
  BY <1>9, EmptyType, RunType DEF FLUSHALL, Flush, Ops, Reply
<1>10. CASE Tick
  BY <1>10 DEF Tick
<1>11. CASE Restart
  BY <1>11, EmptyType DEF Restart, NoCommand, Ops, Reply
<1>12. CASE UNCHANGED vars
  BY <1>12 DEF vars
<1> QED
  BY <1>1, <1>2, <1>3, <1>4, <1>5, <1>6, <1>7, <1>8, <1>9, <1>10, <1>11, <1>12
     DEF Next, KeyCommand

\* In every reachable state the store, the clock and the last reply have their
\* types: no command ever answers something dispatch() could not encode.
THEOREM TypeCorrect == Spec => []TypeOK
<1>1. Init => TypeOK
  BY EmptyType DEF Init, TypeOK, NoCommand, Ops, Reply
<1> QED
  BY <1>1, TypeStep, PTL DEF Spec

-----------------------------------------------------------------------------
(* The order of the OrderedDict                                            *)

\* What makes `before` the order of a list: of two stored keys exactly one
\* stands before the other, transitively, and a key that is not stored has no
\* place.  The proofs about eviction rest on it.
IsOrdered(d) ==
  /\ \A k \in Keys : d.before[k] \subseteq Stored(d) \ {k}
  /\ \A k \in Keys \ Stored(d) : d.before[k] = {}
  /\ \A j, k \in Stored(d) : j # k => (j \in d.before[k] <=> k \notin d.before[j])
  /\ \A i, j, k \in Keys : i \in d.before[j] /\ j \in d.before[k] => i \in d.before[k]

\* Deleting keys keeps the order of the others.
LEMMA DelKeysOrdered ==
  ASSUME NEW d \in DB, IsOrdered(d), NEW K
  PROVE  /\ IsOrdered(DelKeys(d, K))
         /\ Stored(DelKeys(d, K)) = Stored(d) \ K
<1>1. PICK x : x = DelKeys(d, K)
  OBVIOUS
<1>2. Stored(x) = Stored(d) \ K
  BY <1>1 DEF DelKeys, Stored
<1>3. \A k \in Keys : x.before[k] = IF k \in K THEN {} ELSE d.before[k] \ K
  BY <1>1 DEF DelKeys
<1>4. \A k \in Keys : x.before[k] \subseteq Stored(x) \ {k}
  <2>1. \A k \in Keys : d.before[k] \subseteq Stored(d) \ {k}
    BY DEF IsOrdered
  <2> QED
    BY <1>2, <1>3, <2>1
<1>5. \A k \in Keys \ Stored(x) : x.before[k] = {}
  BY <1>2, <1>3 DEF IsOrdered
<1>6. ASSUME NEW j \in Stored(x), NEW k \in Stored(x), j # k
      PROVE  j \in x.before[k] <=> k \notin x.before[j]
  <2>1. j \in Stored(d) \ K /\ k \in Stored(d) \ K /\ j \in Keys /\ k \in Keys
    BY <1>2 DEF Stored
  <2>2. j \in d.before[k] <=> k \notin d.before[j]
    BY <1>6, <2>1 DEF IsOrdered
  <2> QED
    BY <1>3, <2>1, <2>2
<1>7. ASSUME NEW i \in Keys, NEW j \in Keys, NEW k \in Keys,
             i \in x.before[j], j \in x.before[k]
      PROVE  i \in x.before[k]
  <2>1. i \in d.before[j] \ K /\ j \in d.before[k] \ K /\ k \notin K
    BY <1>3, <1>7
  <2>2. i \in d.before[k]
    BY <2>1 DEF IsOrdered
  <2> QED
    BY <1>3, <2>1, <2>2
<1>8. IsOrdered(x)
  BY <1>4, <1>5, <1>6, <1>7 DEF IsOrdered
<1> QED
  BY <1>1, <1>2, <1>8

\* Writing an entry and moving its key to the end: the key stands after all
\* the others, whether it was stored before or not.
LEMMA WriteOrdered ==
  ASSUME NEW d \in DB, IsOrdered(d), NEW k \in Keys, NEW e \in Entry
  PROVE  LET x == MoveToEnd(Assign(d, k, e), k)
         IN  /\ x \in DB
             /\ IsOrdered(x)
             /\ Stored(x) = Stored(d) \cup {k}
             /\ x.before = [j \in Keys |-> IF j = k THEN Stored(d) \ {k}
                                                    ELSE d.before[j] \ {k}]
<1>a. PICK w : w = Assign(d, k, e)
  OBVIOUS
<1>b. PICK x : x = MoveToEnd(w, k)
  OBVIOUS
<1>1. w \in DB /\ w.before = d.before /\ w.data = [d.data EXCEPT ![k] = e]
  BY <1>a DEF DB, Assign
<1>2. e # None
  BY StoreAssumption
<1>3. Stored(w) = Stored(d) \cup {k}
  BY <1>1, <1>2 DEF Stored, DB
<1>4. /\ x \in DB
      /\ x.data = w.data
      /\ x.before = [j \in Keys |-> IF j = k THEN Stored(w) \ {k} ELSE w.before[j] \ {k}]
  <2>1. x \in DB
    BY <1>b, <1>1, MoveToEndType
  <2>2. /\ x.data = w.data
        /\ x.before = [j \in Keys |-> IF j = k THEN Stored(w) \ {k} ELSE w.before[j] \ {k}]
    BY <1>b, <1>1 DEF MoveToEnd, DB
  <2> QED
    BY <2>1, <2>2
<1>5. Stored(x) = Stored(d) \cup {k}
  BY <1>3, <1>4 DEF Stored
<1>6. x.before = [j \in Keys |-> IF j = k THEN Stored(d) \ {k} ELSE d.before[j] \ {k}]
  BY <1>1, <1>3, <1>4
<1>7. IsOrdered(x)
  <2>1. \A j \in Keys : x.before[j] \subseteq Stored(x) \ {j}
    <3>1. \A j \in Keys : d.before[j] \subseteq Stored(d) \ {j}
      BY DEF IsOrdered
    <3> QED
      BY <1>5, <1>6, <3>1
  <2>2. \A j \in Keys \ Stored(x) : x.before[j] = {}
    BY <1>5, <1>6 DEF IsOrdered
  <2>3. ASSUME NEW i \in Stored(x), NEW j \in Stored(x), i # j
        PROVE  i \in x.before[j] <=> j \notin x.before[i]
    <3>1. i \in Keys /\ j \in Keys
      BY DEF Stored
    <3>2. k \notin x.before[i] \/ i = k
      BY <1>6, <3>1
    <3>3. CASE j = k
      BY <1>5, <1>6, <2>3, <3>1, <3>3
    <3>4. CASE i = k
      BY <1>5, <1>6, <2>3, <3>1, <3>4
    <3>5. CASE i # k /\ j # k
      <4>1. i \in d.before[j] <=> j \notin d.before[i]
        BY <1>5, <2>3, <3>5 DEF IsOrdered
      <4> QED
        BY <1>6, <3>1, <3>5, <4>1
    <3> QED
      BY <3>3, <3>4, <3>5
  <2>4. \A h, i, j \in Keys : h \in x.before[i] /\ i \in x.before[j] => h \in x.before[j]
    <3> SUFFICES ASSUME NEW h \in Keys, NEW i \in Keys, NEW j \in Keys,
                        h \in x.before[i], i \in x.before[j]
                 PROVE  h \in x.before[j]
      OBVIOUS
    <3>1. i # k
      BY <1>6
    <3>2. h \in d.before[i] /\ h # k
      BY <1>6, <3>1
    <3>3. CASE j = k
      BY <1>6, <3>2, <3>3 DEF IsOrdered
    <3>4. CASE j # k
      BY <1>6, <3>2, <3>4 DEF IsOrdered
    <3> QED
      BY <3>3, <3>4
  <2> QED
    BY <2>1, <2>2, <2>3, <2>4 DEF IsOrdered
<1> QED
  BY <1>a, <1>b, <1>4, <1>5, <1>6, <1>7

\* A lookup keeps the order and loses no live key.
LEMMA GetLiveOrdered ==
  ASSUME NEW d \in DB, IsOrdered(d), NEW t, NEW k \in Keys
  PROVE  /\ GetLive(d, t, k) \in DB
         /\ IsOrdered(GetLive(d, t, k))
         /\ Stored(GetLive(d, t, k)) \subseteq Stored(d)
<1>1. CASE k \in Live(d, t)
  <2>1. d.data[k] \in Entry /\ k \in Stored(d)
    BY <1>1, LiveEntry DEF Live
  <2>2. d = Assign(d, k, d.data[k])
    BY DEF DB, Assign
  <2> DEFINE e == d.data[k]
             x == MoveToEnd(Assign(d, k, e), k)
  <2>3. GetLive(d, t, k) = x
    BY <1>1, <2>2 DEF GetLive
  <2>4. x \in DB /\ IsOrdered(x) /\ Stored(x) = Stored(d) \cup {k}
    <3>1. e \in Entry
      BY <2>1
    <3> HIDE DEF e
    <3> QED
      BY <3>1, WriteOrdered
  <2> QED
    BY <2>1, <2>3, <2>4
<1>2. CASE k \notin Live(d, t)
  BY <1>2, DelKeysOrdered, GetLiveType DEF GetLive
<1> QED
  BY <1>1, <1>2

-----------------------------------------------------------------------------
(* The MAX_KEYS limit                                                      *)

\* A store that is not empty has a least recently used key: one that nothing
\* stands before.
LEMMA FirstKey ==
  ASSUME NEW d \in DB, IsOrdered(d), Stored(d) # {}
  PROVE  \E k \in Stored(d) : d.before[k] = {}
<1> DEFINE T == {d.before[k] : k \in Stored(d)}
           R == StrictSubsetOrdering(Keys)
<1>1. IsWellFoundedOn(R, SUBSET Keys)
  BY StoreAssumption, FS_StrictSubsetOrderingWellFounded, FS_FiniteSubsetsOfFinite
<1>2. T \subseteq SUBSET Keys /\ T # {}
  BY DEF DB, Stored
<1>3. PICK s \in T : \A y \in T : ~(<<y, s>> \in R)
  <2> HIDE DEF R, T
  <2> QED
    BY <1>1, <1>2, WFMin
<1>4. PICK k \in Stored(d) : s = d.before[k]
  BY <1>3
<1>5. ASSUME NEW j \in d.before[k] PROVE FALSE
  <2>1. j \in Stored(d) /\ j \in Keys /\ k \in Keys
    BY DEF IsOrdered, Stored
  <2>2. d.before[j] \subseteq d.before[k]
    <3>1. d.before[j] \subseteq Keys
      BY <2>1 DEF DB
    <3> QED
      BY <2>1, <3>1, <1>5 DEF IsOrdered
  <2>3. j \notin d.before[j]
    BY <2>1 DEF IsOrdered
  <2>4. d.before[j] \in SUBSET Keys /\ d.before[k] \in SUBSET Keys /\ d.before[j] # d.before[k]
    BY <1>5, <2>1, <2>3 DEF DB
  <2>5. <<d.before[j], d.before[k]>> \in R
    BY <2>2, <2>4 DEF StrictSubsetOrdering
  <2>6. d.before[j] \in T
    BY <2>1
  <2> QED
    BY <1>3, <1>4, <2>5, <2>6
<1> QED
  BY <1>4, <1>5

\* A store that an operation may leave behind.
Good(d) ==
  /\ d \in DB
  /\ IsOrdered(d)
  /\ MaxKeys > 0 => Cardinality(Stored(d)) <= MaxKeys

\* Evicting from a store with at most one entry too many leaves a good one.
LEMMA EvictGood ==
  ASSUME NEW d \in DB, IsOrdered(d),
         MaxKeys > 0 => Cardinality(Stored(d)) <= MaxKeys + 1
  PROVE  Good(EvictIfNeeded(d))
<1>1. CASE MaxKeys = 0
  BY <1>1 DEF EvictIfNeeded, Good
<1>2. CASE MaxKeys # 0
  <2> DEFINE surplus == Cardinality(Stored(d)) - MaxKeys
             out     == {k \in Stored(d) : Cardinality(d.before[k]) < surplus}
  <2>0. Stored(d) \in SUBSET Keys
    BY DEF Stored
  <2>1. MaxKeys \in Nat /\ MaxKeys > 0 /\ IsFiniteSet(Stored(d)) /\ Cardinality(Stored(d)) \in Nat
    BY <1>2, <2>0, KeysFinite, StoreAssumption
  <2>2. EvictIfNeeded(d) = DelKeys(d, out)
    BY <1>2 DEF EvictIfNeeded
  <2>3. DelKeys(d, out) \in DB /\ IsOrdered(DelKeys(d, out))
        /\ Stored(DelKeys(d, out)) = Stored(d) \ out
    <3> HIDE DEF out
    <3> QED
      BY DelKeysType, DelKeysOrdered
  <2>4. Cardinality(Stored(d) \ out) <= MaxKeys
    <3>1. CASE surplus <= 0
      <4>1. Cardinality(Stored(d) \ out) <= Cardinality(Stored(d))
        BY <2>1, FS_Subset
      <4>2. Cardinality(Stored(d) \ out) \in Nat
        BY <2>0, KeysFinite
      <4> QED
        BY <2>1, <3>1, <4>1, <4>2
    <3>2. CASE ~(surplus <= 0)
      <4>1. Stored(d) # {}
        BY <2>1, <3>2, FS_EmptySet
      <4>2. PICK k \in Stored(d) : d.before[k] = {}
        BY <4>1, FirstKey
      <4>3. k \in out
        <5>1. Cardinality(d.before[k]) = 0
          BY <4>2, FS_EmptySet
        <5>2. 0 < surplus
          BY <2>1, <3>2
        <5> HIDE DEF surplus
        <5> QED
          BY <4>2, <5>1, <5>2
      <4>4. /\ IsFiniteSet(Stored(d) \ {k})
            /\ Cardinality(Stored(d) \ {k}) = Cardinality(Stored(d)) - 1
        BY <2>1, <4>2, FS_RemoveElement
      <4>5. Cardinality(Stored(d) \ out) <= Cardinality(Stored(d) \ {k})
        <5>1. Stored(d) \ out \in SUBSET (Stored(d) \ {k})
          BY <4>3
        <5> QED
          BY <4>4, <5>1, FS_Subset
      <4>6. Cardinality(Stored(d) \ out) \in Nat
        BY <2>0, KeysFinite
      <4> QED
        BY <2>1, <4>4, <4>5, <4>6
    <3> QED
      BY <2>1, <3>1, <3>2
  <2> QED
    BY <2>2, <2>3, <2>4 DEF Good
<1> QED
  BY <1>1, <1>2

\* A write leaves a good store, in which the key written is the last one.
LEMMA PutGood ==
  ASSUME NEW d \in DB, Good(d), NEW k \in Keys, NEW e \in Entry
  PROVE  Good(Put(d, k, e))
<1>1. PICK x : x = MoveToEnd(Assign(d, k, e), k)
  OBVIOUS
<1>2. x \in DB /\ IsOrdered(x) /\ Stored(x) = Stored(d) \cup {k}
  BY <1>1, WriteOrdered DEF Good
<1>3. IsFiniteSet(Stored(d)) /\ Cardinality(Stored(d)) \in Nat
  BY KeysFinite DEF Stored
<1>4. MaxKeys > 0 => Cardinality(Stored(x)) <= MaxKeys + 1
  <2>1. Cardinality(Stored(x)) = IF k \in Stored(d) THEN Cardinality(Stored(d))
                                 ELSE Cardinality(Stored(d)) + 1
    BY <1>2, <1>3, FS_AddElement
  <2>2. Good(d) => (MaxKeys > 0 => Cardinality(Stored(d)) <= MaxKeys)
    BY DEF Good
  <2> QED
    BY <1>3, <2>1, <2>2, StoreAssumption
<1> QED
  BY <1>1, <1>2, <1>4, EvictGood DEF Put

\* A smaller set of keys is within the limit, too.
LEMMA FewerKeysGood ==
  ASSUME NEW d \in DB, Good(d), NEW x \in DB, IsOrdered(x), Stored(x) \subseteq Stored(d)
  PROVE  Good(x)
<1>1. IsFiniteSet(Stored(d)) /\ Cardinality(Stored(d)) \in Nat
  BY KeysFinite DEF Stored
<1>2. Cardinality(Stored(x)) <= Cardinality(Stored(d)) /\ Cardinality(Stored(x)) \in Nat
  BY <1>1, KeysFinite, FS_Subset DEF Stored
<1> QED
  BY <1>1, <1>2, StoreAssumption DEF Good

\* A lookup keeps the order and the limit.
LEMMA GetLiveGood ==
  ASSUME NEW d \in DB, Good(d), NEW t, NEW k \in Keys
  PROVE  Good(GetLive(d, t, k))
BY GetLiveOrdered, FewerKeysGood DEF Good

\* So does deleting keys.
LEMMA DelKeysGood ==
  ASSUME NEW d \in DB, Good(d), NEW K
  PROVE  Good(DelKeys(d, K))
BY DelKeysOrdered, DelKeysType, FewerKeysGood DEF Good

\* Giving a live key another deadline leaves a good store.
LEMMA ExpireGood ==
  ASSUME NEW d \in DB, Good(d), NEW t \in Int, NEW k \in Keys, NEW s \in Int, NEW nx \in BOOLEAN
  PROVE  Good(Expire(d, t, k, s, nx).db)
<1>1. PICK l : l = GetLive(d, t, k)
  OBVIOUS
<1>2. Good(l) /\ l \in DB
  BY <1>1, GetLiveGood, GetLiveType
<1>3. CASE k \notin Live(d, t) \/ (nx /\ d.data[k].expires # None)
  BY <1>1, <1>2, <1>3 DEF Expire
<1>4. CASE ~(k \notin Live(d, t) \/ (nx /\ d.data[k].expires # None))
  <2>1. PICK e : e = [d.data[k] EXCEPT !.expires = t + s * TicksPerSecond]
    OBVIOUS
  <2>2. l.data = d.data
    BY <1>1, <1>4 DEF GetLive, MoveToEnd, DB
  <2>3. l.data[k] \in Entry
    BY <1>4, <2>2, LiveEntry
  <2>4. t + s * TicksPerSecond \in Deadline
    BY StoreAssumption DEF Deadline
  <2>5. e \in Entry
    BY <2>1, <2>2, <2>3, <2>4 DEF Entry
  <2>6. PICK x : x = Assign(l, k, e)
    OBVIOUS
  <2>7. x = Expire(d, t, k, s, nx).db
    BY <1>1, <1>4, <2>1, <2>6 DEF Expire
  <2>8. x \in DB /\ x.before = l.before /\ x.data = [l.data EXCEPT ![k] = e]
    BY <1>2, <2>5, <2>6 DEF DB, Assign
  <2>9. k \in Stored(l)
    BY <1>4, <2>2 DEF Live, Stored
  <2>10. Stored(x) = Stored(l)
    BY <1>2, <2>5, <2>8, <2>9, StoreAssumption DEF Stored, DB
  <2>11. IsOrdered(x)
    BY <1>2, <2>8, <2>10 DEF IsOrdered, Good
  <2> QED
    BY <1>2, <2>7, <2>8, <2>10, <2>11, FewerKeysGood
<1> QED
  BY <1>3, <1>4

\* So does an increment.
LEMMA IncrByGood ==
  ASSUME NEW d \in DB, Good(d), NEW t \in Int, NEW k \in Keys, NEW amount \in Int
  PROVE  Good(IncrBy(d, t, k, amount).db)
<1> DEFINE old == IF k \in Live(d, t) THEN d.data[k] ELSE [value |-> 0, expires |-> None]
           e == [old EXCEPT !.value = old.value + amount]
<1>1. Good(GetLive(d, t, k)) /\ GetLive(d, t, k) \in DB
  BY GetLiveGood, GetLiveType
<1>2. CASE old.value \in Texts
  BY <1>1, <1>2 DEF IncrBy
<1>3. CASE old.value \notin Texts
  <2>1. old \in Entry
    BY LiveEntry DEF Entry, Value, Deadline
  <2>2. e \in Entry
    BY <1>3, <2>1 DEF Entry, Value
  <2>3. Good(Put(GetLive(d, t, k), k, e))
    <3> HIDE DEF e
    <3> QED
      BY <1>1, <2>2, PutGood
  <2> QED
    BY <1>3, <2>3 DEF IncrBy
<1> QED
  BY <1>2, <1>3

\* The empty store is good.
LEMMA EmptyGood == Good(EmptyDB)
<1>1. Stored(EmptyDB) = {}
  BY DEF Stored, EmptyDB
<1>2. IsOrdered(EmptyDB)
  BY <1>1 DEF IsOrdered, EmptyDB
<1> QED
  BY <1>1, <1>2, EmptyType, FS_EmptySet, StoreAssumption DEF Good

-----------------------------------------------------------------------------
(* The inductive invariant                                                 *)

IInv == TypeOK /\ Good(db)

\* Every step keeps the order and the limit.
LEMMA GoodStep == IInv /\ [Next]_vars => Good(db)'
<1> SUFFICES ASSUME IInv, [Next]_vars PROVE Good(db')
  BY DEF Good, IsOrdered, Stored
<1>0. db \in DB /\ Good(db) /\ now \in Int
  BY DEF IInv, TypeOK
<1>1. ASSUME NEW k \in Keys, NEW v \in InputValues, NEW ex \in Seconds \cup {None},
             NEW px \in Millis \cup {None}, SET(k, v, ex, px)
      PROVE  Good(db')
  <2>1. ExpiresAt(now, ex, px) \in Deadline /\ v \in Value
    BY <1>0, StoreAssumption, InputAssumption DEF ExpiresAt, Deadline
  <2>2. PICK e : e = [value |-> v, expires |-> ExpiresAt(now, ex, px)]
    OBVIOUS
  <2>3. e \in Entry
    BY <2>1, <2>2 DEF Entry
  <2>4. db' = Put(db, k, e)
    BY <1>1, <2>2 DEF SET, Run, Set
  <2> QED
    BY <1>0, <2>3, <2>4, PutGood
<1>2. ASSUME NEW k \in Keys, GET(k) PROVE Good(db')
  BY <1>0, <1>2, GetLiveGood DEF GET, Run, Get
<1>3. ASSUME NEW k \in Keys, NEW amount \in Amounts, INCRBY(k, amount) PROVE Good(db')
  <2>1. amount \in Int
    BY InputAssumption
  <2>2. db' = IncrBy(db, now, k, amount).db
    BY <1>3 DEF INCRBY, Run
  <2> QED
    BY <1>0, <2>1, <2>2, IncrByGood
<1>4. ASSUME NEW j \in Keys, NEW k \in Keys, EXISTS(j, k) PROVE Good(db')
  <2>1. Good(GetLive(db, now, j)) /\ GetLive(db, now, j) \in DB
    BY <1>0, GetLiveGood, GetLiveType
  <2>2. db' = GetLive(GetLive(db, now, j), now, k)
    BY <1>4 DEF EXISTS, Run, Exists
  <2> QED
    BY <2>1, <2>2, GetLiveGood
<1>5. ASSUME NEW k \in Keys, NEW seconds \in Seconds, NEW nx \in BOOLEAN,
             EXPIRE(k, seconds, nx)
      PROVE  Good(db')
  <2>1. seconds \in Int
    BY InputAssumption
  <2>2. db' = Expire(db, now, k, seconds, nx).db
    BY <1>5 DEF EXPIRE, Run
  <2> QED
    BY <1>0, <2>1, <2>2, ExpireGood
<1>6. ASSUME NEW k \in Keys, TTL(k) PROVE Good(db')
  BY <1>0, <1>6, GetLiveGood DEF TTL, Run, Ttl
<1>7. ASSUME NEW K \in SUBSET Keys \ {{}}, DEL(K) PROVE Good(db')
  BY <1>0, <1>7, DelKeysGood DEF DEL, Run, Delete
<1>8. CASE DBSIZE
  BY <1>0, <1>8, DelKeysGood DEF DBSIZE, Run, DbSize
<1>9. CASE FLUSHALL
  BY <1>9, EmptyGood DEF FLUSHALL, Run, Flush
<1>10. CASE Tick
  BY <1>0, <1>10 DEF Tick
<1>11. CASE Restart
  BY <1>11, EmptyGood DEF Restart
<1>12. CASE UNCHANGED vars
  BY <1>0, <1>12 DEF vars
<1> QED
  BY <1>1, <1>2, <1>3, <1>4, <1>5, <1>6, <1>7, <1>8, <1>9, <1>10, <1>11, <1>12
     DEF Next, KeyCommand

\* The inductive invariant holds in every reachable state.
LEMMA Invariance == Spec => []IInv
<1>1. Init => IInv
  BY EmptyGood, EmptyType DEF Init, IInv, TypeOK, NoCommand, Ops, Reply
<1>2. IInv /\ [Next]_vars => IInv'
  BY TypeStep, GoodStep DEF IInv
<1> QED
  BY <1>1, <1>2, PTL DEF Spec

\* A MAX_KEYS limit is never exceeded, not even for one step.
THEOREM LimitKept == Spec => []WithinMaxKeys
<1>1. IInv => WithinMaxKeys
  BY DEF IInv, Good, WithinMaxKeys
<1> QED
  BY <1>1, Invariance, PTL

-----------------------------------------------------------------------------
(* Refinement: what clients see of the store                               *)

\* The keys of the entries that have expired and are still there.
Stale(d, t) == Stored(d) \ Live(d, t)

\* What clients see of a store.
LiveMap(d, t) == [k \in Keys |-> IF k \in Live(d, t) THEN d.data[k] ELSE None]

\* The map m after e has been stored under k.
Updated(m, k, e, t) ==
  [j \in Keys |-> IF j # k THEN m[j] ELSE IF IsExpired(e, t) THEN None ELSE e]

\* The map m without the keys of K.
Without(m, K) == [j \in Keys |-> IF j \in K THEN None ELSE m[j]]

\* Moving a key to the end does not show.
LEMMA MoveToEndMap ==
  ASSUME NEW d \in DB, NEW t, NEW k \in Keys
  PROVE  /\ MoveToEnd(d, k).data = d.data
         /\ Live(MoveToEnd(d, k), t) = Live(d, t)
         /\ LiveMap(MoveToEnd(d, k), t) = LiveMap(d, t)
         /\ Stale(MoveToEnd(d, k), t) = Stale(d, t)
<1>1. MoveToEnd(d, k).data = d.data
  BY DEF MoveToEnd, DB
<1>2. Live(MoveToEnd(d, k), t) = Live(d, t) /\ Stored(MoveToEnd(d, k)) = Stored(d)
  BY <1>1 DEF Live, Stored
<1> QED
  BY <1>1, <1>2 DEF LiveMap, Stale

\* Deleted keys are gone, the others stay as they are.
LEMMA DelKeysMap ==
  ASSUME NEW d \in DB, NEW t, NEW K
  PROVE  /\ Live(DelKeys(d, K), t) = Live(d, t) \ K
         /\ LiveMap(DelKeys(d, K), t) = Without(LiveMap(d, t), K)
         /\ Stale(DelKeys(d, K), t) = Stale(d, t) \ K
<1>1. \A k \in Keys : DelKeys(d, K).data[k] = IF k \in K THEN None ELSE d.data[k]
  BY DEF DelKeys
<1>2. Live(DelKeys(d, K), t) = Live(d, t) \ K /\ Stored(DelKeys(d, K)) = Stored(d) \ K
  BY <1>1 DEF Live, Stored
<1>3. Stale(DelKeys(d, K), t) = Stale(d, t) \ K
  BY <1>2 DEF Stale
<1> QED
  BY <1>1, <1>2, <1>3 DEF LiveMap, Without

\* A lookup does not show in the map: what it deletes was stale.
LEMMA GetLiveMap ==
  ASSUME NEW d \in DB, NEW t, NEW k \in Keys
  PROVE  /\ Live(GetLive(d, t, k), t) = Live(d, t)
         /\ LiveMap(GetLive(d, t, k), t) = LiveMap(d, t)
         /\ Stale(GetLive(d, t, k), t) = Stale(d, t) \ {k}
<1>1. CASE k \in Live(d, t)
  <2>1. Stale(d, t) \ {k} = Stale(d, t)
    BY <1>1 DEF Stale
  <2> QED
    BY <1>1, <2>1, MoveToEndMap DEF GetLive
<1>2. CASE k \notin Live(d, t)
  <2>1. Live(d, t) \ {k} = Live(d, t)
    BY <1>2
  <2>2. \A j \in Keys : j \in {k} => LiveMap(d, t)[j] = None
    BY <1>2 DEF LiveMap
  <2>3. LiveMap(d, t) = [j \in Keys |-> LiveMap(d, t)[j]]
    BY DEF LiveMap
  <2>4. Without(LiveMap(d, t), {k}) = LiveMap(d, t)
    BY <2>2, <2>3 DEF Without
  <2>5. GetLive(d, t, k) = DelKeys(d, {k})
    BY <1>2 DEF GetLive
  <2>6. /\ Live(DelKeys(d, {k}), t) = Live(d, t) \ {k}
        /\ LiveMap(DelKeys(d, {k}), t) = Without(LiveMap(d, t), {k})
        /\ Stale(DelKeys(d, {k}), t) = Stale(d, t) \ {k}
    BY DelKeysMap
  <2> QED
    BY <2>1, <2>4, <2>5, <2>6
<1> QED
  BY <1>1, <1>2

\* An entry written is seen unless its deadline has passed.
LEMMA AssignMap ==
  ASSUME NEW d \in DB, NEW t, NEW k \in Keys, NEW e \in Entry
  PROVE  /\ LiveMap(Assign(d, k, e), t) = Updated(LiveMap(d, t), k, e, t)
         /\ Stale(Assign(d, k, e), t) = (Stale(d, t) \ {k}) \cup (IF IsExpired(e, t) THEN {k} ELSE {})
<1>1. e # None
  BY StoreAssumption
<1>2. \A j \in Keys : Assign(d, k, e).data[j] = IF j = k THEN e ELSE d.data[j]
  BY DEF Assign
<1>3. \A j \in Keys : j \in Live(Assign(d, k, e), t)
                        <=> IF j = k THEN ~IsExpired(e, t) ELSE j \in Live(d, t)
  BY <1>1, <1>2 DEF Live, Stored
<1>4. Stored(Assign(d, k, e)) = Stored(d) \cup {k}
  BY <1>1, <1>2 DEF Stored
<1>5. Stale(Assign(d, k, e), t) = (Stale(d, t) \ {k}) \cup (IF IsExpired(e, t) THEN {k} ELSE {})
  BY <1>3, <1>4 DEF Stale, Live, Stored
<1> QED
  BY <1>2, <1>3, <1>5 DEF LiveMap, Updated

\* What an eviction after a write takes: at most one key, not the one written.
LEMMA EvictOne ==
  ASSUME NEW d \in DB, Good(d), NEW k \in Keys, NEW e \in Entry
  PROVE  \E lost \in SUBSET (Keys \ {k}) :
           /\ Cardinality(lost) <= (IF MaxKeys = 0 THEN 0 ELSE 1)
           /\ Put(d, k, e) = DelKeys(MoveToEnd(Assign(d, k, e), k), lost)
<1>1. PICK x : x = MoveToEnd(Assign(d, k, e), k)
  OBVIOUS
<1>2. /\ x \in DB /\ IsOrdered(x) /\ Stored(x) = Stored(d) \cup {k}
      /\ x.before[k] = Stored(d) \ {k}
  <2>1. /\ x \in DB /\ IsOrdered(x) /\ Stored(x) = Stored(d) \cup {k}
        /\ x.before = [j \in Keys |-> IF j = k THEN Stored(d) \ {k}
                                                    ELSE d.before[j] \ {k}]
    BY <1>1, WriteOrdered DEF Good
  <2> QED
    BY <2>1
<1>3. Put(d, k, e) = EvictIfNeeded(x)
  BY <1>1 DEF Put
<1>4. Cardinality({}) = 0
  BY FS_EmptySet
<1>5. CASE MaxKeys = 0
  <2>1. DelKeys(x, {}) = x
    <3>1. x = [data |-> [j \in Keys |-> x.data[j]], before |-> [j \in Keys |-> x.before[j]]]
      BY <1>2 DEF DB
    <3>2. \A j \in Keys \ Stored(x) : x.before[j] = {}
      BY <1>2 DEF IsOrdered
    <3> QED
      BY <3>1 DEF DelKeys
  <2>2. EvictIfNeeded(x) = DelKeys(x, {})
    BY <1>5, <2>1 DEF EvictIfNeeded
  <2>3. {} \in SUBSET (Keys \ {k}) /\ Cardinality({}) <= 0
    BY <1>4
  <2> QED
    BY <1>1, <1>3, <1>5, <2>2, <2>3
<1>6. CASE MaxKeys # 0
  <2>1. PICK s : s = Cardinality(Stored(x)) - MaxKeys
    OBVIOUS
  <2> DEFINE out == {j \in Stored(x) : Cardinality(x.before[j]) < s}
  <2>2. EvictIfNeeded(x) = DelKeys(x, out)
    BY <1>6, <2>1 DEF EvictIfNeeded
  <2>3. MaxKeys \in Nat \ {0} /\ IsFiniteSet(Stored(d)) /\ Cardinality(Stored(d)) \in Nat
        /\ Cardinality(Stored(x)) \in Nat /\ IsFiniteSet(Stored(x)) /\ Cardinality(Stored(d)) <= MaxKeys
    <3>1. Stored(d) \in SUBSET Keys /\ Stored(x) \in SUBSET Keys
      BY DEF Stored
    <3> QED
      BY <1>6, <3>1, KeysFinite, StoreAssumption DEF Good
  <2>4. s <= 1 /\ s \in Int
    <3>1. Cardinality(Stored(x)) <= Cardinality(Stored(d)) + 1
      BY <1>2, <2>3, FS_AddElement
    <3> QED
      BY <2>1, <2>3, <3>1
  <2>5. \A j \in out : x.before[j] = {} /\ s = 1 /\ j \in Keys
    <3> SUFFICES ASSUME NEW j \in out PROVE x.before[j] = {} /\ s = 1 /\ j \in Keys
      OBVIOUS
    <3>1. j \in Keys /\ x.before[j] \in SUBSET Keys /\ Cardinality(x.before[j]) < s
      BY <1>2 DEF Stored, DB
    <3>2. Cardinality(x.before[j]) \in Nat /\ IsFiniteSet(x.before[j])
      BY <3>1, KeysFinite
    <3>3. Cardinality(x.before[j]) = 0 /\ s = 1
      BY <2>4, <3>1, <3>2
    <3> QED
      BY <3>1, <3>2, <3>3, FS_EmptySet
  <2>6. \A i, j \in out : i = j
    <3> SUFFICES ASSUME NEW i \in out, NEW j \in out, i # j PROVE FALSE
      OBVIOUS
    <3>1. i \in Stored(x) /\ j \in Stored(x)
      OBVIOUS
    <3>2. i \in x.before[j] <=> j \notin x.before[i]
      BY <1>2, <3>1 DEF IsOrdered
    <3> QED
      BY <2>5, <3>2
  <2>7. k \notin out
    <3> SUFFICES ASSUME k \in out PROVE FALSE
      OBVIOUS
    <3>1. s = 1 /\ Stored(x) = {k}
      BY <1>2, <2>5
    <3>2. Cardinality(Stored(x)) = 1
      BY <3>1, FS_Singleton
    <3> QED
      BY <2>1, <2>3, <3>1, <3>2
  <2>8. Cardinality(out) <= 1
    <3>1. CASE out = {}
      BY <1>4, <3>1
    <3>2. CASE out # {}
      <4>1. PICK j \in out : TRUE
        BY <3>2
      <4>2. out = {j}
        BY <2>6, <4>1
      <4>3. Cardinality({j}) = 1
        BY FS_Singleton
      <4> QED
        BY <4>2, <4>3
    <3> QED
      BY <3>1, <3>2
  <2>9. out \in SUBSET (Keys \ {k})
    BY <2>5, <2>7
  <2> HIDE DEF out
  <2> QED
    BY <1>1, <1>3, <1>6, <2>2, <2>8, <2>9
<1> QED
  BY <1>5, <1>6

\* A write of the store is a write of the map.
LEMMA PutMap ==
  ASSUME NEW d \in DB, Good(d), NEW t \in Int, NEW k \in Keys, NEW e \in Entry
  PROVE  \E lost \in SUBSET (Keys \ {k}) :
           /\ Cardinality(lost) <= (IF MaxKeys = 0 THEN 0 ELSE 1)
           /\ LiveMap(Put(d, k, e), t) = Without(Updated(LiveMap(d, t), k, e, t), lost)
           /\ Stale(Put(d, k, e), t)
              = (Stale(d, t) \ ({k} \cup lost)) \cup (IF IsExpired(e, t) THEN {k} ELSE {})
<1>1. PICK lost \in SUBSET (Keys \ {k}) :
        /\ Cardinality(lost) <= (IF MaxKeys = 0 THEN 0 ELSE 1)
        /\ Put(d, k, e) = DelKeys(MoveToEnd(Assign(d, k, e), k), lost)
  BY EvictOne
<1>2. PICK w : w = Assign(d, k, e)
  OBVIOUS
<1>3. w \in DB
  BY <1>2 DEF Assign, DB
<1>4. PICK x : x = MoveToEnd(w, k)
  OBVIOUS
<1>5. x \in DB /\ LiveMap(x, t) = LiveMap(w, t) /\ Stale(x, t) = Stale(w, t)
  BY <1>3, <1>4, MoveToEndMap, MoveToEndType
<1>6. /\ LiveMap(w, t) = Updated(LiveMap(d, t), k, e, t)
      /\ Stale(w, t) = (Stale(d, t) \ {k}) \cup (IF IsExpired(e, t) THEN {k} ELSE {})
  BY <1>2, AssignMap
<1>7. /\ LiveMap(DelKeys(x, lost), t) = Without(LiveMap(x, t), lost)
      /\ Stale(DelKeys(x, lost), t) = Stale(x, t) \ lost
  BY <1>5, DelKeysMap
<1>8. Stale(x, t) \ lost = (Stale(d, t) \ ({k} \cup lost)) \cup (IF IsExpired(e, t) THEN {k} ELSE {})
  BY <1>5, <1>6
<1> QED
  BY <1>1, <1>2, <1>4, <1>5, <1>6, <1>7, <1>8

-----------------------------------------------------------------------------
(* The steps of the map                                                    *)

\* The instance of the map counts like everybody else.
LEMMA MapCardinality == \A S : Map!Cardinality(S) = Cardinality(S)
BY DEF Map!Cardinality, Cardinality, Map!IsFiniteSet, IsFiniteSet

\* What is present in the map is what is live in the store.
LEMMA LiveMapEntry ==
  ASSUME NEW d \in DB, NEW t, NEW k \in Keys
  PROVE  /\ k \in Live(d, t) => LiveMap(d, t)[k] = d.data[k] /\ LiveMap(d, t)[k] # None
         /\ k \notin Live(d, t) => LiveMap(d, t)[k] = None
BY LiveEntry, StoreAssumption DEF LiveMap, Live, Stored

\* A command of the store whose effect and answer are known.
LEMMA RunStep ==
  ASSUME NEW op, NEW K, NEW out, Run(op, K, out)
  PROVE  /\ Map!Reply(op, K, out.res) /\ db' = out.db /\ now' = now
         /\ liveMap' = LiveMap(out.db, now) /\ staleKeys' = Stale(out.db, now)
BY DEF Run, Map!Reply, liveMap, LiveMap, staleKeys, Stale

\* Storing an entry is a write of the map.
LEMMA WriteStep ==
  ASSUME IInv, NEW d \in DB, Good(d), liveMap = LiveMap(d, now), NEW k \in Keys, NEW e \in Entry,
         liveMap' = LiveMap(Put(d, k, e), now),
         Stale(d, now) \ {k} = staleKeys \ {k}, staleKeys' = Stale(Put(d, k, e), now)
  PROVE  Map!Write(k, e)
<1>1. now \in Int
  BY DEF IInv, TypeOK
<1>2. PICK lost \in SUBSET (Keys \ {k}) :
        /\ Cardinality(lost) <= (IF MaxKeys = 0 THEN 0 ELSE 1)
        /\ LiveMap(Put(d, k, e), now) = Without(Updated(LiveMap(d, now), k, e, now), lost)
        /\ Stale(Put(d, k, e), now)
           = (Stale(d, now) \ ({k} \cup lost)) \cup (IF IsExpired(e, now) THEN {k} ELSE {})
  BY <1>1, PutMap
<1>3. IsExpired(e, now) <=> Map!Past(e.expires)
  BY <1>1 DEF IsExpired, Entry, Deadline, Map!Past
<1>4. liveMap' = [j \in Keys |-> IF j \in lost THEN None
                              ELSE IF j # k THEN liveMap[j]
                              ELSE IF Map!Past(e.expires) THEN None ELSE e]
  BY <1>2, <1>3 DEF Without, Updated
<1>5. staleKeys' = (staleKeys \ ({k} \cup lost)) \cup (IF Map!Past(e.expires) THEN {k} ELSE {})
  BY <1>2, <1>3
<1> QED
  BY <1>2, <1>4, <1>5, MapCardinality, Zenon DEF Map!Write

\* A SET of the store is one of the map.
LEMMA SetRefines ==
  ASSUME IInv, NEW k \in Keys, NEW v \in InputValues, NEW ex \in Seconds \cup {None},
         NEW px \in Millis \cup {None}, SET(k, v, ex, px)
  PROVE  Map!SET(k, v, ex, px)
<1>1. /\ now \in Int /\ db \in DB /\ Good(db)
      /\ liveMap = LiveMap(db, now) /\ staleKeys = Stale(db, now)
  BY DEF IInv, TypeOK, liveMap, LiveMap, staleKeys, Stale
<1>2. ExpiresAt(now, ex, px) = (IF ex # None THEN now + ex * TicksPerSecond
                                ELSE IF px # None THEN now + px ELSE None)
  BY DEF ExpiresAt
<1>3. ExpiresAt(now, ex, px) \in Deadline /\ v \in Value
  BY <1>1, InputAssumption, StoreAssumption DEF ExpiresAt, Deadline
<1>4. PICK e : e = [value |-> v, expires |-> ExpiresAt(now, ex, px)]
  OBVIOUS
<1>5. e \in Entry
  BY <1>3, <1>4 DEF Entry
<1>6. Run("SET", {k}, [db |-> Put(db, k, e), res |-> OK])
  BY <1>4 DEF SET, Set
<1>7. /\ Map!Reply("SET", {k}, OK)
      /\ liveMap' = LiveMap(Put(db, k, e), now) /\ staleKeys' = Stale(Put(db, k, e), now)
  BY <1>6, RunStep
<1>8. Map!Write(k, e)
  BY <1>1, <1>5, <1>7, WriteStep
<1>9. e = [value   |-> v,
           expires |-> IF ex # None THEN now + ex * TicksPerSecond
                       ELSE IF px # None THEN now + px ELSE None]
  BY <1>2, <1>4
<1> QED
  BY <1>7, <1>8, <1>9, Zenon DEF Map!SET

\* Lookups read the map.
LEMMA GetRefines ==
  ASSUME IInv, NEW k \in Keys, GET(k)
  PROVE  Map!GET(k)
<1>1. db \in DB /\ liveMap = LiveMap(db, now) /\ staleKeys = Stale(db, now)
  BY DEF IInv, TypeOK, liveMap, LiveMap, staleKeys, Stale
<1>2. /\ Map!Reply("GET", {k}, Get(db, now, k).res)
      /\ liveMap' = LiveMap(GetLive(db, now, k), now) /\ staleKeys' = Stale(GetLive(db, now, k), now)
  BY RunStep DEF GET, Get
<1>3. liveMap' = liveMap /\ staleKeys' = staleKeys \ {k}
  BY <1>1, <1>2, GetLiveMap
<1>4. Get(db, now, k).res = IF liveMap[k] = None THEN None ELSE liveMap[k].value
  BY <1>1, LiveMapEntry DEF Get
<1> QED
  BY <1>2, <1>3, <1>4, Zenon DEF Map!GET, Map!Read

\* So does EXISTS, with two.
LEMMA ExistsRefines ==
  ASSUME IInv, NEW j \in Keys, NEW k \in Keys, EXISTS(j, k)
  PROVE  Map!EXISTS(j, k)
<1>1. db \in DB /\ liveMap = LiveMap(db, now) /\ staleKeys = Stale(db, now)
  BY DEF IInv, TypeOK, liveMap, LiveMap, staleKeys, Stale
<1>2. PICK l : l = GetLive(db, now, j)
  OBVIOUS
<1>3. l \in DB /\ LiveMap(l, now) = liveMap /\ Stale(l, now) = staleKeys \ {j}
  BY <1>1, <1>2, GetLiveType, GetLiveMap
<1>4. /\ Map!Reply("EXISTS", {j, k}, Exists(db, now, j, k).res)
      /\ liveMap' = LiveMap(GetLive(l, now, k), now) /\ staleKeys' = Stale(GetLive(l, now, k), now)
  BY <1>2, RunStep DEF EXISTS, Exists
<1>5. liveMap' = liveMap /\ staleKeys' = staleKeys \ {j, k}
  BY <1>3, <1>4, GetLiveMap
<1>6. Exists(db, now, j, k).res
        = (IF liveMap[j] = None THEN 0 ELSE 1) + (IF liveMap[k] = None THEN 0 ELSE 1)
  BY <1>1, LiveMapEntry DEF Exists
<1> QED
  BY <1>4, <1>5, <1>6, Zenon DEF Map!EXISTS, Map!Read

\* So does TTL, which rounds the remaining time down.
LEMMA TtlRefines ==
  ASSUME IInv, NEW k \in Keys, TTL(k)
  PROVE  Map!TTL(k)
<1>1. db \in DB /\ liveMap = LiveMap(db, now) /\ staleKeys = Stale(db, now)
  BY DEF IInv, TypeOK, liveMap, LiveMap, staleKeys, Stale
<1>2. /\ Map!Reply("TTL", {k}, Ttl(db, now, k).res)
      /\ liveMap' = LiveMap(GetLive(db, now, k), now) /\ staleKeys' = Stale(GetLive(db, now, k), now)
  BY RunStep DEF TTL, Ttl
<1>3. liveMap' = liveMap /\ staleKeys' = staleKeys \ {k}
  BY <1>1, <1>2, GetLiveMap
<1>4. CASE k \notin Live(db, now)
  <2>1. liveMap[k] = None /\ Ttl(db, now, k).res = -2
    BY <1>1, <1>4, LiveMapEntry DEF Ttl
  <2> QED
    BY <1>2, <1>3, <2>1, Zenon DEF Map!TTL, Map!Read
<1>5. CASE k \in Live(db, now) /\ db.data[k].expires = None
  <2>1. liveMap[k] # None /\ liveMap[k].expires = None /\ Ttl(db, now, k).res = -1
    BY <1>1, <1>5, LiveMapEntry DEF Ttl
  <2> QED
    BY <1>2, <1>3, <2>1, Zenon DEF Map!TTL, Map!Read
<1>6. CASE k \in Live(db, now) /\ db.data[k].expires # None
  <2>1. /\ liveMap[k] # None /\ liveMap[k].expires # None
        /\ Ttl(db, now, k).res = (liveMap[k].expires - now) \div TicksPerSecond
    BY <1>1, <1>6, LiveMapEntry DEF Ttl
  <2> QED
    BY <1>2, <1>3, <2>1, Zenon DEF Map!TTL, Map!Read
<1> QED
  BY <1>4, <1>5, <1>6

\* So does DBSIZE: what it purges was not in the map.
LEMMA DbSizeRefines ==
  ASSUME IInv, DBSIZE
  PROVE  Map!DBSIZE
<1>1. db \in DB /\ liveMap = LiveMap(db, now) /\ staleKeys = Stale(db, now)
  BY DEF IInv, TypeOK, liveMap, LiveMap, staleKeys, Stale
<1>2. PICK dead : dead = Stored(db) \ Live(db, now)
  OBVIOUS
<1>3. /\ Map!Reply("DBSIZE", {}, Cardinality(Live(db, now)))
      /\ liveMap' = LiveMap(DelKeys(db, dead), now) /\ staleKeys' = Stale(DelKeys(db, dead), now)
  BY <1>2, RunStep DEF DBSIZE, DbSize
<1>4. Without(LiveMap(db, now), dead) = LiveMap(db, now)
  BY <1>2 DEF Without, LiveMap
<1>5. liveMap' = liveMap /\ staleKeys' = {}
  <2>1. Stale(db, now) \ dead = {}
    BY <1>2 DEF Stale
  <2> QED
    BY <1>1, <1>3, <1>4, <2>1, DelKeysMap
<1>6. Map!Present(liveMap) = Live(db, now)
  <2>1. \A k \in Keys : liveMap[k] # None <=> k \in Live(db, now)
    BY <1>1, LiveMapEntry
  <2>2. Live(db, now) \subseteq Keys
    BY DEF Live, Stored
  <2> QED
    BY <2>1, <2>2 DEF Map!Present
<1> QED
  BY <1>3, <1>5, <1>6, MapCardinality, Zenon DEF Map!DBSIZE

\* INCR and INCRBY of nothing, of a number and of a text.
LEMMA IncrByRefines ==
  ASSUME IInv, NEW k \in Keys, NEW amount \in Amounts, INCRBY(k, amount)
  PROVE  Map!INCRBY(k, amount)
<1> DEFINE old == IF k \in Live(db, now) THEN db.data[k] ELSE [value |-> 0, expires |-> None]
           out == IncrBy(db, now, k, amount)
<1>1. /\ db \in DB /\ Good(db) /\ amount \in Int
      /\ liveMap = LiveMap(db, now) /\ staleKeys = Stale(db, now)
  BY InputAssumption DEF IInv, TypeOK, liveMap, LiveMap, staleKeys, Stale
<1>2. PICK l : l = GetLive(db, now, k)
  OBVIOUS
<1>3. l \in DB /\ Good(l) /\ LiveMap(l, now) = liveMap /\ Stale(l, now) = staleKeys \ {k}
  BY <1>1, <1>2, GetLiveType, GetLiveMap, GetLiveGood
<1>4. /\ Map!Reply("INCRBY", {k}, out.res)
      /\ liveMap' = LiveMap(out.db, now) /\ staleKeys' = Stale(out.db, now)
  BY RunStep DEF INCRBY
<1>5. CASE old.value \in Texts
  <2>1. k \in Live(db, now)
    BY <1>5, StoreAssumption
  <2>2. liveMap[k] # None /\ liveMap[k].value \in Texts
    BY <1>1, <1>5, <2>1, LiveMapEntry
  <2>3. out = [db |-> l, res |-> ValueError]
    BY <1>2, <1>5 DEF IncrBy
  <2>4. liveMap' = liveMap /\ staleKeys' = staleKeys \ {k} /\ Map!Reply("INCRBY", {k}, ValueError)
    BY <1>3, <1>4, <2>3
  <2> QED
    BY <2>2, <2>4, Zenon DEF Map!INCRBY, Map!Read
<1>6. CASE old.value \notin Texts
  <2>1. old \in Entry
    BY <1>1, LiveEntry DEF Entry, Value, Deadline
  <2>2. PICK e : e = [value |-> old.value + amount, expires |-> old.expires]
    OBVIOUS
  <2>3. e = [old EXCEPT !.value = old.value + amount]
    BY <2>1, <2>2 DEF Entry
  <2>4. e \in Entry
    BY <1>1, <1>6, <2>1, <2>2 DEF Entry, Value
  <2>5. out = [db |-> Put(l, k, e), res |-> old.value + amount]
    BY <1>2, <1>6, <2>3 DEF IncrBy
  <2>6. /\ Map!Reply("INCRBY", {k}, old.value + amount)
        /\ liveMap' = LiveMap(Put(l, k, e), now) /\ staleKeys' = Stale(Put(l, k, e), now)
    BY <1>4, <2>5
  <2>7. Map!Write(k, e)
    <3>1. Stale(l, now) \ {k} = staleKeys \ {k}
      BY <1>3
    <3> QED
      BY <1>3, <2>4, <2>6, <3>1, WriteStep
  <2>8. CASE k \in Live(db, now)
    <3>1. liveMap[k] # None /\ liveMap[k] = old
      BY <1>1, <2>8, LiveMapEntry
    <3> HIDE DEF old
    <3> QED
      BY <1>6, <2>2, <2>6, <2>7, <3>1, Zenon DEF Map!INCRBY
  <2>9. CASE k \notin Live(db, now)
    <3>1. liveMap[k] = None
      BY <1>1, <2>9, LiveMapEntry
    <3>2. e = [value |-> amount, expires |-> None] /\ old.value + amount = amount
      BY <1>1, <2>2, <2>9
    <3> QED
      BY <2>6, <2>7, <3>1, <3>2, Zenon DEF Map!INCRBY
  <2> QED
    BY <2>8, <2>9
<1> QED
  BY <1>5, <1>6

\* DEL counts what is live and what is stale.
LEMMA DelRefines ==
  ASSUME IInv, NEW K \in SUBSET Keys \ {{}}, DEL(K)
  PROVE  Map!DEL(K)
<1>1. db \in DB /\ liveMap = LiveMap(db, now) /\ staleKeys = Stale(db, now)
  BY DEF IInv, TypeOK, liveMap, LiveMap, staleKeys, Stale
<1>2. PICK n : n = Cardinality(K \cap Stored(db))
  OBVIOUS
<1>3. /\ Map!Reply("DEL", K, n)
      /\ liveMap' = LiveMap(DelKeys(db, K), now) /\ staleKeys' = Stale(DelKeys(db, K), now)
  <2>1. Run("DEL", K, [db |-> DelKeys(db, K), res |-> n])
    BY <1>2 DEF DEL, Delete
  <2> QED
    BY <2>1, RunStep
<1>4. /\ liveMap' = [k \in Keys |-> IF k \in K THEN None ELSE liveMap[k]]
      /\ staleKeys' = staleKeys \ K
  BY <1>1, <1>3, DelKeysMap DEF Without
<1>5. Map!Present(liveMap) \cup staleKeys = Stored(db)
  <2>1. \A k \in Keys : liveMap[k] # None <=> k \in Live(db, now)
    BY <1>1, LiveMapEntry
  <2>2. Live(db, now) \subseteq Keys /\ Live(db, now) \subseteq Stored(db)
    BY DEF Live, Stored
  <2>3. Map!Present(liveMap) = Live(db, now)
    BY <2>1, <2>2 DEF Map!Present
  <2> QED
    BY <1>1, <2>2, <2>3 DEF Stale
<1> QED
  BY <1>2, <1>3, <1>4, <1>5, MapCardinality, Zenon DEF Map!DEL

\* EXPIRE either is refused or moves the deadline.
LEMMA ExpireRefines ==
  ASSUME IInv, NEW k \in Keys, NEW seconds \in Seconds, NEW nx \in BOOLEAN, EXPIRE(k, seconds, nx)
  PROVE  Map!EXPIRE(k, seconds, nx)
<1> DEFINE out      == Expire(db, now, k, seconds, nx)
           deadline == now + seconds * TicksPerSecond
           refused  == liveMap[k] = None \/ (nx /\ liveMap[k].expires # None)
<1>1. /\ db \in DB /\ liveMap = LiveMap(db, now) /\ now \in Int /\ seconds \in Int
      /\ liveMap = [j \in Keys |-> liveMap[j]] /\ staleKeys = Stale(db, now)
  BY InputAssumption DEF IInv, TypeOK, liveMap, LiveMap, staleKeys, Stale
<1>2. PICK l : l = GetLive(db, now, k)
  OBVIOUS
<1>3. l \in DB /\ LiveMap(l, now) = liveMap /\ Stale(l, now) = staleKeys \ {k}
  BY <1>1, <1>2, GetLiveType, GetLiveMap
<1>4. /\ Map!Reply("EXPIRE", {k}, out.res)
      /\ liveMap' = LiveMap(out.db, now) /\ staleKeys' = Stale(out.db, now)
  BY RunStep DEF EXPIRE
<1>5. refused <=> k \notin Live(db, now) \/ (nx /\ db.data[k].expires # None)
  BY <1>1, LiveMapEntry
<1>6. CASE refused
  <2>1. out = [db |-> l, res |-> 0]
    BY <1>2, <1>5, <1>6 DEF Expire
  <2>2. liveMap' = liveMap /\ staleKeys' = staleKeys \ {k} /\ Map!Reply("EXPIRE", {k}, 0)
    BY <1>3, <1>4, <2>1
  <2> QED
    BY <1>6, <2>2, Zenon DEF Map!EXPIRE, Map!Read
<1>7. CASE ~refused
  <2>1. liveMap[k] # None /\ liveMap[k] = db.data[k] /\ db.data[k] \in Entry
    BY <1>1, <1>5, <1>7, LiveMapEntry, LiveEntry
  <2>2. PICK e : e = [value |-> liveMap[k].value, expires |-> deadline]
    OBVIOUS
  <2>3. e = [db.data[k] EXCEPT !.expires = deadline]
    BY <2>1, <2>2 DEF Entry
  <2>4. deadline \in Int
    BY <1>1, StoreAssumption
  <2>5. e \in Entry
    BY <2>1, <2>2, <2>4 DEF Entry, Deadline
  <2>6. out = [db |-> Assign(l, k, e), res |-> 1]
    BY <1>2, <1>5, <1>7, <2>3 DEF Expire
  <2>7. /\ Map!Reply("EXPIRE", {k}, 1) /\ liveMap' = Updated(liveMap, k, e, now)
        /\ staleKeys' = ((staleKeys \ {k}) \ {k}) \cup (IF IsExpired(e, now) THEN {k} ELSE {})
    BY <1>3, <1>4, <2>5, <2>6, AssignMap
  <2>8. IsExpired(e, now) <=> Map!Past(deadline)
    BY <1>1, <2>2, <2>4, StoreAssumption DEF IsExpired, Map!Past
  <2>9. liveMap' = [liveMap EXCEPT ![k] = IF Map!Past(deadline) THEN None
                                          ELSE [value |-> liveMap[k].value, expires |-> deadline]]
    BY <1>1, <2>2, <2>7, <2>8 DEF Updated
  <2>10. staleKeys' = staleKeys \cup (IF Map!Past(deadline) THEN {k} ELSE {})
    <3>1. k \notin staleKeys
      BY <1>1, <1>5, <1>7 DEF Stale
    <3> QED
      BY <2>7, <2>8, <3>1
  <2> QED
    BY <1>7, <2>7, <2>9, <2>10, Zenon DEF Map!EXPIRE
<1> QED
  BY <1>6, <1>7

\* The clock takes away what expires.
LEMMA TickRefines == IInv /\ Tick => Map!Tick
<1> SUFFICES ASSUME IInv, Tick PROVE Map!Tick
  OBVIOUS
<1> DEFINE gone == {k \in Map!Present(liveMap) : liveMap[k].expires # None /\ liveMap[k].expires <= now}
<1>1. db \in DB /\ now \in Nat /\ now' = now + 1 /\ db' = db /\ last' = last
  BY DEF IInv, TypeOK, Tick
<1>2. /\ liveMap = LiveMap(db, now) /\ liveMap' = LiveMap(db, now + 1)
      /\ staleKeys = Stale(db, now) /\ staleKeys' = Stale(db, now + 1)
  BY <1>1 DEF liveMap, LiveMap, staleKeys, Stale
<1>3. ASSUME NEW k \in Keys
      PROVE  k \in Live(db, now + 1) <=> k \in Live(db, now) /\ k \notin gone
  <2>1. CASE k \in Live(db, now)
    <3>1. liveMap[k] # None /\ liveMap[k] = db.data[k] /\ db.data[k].expires \in Int \cup {None}
      BY <1>1, <1>2, <2>1, LiveMapEntry, LiveEntry DEF Entry, Deadline
    <3>2. k \in Live(db, now + 1) <=> db.data[k].expires = None \/ now < db.data[k].expires
      BY <1>1, <2>1, <3>1 DEF Live, IsExpired
    <3>3. k \in gone <=> db.data[k].expires # None /\ db.data[k].expires <= now
      BY <3>1 DEF Map!Present
    <3> QED
      BY <1>1, <2>1, <3>1, <3>2, <3>3
  <2>2. CASE k \notin Live(db, now)
    <3>1. CASE db.data[k] = None
      BY <2>2, <3>1 DEF Live, Stored
    <3>2. CASE db.data[k] # None
      <4>1. db.data[k].expires \in Int \cup {None}
        BY <1>1, <3>2 DEF DB, Entry, Deadline
      <4>2. k \notin Live(db, now + 1)
        BY <1>1, <2>2, <3>2, <4>1 DEF Live, Stored, IsExpired
      <4> QED
        BY <2>2, <4>2
    <3> QED
      BY <3>1, <3>2
  <2> QED
    BY <2>1, <2>2
<1>4. gone \subseteq Live(db, now) /\ gone \subseteq Keys
  <2>1. \A k \in Keys : liveMap[k] # None => k \in Live(db, now)
    BY <1>1, <1>2, LiveMapEntry
  <2> QED
    BY <2>1 DEF Map!Present
<1> HIDE DEF gone
<1>5. liveMap' = [k \in Keys |-> IF k \in gone THEN None ELSE liveMap[k]]
  BY <1>2, <1>3, <1>4 DEF LiveMap
<1>6. staleKeys' = staleKeys \cup gone
  <2>1. Live(db, now) \subseteq Stored(db) /\ Stored(db) \subseteq Keys
    BY DEF Live, Stored
  <2> QED
    BY <1>2, <1>3, <1>4, <2>1 DEF Stale
<1> USE DEF gone
<1> QED
  BY <1>1, <1>5, <1>6, Zenon DEF Map!Tick

\* An emptied store is an empty map.
LEMMA EmptyMap == \A t : LiveMap(EmptyDB, t) = [k \in Keys |-> None] /\ Stale(EmptyDB, t) = {}
BY DEF LiveMap, Live, Stored, EmptyDB, Stale

\* FLUSHALL empties the map, and so does a restart.
LEMMA FlushRefines == (FLUSHALL => Map!FLUSHALL) /\ (Restart => Map!Restart)
<1>1. ASSUME FLUSHALL PROVE Map!FLUSHALL
  <2>1. /\ Map!Reply("FLUSHALL", {}, OK)
        /\ liveMap' = LiveMap(EmptyDB, now) /\ staleKeys' = Stale(EmptyDB, now)
    BY <1>1, RunStep DEF FLUSHALL, Flush
  <2> QED
    BY <2>1, EmptyMap, Zenon DEF Map!FLUSHALL, Map!Nothing
<1>2. ASSUME Restart PROVE Map!Restart
  <2>1. /\ liveMap' = LiveMap(EmptyDB, now) /\ staleKeys' = Stale(EmptyDB, now)
        /\ last' = NoCommand /\ now' = now
    BY <1>2 DEF Restart, liveMap, LiveMap, staleKeys, Stale
  <2> QED
    BY <2>1, EmptyMap, Zenon DEF Map!Restart, Map!Nothing, NoCommand, Map!NoCommand
<1> QED
  BY <1>1, <1>2

-----------------------------------------------------------------------------
(* Refinement                                                              *)

\* Every step of the store is a step of the map or shows nothing.
LEMMA MapStep == IInv /\ [Next]_vars => [Map!Next]_(Map!vars)
<1> SUFFICES ASSUME IInv, [Next]_vars PROVE Map!Next \/ UNCHANGED Map!vars
  OBVIOUS
<1>1. ASSUME NEW k \in Keys, KeyCommand(k) PROVE Map!Next
  <2>1. ASSUME NEW v \in InputValues, NEW ex \in Seconds \cup {None}, NEW px \in Millis \cup {None},
               SET(k, v, ex, px)
        PROVE  Map!Next
    BY <2>1, SetRefines, Zenon DEF Map!Next
  <2>2. CASE GET(k)
    BY <2>2, GetRefines, Zenon DEF Map!Next
  <2>3. ASSUME NEW amount \in Amounts, INCRBY(k, amount) PROVE Map!Next
    BY <2>3, IncrByRefines, Zenon DEF Map!Next
  <2>4. ASSUME NEW j \in Keys, EXISTS(j, k) PROVE Map!Next
    BY <2>4, ExistsRefines, Zenon DEF Map!Next
  <2>5. ASSUME NEW seconds \in Seconds, NEW nx \in BOOLEAN, EXPIRE(k, seconds, nx) PROVE Map!Next
    BY <2>5, ExpireRefines, Zenon DEF Map!Next
  <2>6. CASE TTL(k)
    BY <2>6, TtlRefines, Zenon DEF Map!Next
  <2> QED
    BY <1>1, <2>1, <2>2, <2>3, <2>4, <2>5, <2>6, Zenon DEF KeyCommand
<1>2. ASSUME NEW K \in SUBSET Keys \ {{}}, DEL(K) PROVE Map!Next
  BY <1>2, DelRefines, Zenon DEF Map!Next
<1>3. CASE DBSIZE
  BY <1>3, DbSizeRefines, Zenon DEF Map!Next
<1>4. CASE FLUSHALL \/ Restart
  BY <1>4, FlushRefines, Zenon DEF Map!Next
<1>5. CASE Tick
  BY <1>5, TickRefines, Zenon DEF Map!Next
<1>6. CASE UNCHANGED vars
  BY <1>6 DEF vars, Map!vars, liveMap, staleKeys, Live, Stored
<1> QED
  BY <1>1, <1>2, <1>3, <1>4, <1>5, <1>6, Zenon DEF Next

\* store.py as a whole: whatever the limit, the keys and the deadlines, its
\* clients see a map whose entries vanish on time and from which a write may
\* push out one other key.
THEOREM StoreImplementsMap == Spec => ImplementsMap
<1>1. Init => Map!Init
  BY EmptyMap, Zenon DEF Init, Map!Init, NoCommand, Map!NoCommand, liveMap, LiveMap,
     staleKeys, Stale
<1> QED
  BY <1>1, MapStep, Invariance, PTL DEF Spec, ImplementsMap, Map!Spec

-----------------------------------------------------------------------------
(* Deadlines                                                               *)

\* A write of the map under j changes no other key, except that it may lose it.
LEMMA WriteOthers ==
  ASSUME NEW j \in Keys, NEW e, Map!Write(j, e), NEW k \in Keys, liveMap'[k] # None
  PROVE  /\ k # j => liveMap'[k] = liveMap[k]
         /\ k = j => liveMap'[k] = e
<1>1. PICK lost \in SUBSET (Keys \ {j}) :
         liveMap' = [i \in Keys |-> IF i \in lost THEN None
                                    ELSE IF i # j THEN liveMap[i]
                                    ELSE IF Map!Past(e.expires) THEN None ELSE e]
  BY Zenon DEF Map!Write
<1> QED
  BY <1>1

\* Only SET and EXPIRE change the deadline of a key that is there before and after.
LEMMA DeadlineStep ==
  ASSUME IInv, [Next]_vars, NEW k \in Keys, liveMap[k] # None, liveMap'[k] # None,
         liveMap[k].expires # liveMap'[k].expires
  PROVE  \/ \E v \in InputValues, ex \in Seconds \cup {None}, px \in Millis \cup {None} :
              SET(k, v, ex, px)
         \/ \E seconds \in Seconds : EXPIRE(k, seconds, FALSE)
         \/ liveMap[k].expires = None /\ \E seconds \in Seconds : EXPIRE(k, seconds, TRUE)
<1>1. ASSUME NEW j \in Keys, NEW v \in InputValues, NEW ex \in Seconds \cup {None},
             NEW px \in Millis \cup {None}, SET(j, v, ex, px)
      PROVE  j = k
  <2>1. PICK e : Map!Write(j, e)
    BY <1>1, SetRefines, Zenon DEF Map!SET
  <2> QED
    BY <2>1, WriteOthers
<1>2. ASSUME NEW j \in Keys, NEW seconds \in Seconds, NEW nx \in BOOLEAN, EXPIRE(j, seconds, nx)
      PROVE  j = k /\ (nx = TRUE => liveMap[k].expires = None)
  <2> DEFINE deadline == now + seconds * TicksPerSecond
             moved    == IF Map!Past(deadline) THEN None
                         ELSE [value |-> liveMap[j].value, expires |-> deadline]
  <2>1. \/ liveMap' = liveMap
        \/ /\ ~(nx /\ liveMap[j].expires # None)
           /\ liveMap' = [liveMap EXCEPT ![j] = moved]
    BY <1>2, ExpireRefines, Zenon DEF Map!EXPIRE, Map!Read
  <2>2. j = k
    <3>1. DOMAIN liveMap = Keys
      BY DEF liveMap
    <3> HIDE DEF moved
    <3> QED
      BY <2>1, <3>1
  <2> QED
    BY <2>1, <2>2
<1>3. ASSUME NEW j \in Keys, NEW amount \in Amounts, INCRBY(j, amount) PROVE FALSE
  <2>1. \/ liveMap[j] = None /\ \E e : Map!Write(j, e)
        \/ /\ liveMap[j] # None
           /\ Map!Write(j, [value |-> liveMap[j].value + amount, expires |-> liveMap[j].expires])
        \/ liveMap' = liveMap
    BY <1>3, IncrByRefines, Zenon DEF Map!INCRBY, Map!Read
  <2>2. CASE liveMap[j] = None /\ \E e : Map!Write(j, e)
    BY <2>2, WriteOthers
  <2>3. CASE /\ liveMap[j] # None
             /\ Map!Write(j, [value |-> liveMap[j].value + amount, expires |-> liveMap[j].expires])
    <3>1. PICK e : e = [value |-> liveMap[j].value + amount, expires |-> liveMap[j].expires]
      OBVIOUS
    <3>2. Map!Write(j, e)
      BY <2>3, <3>1, Zenon
    <3> QED
      BY <3>1, <3>2, WriteOthers
  <2> QED
    BY <2>1, <2>2, <2>3
<1>4. ASSUME \/ \E j \in Keys : GET(j) \/ TTL(j) \/ \E i \in Keys : EXISTS(i, j)
             \/ DBSIZE
      PROVE  FALSE
  <2>1. liveMap' = liveMap
    BY <1>4, GetRefines, TtlRefines, ExistsRefines, DbSizeRefines, Zenon
       DEF Map!GET, Map!TTL, Map!EXISTS, Map!DBSIZE, Map!Read
  <2> QED
    BY <2>1
<1>5. ASSUME NEW K \in SUBSET Keys \ {{}}, DEL(K) PROVE FALSE
  <2>1. liveMap' = [j \in Keys |-> IF j \in K THEN None ELSE liveMap[j]]
    BY <1>5, DelRefines, Zenon DEF Map!DEL
  <2> QED
    BY <2>1
<1>6. ASSUME FLUSHALL \/ Restart PROVE FALSE
  <2>1. liveMap' = [j \in Keys |-> None]
    BY <1>6, FlushRefines, Zenon DEF Map!FLUSHALL, Map!Restart, Map!Nothing
  <2> QED
    BY <2>1
<1>7. ASSUME Tick PROVE FALSE
  <2>1. PICK gone : liveMap' = [j \in Keys |-> IF j \in gone THEN None ELSE liveMap[j]]
    BY <1>7, TickRefines, Zenon DEF Map!Tick
  <2> QED
    BY <2>1
<1>8. ASSUME UNCHANGED vars PROVE FALSE
  BY <1>8 DEF vars, liveMap, Live, Stored
<1>9. CASE \E j \in Keys, v \in InputValues, ex \in Seconds \cup {None}, px \in Millis \cup {None} :
             SET(j, v, ex, px)
  BY <1>1, <1>9, Zenon
<1>10. CASE \E j \in Keys, seconds \in Seconds, nx \in BOOLEAN : EXPIRE(j, seconds, nx)
  <2>1. PICK j \in Keys, seconds \in Seconds, nx \in BOOLEAN : EXPIRE(j, seconds, nx)
    BY <1>10, Zenon
  <2>2. j = k /\ (nx = TRUE => liveMap[k].expires = None)
    BY <1>2, <2>1
  <2>3. CASE nx = TRUE
    BY <2>1, <2>2, <2>3, Zenon
  <2>4. CASE nx = FALSE
    BY <2>1, <2>2, <2>4, Zenon
  <2> QED
    BY <2>3, <2>4, Zenon
<1> QED
  BY <1>3, <1>4, <1>5, <1>6, <1>7, <1>8, <1>9, <1>10, Zenon DEF Next, KeyCommand

\* The deadline of a key moves only when a SET or an EXPIRE of that key moves it.
THEOREM DeadlinesKept == Spec => DeadlineKept
<1> DEFINE Moved(k) == /\ k \in Live(db, now) /\ k \in Live(db, now)'
                       /\ db.data[k].expires # db.data[k].expires'
           Caused(k) == \/ \E v \in InputValues, ex \in Seconds \cup {None}, px \in Millis \cup {None} :
                             SET(k, v, ex, px)
                        \/ \E seconds \in Seconds : EXPIRE(k, seconds, FALSE)
                        \/ db.data[k].expires = None /\ \E seconds \in Seconds : EXPIRE(k, seconds, TRUE)
<1>1. IInv /\ IInv' /\ [Next]_vars => \A k \in Keys : Moved(k) => Caused(k)
  <2> SUFFICES ASSUME IInv, IInv', [Next]_vars, NEW k \in Keys, Moved(k)
               PROVE  Caused(k)
    BY Zenon
  <2>1. liveMap[k] = db.data[k] /\ liveMap'[k] = db'.data[k]
    BY DEF liveMap
  <2>2. liveMap[k] # None /\ liveMap'[k] # None /\ liveMap[k].expires # liveMap'[k].expires
    BY <2>1 DEF Live, Stored
  <2> HIDE DEF Moved
  <2> QED
    BY <2>1, <2>2, DeadlineStep, Zenon
<1> QED
  BY <1>1, Invariance, PTL DEF Spec, DeadlineKept

-----------------------------------------------------------------------------
(* What was used last                                                      *)

\* If k is stored, it stands at the end of the order.
IsLast(d, k) == k \in Stored(d) => d.before[k] = Stored(d) \ {k}

\* The only key of the last command stands at the end of the order.
LastUsedIsLast == \A k \in Keys : last.keys = {k} => IsLast(db, k)

\* Moving a key to the end puts it there.
LEMMA MoveToEndLast ==
  ASSUME NEW d \in DB, NEW k \in Keys
  PROVE  IsLast(MoveToEnd(d, k), k)
<1>1. Stored(MoveToEnd(d, k)) = Stored(d)
  BY DEF MoveToEnd, DB, Stored
<1>2. MoveToEnd(d, k).before[k] = Stored(d) \ {k}
  BY DEF MoveToEnd, DB
<1> QED
  BY <1>1, <1>2 DEF IsLast

\* Deleting keys does not bring another one behind the last.
LEMMA DelKeysLast ==
  ASSUME NEW d \in DB, NEW K, NEW k \in Keys, IsLast(d, k)
  PROVE  IsLast(DelKeys(d, K), k)
<1>1. Stored(DelKeys(d, K)) = Stored(d) \ K
  BY DEF DelKeys, Stored
<1>2. k \notin K => DelKeys(d, K).before[k] = d.before[k] \ K
  BY DEF DelKeys
<1> QED
  BY <1>1, <1>2 DEF IsLast

\* A lookup puts the key at the end, if it leaves it there at all.
LEMMA GetLiveLast ==
  ASSUME NEW d \in DB, NEW t, NEW k \in Keys
  PROVE  IsLast(GetLive(d, t, k), k)
<1>1. CASE k \in Live(d, t)
  BY <1>1, MoveToEndLast DEF GetLive
<1>2. CASE k \notin Live(d, t)
  <2>1. k \notin Stored(DelKeys(d, {k}))
    BY DEF DelKeys, Stored
  <2> QED
    BY <1>2, <2>1 DEF GetLive, IsLast
<1> QED
  BY <1>1, <1>2

\* So does a write.
LEMMA PutLast ==
  ASSUME NEW d \in DB, NEW k \in Keys, NEW e \in Entry
  PROVE  IsLast(Put(d, k, e), k)
<1>1. PICK w : w = Assign(d, k, e)
  OBVIOUS
<1>2. PICK x : x = MoveToEnd(w, k)
  OBVIOUS
<1>3. w \in DB
  BY <1>1 DEF Assign, DB
<1>4. x \in DB /\ IsLast(x, k)
  BY <1>2, <1>3, MoveToEndLast, MoveToEndType
<1>5. \E K : EvictIfNeeded(x) = DelKeys(x, K) \/ EvictIfNeeded(x) = x
  BY DEF EvictIfNeeded
<1>6. IsLast(EvictIfNeeded(x), k)
  BY <1>4, <1>5, DelKeysLast
<1> QED
  BY <1>1, <1>2, <1>6 DEF Put

\* Another entry for a stored key leaves the order as it is.
LEMMA AssignLast ==
  ASSUME NEW d \in DB, NEW k \in Keys, NEW e \in Entry, k \in Stored(d), IsLast(d, k)
  PROVE  IsLast(Assign(d, k, e), k)
<1>1. e # None
  BY StoreAssumption
<1>2. \A j \in Keys : Assign(d, k, e).data[j] = IF j = k THEN e ELSE d.data[j]
  BY DEF Assign
<1>3. Stored(Assign(d, k, e)) = Stored(d) /\ Assign(d, k, e).before = d.before
  BY <1>1, <1>2 DEF Stored, Assign
<1> QED
  BY <1>3 DEF IsLast

\* After every command that was given one key only, the key is the last one.
LEMMA LastUsedStep == IInv /\ LastUsedIsLast /\ [Next]_vars => LastUsedIsLast'
<1> SUFFICES ASSUME IInv, LastUsedIsLast, [Next]_vars, NEW k \in Keys, last'.keys = {k}
             PROVE  IsLast(db', k)
  BY DEF LastUsedIsLast, IsLast, Stored
<1>0. db \in DB /\ now \in Int
  BY DEF IInv, TypeOK
<1>1. ASSUME NEW j \in Keys, NEW v \in InputValues, NEW ex \in Seconds \cup {None},
             NEW px \in Millis \cup {None}, SET(j, v, ex, px)
      PROVE  IsLast(db', k)
  <2>1. ExpiresAt(now, ex, px) \in Deadline /\ v \in Value
    BY <1>0, StoreAssumption, InputAssumption DEF ExpiresAt, Deadline
  <2>2. PICK e : e = [value |-> v, expires |-> ExpiresAt(now, ex, px)]
    OBVIOUS
  <2>3. e \in Entry
    BY <2>1, <2>2 DEF Entry
  <2>4. db' = Put(db, j, e) /\ j = k
    BY <1>1, <2>2 DEF SET, Run, Set
  <2> QED
    BY <1>0, <2>3, <2>4, PutLast
<1>2. ASSUME NEW j \in Keys, GET(j) \/ TTL(j) PROVE IsLast(db', k)
  BY <1>0, <1>2, GetLiveLast DEF GET, TTL, Run, Get, Ttl
<1>3. ASSUME NEW j \in Keys, NEW amount \in Amounts, INCRBY(j, amount) PROVE IsLast(db', k)
  <2> DEFINE old == IF j \in Live(db, now) THEN db.data[j] ELSE [value |-> 0, expires |-> None]
             e   == [old EXCEPT !.value = old.value + amount]
  <2>1. PICK l : l = GetLive(db, now, j)
    OBVIOUS
  <2>2. l \in DB /\ IsLast(l, j) /\ amount \in Int
    BY <1>0, <2>1, GetLiveType, GetLiveLast, InputAssumption
  <2>3. j = k /\ db' = IncrBy(db, now, j, amount).db
    BY <1>3 DEF INCRBY, Run
  <2>4. CASE old.value \in Texts
    BY <2>1, <2>2, <2>3, <2>4 DEF IncrBy
  <2>5. CASE old.value \notin Texts
    <3>1. old \in Entry
      BY <1>0, LiveEntry DEF Entry, Value, Deadline
    <3>2. e \in Entry
      BY <2>2, <2>5, <3>1 DEF Entry, Value
    <3>3. db' = Put(l, j, e)
      BY <2>1, <2>3, <2>5 DEF IncrBy
    <3> HIDE DEF e
    <3> QED
      BY <2>2, <2>3, <3>2, <3>3, PutLast
  <2> QED
    BY <2>4, <2>5
<1>4. ASSUME NEW i \in Keys, NEW j \in Keys, EXISTS(i, j) PROVE IsLast(db', k)
  <2>1. j = k /\ db' = GetLive(GetLive(db, now, i), now, j)
    BY <1>4 DEF EXISTS, Run, Exists
  <2>2. GetLive(db, now, i) \in DB
    BY <1>0, GetLiveType
  <2> QED
    BY <2>1, <2>2, GetLiveLast
<1>5. ASSUME NEW j \in Keys, NEW seconds \in Seconds, NEW nx \in BOOLEAN, EXPIRE(j, seconds, nx)
      PROVE  IsLast(db', k)
  <2> DEFINE deadline == now + seconds * TicksPerSecond
             e        == [db.data[j] EXCEPT !.expires = deadline]
  <2>1. PICK l : l = GetLive(db, now, j)
    OBVIOUS
  <2>2. l \in DB /\ IsLast(l, j) /\ seconds \in Int
    BY <1>0, <2>1, GetLiveType, GetLiveLast, InputAssumption
  <2>3. j = k /\ db' = Expire(db, now, j, seconds, nx).db
    BY <1>5 DEF EXPIRE, Run
  <2>4. CASE j \notin Live(db, now) \/ (nx /\ db.data[j].expires # None)
    BY <2>1, <2>2, <2>3, <2>4 DEF Expire
  <2>5. CASE ~(j \notin Live(db, now) \/ (nx /\ db.data[j].expires # None))
    <3>1. db.data[j] \in Entry /\ deadline \in Int
      BY <1>0, <2>2, <2>5, LiveEntry, StoreAssumption
    <3>2. e \in Entry
      BY <3>1 DEF Entry, Deadline
    <3>3. j \in Stored(l)
      <4>1. l = MoveToEnd(db, j) /\ j \in Stored(db)
        BY <2>1, <2>5 DEF GetLive, Live
      <4>2. l.data = db.data
        BY <1>0, <4>1, MoveToEndMap
      <4> QED
        BY <4>1, <4>2 DEF Stored
    <3>4. db' = Assign(l, j, e)
      BY <2>1, <2>3, <2>5 DEF Expire
    <3> HIDE DEF e
    <3> QED
      BY <2>2, <2>3, <3>2, <3>3, <3>4, AssignLast
  <2> QED
    BY <2>4, <2>5
<1>6. ASSUME NEW K \in SUBSET Keys \ {{}}, DEL(K) PROVE IsLast(db', k)
  <2>1. K = {k} /\ db' = DelKeys(db, K)
    BY <1>6 DEF DEL, Run, Delete
  <2> QED
    BY <2>1 DEF DelKeys, Stored, IsLast
<1>7. ASSUME DBSIZE \/ FLUSHALL \/ Restart PROVE FALSE
  BY <1>7 DEF DBSIZE, FLUSHALL, Restart, Run, NoCommand
<1>8. ASSUME Tick \/ UNCHANGED vars PROVE IsLast(db', k)
  BY <1>8 DEF Tick, vars, LastUsedIsLast
<1> QED
  BY <1>1, <1>2, <1>3, <1>4, <1>5, <1>6, <1>7, <1>8, Zenon DEF Next, KeyCommand

-----------------------------------------------------------------------------
(* What a write may push out                                               *)

\* With room for two keys, a write pushes out neither its own key nor the one
\* that stood at the end, whatever else there is.
LEMMA LastSurvivesPut ==
  ASSUME NEW d \in DB, Good(d), MaxKeys >= 2, NEW j \in Keys, NEW e \in Entry,
         NEW k \in Stored(d), j # k, Stored(d) \ {j, k} \subseteq d.before[k]
  PROVE  k \in Stored(Put(d, j, e))
<1>1. PICK x : x = MoveToEnd(Assign(d, j, e), j)
  OBVIOUS
<1>2. k \in Keys /\ MaxKeys \in Nat
  BY StoreAssumption DEF Stored
<1>3. /\ x \in DB /\ IsOrdered(x) /\ Stored(x) = Stored(d) \cup {j}
      /\ x.before[k] = d.before[k] \ {j}
  <2>1. /\ x \in DB /\ IsOrdered(x) /\ Stored(x) = Stored(d) \cup {j}
        /\ x.before = [i \in Keys |-> IF i = j THEN Stored(d) \ {j} ELSE d.before[i] \ {j}]
    BY <1>1, WriteOrdered DEF Good
  <2> QED
    BY <1>2, <2>1
<1>4. PICK s : s = Cardinality(Stored(x)) - MaxKeys
  OBVIOUS
<1>5. /\ IsFiniteSet(Stored(d)) /\ Cardinality(Stored(d)) \in Nat /\ Cardinality(Stored(d)) <= MaxKeys
      /\ Cardinality(Stored(x)) \in Nat /\ IsFiniteSet(x.before[k]) /\ Cardinality(x.before[k]) \in Nat
  <2>1. Stored(d) \in SUBSET Keys /\ Stored(x) \in SUBSET Keys /\ x.before[k] \in SUBSET Keys
    BY <1>2, <1>3 DEF Stored, DB
  <2> QED
    BY <1>2, <2>1, KeysFinite DEF Good
<1>6. s \in Int /\ s <= 1
  <2>1. Cardinality(Stored(d) \cup {j})
        = IF j \in Stored(d) THEN Cardinality(Stored(d)) ELSE Cardinality(Stored(d)) + 1
    BY <1>5, FS_AddElement
  <2> QED
    BY <1>2, <1>3, <1>4, <1>5, <2>1
<1>7. ~(Cardinality(x.before[k]) < s)
  <2> SUFFICES ASSUME Cardinality(x.before[k]) < s PROVE FALSE
    OBVIOUS
  <2>1. s = 1 /\ Cardinality(x.before[k]) = 0
    BY <1>5, <1>6
  <2>2. x.before[k] = {}
    BY <1>5, <2>1, FS_EmptySet
  <2>3. Stored(x) = {j, k}
    BY <1>3, <2>2
  <2>4. Cardinality({j, k}) = 2
    <3>1. IsFiniteSet({j}) /\ Cardinality({j}) = 1
      BY FS_Singleton
    <3>2. Cardinality({j} \cup {k})
          = IF k \in {j} THEN Cardinality({j}) ELSE Cardinality({j}) + 1
      BY <3>1, FS_AddElement
    <3>3. {j} \cup {k} = {j, k}
      OBVIOUS
    <3> QED
      BY <3>1, <3>2, <3>3
  <2> QED
    BY <1>2, <1>4, <2>1, <2>3, <2>4
<1>8. EvictIfNeeded(x) = DelKeys(x, {i \in Stored(x) : Cardinality(x.before[i]) < s})
  BY <1>2, <1>4 DEF EvictIfNeeded
<1>9. PICK out : out = {i \in Stored(x) : Cardinality(x.before[i]) < s}
  OBVIOUS
<1>10. k \notin out /\ EvictIfNeeded(x) = DelKeys(x, out)
  BY <1>7, <1>8, <1>9
<1>11. Stored(DelKeys(x, out)) = Stored(x) \ out
  BY <1>3, DelKeysOrdered
<1> QED
  BY <1>1, <1>3, <1>10, <1>11 DEF Put

\* Nor does a write that looks its key up first.
LEMMA LastSurvivesLookup ==
  ASSUME NEW d \in DB, NEW t, NEW j \in Keys, NEW k \in Stored(d), j # k, IsLast(d, k)
  PROVE  /\ k \in Stored(GetLive(d, t, j))
         /\ Stored(GetLive(d, t, j)) \ {j, k} \subseteq GetLive(d, t, j).before[k]
<1>1. k \in Keys /\ d.before[k] = Stored(d) \ {k}
  BY DEF Stored, IsLast
<1>2. CASE j \in Live(d, t)
  <2>1. GetLive(d, t, j) = MoveToEnd(d, j)
    BY <1>2 DEF GetLive
  <2>2. Stored(MoveToEnd(d, j)) = Stored(d)
    BY DEF MoveToEnd, DB, Stored
  <2>3. MoveToEnd(d, j).before[k] = d.before[k] \ {j}
    BY <1>1 DEF MoveToEnd, DB
  <2> QED
    BY <1>1, <2>1, <2>2, <2>3
<1>3. CASE j \notin Live(d, t)
  <2>1. GetLive(d, t, j) = DelKeys(d, {j})
    BY <1>3 DEF GetLive
  <2>2. Stored(DelKeys(d, {j})) = Stored(d) \ {j}
    BY DEF DelKeys, Stored
  <2>3. DelKeys(d, {j}).before[k] = d.before[k] \ {j}
    BY <1>1 DEF DelKeys
  <2> QED
    BY <1>1, <2>1, <2>2, <2>3
<1> QED
  BY <1>2, <1>3

-----------------------------------------------------------------------------
(* What was used last survives a write                                     *)

\* A write to another key leaves the key used last in the store.
LEMMA SurvivalStep ==
  ASSUME IInv, LastUsedIsLast, [Next]_vars, NEW k \in last.keys, MaxKeys >= 2, k \in Stored(db),
         last.keys = {k}, last'.op \in {"SET", "INCRBY"}, last # last', k \notin last'.keys
  PROVE  k \in Stored(db')
<1>1. db \in DB /\ Good(db) /\ now \in Int /\ k \in Keys /\ IsLast(db, k)
  BY DEF IInv, TypeOK, LastUsedIsLast, Stored
<1>2. ASSUME NEW j \in Keys, NEW v \in InputValues, NEW ex \in Seconds \cup {None},
             NEW px \in Millis \cup {None}, SET(j, v, ex, px)
      PROVE  k \in Stored(db')
  <2>1. ExpiresAt(now, ex, px) \in Deadline /\ v \in Value
    BY <1>1, StoreAssumption, InputAssumption DEF ExpiresAt, Deadline
  <2>2. PICK e : e = [value |-> v, expires |-> ExpiresAt(now, ex, px)]
    OBVIOUS
  <2>3. e \in Entry
    BY <2>1, <2>2 DEF Entry
  <2>4. db' = Put(db, j, e) /\ j # k
    BY <1>2, <2>2 DEF SET, Run, Set
  <2>5. Stored(db) \ {j, k} \subseteq db.before[k]
    BY <1>1 DEF IsLast
  <2> QED
    BY <1>1, <2>3, <2>4, <2>5, LastSurvivesPut
<1>3. ASSUME NEW j \in Keys, NEW amount \in Amounts, INCRBY(j, amount) PROVE k \in Stored(db')
  <2> DEFINE old == IF j \in Live(db, now) THEN db.data[j] ELSE [value |-> 0, expires |-> None]
             e   == [old EXCEPT !.value = old.value + amount]
  <2>1. j # k /\ db' = IncrBy(db, now, j, amount).db
    BY <1>3 DEF INCRBY, Run
  <2>2. PICK l : l = GetLive(db, now, j)
    OBVIOUS
  <2>3. l \in DB /\ Good(l) /\ amount \in Int
    BY <1>1, <2>2, GetLiveType, GetLiveGood, InputAssumption
  <2>4. k \in Stored(l) /\ Stored(l) \ {j, k} \subseteq l.before[k]
    BY <1>1, <2>1, <2>2, LastSurvivesLookup
  <2>5. CASE old.value \in Texts
    BY <2>1, <2>2, <2>4, <2>5 DEF IncrBy
  <2>6. CASE old.value \notin Texts
    <3>1. old \in Entry
      BY <1>1, LiveEntry DEF Entry, Value, Deadline
    <3>2. e \in Entry
      BY <2>3, <2>6, <3>1 DEF Entry, Value
    <3>3. db' = Put(l, j, e)
      BY <2>1, <2>2, <2>6 DEF IncrBy
    <3> HIDE DEF e
    <3> QED
      BY <2>1, <2>3, <2>4, <3>2, <3>3, LastSurvivesPut
  <2> QED
    BY <2>5, <2>6
<1>4. ASSUME \/ \E j \in Keys : \/ GET(j) \/ TTL(j) \/ \E i \in Keys : EXISTS(i, j)
                               \/ \E seconds \in Seconds, nx \in BOOLEAN : EXPIRE(j, seconds, nx)
             \/ \E K \in SUBSET Keys \ {{}} : DEL(K)
             \/ DBSIZE \/ FLUSHALL \/ Restart
      PROVE  FALSE
  <2>1. last'.op \notin {"SET", "INCRBY"}
    BY <1>4 DEF GET, TTL, EXISTS, EXPIRE, DEL, DBSIZE, FLUSHALL, Restart, Run, NoCommand
  <2> QED
    BY <2>1
<1>5. ASSUME Tick \/ UNCHANGED vars PROVE FALSE
  BY <1>5 DEF Tick, vars
<1> QED
  BY <1>2, <1>3, <1>4, <1>5, Zenon DEF Next, KeyCommand

\* store.py:29, 50, 84: with room for two keys, whatever was read or written
\* last is never what a write to another key pushes out.
THEOREM LastUsedSurvives == Spec => RecentlyUsedSurvives
<1>1. Init => LastUsedIsLast
  BY DEF Init, LastUsedIsLast, NoCommand
<1>2. IInv /\ LastUsedIsLast /\ [Next]_vars
        => \A k \in last.keys :
             /\ MaxKeys >= 2 /\ k \in Stored(db)
             /\ last.keys = {k}
             /\ last'.op \in {"SET", "INCRBY"} /\ last # last' /\ k \notin last'.keys
             => k \in Stored(db)'
  BY SurvivalStep DEF Stored
<1> QED
  BY <1>1, <1>2, LastUsedStep, Invariance, PTL DEF Spec, RecentlyUsedSurvives
=============================================================================
