-------------------------- MODULE RateLimiterProofs --------------------------
(***************************************************************************)
(* Theorems about RateLimiter with a Redis that does not evict (MaxKeys =  *)
(* 0; that it loses counters is an action of its own).  First what the     *)
(* pipeline does to a store and what it answers, then the invariant: each  *)
(* counter holds what was sent until nobody needs it any more, and the     *)
(* admitted requests of a window are not more than those that were sent.   *)
(* The types and what X-RateLimit-Remaining promises need less: a counter  *)
(* holds at most what was sent, whatever Redis loses and however late it   *)
(* answers, and an answer that leaves something leaves room for a request. *)
(***************************************************************************)
EXTENDS RateLimiter, FiniteSetTheorems, TLAPS

\* Windows have a length.
LEMMA WindowLength == W \in Nat \ {0}
BY LimiterAssumption, StoreAssumption DEF W

\* A tick lies within its window.
LEMMA WithinWindow ==
  ASSUME NEW t \in Nat
  PROVE  /\ WindowOf(t) \in Nat
         /\ WindowOf(t) * W <= t
         /\ t < WindowOf(t) * W + W
BY WindowLength DEF WindowOf

\* The windows of ticks, and those before them, have keys.
LEMMA WindowTypes ==
  ASSUME NEW t \in Ticks
  PROVE  WindowOf(t) \in Windows /\ WindowOf(t) - 1 \in Windows
<1>1. LastTick \in Nat /\ t \in Nat /\ t <= LastTick
  BY LimiterAssumption DEF Ticks
<1>2. t \div W <= LastTick \div W
  BY <1>1, WindowLength
<1> QED
  BY <1>1, <1>2, WithinWindow, WindowLength DEF Windows, WindowOf

-----------------------------------------------------------------------------
(* The pipeline                                                            *)

\* The entry of a counter that has counted n requests.
Holds(e, n) == e # None /\ e.expires \in Int /\ e = [value |-> n, expires |-> e.expires]

\* The contents of a store, whatever its entries are.
IsStore(d) ==
  /\ d = [data |-> d.data, before |-> d.before]
  /\ d.data = [k \in Keys |-> d.data[k]]
  /\ d.before \in [Keys -> SUBSET Keys]

\* The order does not matter to the data.
LEMMA MoveToEndData ==
  ASSUME NEW d, IsStore(d), NEW k
  PROVE  IsStore(MoveToEnd(d, k)) /\ MoveToEnd(d, k).data = d.data
<1> DEFINE b == [j \in Keys |-> IF j = k THEN Stored(d) \ {k} ELSE d.before[j] \ {k}]
<1>1. MoveToEnd(d, k) = [d EXCEPT !.before = b]
  BY Zenon DEF MoveToEnd
<1>2. b \in [Keys -> SUBSET Keys]
  BY DEF IsStore, Stored
<1> HIDE DEF b
<1> QED
  BY <1>1, <1>2 DEF IsStore

\* Deleting keys leaves a store.
LEMMA DelKeysData ==
  ASSUME NEW d, IsStore(d), NEW K
  PROVE  /\ IsStore(DelKeys(d, K))
         /\ \A j \in Keys : DelKeys(d, K).data[j] = IF j \in K THEN None ELSE d.data[j]
BY DEF DelKeys, IsStore

\* Reading a key touches the data of no other, and its own only if it has expired.
LEMMA GetLiveData ==
  ASSUME NEW d, IsStore(d), NEW t, NEW k
  PROVE  /\ IsStore(GetLive(d, t, k))
         /\ \A j \in Keys : GetLive(d, t, k).data[j]
                              = IF j = k /\ k \notin Live(d, t) THEN None ELSE d.data[j]
<1>1. CASE k \in Live(d, t)
  <2>1. GetLive(d, t, k) = MoveToEnd(d, k)
    BY <1>1 DEF GetLive
  <2> QED
    BY <1>1, <2>1, MoveToEndData
<1>2. CASE k \notin Live(d, t)
  BY <1>2, DelKeysData DEF GetLive
<1> QED
  BY <1>1, <1>2

\* An assignment leaves a store.
LEMMA AssignData ==
  ASSUME NEW d, IsStore(d), NEW k, NEW e
  PROVE  /\ IsStore(Assign(d, k, e))
         /\ \A j \in Keys : Assign(d, k, e).data[j] = IF j = k THEN e ELSE d.data[j]
BY DEF Assign, IsStore

\* A write to an unlimited store changes the data of its key only.
LEMMA PutData ==
  ASSUME MaxKeys = 0, NEW d, IsStore(d), NEW k, NEW e
  PROVE  /\ IsStore(Put(d, k, e))
         /\ \A j \in Keys : Put(d, k, e).data[j] = IF j = k THEN e ELSE d.data[j]
<1> DEFINE x == Assign(d, k, e)
<1>1. IsStore(x) /\ \A j \in Keys : x.data[j] = IF j = k THEN e ELSE d.data[j]
  BY AssignData
<1> HIDE DEF x
<1>2. IsStore(MoveToEnd(x, k)) /\ MoveToEnd(x, k).data = x.data
  BY <1>1, MoveToEndData
<1>3. Put(d, k, e) = MoveToEnd(x, k)
  BY DEF Put, EvictIfNeeded, x
<1> QED
  BY <1>1, <1>2, <1>3

\* A counter is live until its deadline has passed.
LEMMA LiveCounter ==
  ASSUME NEW d, NEW t \in Int, NEW k \in Keys, d.data[k].expires \in Int, d.data[k] # None
  PROVE  k \in Live(d, t) <=> t <= d.data[k].expires
BY StoreAssumption DEF Live, Stored, IsExpired

\* INCR adds one to a counter that is live and keeps its deadline, and begins a
\* new one without a deadline otherwise.
LEMMA IncrData ==
  ASSUME MaxKeys = 0, NEW d, IsStore(d), NEW t \in Int, NEW k \in Keys, NEW n \in Int,
         d.data[k] = None \/ Holds(d.data[k], n)
  PROVE  LET out == IncrBy(d, t, k, 1)
             old == IF k \in Live(d, t) THEN d.data[k] ELSE [value |-> 0, expires |-> None]
         IN  /\ IsStore(out.db)
             /\ out.res = (IF k \in Live(d, t) THEN n ELSE 0) + 1
             /\ \A j \in Keys \ {k} : out.db.data[j] = d.data[j]
             /\ out.db.data[k] = [value |-> out.res, expires |-> old.expires]
<1> DEFINE live == GetLive(d, t, k)
           old  == IF k \in Live(d, t) THEN d.data[k] ELSE [value |-> 0, expires |-> None]
           m    == IF k \in Live(d, t) THEN n ELSE 0
           new  == [old EXCEPT !.value = old.value + 1]
<1>1. m \in Int /\ old = [value |-> m, expires |-> old.expires]
  BY DEF Holds, Live, Stored
<1> HIDE DEF old, m
<1>2. old.value = m /\ old.value \notin Texts
  BY <1>1, StoreAssumption
<1>3. new = [value |-> m + 1, expires |-> old.expires]
  BY <1>1
<1> HIDE DEF new
<1>4. IncrBy(d, t, k, 1) = [db |-> Put(live, k, new), res |-> m + 1]
  BY <1>2, Zenon DEF IncrBy, old, new
<1>5. IsStore(live) /\ \A j \in Keys \ {k} : live.data[j] = d.data[j]
  BY GetLiveData
<1> HIDE DEF live
<1>6. /\ IsStore(Put(live, k, new)) /\ Put(live, k, new).data[k] = new
      /\ \A j \in Keys \ {k} : Put(live, k, new).data[j] = live.data[j]
  BY <1>5, PutData
<1> QED
  BY <1>3, <1>4, <1>5, <1>6 DEF old, m

\* y is d but for the deadline of the counter k, which has counted n requests.
DeadlineSet(y, d, k, n, deadline) ==
  /\ IsStore(y)
  /\ \A j \in Keys \ {k} : y.data[j] = d.data[j]
  /\ y.data[k] = [value |-> n, expires |-> deadline]

\* EXPIRE NX gives a counter a deadline that has none.
LEMMA ExpireData ==
  ASSUME NEW d, IsStore(d), NEW t \in Int, NEW k \in Keys, NEW n \in Int, NEW seconds \in Int,
         NEW x, d.data[k] = [value |-> n, expires |-> x], x = None \/ (x \in Int /\ t <= x)
  PROVE  DeadlineSet(Expire(d, t, k, seconds, TRUE).db, d, k, n,
                     IF x = None THEN t + seconds * TicksPerSecond ELSE x)
<1> DEFINE live == GetLive(d, t, k)
           new  == [d.data[k] EXCEPT !.expires = t + seconds * TicksPerSecond]
<1>1. d.data[k] # None /\ d.data[k].expires = x
  <2>1. x \in Deadline /\ n \in Value
    BY DEF Deadline, Value
  <2>2. d.data[k] \in Entry
    BY <2>1 DEF Entry
  <2> QED
    BY <2>2, StoreAssumption
<1>2. k \in Live(d, t)
  BY <1>1, StoreAssumption DEF Live, Stored, IsExpired
<1>3. IsStore(live) /\ \A j \in Keys : live.data[j] = d.data[j]
  BY <1>2, GetLiveData
<1>4. new = [value |-> n, expires |-> t + seconds * TicksPerSecond]
  OBVIOUS
<1> HIDE DEF live, new
<1> DEFINE out == Expire(d, t, k, seconds, TRUE)
<1>5. ASSUME NEW y, NEW e, IsStore(y), out.db = y, y.data[k] = e,
             \A j \in Keys \ {k} : y.data[j] = d.data[j],
             e = [value |-> n, expires |-> IF x = None THEN t + seconds * TicksPerSecond ELSE x]
      PROVE  DeadlineSet(out.db, d, k, n, IF x = None THEN t + seconds * TicksPerSecond ELSE x)
  BY <1>5, Zenon DEF DeadlineSet
<1>6. CASE x = None
  <2> DEFINE y == Assign(live, k, new)
  <2>1. out.db = y
    <3>1. ~(k \notin Live(d, t) \/ (TRUE /\ d.data[k].expires # None))
      BY <1>1, <1>2, <1>6
    <3>2. out = [db |-> y, res |-> 1]
      BY <3>1, Zenon DEF Expire, live, new
    <3> HIDE DEF y, out
    <3> QED
      BY <3>2
  <2>2. /\ IsStore(y)
        /\ \A j \in Keys : y.data[j] = IF j = k THEN new ELSE live.data[j]
    BY <1>3, AssignData
  <2> HIDE DEF y, out
  <2>4. new = [value |-> n, expires |-> IF x = None THEN t + seconds * TicksPerSecond ELSE x]
    BY <1>4, <1>6
  <2>5. y.data[k] = new /\ \A j \in Keys \ {k} : y.data[j] = d.data[j]
    BY <1>3, <2>2
  <2> QED
    BY <1>5, <2>1, <2>2, <2>4, <2>5 DEF out
<1>7. CASE x # None
  <2>2. out.db = live
    <3>1. k \notin Live(d, t) \/ (TRUE /\ d.data[k].expires # None)
      BY <1>1, <1>7
    <3>2. out = [db |-> live, res |-> 0]
      BY <3>1, Zenon DEF Expire, live
    <3> HIDE DEF out
    <3> QED
      BY <3>2
  <2> HIDE DEF out
  <2>3. d.data[k] = [value |-> n, expires |-> IF x = None THEN t + seconds * TicksPerSecond ELSE x]
    BY <1>7
  <2>4. live.data[k] = d.data[k] /\ \A j \in Keys \ {k} : live.data[j] = d.data[j]
    BY <1>3
  <2> QED
    BY <1>3, <1>5, <2>2, <2>3, <2>4 DEF out
<1> QED
  BY <1>6, <1>7

\* What the pipeline reads, what it counts, and what it leaves: k and p are the
\* counters of the window and of the previous one, n and m what they hold.
LEMMA PipelineData ==
  ASSUME MaxKeys = 0, IsStore(db), now \in Int, NEW c, NEW w \in Int, NEW n \in Nat, NEW m \in Nat,
         <<c, w>> \in Keys, <<c, w - 1>> \in Keys,
         db.data[<<c, w>>] = None \/ Holds(db.data[<<c, w>>], n),
         db.data[<<c, w - 1>>] = None \/ Holds(db.data[<<c, w - 1>>], m)
  PROVE  LET out == Pipeline(c, w)
             k   == <<c, w>>
             p   == <<c, w - 1>>
         IN  /\ IsStore(out.db)
             /\ \A j \in Keys \ {k, p} : out.db.data[j] = db.data[j]
             /\ out.db.data[p] = IF p \in Live(db, now) THEN db.data[p] ELSE None
             /\ out.prev = IF p \in Live(db, now) THEN m ELSE 0
             /\ out.curr = (IF k \in Live(db, now) THEN n ELSE 0) + 1
             /\ out.db.data[k] = [value   |-> out.curr,
                                  expires |-> IF k \in Live(db, now) THEN db.data[k].expires
                                                                     ELSE now + 2 * W]
<1> DEFINE k      == <<c, w>>
           p      == <<c, w - 1>>
           get    == Get(db, now, p)
           incr   == IncrBy(get.db, now, k, 1)
           expire == Expire(incr.db, now, k, 2 * window, TRUE)
           x      == IF k \in Live(db, now) THEN db.data[k].expires ELSE None
           count  == (IF k \in Live(db, now) THEN n ELSE 0) + 1
<1>1. k # p /\ k \in Keys /\ p \in Keys
  <2>1. w # w - 1
    OBVIOUS
  <2> QED
    BY <2>1, Zenon
<1>2. Pipeline(c, w) = [db   |-> expire.db,
                        prev |-> IF get.res = None THEN 0 ELSE get.res,
                        curr |-> incr.res]
  BY Zenon DEF Pipeline
<1>3. /\ IsStore(get.db)
      /\ \A j \in Keys : get.db.data[j] = IF j = p /\ p \notin Live(db, now) THEN None ELSE db.data[j]
      /\ get.res = IF p \in Live(db, now) THEN db.data[p].value ELSE None
  BY GetLiveData DEF Get
<1> HIDE DEF k, p, get
<1>4. (IF get.res = None THEN 0 ELSE get.res) = IF p \in Live(db, now) THEN m ELSE 0
  <2>1. p \in Live(db, now) => db.data[p].value = m
    BY <1>1 DEF Live, Stored, Holds, p
  <2>2. m # None
    BY StoreAssumption
  <2> QED
    BY <1>3, <2>1, <2>2
<1>5. /\ get.db.data[k] = db.data[k] /\ (k \in Live(get.db, now) <=> k \in Live(db, now))
  <2>1. get.db.data[k] = db.data[k]
    BY <1>1, <1>3
  <2> QED
    BY <2>1 DEF Live, Stored
<1>6. /\ IsStore(incr.db) /\ incr.res = count
      /\ \A j \in Keys \ {k} : incr.db.data[j] = get.db.data[j]
      /\ incr.db.data[k] = [value |-> count, expires |-> x]
  <2>1. get.db.data[k] = None \/ Holds(get.db.data[k], n)
    BY <1>5 DEF k
  <2> DEFINE old == IF k \in Live(get.db, now) THEN get.db.data[k] ELSE [value |-> 0, expires |-> None]
  <2>2. old.expires = x
    BY <1>5
  <2>3. /\ IsStore(incr.db)
        /\ incr.res = (IF k \in Live(get.db, now) THEN n ELSE 0) + 1
        /\ \A j \in Keys \ {k} : incr.db.data[j] = get.db.data[j]
        /\ incr.db.data[k] = [value |-> incr.res, expires |-> old.expires]
    BY <1>1, <1>3, <2>1, IncrData
  <2> HIDE DEF incr, old, x
  <2> QED
    BY <1>5, <2>2, <2>3
<1>7. x = None \/ (x \in Int /\ now <= x)
  BY StoreAssumption DEF Live, Stored, IsExpired, Holds, k
<1> HIDE DEF incr, x, count
<1>8. count \in Int /\ 2 * window \in Int
  BY LimiterAssumption DEF count
<1>9. /\ IsStore(expire.db)
      /\ \A j \in Keys \ {k} : expire.db.data[j] = incr.db.data[j]
      /\ expire.db.data[k]
           = [value   |-> count,
              expires |-> IF x = None THEN now + (2 * window) * TicksPerSecond ELSE x]
  <2> DEFINE d       == incr.db
             seconds == 2 * window
  <2>1. /\ IsStore(d) /\ now \in Int /\ k \in Keys /\ count \in Int /\ seconds \in Int
        /\ d.data[k] = [value |-> count, expires |-> x]
        /\ x = None \/ (x \in Int /\ now <= x)
    BY <1>1, <1>6, <1>7, <1>8
  <2> HIDE DEF d, seconds
  <2> DEFINE e == Expire(d, now, k, seconds, TRUE)
  <2>2. /\ IsStore(e.db)
        /\ \A j \in Keys \ {k} : e.db.data[j] = d.data[j]
        /\ e.db.data[k] = [value   |-> count,
                           expires |-> IF x = None THEN now + seconds * TicksPerSecond ELSE x]
    <3>1. DeadlineSet(Expire(d, now, k, seconds, TRUE).db, d, k, count,
                      IF x = None THEN now + seconds * TicksPerSecond ELSE x)
      BY <2>1, ExpireData
    <3> QED
      BY <3>1, Zenon DEF DeadlineSet
  <2>3. e = expire
    BY DEF d, seconds
  <2> HIDE DEF e, expire
  <2> QED
    BY <2>2, <2>3 DEF d, seconds
<1>10. (2 * window) * TicksPerSecond = 2 * W
  BY LimiterAssumption, StoreAssumption DEF W
<1>11. x = None <=> k \notin Live(db, now)
  BY <1>1, StoreAssumption DEF x, Live, Stored, Holds, k
<1> HIDE DEF expire
<1> DEFINE out == Pipeline(c, w)
<1>12. out.db = expire.db /\ out.curr = count /\ out.prev = IF p \in Live(db, now) THEN m ELSE 0
  BY <1>2, <1>4, <1>6
<1> HIDE DEF out
<1>13. /\ IsStore(out.db)
       /\ \A j \in Keys \ {k, p} : out.db.data[j] = db.data[j]
       /\ out.db.data[p] = IF p \in Live(db, now) THEN db.data[p] ELSE None
  BY <1>1, <1>3, <1>6, <1>9, <1>12
<1>14. out.db.data[k] = [value   |-> out.curr,
                         expires |-> IF k \in Live(db, now) THEN db.data[k].expires ELSE now + 2 * W]
  BY <1>9, <1>10, <1>11, <1>12 DEF x
<1> QED
  BY <1>12, <1>13, <1>14 DEF out, k, p, count

-----------------------------------------------------------------------------
(* Arithmetic                                                              *)

\* The ticks of a window.
Span(w) == w * W .. w * W + W - 1

\* A tick is in no other window.
LEMMA WindowUnique ==
  ASSUME NEW t \in Nat, NEW w \in Int
  PROVE  t \in Span(w) <=> w = WindowOf(t)
<1> DEFINE q == WindowOf(t)
<1>1. q \in Nat /\ q * W <= t /\ t < q * W + W /\ W \in Nat \ {0}
  BY WithinWindow, WindowLength
<1> HIDE DEF q
<1>2. ASSUME NEW u \in Int, NEW v \in Int, u < v
      PROVE  u * W + W <= v * W
  <2> DEFINE e == v - u - 1
  <2>1. e \in Nat /\ v = u + 1 + e
    BY <1>2
  <2> HIDE DEF e
  <2>2. v * W = u * W + W + e * W
    BY <1>1, <2>1
  <2>3. e * W \in Nat
    BY <1>1, <2>1
  <2> QED
    BY <1>1, <2>2, <2>3
<1>3. t \in Span(w) <=> w * W <= t /\ t < w * W + W
  BY <1>1 DEF Span
<1>4. CASE w = q
  BY <1>1, <1>3, <1>4 DEF q
<1>5. CASE w < q
  BY <1>1, <1>2, <1>3, <1>5 DEF q
<1>6. CASE q < w
  BY <1>1, <1>2, <1>3, <1>6 DEF q
<1> QED
  BY <1>1, <1>4, <1>5, <1>6

\* Who is admitted was counted within the limit, and below it if anything was
\* counted in the previous window.
LEMMA AllowedBound ==
  ASSUME NEW prev \in Nat, NEW curr \in Nat, NEW t \in Nat, NEW counted,
         Answer(prev, curr, t, counted).allowed
  PROVE  curr <= limit /\ (prev > 0 => curr < limit)
<1> DEFINE rest == W - (t % W)
           free == limit * W - Estimated(prev, curr, t)
<1>1. free >= 0
  BY DEF Answer
<1>2. W \in Nat \ {0} /\ limit \in Nat /\ rest \in Nat \ {0}
  BY WindowLength, LimiterAssumption
<1>3. free = limit * W - (prev * rest + curr * W)
  BY DEF Estimated
<1> HIDE DEF rest, free
<1>4. prev * rest \in Nat /\ (prev > 0 => prev * rest > 0)
  BY <1>2
<1>5. curr * W <= limit * W /\ (prev > 0 => curr * W < limit * W)
  BY <1>1, <1>2, <1>3, <1>4
<1>6. CASE limit < curr
  <2> DEFINE e == curr - limit - 1
  <2>1. e \in Nat /\ curr = limit + 1 + e
    BY <1>2, <1>6
  <2> HIDE DEF e
  <2>2. curr * W = limit * W + W + e * W /\ e * W \in Nat
    BY <1>2, <2>1
  <2> QED
    BY <1>2, <1>5, <2>2
<1>7. CASE limit = curr
  BY <1>2, <1>5, <1>7
<1> QED
  BY <1>2, <1>6, <1>7

-----------------------------------------------------------------------------
(* The invariant                                                           *)

\* As much of the types as the proofs need.
Types ==
  /\ now \in Ticks
  /\ slot \in [Requests -> [client : Clients, t : Ticks] \cup {None}]
  /\ sent \in [Clients -> [Windows -> Nat]]
  /\ admitted \in [Clients -> [Ticks -> Nat]]
  /\ lost \in BOOLEAN
  /\ late \in BOOLEAN

\* A request waits for MaxDelay ticks at most.
Punctual ==
  \A r \in Requests : slot[r] # None => slot[r].t <= now /\ now <= slot[r].t + MaxDelay

\* A counter that is there is kept to the end of the next window, and one of n
\* requests is there and holds n up to then.
Kept(e, n, w, t) ==
  /\ n = 0 => e = None
  /\ e # None => w * W + 2 * W <= e.expires /\ \E v \in Nat : Holds(e, v)
  /\ n > 0 /\ t <= w * W + 2 * W => Holds(e, n)

Counters ==
  IsStore(db) /\ \A c \in Clients, w \in Windows : Kept(db.data[<<c, w>>], sent[c][w], w, now)

\* Admitted requests were counted.
WithinSent ==
  \A c \in Clients, w \in Windows :
    /\ IsFiniteSet(Passed(c, Span(w)))
    /\ Admitted(c, Span(w)) <= sent[c][w]
    /\ Admitted(c, Span(w)) <= limit

\* No request is counted later than its counter may expire.
InTime == MaxDelay <= W + 1 \/ ~late

LimitInv ==
  /\ Types
  /\ Punctual
  /\ ~lost => Counters
  /\ ~lost /\ InTime => WithinSent

\* The slots hold requests of clients.
LEMMA SlotTypes ==
  ASSUME Types, NEW r \in Requests, slot[r] # None
  PROVE  slot[r].client \in Clients /\ slot[r].t \in Ticks
BY DEF Types

\* Ticks are natural numbers and windows are integers; counters have keys.
LEMMA Numbers ==
  /\ Ticks \subseteq Nat
  /\ Windows \subseteq Int
  /\ \A c \in Clients, w \in Windows : <<c, w>> \in Keys
BY LimiterAssumption DEF Ticks, Windows

-----------------------------------------------------------------------------
(* Steps                                                                   *)

\* Nothing has been counted yet.
LEMMA InitLimit == Init => LimitInv
<1> SUFFICES ASSUME Init PROVE LimitInv
  OBVIOUS
<1>1. Types
  <2>1. now \in Ticks
    BY LimiterAssumption DEF Init, Ticks
  <2> QED
    BY <2>1 DEF Init, Types, NoneAdmitted
<1>2. Punctual
  BY DEF Init, Punctual
<1>3. Counters
  <2>1. IsStore(db) /\ \A k \in Keys : db.data[k] = None
    BY DEF Init, EmptyDB, IsStore
  <2>2. \A c \in Clients, w \in Windows : sent[c][w] = 0 /\ <<c, w>> \in Keys
    BY Numbers DEF Init
  <2> QED
    BY <2>1, <2>2 DEF Counters, Kept
<1>4. WithinSent
  <2> SUFFICES ASSUME NEW c \in Clients, NEW w \in Windows
               PROVE  /\ IsFiniteSet(Passed(c, Span(w)))
                      /\ Admitted(c, Span(w)) <= sent[c][w]
                      /\ Admitted(c, Span(w)) <= limit
    BY DEF WithinSent
  <2>1. \A t \in Ticks : admitted[c][t] = 0
    BY DEF Init, NoneAdmitted
  <2>2. Passed(c, Span(w)) = {}
    <3>1. \A t \in Ticks : {t} \X (1 .. admitted[c][t]) = {}
      BY <2>1
    <3> QED
      BY <3>1 DEF Passed
  <2>3. IsFiniteSet(Passed(c, Span(w))) /\ Admitted(c, Span(w)) = 0
    BY <2>2, FS_EmptySet DEF Admitted
  <2>4. sent[c][w] = 0
    BY DEF Init
  <2> QED
    BY <2>3, <2>4, LimiterAssumption
<1> QED
  BY <1>1, <1>2, <1>3, <1>4 DEF LimitInv

\* What a counter holds, or would hold.
LEMMA KeptValue ==
  ASSUME NEW e, NEW n \in Nat, NEW w, NEW t, Kept(e, n, w, t)
  PROVE  \E v \in Nat : /\ e = None \/ Holds(e, v)
                        /\ t <= w * W + 2 * W => v = n
<1>1. CASE n = 0
  BY <1>1 DEF Kept
<1>2. CASE n > 0 /\ t <= w * W + 2 * W
  BY <1>2 DEF Kept
<1>3. CASE ~(t <= w * W + 2 * W)
  <2>1. CASE e = None
    BY <1>3, <2>1
  <2>2. CASE e # None
    BY <1>3, <2>2 DEF Kept
  <2> QED
    BY <2>1, <2>2
<1> QED
  BY <1>1, <1>2, <1>3

\* The last requests of a window that are counted in time.
LEMMA InTimeStep ==
  ASSUME Types, Punctual, NEW r \in Requests, slot[r] # None, Executed(r), ~lost
  PROVE  /\ InTime' => InTime /\ now <= WindowOf(slot[r].t) * W + 2 * W
         /\ ~late' => ~late /\ now <= WindowOf(slot[r].t) * W + W
         /\ late' \in BOOLEAN
<1> DEFINE t == slot[r].t
           w == WindowOf(t)
<1>1. /\ t \in Nat /\ now \in Nat /\ now <= t + MaxDelay /\ MaxDelay \in Nat
      /\ w \in Int /\ w * W <= t /\ t < w * W + W
  <2>1. t \in Nat /\ now \in Nat
    BY SlotTypes, Numbers DEF Types
  <2>2. now <= t + MaxDelay /\ MaxDelay \in Nat
    BY LimiterAssumption DEF Punctual
  <2>3. w \in Int /\ w * W <= t /\ t < w * W + W
    BY <2>1, WithinWindow
  <2> QED
    BY <2>1, <2>2, <2>3
<1>2. late' = (~lost /\ (late \/ now > (w + 1) * W))
  BY Zenon DEF Executed
<1>3. W \in Nat \ {0}
  BY WindowLength
<1> HIDE DEF t, w
<1>4. (w + 1) * W = w * W + W /\ w * W \in Int
  BY <1>1, <1>3
<1> DEFINE x == now > w * W + W
<1>5. x \in BOOLEAN
  OBVIOUS
<1>9. late' = (late \/ x)
  BY <1>2, <1>4
<1> HIDE DEF x
<1>6. ASSUME ~late' PROVE ~late /\ now <= w * W + W
  <2>1. ~late /\ ~x
    BY <1>6, <1>9, Zenon
  <2> QED
    BY <1>1, <1>3, <1>4, <2>1 DEF x
<1>7. ASSUME InTime' PROVE InTime /\ now <= w * W + 2 * W
  <2>1. CASE MaxDelay <= W + 1
    BY <1>1, <1>3, <1>4, <2>1 DEF InTime
  <2>2. CASE ~(MaxDelay <= W + 1)
    <3>1. ~late'
      BY <1>7, <2>2 DEF InTime, W
    <3> QED
      BY <1>1, <1>3, <1>4, <1>6, <3>1 DEF InTime
  <2> QED
    BY <2>1, <2>2
<1>8. late' \in BOOLEAN
  BY <1>5, <1>9 DEF Types
<1> QED
  BY <1>6, <1>7, <1>8 DEF t, w

\* What Redis answers to a request is what has been counted, if it answers not
\* too late.
LEMMA ExecutedCounts ==
  ASSUME MaxKeys = 0, Types, Punctual, Counters,
         NEW r \in Requests, slot[r] # None, Executed(r)
  PROVE  LET c == slot[r].client
             w == WindowOf(slot[r].t)
         IN  /\ Counters'
             /\ Pipeline(c, w).curr \in Nat
             /\ now <= w * W + 2 * W => Pipeline(c, w).curr = sent[c][w] + 1
             /\ Pipeline(c, w).prev \in Nat
             /\ now <= w * W + W => Pipeline(c, w).prev = sent[c][w - 1]
<1> DEFINE c == slot[r].client
           t == slot[r].t
           w == WindowOf(t)
           k == <<c, w>>
           p == <<c, w - 1>>
           out == Pipeline(c, w)
<1>1. /\ c \in Clients /\ t \in Ticks /\ t \in Nat /\ now \in Nat /\ t <= now
      /\ w \in Windows /\ w - 1 \in Windows /\ w \in Int
      /\ w * W <= t /\ t < w * W + W
  BY SlotTypes, Numbers, WindowTypes, WithinWindow DEF Types, Punctual
<1>2. /\ db' = out.db
      /\ sent' = [sent EXCEPT ![c][w] = @ + 1]
      /\ now' = now
  BY Zenon DEF Executed
<1> HIDE DEF c, t, w
<1>3. k \in Keys /\ p \in Keys /\ k # p
  <2>1. w # w - 1
    BY <1>1
  <2> QED
    BY <1>1, <2>1, Numbers
<1> DEFINE n == sent[c][w]
           m == sent[c][w - 1]
<1>4. /\ n \in Nat /\ m \in Nat
      /\ Kept(db.data[k], n, w, now) /\ Kept(db.data[p], m, w - 1, now) /\ IsStore(db)
  BY <1>1 DEF Types, Counters
<1> HIDE DEF n, m
<1>15. PICK x \in Nat : /\ db.data[k] = None \/ Holds(db.data[k], x)
                        /\ now <= w * W + 2 * W => x = n
  BY <1>4, KeptValue
<1>16. PICK y \in Nat : /\ db.data[p] = None \/ Holds(db.data[p], y)
                        /\ now <= (w - 1) * W + 2 * W => y = m
  BY <1>4, KeptValue
<1>5. /\ IsStore(out.db)
      /\ \A j \in Keys \ {k, p} : out.db.data[j] = db.data[j]
      /\ out.db.data[p] = IF p \in Live(db, now) THEN db.data[p] ELSE None
      /\ out.prev = IF p \in Live(db, now) THEN y ELSE 0
      /\ out.curr = (IF k \in Live(db, now) THEN x ELSE 0) + 1
      /\ out.db.data[k] = [value   |-> out.curr,
                           expires |-> IF k \in Live(db, now) THEN db.data[k].expires
                                                              ELSE now + 2 * W]
  <2>1. now \in Int
    BY <1>1
  <2> QED
    BY <1>1, <1>3, <1>4, <1>15, <1>16, <2>1, PipelineData
<1> HIDE DEF k, p, out
<1>6. W \in Nat /\ w * W \in Int /\ (w - 1) * W \in Int /\ (w - 1) * W = w * W - W
  BY <1>1, WindowLength
<1>7. now <= w * W + 2 * W /\ k \notin Live(db, now) => n = 0
  <2> SUFFICES ASSUME n > 0, now <= w * W + 2 * W PROVE k \in Live(db, now)
    BY <1>4
  <2>1. now <= w * W + 2 * W
    OBVIOUS
  <2>2. Holds(db.data[k], n) /\ w * W + 2 * W <= db.data[k].expires
    BY <1>4, <2>1 DEF Kept, Holds
  <2> QED
    BY <1>1, <1>3, <1>6, <2>1, <2>2, LiveCounter DEF Holds
<1>8. out.curr \in Nat /\ out.prev \in Nat
  BY <1>5
<1>17. now <= w * W + 2 * W => out.curr = n + 1
  BY <1>4, <1>5, <1>7, <1>15
<1>9. ASSUME now <= w * W + W, p \notin Live(db, now) PROVE m = 0
  <2> SUFFICES ASSUME m > 0 PROVE p \in Live(db, now)
    BY <1>4, <1>9
  <2>2. now <= (w - 1) * W + 2 * W
    BY <1>1, <1>6, <1>9
  <2>3. Holds(db.data[p], m) /\ (w - 1) * W + 2 * W <= db.data[p].expires
    BY <1>4, <2>2 DEF Kept, Holds
  <2> QED
    BY <1>1, <1>3, <1>6, <2>2, <2>3, LiveCounter DEF Holds
<1>10. now <= w * W + W => out.prev = m
  <2>1. now <= w * W + W => now <= (w - 1) * W + 2 * W
    BY <1>1, <1>6
  <2> QED
    BY <1>5, <1>9, <1>16, <2>1
<1>11. Kept(out.db.data[k], n + 1, w, now)
  <2> DEFINE e == out.db.data[k]
             u == IF k \in Live(db, now) THEN db.data[k].expires ELSE now + 2 * W
             v == out.curr
  <2>1. e = [value |-> v, expires |-> u]
    BY <1>5
  <2>2. u \in Int /\ w * W + 2 * W <= u
    <3>1. CASE k \in Live(db, now)
      BY <1>3, <1>4, <3>1 DEF Live, Stored, Kept, Holds
    <3>2. CASE k \notin Live(db, now)
      BY <1>1, <1>6, <3>2
    <3> QED
      BY <3>1, <3>2
  <2>6. v \in Nat /\ (now <= w * W + 2 * W => v = n + 1)
    BY <1>8, <1>17
  <2> HIDE DEF e, u, v
  <2>3. e # None
    <3>1. u \in Deadline /\ v \in Value
      BY <2>2, <2>6 DEF Deadline, Value
    <3>2. e \in Entry
      BY <2>1, <3>1 DEF Entry
    <3> QED
      BY <3>2, StoreAssumption
  <2>4. e.expires = u
    BY <2>1
  <2>7. Holds(e, v)
    BY <2>1, <2>2, <2>3, <2>4 DEF Holds
  <2>5. Kept(e, n + 1, w, now)
    <3>1. n + 1 # 0
      BY <1>4
    <3> QED
      BY <2>2, <2>4, <2>6, <2>7, <3>1 DEF Kept
  <2> QED
    BY <2>5 DEF e
<1>12. Kept(out.db.data[p], m, w - 1, now)
  <2>1. CASE p \in Live(db, now)
    BY <1>4, <1>5, <2>1
  <2>2. CASE p \notin Live(db, now)
    <3>1. out.db.data[p] = None
      BY <1>5, <2>2
    <3>2. ASSUME m > 0, now <= (w - 1) * W + 2 * W PROVE FALSE
      <4>1. Holds(db.data[p], m) /\ (w - 1) * W + 2 * W <= db.data[p].expires
        BY <1>4, <3>2 DEF Kept, Holds
      <4> QED
        BY <1>1, <1>3, <1>6, <2>2, <3>2, <4>1, LiveCounter DEF Holds
    <3> QED
      BY <3>1, <3>2 DEF Kept
  <2> QED
    BY <2>1, <2>2
<1>13. ASSUME NEW d \in Clients, NEW v \in Windows
       PROVE  Kept(out.db.data[<<d, v>>], sent'[d][v], v, now)
  <2>1. CASE d = c /\ v = w
    <3>1. sent'[d][v] = n + 1
      BY <1>1, <1>2, <2>1 DEF Types, n
    <3> QED
      BY <1>11, <2>1, <3>1 DEF k
  <2>2. CASE d = c /\ v = w - 1
    <3>1. sent'[d][v] = m
      BY <1>1, <1>2, <2>2 DEF Types, m
    <3> QED
      BY <1>12, <2>2, <3>1 DEF p
  <2>3. CASE ~(d = c /\ v = w) /\ ~(d = c /\ v = w - 1)
    <3>1. <<d, v>> \in Keys \ {k, p}
      BY <2>3, Numbers DEF k, p
    <3>2. sent'[d][v] = sent[d][v]
      BY <1>1, <1>2, <2>3 DEF Types
    <3> QED
      BY <1>5, <3>1, <3>2 DEF Counters
  <2> QED
    BY <2>1, <2>2, <2>3
<1>14. Counters'
  BY <1>2, <1>5, <1>13 DEF Counters
<1> QED
  BY <1>8, <1>14, <1>10, <1>17 DEF out, n, m, c, w, t

\* The requests that Passed gathers, one by one.
LEMMA PassedMember ==
  ASSUME NEW c, NEW T, NEW x
  PROVE  x \in Passed(c, T)
           <=> \E t \in T \cap Ticks : \E i \in 1 .. admitted[c][t] : x = <<t, i>>
<1>1. ASSUME NEW t PROVE x \in {t} \X (1 .. admitted[c][t])
                           <=> \E i \in 1 .. admitted[c][t] : x = <<t, i>>
  OBVIOUS
<1> QED
  BY <1>1 DEF Passed

\* One more request of a client that started at t is admitted.
AdmitOne(c, t) == admitted' = [admitted EXCEPT ![c][t] = @ + 1]

\* One more request is admitted: it is new to its window, and in no other.
LEMMA PassedGrows ==
  ASSUME Types, NEW c \in Clients, NEW t \in Ticks, NEW d \in Clients, NEW w \in Windows,
         AdmitOne(c, t)
  PROVE  LET x == <<t, admitted[c][t] + 1>>
         IN  /\ x \notin Passed(c, Span(w))
             /\ Passed(d, Span(w))' = IF d = c /\ w = WindowOf(t)
                                      THEN Passed(d, Span(w)) \cup {x} ELSE Passed(d, Span(w))
<1> DEFINE a == admitted[c][t]
           x == <<t, a + 1>>
<1>1. a \in Nat /\ t \in Nat /\ w \in Int
  BY Numbers DEF Types
<1>2. x \notin Passed(c, Span(w))
  <2>1. ASSUME NEW s \in Span(w) \cap Ticks, NEW i \in 1 .. admitted[c][s], x = <<s, i>> PROVE FALSE
    <3>1. s = t /\ i = a + 1
      BY <2>1
    <3> QED
      BY <1>1, <3>1
  <2> QED
    BY <2>1, PassedMember
<1>3. admitted'[d] = IF d = c THEN [admitted[c] EXCEPT ![t] = a + 1] ELSE admitted[d]
  BY DEF Types, AdmitOne
<1>4. \A s \in Ticks : admitted'[d][s] = IF d = c /\ s = t THEN a + 1 ELSE admitted[d][s]
  BY <1>3 DEF Types
<1>5. ASSUME NEW y
      PROVE  y \in Passed(d, Span(w))'
               <=> \E s \in Span(w) \cap Ticks : \E i \in 1 .. admitted'[d][s] : y = <<s, i>>
  <2>1. ASSUME NEW s PROVE y \in {s} \X (1 .. admitted'[d][s])
                             <=> \E i \in 1 .. admitted'[d][s] : y = <<s, i>>
    OBVIOUS
  <2> QED
    BY <2>1 DEF Passed, Span, W, Ticks
<1> HIDE DEF a
<1>6. t \in Span(w) <=> w = WindowOf(t)
  BY <1>1, WindowUnique
<1>7. ASSUME d = c, w = WindowOf(t), NEW y
      PROVE  y \in Passed(d, Span(w))' <=> y \in Passed(d, Span(w)) \/ y = x
  <2>1. ASSUME y \in Passed(d, Span(w))', y # x PROVE y \in Passed(d, Span(w))
    <3>1. PICK s \in Span(w) \cap Ticks : \E i \in 1 .. admitted'[d][s] : y = <<s, i>>
      BY <1>5, <2>1
    <3>2. PICK i \in 1 .. admitted'[d][s] : y = <<s, i>>
      BY <3>1
    <3>3. i \in 1 .. admitted[d][s]
      <4>1. CASE s = t
        <5>1. admitted'[d][s] = a + 1 /\ admitted[d][s] = a
          BY <1>4, <1>7, <4>1 DEF a
        <5>2. i # a + 1
          BY <2>1, <3>2, <4>1
        <5> QED
          BY <1>1, <5>1, <5>2
      <4>2. CASE s # t
        BY <1>4, <3>2, <4>2
      <4> QED
        BY <4>1, <4>2
    <3> QED
      BY <3>2, <3>3, PassedMember
  <2>2. ASSUME y \in Passed(d, Span(w)) PROVE y \in Passed(d, Span(w))'
    <3>1. PICK s \in Span(w) \cap Ticks : \E i \in 1 .. admitted[d][s] : y = <<s, i>>
      BY <2>2, PassedMember
    <3>2. PICK i \in 1 .. admitted[d][s] : y = <<s, i>>
      BY <3>1
    <3>3. i \in 1 .. admitted'[d][s]
      <4>1. admitted[d][s] \in Nat
        BY DEF Types
      <4>2. admitted'[d][s] = admitted[d][s] \/ admitted'[d][s] = admitted[d][s] + 1
        BY <1>4 DEF a
      <4> QED
        BY <3>2, <4>1, <4>2
    <3> QED
      BY <1>5, <3>2, <3>3
  <2>3. ASSUME y = x PROVE y \in Passed(d, Span(w))'
    <3>1. t \in Span(w) \cap Ticks /\ a + 1 \in 1 .. admitted'[d][t]
      BY <1>1, <1>4, <1>6, <1>7
    <3> QED
      BY <1>5, <2>3, <3>1
  <2> QED
    BY <2>1, <2>2, <2>3
<1>8. ASSUME ~(d = c /\ w = WindowOf(t)), NEW y
      PROVE  y \in Passed(d, Span(w))' <=> y \in Passed(d, Span(w))
  <2>1. \A s \in Span(w) \cap Ticks : admitted'[d][s] = admitted[d][s]
    BY <1>4, <1>6, <1>8
  <2> QED
    BY <1>5, <2>1, PassedMember
<1>9. Passed(d, Span(w))' = IF d = c /\ w = WindowOf(t)
                            THEN Passed(d, Span(w)) \cup {x} ELSE Passed(d, Span(w))
  BY <1>7, <1>8
<1> QED
  BY <1>2, <1>9 DEF a

\* A request is counted, and is admitted only if the limit leaves room for it.
LEMMA AdmissionCounted ==
  ASSUME Types, WithinSent, NEW c \in Clients, NEW t \in Ticks,
         sent' = [sent EXCEPT ![c][WindowOf(t)] = @ + 1],
         admitted' = admitted \/ (AdmitOne(c, t) /\ sent[c][WindowOf(t)] + 1 <= limit)
  PROVE  WithinSent'
<1>1. WindowOf(t) \in Windows /\ limit \in Nat
  BY WindowTypes, LimiterAssumption
<1> SUFFICES ASSUME NEW d \in Clients, NEW w \in Windows
             PROVE  /\ IsFiniteSet(Passed(d, Span(w))')
                    /\ Cardinality(Passed(d, Span(w))') <= sent'[d][w]
                    /\ Cardinality(Passed(d, Span(w))') <= limit
  BY DEF WithinSent, Admitted, Span, W, Windows
<1> DEFINE P == Passed(d, Span(w))
           Q == Passed(d, Span(w))'
<1>2. /\ IsFiniteSet(P) /\ Cardinality(P) \in Nat
      /\ Cardinality(P) <= sent[d][w] /\ Cardinality(P) <= limit
  BY FS_CardinalityType DEF WithinSent, Admitted
<1>3. /\ sent[d][w] \in Nat
      /\ sent'[d][w] = IF d = c /\ w = WindowOf(t) THEN sent[d][w] + 1 ELSE sent[d][w]
  BY <1>1 DEF Types
<1>4. CASE admitted' = admitted
  <2>1. Q = P
    BY <1>4 DEF Passed, Span, W, Ticks
  <2> QED
    BY <1>2, <1>3, <2>1
<1>5. CASE AdmitOne(c, t) /\ sent[c][WindowOf(t)] + 1 <= limit
  <2> DEFINE x == <<t, admitted[c][t] + 1>>
  <2>1. /\ x \notin Passed(c, Span(w))
        /\ Q = IF d = c /\ w = WindowOf(t) THEN P \cup {x} ELSE P
    BY <1>5, PassedGrows
  <2> HIDE DEF P, Q, x
  <2>2. CASE d = c /\ w = WindowOf(t)
    <3>1. IsFiniteSet(Q) /\ Cardinality(Q) = Cardinality(P) + 1
      BY <1>2, <2>1, <2>2, FS_AddElement DEF P
    <3> QED
      BY <1>1, <1>2, <1>3, <1>5, <2>2, <3>1 DEF Q
  <2>3. CASE ~(d = c /\ w = WindowOf(t))
    BY <1>2, <1>3, <2>1, <2>3 DEF Q
  <2> QED
    BY <2>2, <2>3
<1> QED
  BY <1>4, <1>5

\* A slot that is freed leaves the others as they were.
LEMMA SlotFreed ==
  ASSUME Types, Punctual, NEW r \in Requests, slot' = [slot EXCEPT ![r] = None], now' = now
  PROVE  /\ slot' \in [Requests -> [client : Clients, t : Ticks] \cup {None}]
         /\ Punctual'
BY DEF Types, Punctual

\* The history counts the requests of a window.
LEMMA SentTypes ==
  ASSUME Types, NEW c \in Clients, NEW w \in Windows, sent' = [sent EXCEPT ![c][w] = @ + 1]
  PROVE  sent' \in [Clients -> [Windows -> Nat]]
BY DEF Types

\* What is remembered of late requests.
LEMMA ExecutedLate ==
  ASSUME Types, NEW r \in Requests, Executed(r)
  PROVE  late' \in BOOLEAN
<1>1. \E x \in BOOLEAN : late' = (~lost /\ (late \/ x))
  <2> DEFINE x == now > (WindowOf(slot[r].t) + 1) * W
  <2>1. late' = (~lost /\ (late \/ x))
    BY Zenon DEF Executed
  <2>2. x \in BOOLEAN
    OBVIOUS
  <2> HIDE DEF x
  <2> QED
    BY <2>1, <2>2
<1> QED
  BY <1>1 DEF Types

\* Decide counts a request, and admits it only within the limit.
LEMMA DecideLimit ==
  ASSUME MaxKeys = 0, LimitInv, NEW r \in Requests, Decide(r)
  PROVE  LimitInv'
<1> DEFINE c == slot[r].client
           t == slot[r].t
           w == WindowOf(t)
           p == Pipeline(c, w)
           a == Answer(p.prev, p.curr, t, Counted(sent'[c]))
<1>1. /\ slot[r] # None /\ Executed(r)
      /\ admitted' = [admitted EXCEPT ![c][t] = IF a.allowed /\ ~lost THEN @ + 1 ELSE @]
  BY Zenon DEF Decide
<1>2. /\ sent' = [sent EXCEPT ![c][w] = @ + 1] /\ slot' = [slot EXCEPT ![r] = None]
      /\ now' = now /\ lost' = lost
  BY <1>1, Zenon DEF Executed
<1>3. Types /\ Punctual /\ (~lost => Counters) /\ (~lost /\ InTime => WithinSent)
  BY DEF LimitInv
<1>4. c \in Clients /\ t \in Ticks /\ t \in Nat /\ w \in Windows
  BY <1>1, <1>3, SlotTypes, WindowTypes, Numbers
<1>5. ASSUME ~lost
      PROVE  /\ Counters' /\ p.curr \in Nat /\ p.prev \in Nat
             /\ now <= w * W + 2 * W => p.curr = sent[c][w] + 1
  BY <1>1, <1>3, <1>5, ExecutedCounts
<1>10. ASSUME ~lost, InTime' PROVE InTime /\ now <= w * W + 2 * W
  BY <1>1, <1>3, <1>10, InTimeStep
<1>11. late' \in BOOLEAN
  BY <1>1, <1>3, ExecutedLate
<1> HIDE DEF c, t, w, p
<1>6. ASSUME a.allowed, ~lost, InTime' PROVE sent[c][w] + 1 <= limit
  <2>1. p.curr = sent[c][w] + 1
    BY <1>5, <1>6, <1>10
  <2> QED
    BY <1>4, <1>5, <1>6, <2>1, AllowedBound
<1> HIDE DEF a
<1>7. admitted' = admitted \/ (AdmitOne(c, t) /\ a.allowed /\ ~lost)
  <2>1. CASE a.allowed /\ ~lost
    BY <1>1, <2>1 DEF AdmitOne
  <2>2. CASE ~(a.allowed /\ ~lost)
    <3>1. admitted' = [admitted EXCEPT ![c][t] = @]
      BY <1>1, <2>2
    <3> QED
      BY <1>3, <1>4, <3>1 DEF Types
  <2> QED
    BY <2>1, <2>2
<1>8. Types' /\ Punctual'
  <2>1. admitted' \in [Clients -> [Ticks -> Nat]]
    <3>1. admitted \in [Clients -> [Ticks -> Nat]]
      BY <1>3 DEF Types
    <3> QED
      BY <1>4, <1>7, <3>1 DEF AdmitOne
  <2>2. sent' \in [Clients -> [Windows -> Nat]]
    BY <1>2, <1>3, <1>4, SentTypes
  <2>3. /\ slot' \in [Requests -> [client : Clients, t : Ticks] \cup {None}]
        /\ Punctual'
    BY <1>2, <1>3, SlotFreed
  <2> QED
    BY <1>2, <1>3, <1>11, <2>1, <2>2, <2>3 DEF Types, Ticks, Windows, W
<1>9. ASSUME ~lost, InTime' PROVE WithinSent'
  <2>1. admitted' = admitted \/ (AdmitOne(c, t) /\ sent[c][w] + 1 <= limit)
    BY <1>6, <1>7, <1>9
  <2>2. WithinSent
    BY <1>3, <1>9, <1>10
  <2> QED
    BY <1>2, <1>3, <1>4, <2>1, <2>2, AdmissionCounted DEF w
<1> QED
  BY <1>2, <1>5, <1>8, <1>9 DEF LimitInv

\* A request that fails was counted or not, and is not admitted.
LEMMA FailLimit ==
  ASSUME MaxKeys = 0, LimitInv, NEW r \in Requests, Fail(r)
  PROVE  LimitInv'
<1>1. slot[r] # None /\ UNCHANGED admitted
  BY DEF Fail
<1>2. Types /\ Punctual /\ (~lost => Counters) /\ (~lost /\ InTime => WithinSent)
  BY DEF LimitInv
<1>3. CASE Executed(r)
  <2> DEFINE c == slot[r].client
             t == slot[r].t
  <2>1. /\ sent' = [sent EXCEPT ![c][WindowOf(t)] = @ + 1] /\ slot' = [slot EXCEPT ![r] = None]
        /\ now' = now /\ lost' = lost
    BY <1>3, Zenon DEF Executed
  <2>2. c \in Clients /\ t \in Ticks /\ WindowOf(t) \in Windows
    BY <1>1, <1>2, SlotTypes, WindowTypes
  <2>3. ~lost => Counters'
    BY <1>1, <1>2, <1>3, ExecutedCounts
  <2>6. ~lost /\ InTime' => InTime
    BY <1>1, <1>2, <1>3, InTimeStep
  <2>7. late' \in BOOLEAN
    BY <1>2, <1>3, ExecutedLate
  <2> HIDE DEF c, t
  <2>4. ~lost /\ InTime' => WithinSent'
    BY <1>1, <1>2, <2>1, <2>2, <2>6, AdmissionCounted
  <2>5. Types' /\ Punctual'
    BY <1>1, <1>2, <2>1, <2>2, <2>7, SentTypes, SlotFreed DEF Types, Ticks, Windows, W
  <2> QED
    BY <2>1, <2>3, <2>4, <2>5 DEF LimitInv
<1>4. CASE slot' = [slot EXCEPT ![r] = None] /\ UNCHANGED <<db, now, sent, lost, overtaken, late>>
  <2>1. Types' /\ Punctual'
    BY <1>1, <1>2, <1>4, SlotFreed DEF Types, Ticks, Windows, W
  <2>2. Counters = Counters' /\ WithinSent = WithinSent'
    BY <1>1, <1>4 DEF Counters, WithinSent, Passed, Admitted, Span, W, Ticks, Windows, Kept,
                      Holds, IsStore
  <2> QED
    BY <1>2, <1>4, <2>1, <2>2 DEF LimitInv, InTime, W
<1> QED
  BY <1>3, <1>4 DEF Fail

\* A request that begins has waited for no time.
LEMMA StartLimit ==
  ASSUME LimitInv, NEW r \in Requests, NEW c \in Clients, Start(r, c)
  PROVE  LimitInv'
<1>1. /\ slot' = [slot EXCEPT ![r] = [client |-> c, t |-> now]]
      /\ UNCHANGED <<db, now, sent, admitted, lost, late>>
  BY DEF Start
<1>2. now \in Ticks /\ now \in Nat /\ MaxDelay \in Nat
  BY Numbers, LimiterAssumption DEF LimitInv, Types
<1>3. Types'
  BY <1>1, <1>2 DEF LimitInv, Types, Ticks, Windows, W
<1>4. Punctual'
  BY <1>1, <1>2 DEF LimitInv, Types, Punctual
<1>5. (Counters = Counters') /\ (WithinSent = WithinSent')
  BY <1>1 DEF Counters, WithinSent, Passed, Admitted, Span, W, Ticks, Windows, Kept, Holds, IsStore
<1> QED
  BY <1>1, <1>3, <1>4, <1>5 DEF LimitInv, InTime, W

\* The clock waits for requests that have waited for MaxDelay.
LEMMA TickLimit ==
  ASSUME LimitInv, Tick
  PROVE  LimitInv'
<1>1. /\ now' = now + 1 /\ now' \in Ticks
      /\ \A r \in Requests : slot[r] # None => now + 1 <= slot[r].t + MaxDelay
      /\ UNCHANGED <<db, slot, sent, admitted, lost, late>>
  BY DEF Tick
<1>2. now \in Nat
  BY Numbers DEF LimitInv, Types
<1>3. Types'
  BY <1>1 DEF LimitInv, Types, Ticks, Windows, W
<1>4. Punctual'
  <2>1. ASSUME NEW r \in Requests, slot[r] # None
        PROVE  slot[r].t <= now + 1 /\ now + 1 <= slot[r].t + MaxDelay
    <3>1. slot[r].t \in Nat /\ slot[r].t <= now
      BY <2>1, SlotTypes, Numbers DEF LimitInv, Punctual
    <3> QED
      BY <1>1, <1>2, <2>1, <3>1
  <2> QED
    BY <1>1, <2>1 DEF Punctual
<1>5. ASSUME Counters PROVE Counters'
  <2>1. ASSUME NEW e, NEW n, NEW w \in Int, Kept(e, n, w, now) PROVE Kept(e, n, w, now + 1)
    <3>1. w * W + 2 * W \in Int
      BY WindowLength
    <3> QED
      BY <1>2, <2>1, <3>1 DEF Kept
  <2>2. \A c \in Clients, w \in Windows : Kept(db.data[<<c, w>>], sent[c][w], w, now + 1)
    BY <1>5, <2>1, Numbers DEF Counters
  <2> QED
    BY <1>1, <1>5, <2>2 DEF Counters, IsStore, Kept, Holds, W, Windows
<1>6. WithinSent = WithinSent'
  BY <1>1 DEF WithinSent, Passed, Admitted, Span, W, Ticks, Windows
<1> QED
  BY <1>1, <1>3, <1>4, <1>5, <1>6 DEF LimitInv, InTime, W

\* When counters are lost, only the types and the slots matter.
LEMMA LoseLimit ==
  ASSUME LimitInv, NEW K, Lose(K)
  PROVE  LimitInv'
<1>1. lost' = TRUE /\ late' = FALSE /\ admitted' = NoneAdmitted /\ UNCHANGED <<now, slot, sent>>
  BY DEF Lose
<1>2. admitted' \in [Clients -> [Ticks -> Nat]]
  BY <1>1 DEF NoneAdmitted
<1>3. Types' /\ Punctual'
  BY <1>1, <1>2 DEF LimitInv, Types, Punctual, Ticks, Windows, W
<1> QED
  BY <1>1, <1>3 DEF LimitInv

\* The invariant is inductive, however late requests are counted.
LEMMA NextLimit ==
  ASSUME MaxKeys = 0, LimitInv, [Next]_vars
  PROVE  LimitInv'
<1>1. ASSUME NEW r \in Requests, NEW c \in Clients, Start(r, c) PROVE LimitInv'
  BY <1>1, StartLimit
<1>2. ASSUME NEW r \in Requests, Decide(r) PROVE LimitInv'
  BY <1>2, DecideLimit
<1>3. ASSUME NEW r \in Requests, Fail(r) PROVE LimitInv'
  BY <1>3, FailLimit
<1>4. CASE Tick
  BY <1>4, TickLimit
<1>5. CASE RedisRestart
  BY <1>5, LoseLimit DEF RedisRestart
<1>6. ASSUME NEW k \in Keys, Evicted(k) PROVE LimitInv'
  BY <1>6, LoseLimit DEF Evicted
<1>7. CASE UNCHANGED vars
  <2>1. Types' /\ Punctual'
    BY <1>7 DEF vars, LimitInv, Types, Punctual, Ticks, Windows, W
  <2>2. (Counters = Counters') /\ (WithinSent = WithinSent') /\ lost' = lost /\ late' = late
    BY <1>7 DEF vars, Counters, WithinSent, Passed, Admitted, Span, W, Ticks, Windows, Kept,
                Holds, IsStore
  <2> QED
    BY <2>1, <2>2 DEF LimitInv, InTime, W
<1> QED
  BY <1>1, <1>2, <1>3, <1>4, <1>5, <1>6, <1>7 DEF Next

-----------------------------------------------------------------------------
(* Two windows together                                                    *)

\* Nothing is counted for a window before it begins or, unless a request has been
\* overtaken, for a later window than that of a request which waits.
InTurn ==
  /\ overtaken \in BOOLEAN
  /\ \A c \in Clients, w \in Windows : sent[c][w] > 0 => w <= WindowOf(now)
  /\ ~lost /\ ~overtaken => \A r \in Requests : slot[r] # None =>
       \A c \in Clients, w \in Windows : sent[c][w] > 0 => w <= WindowOf(slot[r].t)

\* If a window is full the next one is not.
NoBurst ==
  \A c \in Clients, w \in Windows : w + 1 \in Windows =>
    Admitted(c, Span(w)) + Admitted(c, Span(w + 1)) < 2 * limit

BurstInv == LimitInv /\ InTurn /\ (~lost /\ ~overtaken /\ ~late => NoBurst)

\* Windows follow each other.
LEMMA WindowOrder ==
  ASSUME NEW s \in Nat, NEW t \in Nat, s <= t
  PROVE  WindowOf(s) <= WindowOf(t)
BY WindowLength DEF WindowOf

\* The number of admitted requests of a window changes with the admission of one of them.
LEMMA AdmittedSame ==
  ASSUME Types, NEW c \in Clients, NEW t \in Ticks, NEW d \in Clients, NEW v \in Windows,
         admitted' = admitted \/ AdmitOne(c, t), ~(d = c /\ v = WindowOf(t))
  PROVE  Admitted(d, Span(v))' = Admitted(d, Span(v))
<1>1. Passed(d, Span(v))' = Passed(d, Span(v))
  <2>1. CASE admitted' = admitted
    BY <2>1 DEF Passed, Span, W, Ticks
  <2>2. CASE AdmitOne(c, t)
    BY ZenonT(40), <2>2, PassedGrows
  <2> QED
    BY <2>1, <2>2
<1> QED
  BY <1>1 DEF Admitted

\* Bounds on the number of admitted requests.
LEMMA AdmittedBounds ==
  ASSUME WithinSent, NEW c \in Clients, NEW w \in Windows
  PROVE  /\ Admitted(c, Span(w)) \in Nat
         /\ Admitted(c, Span(w)) <= sent[c][w]
         /\ Admitted(c, Span(w)) <= limit
BY FS_CardinalityType DEF WithinSent, Admitted

\* A request is admitted while nothing is counted for the next window, and below
\* the limit if anything is for the previous one.
LEMMA BurstKept ==
  ASSUME Types, WithinSent, WithinSent', NoBurst, NEW c \in Clients, NEW t \in Ticks,
         sent' = [sent EXCEPT ![c][WindowOf(t)] = @ + 1],
         \/ admitted' = admitted
         \/ /\ AdmitOne(c, t)
            /\ sent[c][WindowOf(t) - 1] > 0 => sent[c][WindowOf(t)] + 1 < limit,
         \A v \in Windows : v > WindowOf(t) => sent[c][v] = 0
  PROVE  NoBurst'
<1> DEFINE w == WindowOf(t)
<1>1. w \in Windows /\ w - 1 \in Windows /\ w \in Int /\ limit \in Nat \ {0}
  BY WindowTypes, Numbers, LimiterAssumption
<1> SUFFICES ASSUME NEW d \in Clients, NEW v \in Windows, v + 1 \in Windows
             PROVE  Admitted(d, Span(v))' + Admitted(d, Span(v + 1))' < 2 * limit
  BY DEF NoBurst, Span, W, Windows
<1> DEFINE A  == Admitted(d, Span(v))
           B  == Admitted(d, Span(v + 1))
           A1 == Admitted(d, Span(v))'
           B1 == Admitted(d, Span(v + 1))'
<1>2. /\ A \in Nat /\ B \in Nat /\ A + B < 2 * limit
      /\ A <= limit /\ B <= limit /\ A <= sent[d][v] /\ B <= sent[d][v + 1]
  BY AdmittedBounds DEF NoBurst
<1>3. /\ A1 \in Nat /\ B1 \in Nat /\ A1 <= limit /\ B1 <= limit
      /\ A1 <= sent'[d][v] /\ B1 <= sent'[d][v + 1]
  <2>1. ASSUME NEW u \in Windows
        PROVE  /\ Admitted(d, Span(u))' \in Nat
               /\ Admitted(d, Span(u))' <= sent'[d][u]
               /\ Admitted(d, Span(u))' <= limit
    <3>1. /\ IsFiniteSet(Passed(d, Span(u))')
          /\ Cardinality(Passed(d, Span(u))') <= sent'[d][u]
          /\ Cardinality(Passed(d, Span(u))') <= limit
      BY DEF WithinSent, Admitted, Span, W, Windows
    <3> QED
      BY <3>1, FS_CardinalityType DEF Admitted
  <2> QED
    BY <2>1
<1>4. v \in Int /\ (admitted' = admitted \/ AdmitOne(c, t))
  BY Numbers
<1>5. ~(d = c /\ v = w) => A1 = A
  BY <1>4, AdmittedSame
<1>6. ~(d = c /\ v + 1 = w) => B1 = B
  BY <1>4, AdmittedSame
<1> HIDE DEF A, B, A1, B1
<1>7. CASE d = c /\ v = w
  <2>1. sent[d][v + 1] = 0
    <3>1. v + 1 > WindowOf(t)
      BY <1>1, <1>4, <1>7
    <3>2. sent[c][v + 1] = 0
      BY <3>1
    <3> QED
      BY <1>7, <3>2
  <2>2. B1 = B
    BY <1>1, <1>6, <1>7
  <2>3. B = 0
    BY <1>2, <2>1
  <2> QED
    BY <1>1, <1>3, <2>2, <2>3 DEF A1, B1
<1>8. CASE d = c /\ v + 1 = w
  <2>1. A1 = A /\ v = w - 1
    <3>1. v = w - 1 /\ v # w
      BY <1>1, <1>4, <1>8
    <3> QED
      BY <1>5, <3>1
  <2>2. CASE admitted' = admitted
    <3>1. Passed(d, Span(v + 1))' = Passed(d, Span(v + 1))
      BY <2>2 DEF Passed, Span, W, Ticks
    <3>2. B1 = B
      BY <3>1 DEF Admitted, B1, B
    <3> QED
      BY <1>2, <2>1, <3>2 DEF A1, B1
  <2>3. CASE sent[c][w - 1] > 0 => sent[c][w] + 1 < limit
    <3>1. sent'[d][v + 1] = sent[c][w] + 1 /\ sent[c][w] \in Nat
      BY <1>1, <1>8 DEF Types
    <3>2. CASE A = 0
      BY <1>1, <1>3, <2>1, <3>2 DEF A1, B1
    <3>3. CASE A # 0
      <4>1. sent[c][w - 1] > 0
        BY <1>1, <1>2, <1>8, <2>1, <3>3 DEF Types
      <4>2. B1 < limit
        BY <1>1, <1>3, <2>3, <3>1, <4>1
      <4> QED
        BY <1>1, <1>2, <1>3, <2>1, <4>2 DEF A1, B1
    <3> QED
      BY <3>2, <3>3
  <2> QED
    BY <2>2, <2>3
<1>9. CASE ~(d = c /\ v = w) /\ ~(d = c /\ v + 1 = w)
  BY <1>2, <1>5, <1>6, <1>9 DEF A1, B1
<1> QED
  BY <1>7, <1>8, <1>9

\* A request that Redis counts is one of a window that has begun, and is in the
\* latest window of all unless it overtakes another.
LEMMA ExecutedInTurn ==
  ASSUME Types, Punctual, InTurn, NEW r \in Requests, slot[r] # None, Executed(r)
  PROVE  /\ InTurn'
         /\ ~lost /\ ~overtaken =>
              \A v \in Windows : v > WindowOf(slot[r].t) => sent[slot[r].client][v] = 0
<1> DEFINE c == slot[r].client
           t == slot[r].t
           w == WindowOf(t)
<1>1. c \in Clients /\ t \in Ticks /\ t \in Nat /\ now \in Nat /\ t <= now /\ w \in Windows /\ w \in Int
  BY SlotTypes, WindowTypes, Numbers DEF Types, Punctual
<1>2. /\ sent' = [sent EXCEPT ![c][w] = @ + 1] /\ slot' = [slot EXCEPT ![r] = None] /\ now' = now
      /\ overtaken' = (~lost /\ (overtaken \/ \E o \in Requests : slot[o] # None /\ slot[o].t < t))
      /\ lost' = lost
  BY Zenon DEF Executed
<1>3. w <= WindowOf(now) /\ WindowOf(now) \in Int
  BY <1>1, WindowOrder, WithinWindow
<1>4. ASSUME ~lost, ~overtaken, NEW v \in Windows, v > w
      PROVE  sent[c][v] = 0
  <2>1. sent[c][v] > 0 => v <= w
    BY <1>1, <1>4 DEF InTurn
  <2>2. v \in Int /\ sent[c][v] \in Nat
    BY <1>1, Numbers DEF Types
  <2> QED
    BY <1>1, <1>4, <2>1, <2>2
<1> HIDE DEF c, t, w
<1>5. ASSUME NEW d \in Clients, NEW v \in Windows, sent'[d][v] > 0
      PROVE  sent[d][v] > 0 \/ v = w
  BY <1>1, <1>2, <1>5 DEF Types
<1>6. ASSUME NEW d \in Clients, NEW v \in Windows, sent'[d][v] > 0
      PROVE  v <= WindowOf(now)
  BY <1>3, <1>5, <1>6 DEF InTurn
<1>7. ASSUME ~lost', ~overtaken', NEW o \in Requests, slot'[o] # None,
             NEW d \in Clients, NEW v \in Windows, sent'[d][v] > 0
      PROVE  v <= WindowOf(slot'[o].t)
  <2>1. slot'[o] = slot[o] /\ slot[o] # None
    BY <1>2, <1>7 DEF Types
  <2>2. ~lost /\ ~overtaken /\ ~(slot[o].t < t)
    BY <1>2, <1>7, <2>1, Zenon
  <2>3. slot[o].t \in Nat
    BY <2>1, SlotTypes, Numbers
  <2>4. w <= WindowOf(slot[o].t)
    BY <1>1, <2>2, <2>3, WindowOrder DEF w
  <2> QED
    BY <1>5, <1>7, <2>1, <2>2, <2>4 DEF InTurn
<1>8. overtaken' \in BOOLEAN
  BY <1>2 DEF InTurn
<1>9. InTurn'
  <2>1. WindowOf(now)' = WindowOf(now)
    BY <1>2 DEF WindowOf, W
  <2>2. \A o \in Requests : WindowOf(slot[o].t)' = WindowOf(slot'[o].t)
    BY DEF WindowOf, W
  <2> QED
    BY <1>6, <1>7, <1>8, <2>1, <2>2 DEF InTurn, WindowOf, W, Windows
<1> QED
  BY <1>4, <1>9 DEF c, t, w

\* Decide admits a request only while the next window is empty, and only below
\* the limit if the previous one is not.
LEMMA DecideBurst ==
  ASSUME MaxKeys = 0, BurstInv, LimitInv', NEW r \in Requests, Decide(r)
  PROVE  BurstInv'
<1> DEFINE c == slot[r].client
           t == slot[r].t
           w == WindowOf(t)
           p == Pipeline(c, w)
           a == Answer(p.prev, p.curr, t, Counted(sent'[c]))
<1>1. /\ slot[r] # None /\ Executed(r)
      /\ admitted' = [admitted EXCEPT ![c][t] = IF a.allowed /\ ~lost THEN @ + 1 ELSE @]
  BY Zenon DEF Decide
<1>2. /\ sent' = [sent EXCEPT ![c][w] = @ + 1] /\ lost' = lost
      /\ overtaken' = (~lost /\ (overtaken \/ \E o \in Requests : slot[o] # None /\ slot[o].t < t))
  BY <1>1, Zenon DEF Executed
<1>3. Types /\ Punctual /\ InTurn /\ (~lost => Counters) /\ (~lost /\ InTime => WithinSent)
  BY DEF BurstInv, LimitInv
<1>4. c \in Clients /\ t \in Ticks /\ t \in Nat /\ w \in Windows /\ w - 1 \in Windows
  BY <1>1, <1>3, SlotTypes, WindowTypes, Numbers
<1>5. InTurn' /\ (~lost /\ ~overtaken => \A v \in Windows : v > w => sent[c][v] = 0)
  BY <1>1, <1>3, ExecutedInTurn
<1>6. ASSUME ~lost, ~late'
      PROVE  ~late /\ now <= w * W + W /\ now <= w * W + 2 * W
  <2>1. ~late /\ now <= w * W + W
    BY <1>1, <1>3, <1>6, InTimeStep
  <2>2. now \in Nat /\ w \in Int /\ W \in Nat
    BY <1>3, <1>4, Numbers, WindowLength DEF Types
  <2> HIDE DEF w
  <2>3. w * W \in Int
    BY <2>2
  <2>4. now <= w * W + 2 * W
    BY <2>1, <2>2, <2>3
  <2> QED
    BY <2>1, <2>4
<1>7. ASSUME ~lost, ~late'
      PROVE  p.curr = sent[c][w] + 1 /\ p.prev = sent[c][w - 1]
  BY <1>1, <1>3, <1>6, <1>7, ExecutedCounts
<1> HIDE DEF c, t, w, p
<1>8. ASSUME a.allowed, ~lost, ~late'
      PROVE  sent[c][w - 1] > 0 => sent[c][w] + 1 < limit
  <2>1. p.curr \in Nat /\ p.prev \in Nat
    BY <1>3, <1>4, <1>7, <1>8 DEF Types
  <2> QED
    BY <1>4, <1>7, <1>8, <2>1, AllowedBound
<1> HIDE DEF a
<1>9. admitted' = admitted \/ (AdmitOne(c, t) /\ a.allowed /\ ~lost)
  <2>1. CASE a.allowed /\ ~lost
    BY <1>1, <2>1 DEF AdmitOne
  <2>2. CASE ~(a.allowed /\ ~lost)
    <3>1. admitted' = [admitted EXCEPT ![c][t] = @]
      BY <1>1, <2>2
    <3> QED
      BY <1>3, <1>4, <3>1 DEF Types
  <2> QED
    BY <2>1, <2>2
<1>10. ASSUME ~lost', ~overtaken', ~late' PROVE NoBurst'
  <2>1. ~lost /\ ~overtaken
    BY <1>2, <1>10, Zenon
  <2>4. ~late
    BY <1>6, <1>10, <2>1
  <2>2. WithinSent /\ WithinSent' /\ NoBurst
    BY <1>3, <1>10, <2>1, <2>4 DEF BurstInv, LimitInv, InTime
  <2>3. \/ admitted' = admitted
        \/ AdmitOne(c, t) /\ (sent[c][w - 1] > 0 => sent[c][w] + 1 < limit)
    BY <1>8, <1>9, <1>10
  <2> QED
    BY <1>2, <1>3, <1>4, <1>5, <2>1, <2>2, <2>3, BurstKept DEF w
<1> QED
  BY <1>5, <1>10 DEF BurstInv

\* A request that is not admitted changes no count of admitted ones.
LEMMA BurstSame ==
  ASSUME admitted' = admitted
  PROVE  NoBurst = NoBurst'
BY DEF NoBurst, Passed, Admitted, Span, W, Ticks, Windows

\* The other steps admit nothing.
LEMMA NextBurst ==
  ASSUME MaxKeys = 0, BurstInv, LimitInv', [Next]_vars
  PROVE  BurstInv'
<1>1. Types /\ Punctual /\ InTurn /\ now \in Nat
  BY Numbers DEF BurstInv, LimitInv, Types
<1>2. ASSUME NEW r \in Requests, NEW c \in Clients, Start(r, c) PROVE BurstInv'
  <2>1. /\ slot' = [slot EXCEPT ![r] = [client |-> c, t |-> now]]
        /\ UNCHANGED <<now, sent, admitted, lost, overtaken, late>>
    BY <1>2 DEF Start
  <2>2. \A o \in Requests : slot'[o] = IF o = r THEN [client |-> c, t |-> now] ELSE slot[o]
    BY <1>1, <2>1 DEF Types
  <2>3. ASSUME ~lost, ~overtaken, NEW o \in Requests, slot'[o] # None,
               NEW d \in Clients, NEW w \in Windows, sent[d][w] > 0
        PROVE  w <= WindowOf(slot'[o].t)
    <3>1. CASE o = r
      BY <1>1, <2>2, <2>3, <3>1 DEF InTurn
    <3>2. CASE o # r
      BY <1>1, <2>2, <2>3, <3>2 DEF InTurn
    <3> QED
      BY <3>1, <3>2
  <2>4. InTurn'
    BY <1>1, <2>1, <2>3 DEF InTurn, WindowOf, W, Windows
  <2> QED
    BY <2>1, <2>4, BurstSame DEF BurstInv
<1>3. ASSUME NEW r \in Requests, Decide(r) PROVE BurstInv'
  BY <1>3, DecideBurst
<1>4. ASSUME NEW r \in Requests, Fail(r) PROVE BurstInv'
  <2>1. slot[r] # None /\ UNCHANGED admitted
    BY <1>4 DEF Fail
  <2>2. CASE Executed(r)
    <3>1. InTurn'
      BY <1>1, <2>1, <2>2, ExecutedInTurn
    <3>2. lost' = lost /\ (~lost /\ ~overtaken' => ~overtaken)
      BY <2>2, Zenon DEF Executed
    <3>3. ~lost /\ ~late' => ~late
      BY <1>1, <2>1, <2>2, InTimeStep
    <3> QED
      BY <2>1, <3>1, <3>2, <3>3, BurstSame DEF BurstInv
  <2>3. CASE slot' = [slot EXCEPT ![r] = None] /\ UNCHANGED <<db, now, sent, lost, overtaken, late>>
    <3>1. \A o \in Requests : slot'[o] # None => slot'[o] = slot[o]
      BY <1>1, <2>3 DEF Types
    <3>2. InTurn'
      BY <1>1, <2>3, <3>1 DEF InTurn, WindowOf, W, Windows
    <3> QED
      BY <2>1, <2>3, <3>2, BurstSame DEF BurstInv
  <2> QED
    BY <1>4, <2>2, <2>3 DEF Fail
<1>5. CASE Tick
  <2>1. now' = now + 1 /\ UNCHANGED <<slot, sent, admitted, lost, overtaken, late>>
    BY <1>5 DEF Tick
  <2>2. WindowOf(now) <= WindowOf(now + 1) /\ WindowOf(now) \in Int /\ WindowOf(now + 1) \in Int
    BY <1>1, WindowOrder, WithinWindow
  <2>3. ASSUME NEW d \in Clients, NEW w \in Windows, sent[d][w] > 0 PROVE w <= WindowOf(now + 1)
    BY <1>1, <2>2, <2>3, Numbers DEF InTurn
  <2>4. InTurn'
    BY <1>1, <2>1, <2>3 DEF InTurn, WindowOf, W, Windows
  <2> QED
    BY <2>1, <2>4, BurstSame DEF BurstInv
<1>6. ASSUME NEW K, Lose(K) PROVE BurstInv'
  <2>1. lost' = TRUE /\ overtaken' = FALSE /\ UNCHANGED <<now, slot, sent>>
    BY <1>6 DEF Lose
  <2>2. InTurn'
    BY <1>1, <2>1 DEF InTurn, WindowOf, W, Windows
  <2> QED
    BY <2>1, <2>2 DEF BurstInv
<1>7. CASE RedisRestart
  BY <1>6, <1>7 DEF RedisRestart
<1>8. ASSUME NEW k \in Keys, Evicted(k) PROVE BurstInv'
  BY <1>6, <1>8 DEF Evicted
<1>9. CASE UNCHANGED vars
  <2>1. UNCHANGED <<now, slot, sent, admitted, lost, overtaken, late>>
    BY <1>9 DEF vars
  <2>2. InTurn'
    BY <1>1, <2>1 DEF InTurn, WindowOf, W, Windows
  <2> QED
    BY <2>1, <2>2, BurstSame DEF BurstInv
<1> QED
  BY <1>2, <1>3, <1>4, <1>5, <1>7, <1>8, <1>9 DEF Next

\* A stretch of W ticks lies in two windows, which together admit less than twice the limit.
LEMMA BurstBound ==
  ASSUME BurstInv, ~lost, ~overtaken, ~late, NEW c \in Clients, NEW t \in Ticks
  PROVE  Admitted(c, t .. t + W - 1) < 2 * limit
<1> DEFINE w == WindowOf(t)
           T == t .. t + W - 1
           P == Passed(c, T)
           A == Passed(c, Span(w))
           B == Passed(c, Span(w + 1))
<1>1. /\ t \in Nat /\ w \in Windows /\ w \in Nat /\ w * W <= t /\ t < w * W + W
      /\ W \in Nat \ {0} /\ limit \in Nat \ {0} /\ w * W \in Nat
  BY WindowTypes, WithinWindow, WindowLength, Numbers, LimiterAssumption
<1>2. WithinSent /\ NoBurst
  BY DEF BurstInv, LimitInv, InTime
<1> HIDE DEF w
<1>3. ASSUME NEW s \in T \cap Ticks, s \notin Span(w)
      PROVE  s \in Span(w + 1) /\ w + 1 \in Windows
  <2>1. s \in Nat /\ t <= s /\ s < t + W
    BY <1>1, <1>3, Numbers
  <2>2. w * W + W <= s
    BY <1>1, <1>3, <2>1 DEF Span
  <2>3. (w + 1) * W = w * W + W
    BY <1>1
  <2>4. s \in Span(w + 1)
    BY <1>1, <2>1, <2>2, <2>3 DEF Span
  <2>5. w + 1 = WindowOf(s)
    BY <1>1, <2>1, <2>4, WindowUnique
  <2> QED
    BY <2>4, <2>5, WindowTypes
<1> HIDE DEF T
<1>4. ASSUME NEW x \in P PROVE x \in A \/ (x \in B /\ w + 1 \in Windows)
  <2>1. PICK s \in T \cap Ticks : \E i \in 1 .. admitted[c][s] : x = <<s, i>>
    BY PassedMember
  <2>2. CASE s \in Span(w)
    BY <2>1, <2>2, PassedMember
  <2>3. CASE s \notin Span(w)
    BY <1>3, <2>1, <2>3, PassedMember
  <2> QED
    BY <2>2, <2>3
<1>5. IsFiniteSet(A) /\ Cardinality(A) \in Nat /\ Cardinality(A) <= limit
  BY <1>1, <1>2, FS_CardinalityType DEF WithinSent, Admitted
<1>6. CASE w + 1 \in Windows
  <2>1. IsFiniteSet(B) /\ Cardinality(B) \in Nat /\ Cardinality(A) + Cardinality(B) < 2 * limit
    BY <1>1, <1>2, <1>6, FS_CardinalityType DEF WithinSent, NoBurst, Admitted
  <2>2. P \subseteq A \cup B
    BY <1>4
  <2> HIDE DEF P, A, B
  <2>3. /\ IsFiniteSet(A \cup B)
        /\ Cardinality(A \cup B)
             = Cardinality(A) + Cardinality(B) - Cardinality(A \cap B)
    BY <1>5, <2>1, FS_Union
  <2>4. Cardinality(A \cap B) \in Nat
    BY <1>5, FS_Intersection, FS_CardinalityType
  <2>5. IsFiniteSet(P) /\ Cardinality(P) <= Cardinality(A \cup B) /\ Cardinality(P) \in Nat
    BY <2>2, <2>3, FS_Subset, FS_CardinalityType
  <2>6. Cardinality(P) < 2 * limit
    BY <1>1, <1>5, <2>1, <2>3, <2>4, <2>5
  <2> QED
    BY <2>6 DEF P, T, Admitted
<1>7. CASE w + 1 \notin Windows
  <2>1. P \subseteq A
    BY <1>4, <1>7
  <2> HIDE DEF P, A
  <2>2. Cardinality(P) <= Cardinality(A) /\ Cardinality(P) \in Nat
    BY <1>5, <2>1, FS_Subset, FS_CardinalityType
  <2>3. Cardinality(P) < 2 * limit
    BY <1>1, <1>5, <2>2
  <2> QED
    BY <2>3 DEF P, T, Admitted
<1> QED
  BY <1>6, <1>7

-----------------------------------------------------------------------------
(* Products, quotients and what is answered                                *)

\* What is multiplied can be compared.
LEMMA Cancel ==
  ASSUME NEW a \in Int, NEW b \in Int, NEW n \in Nat \ {0}
  PROVE  (a * n <= b * n => a <= b) /\ (a * n < b * n => a < b)
<1>1. ASSUME b < a PROVE b * n + n <= a * n
  <2> DEFINE e == a - b - 1
  <2>1. e \in Nat /\ a = b + 1 + e
    BY <1>1
  <2> HIDE DEF e
  <2>2. a * n = b * n + n + e * n /\ e * n \in Nat
    BY <2>1
  <2> QED
    BY <2>2
<1>2. a = b => a * n = b * n
  OBVIOUS
<1>3. a * n \in Int /\ b * n \in Int
  OBVIOUS
<1>4. b < a \/ a = b \/ a < b
  OBVIOUS
<1> QED
  BY <1>1, <1>2, <1>3, <1>4

\* Products are ordered as their factors.
LEMMA Products ==
  ASSUME NEW a \in Nat, NEW b \in Nat, NEW x \in Nat, NEW y \in Nat, a <= b, x <= y
  PROVE  a * x \in Nat /\ b * y \in Nat /\ a * x <= b * y
<1> DEFINE d == b - a
           e == y - x
<1>1. d \in Nat /\ e \in Nat /\ b = a + d /\ y = x + e
  OBVIOUS
<1> HIDE DEF d, e
<1>2. b * y = a * x + a * e + d * x + d * e
  BY <1>1
<1>3. a * x \in Nat /\ a * e \in Nat /\ d * x \in Nat /\ d * e \in Nat
  BY <1>1
<1> QED
  BY <1>2, <1>3

\* The quotient and the rest of a tick.
LEMMA Quotient ==
  ASSUME NEW t \in Nat, NEW n \in Nat \ {0}
  PROVE  /\ t \div n \in Nat /\ (t \div n) * n <= t /\ t < (t \div n) * n + n
         /\ t % n \in 0 .. n - 1 /\ t = (t \div n) * n + (t % n)
OBVIOUS

\* What is estimated, remaining and to be waited for are natural numbers within the limit
\* and the length of a window.
LEMMA AnswerTypes ==
  ASSUME NEW prev \in Nat, NEW curr \in Nat, NEW t \in Ticks, NEW counted \in Nat
  PROVE  Answer(prev, curr, t, counted)
           \in [at : Ticks, allowed : BOOLEAN, remaining : 0 .. limit, retry_after : 0 .. window,
                counted : Nat]
<1> DEFINE free    == limit * W - Estimated(prev, curr, t)
           allowed == free >= 0
           rem     == IF allowed THEN free \div W ELSE 0
           retry   == IF allowed THEN 0 ELSE (WindowOf(t) + 1) * window - (t \div TicksPerSecond)
<1>1. /\ t \in Nat /\ W \in Nat \ {0} /\ limit \in Nat
      /\ window \in Nat \ {0} /\ TicksPerSecond \in Nat \ {0}
  BY Numbers, WindowLength, LimiterAssumption, StoreAssumption
<1>2. Estimated(prev, curr, t) \in Nat /\ limit * W \in Nat
  <2>1. W - (t % W) \in Nat
    BY <1>1, Quotient
  <2>2. prev * (W - (t % W)) \in Nat /\ curr * W \in Nat /\ limit * W \in Nat
    BY <1>1, <2>1
  <2> QED
    BY <2>2 DEF Estimated
<1>3. free \in Int /\ free <= limit * W
  BY <1>2
<1> HIDE DEF free
<1>4. rem \in 0 .. limit
  <2>1. CASE free >= 0
    <3> DEFINE q == free \div W
    <3>1. q \in Nat /\ q * W <= free
      BY <1>1, <1>3, <2>1, Quotient
    <3> HIDE DEF q
    <3>2. q * W <= limit * W
      BY <1>1, <1>2, <1>3, <3>1
    <3>3. q <= limit
      BY <1>1, <3>1, <3>2, Cancel
    <3> QED
      BY <1>1, <2>1, <3>1, <3>3 DEF q
  <2> QED
    BY <1>1, <2>1
<1>5. retry \in 0 .. window
  <2> DEFINE w == WindowOf(t)
             q == t \div TicksPerSecond
             T == TicksPerSecond
  <2>1. w \in Nat /\ w * W <= t /\ t < w * W + W
    BY <1>1, WithinWindow
  <2>2. q \in Nat /\ q * T <= t /\ t < q * T + T
    BY <1>1, Quotient
  <2> HIDE DEF w, q
  <2>3. w * W = (w * window) * T /\ w * W + W = ((w + 1) * window) * T
    BY <1>1, <2>1 DEF W
  <2>4. w * window \in Int /\ (w + 1) * window \in Int /\ (w + 1) * window = w * window + window
    BY <1>1, <2>1
  <2>5. q < (w + 1) * window
    <3>1. q * T < ((w + 1) * window) * T
      BY <1>1, <2>1, <2>2, <2>3, <2>4
    <3> QED
      BY <1>1, <2>2, <2>4, <3>1, Cancel
  <2>6. w * window < q + 1
    <3>1. (q + 1) * T = q * T + T
      BY <1>1, <2>2
    <3>2. (w * window) * T < (q + 1) * T
      BY <1>1, <2>1, <2>2, <2>3, <2>4, <3>1
    <3> QED
      BY <1>1, <2>2, <2>4, <3>2, Cancel
  <2>7. (w + 1) * window - q \in 0 .. window
    BY <1>1, <2>2, <2>4, <2>5, <2>6
  <2> QED
    BY <1>1, <2>7 DEF w, q
<1>6. Answer(prev, curr, t, counted)
        = [at |-> t, allowed |-> allowed, remaining |-> rem, retry_after |-> retry,
           counted |-> counted]
  BY Zenon DEF Answer, free
<1>7. allowed \in BOOLEAN
  OBVIOUS
<1> HIDE DEF rem, retry, allowed
<1> QED
  BY <1>4, <1>5, <1>6, <1>7

-----------------------------------------------------------------------------
(* The number of counted requests                                          *)

\* The counted requests, one by one.
LEMMA ExecutionsMember ==
  ASSUME NEW counts, NEW x
  PROVE  x \in Executions(counts) <=> \E w \in Windows : \E i \in 1 .. counts[w] : x = <<w, i>>
<1>1. ASSUME NEW w PROVE x \in {w} \X (1 .. counts[w]) <=> \E i \in 1 .. counts[w] : x = <<w, i>>
  OBVIOUS
<1> QED
  BY <1>1 DEF Executions

\* They are finitely many.
LEMMA ExecutionsFinite ==
  ASSUME NEW counts \in [Windows -> 0 .. MaxSent]
  PROVE  IsFiniteSet(Executions(counts)) /\ Counted(counts) \in Nat
<1> DEFINE S == 1 .. MaxSent
<1>1. IsFiniteSet(Windows)
  <2>1. LastTick \div W \in Int
    BY LimiterAssumption, WindowLength
  <2> QED
    BY <2>1, FS_Interval DEF Windows
<1>2. IsFiniteSet(S)
  BY LimiterAssumption, FS_Interval
<1>3. Executions(counts) \subseteq Windows \X S
  <2>1. ASSUME NEW x \in Executions(counts) PROVE x \in Windows \X S
    <3>1. PICK w \in Windows : \E i \in 1 .. counts[w] : x = <<w, i>>
      BY ExecutionsMember
    <3>2. counts[w] \in 0 .. MaxSent
      OBVIOUS
    <3> QED
      BY <3>1, <3>2, LimiterAssumption
  <2> QED
    BY <2>1
<1> HIDE DEF S
<1>4. IsFiniteSet(Windows \X S)
  BY <1>1, <1>2, FS_Product
<1>5. IsFiniteSet(Executions(counts))
  BY <1>3, <1>4, FS_Subset
<1> QED
  BY <1>5, FS_CardinalityType DEF Counted

\* Those of one window are some of them.
LEMMA CountedAtLeast ==
  ASSUME NEW counts \in [Windows -> 0 .. MaxSent], NEW w \in Windows
  PROVE  counts[w] \in Nat /\ Counted(counts) \in Nat /\ counts[w] <= Counted(counts)
<1>1. PICK n \in Nat : n = counts[w]
  BY LimiterAssumption
<1>2. {w} \X (1 .. n) \subseteq Executions(counts)
  BY <1>1 DEF Executions
<1>3. IsFiniteSet(Executions(counts)) /\ Counted(counts) \in Nat
  BY ExecutionsFinite
<1>4. Cardinality({w} \X (1 .. n)) = n
  <2>1. IsFiniteSet({w}) /\ Cardinality({w}) = 1
    BY FS_Singleton
  <2>2. IsFiniteSet(1 .. n) /\ Cardinality(1 .. n) = n
    BY FS_Interval
  <2>3. Cardinality({w} \X (1 .. n)) = Cardinality({w}) * Cardinality(1 .. n)
    BY <2>1, <2>2, FS_Product
  <2> QED
    BY <2>1, <2>2, <2>3
<1>5. Cardinality({w} \X (1 .. n)) <= Cardinality(Executions(counts))
  BY <1>2, <1>3, FS_Subset
<1> QED
  BY <1>1, <1>3, <1>4, <1>5 DEF Counted

\* One more request of a window is counted.
LEMMA CountedOneMore ==
  ASSUME NEW counts \in [Windows -> 0 .. MaxSent], NEW w \in Windows,
         NEW after, after[w] = counts[w] + 1, \A v \in Windows \ {w} : after[v] = counts[v]
  PROVE  Counted(after) = Counted(counts) + 1
<1> DEFINE n == counts[w] + 1
           x == <<w, n>>
<1>1. /\ n \in Nat /\ counts[w] \in Nat /\ counts[w] = n - 1 /\ after[w] = n
      /\ \A v \in Windows \ {w} : after[v] = counts[v]
  BY LimiterAssumption
<1> HIDE DEF n
<1>2. x \notin Executions(counts)
  <2>1. ASSUME NEW v \in Windows, NEW i \in 1 .. counts[v], x = <<v, i>> PROVE FALSE
    <3>1. v = w /\ i = n
      BY <2>1
    <3> QED
      BY <1>1, <3>1
  <2> QED
    BY <2>1, ExecutionsMember
<1> HIDE DEF x
<1>3. ASSUME NEW y
      PROVE  y \in Executions(after) <=> y \in Executions(counts) \cup {x}
  <2>1. ASSUME y \in Executions(after), y # x PROVE y \in Executions(counts)
    <3>1. PICK v \in Windows : \E i \in 1 .. after[v] : y = <<v, i>>
      BY <2>1, ExecutionsMember
    <3>2. PICK i \in 1 .. after[v] : y = <<v, i>>
      BY <3>1
    <3>3. i \in 1 .. counts[v]
      <4>1. CASE v = w
        <5>1. i # n
          BY <2>1, <3>2, <4>1 DEF x
        <5> QED
          BY <1>1, <4>1, <5>1
      <4>2. CASE v # w
        BY <1>1, <4>2
      <4> QED
        BY <4>1, <4>2
    <3> QED
      BY <3>2, <3>3, ExecutionsMember
  <2>2. ASSUME y \in Executions(counts) PROVE y \in Executions(after)
    <3>1. PICK v \in Windows : \E i \in 1 .. counts[v] : y = <<v, i>>
      BY <2>2, ExecutionsMember
    <3>2. PICK i \in 1 .. counts[v] : y = <<v, i>>
      BY <3>1
    <3>3. i \in 1 .. after[v]
      <4>1. CASE v = w
        BY <1>1, <4>1
      <4>2. CASE v # w
        BY <1>1, <4>2
      <4> QED
        BY <4>1, <4>2
    <3> QED
      BY <3>2, <3>3, ExecutionsMember
  <2>3. x \in Executions(after)
    <3>1. n \in 1 .. after[w]
      BY <1>1
    <3> QED
      BY <3>1, ExecutionsMember DEF x
  <2> QED
    BY <2>1, <2>2, <2>3
<1>4. Executions(after) = Executions(counts) \cup {x}
  BY <1>3
<1>5. IsFiniteSet(Executions(counts)) /\ Counted(counts) \in Nat
  BY ExecutionsFinite
<1>6. Cardinality(Executions(counts) \cup {x}) = Cardinality(Executions(counts)) + 1
  BY <1>2, <1>5, FS_AddElement
<1> QED
  BY <1>4, <1>6 DEF Counted

-----------------------------------------------------------------------------
(* Types                                                                   *)

\* The answers a client can get.
AnswerType ==
  [at : Ticks, allowed : BOOLEAN, remaining : 0 .. limit, retry_after : 0 .. window, counted : Nat]

\* A counter that is there holds at most what has been counted.
Written(e, n) == e = None \/ \E v \in 1 .. n : Holds(e, v)

\* Nothing but counters is stored.
Contents ==
  /\ IsStore(db)
  /\ \A c \in Clients, w \in Windows : Written(db.data[<<c, w>>], sent[c][w])
  /\ \A k \in Keys \ (Clients \X Windows) : db.data[k] = None

\* What is admitted was counted, within the bound.
History ==
  /\ sent \in [Clients -> [Windows -> 0 .. MaxSent]]
  /\ \A c \in Clients, t \in Ticks : admitted[c][t] <= sent[c][WindowOf(t)]

TypeInv ==
  /\ Types
  /\ Contents
  /\ History
  /\ answer \in [Clients -> AnswerType]
  /\ overtaken \in BOOLEAN

\* How many requests an entry has counted.
CountIn(e) == IF e = None THEN 0 ELSE e.value

\* An entry that counts something is one of the entries of a store.
LEMMA HoldsEntry ==
  ASSUME NEW n \in Int, NEW x \in Int, NEW e, e = [value |-> n, expires |-> x]
  PROVE  Holds(e, n) /\ e \in Entry /\ CountIn(e) = n
<1>1. x \in Deadline /\ n \in Value
  BY DEF Deadline, Value
<1>2. e \in Entry
  BY <1>1 DEF Entry
<1>3. e # None
  BY <1>2, StoreAssumption
<1>4. e.expires = x /\ e.value = n
  OBVIOUS
<1> QED
  BY <1>2, <1>3, <1>4 DEF Holds, CountIn

\* What a counter holds is a number within what was counted.
LEMMA WrittenCount ==
  ASSUME NEW n \in Nat, NEW e, Written(e, n)
  PROVE  /\ CountIn(e) \in 0 .. n
         /\ e = None \/ Holds(e, CountIn(e))
         /\ e \in Entry \cup {None}
<1>1. CASE e = None
  BY <1>1 DEF CountIn
<1>2. ASSUME NEW v \in 1 .. n, Holds(e, v)
      PROVE  CountIn(e) = v /\ e \in Entry
  <2> DEFINE x == e.expires
  <2>1. e = [value |-> v, expires |-> x] /\ x \in Int /\ v \in Int
    BY <1>2 DEF Holds
  <2> HIDE DEF x
  <2> QED
    BY <2>1, HoldsEntry
<1> QED
  BY <1>1, <1>2 DEF Written

\* What the pipeline reads and leaves in the counters of a client: no more than
\* was there, but for the request itself.
LEMMA PipelineReads ==
  ASSUME MaxKeys = 0, Types, Contents, NEW c \in Clients, NEW w \in Windows, w - 1 \in Windows
  PROVE  LET out == Pipeline(c, w)
             k   == <<c, w>>
             p   == <<c, w - 1>>
         IN  /\ IsStore(out.db)
             /\ \A j \in Keys \ {k, p} : out.db.data[j] = db.data[j]
             /\ out.curr \in 1 .. CountIn(db.data[k]) + 1
             /\ Holds(out.db.data[k], out.curr) /\ CountIn(out.db.data[k]) = out.curr
             /\ out.prev \in 0 .. CountIn(db.data[p])
             /\ out.db.data[p] \in {db.data[p], None} /\ CountIn(out.db.data[p]) = out.prev
<1> DEFINE out == Pipeline(c, w)
           k   == <<c, w>>
           p   == <<c, w - 1>>
           n   == CountIn(db.data[k])
           m   == CountIn(db.data[p])
           x   == IF k \in Live(db, now) THEN db.data[k].expires ELSE now + 2 * W
<1>1. now \in Int /\ w \in Int /\ k \in Keys /\ p \in Keys /\ IsStore(db) /\ W \in Nat
  <2>1. k \in Keys /\ p \in Keys
    BY Numbers
  <2>2. now \in Int /\ w \in Int /\ IsStore(db)
    BY Numbers DEF Types, Contents
  <2> QED
    BY <2>1, <2>2, WindowLength
<1>2. /\ Written(db.data[k], sent[c][w]) /\ sent[c][w] \in Nat
      /\ Written(db.data[p], sent[c][w - 1]) /\ sent[c][w - 1] \in Nat
  BY DEF Contents, Types
<1>3. /\ n \in Nat /\ (db.data[k] = None \/ Holds(db.data[k], n))
      /\ m \in Nat /\ (db.data[p] = None \/ Holds(db.data[p], m))
  BY <1>2, WrittenCount
<1> HIDE DEF n, m
<1>4. /\ IsStore(out.db)
      /\ \A j \in Keys \ {k, p} : out.db.data[j] = db.data[j]
      /\ out.db.data[p] = IF p \in Live(db, now) THEN db.data[p] ELSE None
      /\ out.prev = IF p \in Live(db, now) THEN m ELSE 0
      /\ out.curr = (IF k \in Live(db, now) THEN n ELSE 0) + 1
      /\ out.db.data[k] = [value |-> out.curr, expires |-> x]
  BY <1>1, <1>3, PipelineData
<1>5. x \in Int
  BY <1>1, <1>3 DEF Live, Stored, Holds
<1> HIDE DEF out, k, p, x
<1>6. out.curr \in 1 .. n + 1
  BY <1>3, <1>4
<1>7. Holds(out.db.data[k], out.curr) /\ CountIn(out.db.data[k]) = out.curr
  <2> DEFINE e == out.db.data[k]
             v == out.curr
  <2>1. v \in Int /\ e = [value |-> v, expires |-> x]
    BY <1>3, <1>4, <1>6
  <2> HIDE DEF e, v
  <2>2. Holds(e, v) /\ CountIn(e) = v
    BY <1>5, <2>1, HoldsEntry
  <2> QED
    BY <2>2 DEF e, v
<1>8. out.prev \in 0 .. m /\ out.db.data[p] \in {db.data[p], None} /\ CountIn(out.db.data[p]) = out.prev
  BY <1>3, <1>4 DEF m, CountIn
<1> QED
  BY <1>4, <1>6, <1>7, <1>8 DEF out, k, p, n, m

\* What Redis does to the counters when it executes a pipeline.
LEMMA ExecutedContents ==
  ASSUME MaxKeys = 0, Types, Contents, History, NEW r \in Requests, slot[r] # None, Executed(r)
  PROVE  LET c == slot[r].client
             w == WindowOf(slot[r].t)
         IN  /\ Contents'
             /\ sent' \in [Clients -> [Windows -> 0 .. MaxSent]]
             /\ sent'[c][w] = sent[c][w] + 1
             /\ \A d \in Clients, v \in Windows : ~(d = c /\ v = w) => sent'[d][v] = sent[d][v]
             /\ \A d \in Clients \ {c}, v \in Windows : db'.data[<<d, v>>] = db.data[<<d, v>>]
<1> DEFINE c == slot[r].client
           t == slot[r].t
           w == WindowOf(t)
           k == <<c, w>>
           p == <<c, w - 1>>
           out == Pipeline(c, w)
<1>1. /\ c \in Clients /\ t \in Ticks /\ w \in Windows /\ w - 1 \in Windows /\ w \in Int
      /\ k \in Keys /\ p \in Keys
  BY SlotTypes, Numbers, WindowTypes
<1>11. db' = out.db /\ sent' = [sent EXCEPT ![c][w] = @ + 1] /\ Counted(sent[c]) < MaxSent
  BY Zenon DEF Executed
<1>2. db' = out.db /\ sent' = [sent EXCEPT ![c][w] = @ + 1] /\ sent[c][w] < MaxSent
  <2>1. sent[c] \in [Windows -> 0 .. MaxSent]
    BY <1>1 DEF History
  <2> HIDE DEF out
  <2> QED
    BY <1>1, <1>11, <2>1, CountedAtLeast, LimiterAssumption
<1> HIDE DEF c, t, w
<1>3. /\ IsStore(out.db)
      /\ \A j \in Keys \ {k, p} : out.db.data[j] = db.data[j]
      /\ out.curr \in 1 .. CountIn(db.data[k]) + 1
      /\ Holds(out.db.data[k], out.curr)
      /\ out.db.data[p] \in {db.data[p], None}
  BY <1>1, PipelineReads
<1>4. /\ sent' \in [Clients -> [Windows -> 0 .. MaxSent]]
      /\ sent'[c][w] = sent[c][w] + 1
      /\ \A d \in Clients, v \in Windows : ~(d = c /\ v = w) => sent'[d][v] = sent[d][v]
  <2>1. /\ sent[c][w] + 1 \in 0 .. MaxSent
        /\ \A d \in Clients : sent[d] \in [Windows -> 0 .. MaxSent]
    BY <1>1, <1>2, LimiterAssumption DEF History
  <2>2. sent' = [sent EXCEPT ![c] = [sent[c] EXCEPT ![w] = sent[c][w] + 1]]
    BY <1>2
  <2>3. [sent[c] EXCEPT ![w] = sent[c][w] + 1] \in [Windows -> 0 .. MaxSent]
    BY <1>1, <2>1
  <2>4. sent \in [Clients -> [Windows -> 0 .. MaxSent]]
    BY DEF History
  <2> QED
    BY <1>1, <2>2, <2>3, <2>4
<1> HIDE DEF out, k, p
<1>5. Written(out.db.data[k], sent[c][w] + 1)
  <2>1. CountIn(db.data[k]) \in 0 .. sent[c][w] /\ sent[c][w] \in Nat
    <3>1. Written(db.data[k], sent[c][w]) /\ sent[c][w] \in Nat
      BY <1>1 DEF Contents, Types, k
    <3> QED
      BY <3>1, WrittenCount
  <2>2. out.curr \in 1 .. sent[c][w] + 1
    BY <1>3, <2>1
  <2> QED
    BY <1>3, <2>2 DEF Written
<1>6. Written(out.db.data[p], sent[c][w - 1])
  BY <1>1, <1>3 DEF Contents, Written, p
<1>7. ASSUME NEW d \in Clients, NEW v \in Windows
      PROVE  Written(out.db.data[<<d, v>>], sent'[d][v])
  <2>1. CASE d = c /\ v = w
    BY <1>4, <1>5, <2>1 DEF k
  <2>2. CASE d = c /\ v = w - 1
    <3>1. v # w
      BY <1>1, <2>2
    <3>2. sent'[d][v] = sent[d][v]
      BY <1>4, <3>1
    <3> QED
      BY <1>6, <2>2, <3>2 DEF p
  <2>3. CASE ~(d = c /\ v = w) /\ ~(d = c /\ v = w - 1)
    <3>1. <<d, v>> \in Keys \ {k, p}
      BY <2>3, Numbers DEF k, p
    <3>2. sent'[d][v] = sent[d][v]
      BY <1>4, <2>3
    <3> QED
      BY <1>3, <3>1, <3>2 DEF Contents
  <2> QED
    BY <2>1, <2>2, <2>3
<1>8. ASSUME NEW j \in Keys \ (Clients \X Windows) PROVE out.db.data[j] = None
  <2>1. j \in Keys \ {k, p}
    BY <1>1 DEF k, p
  <2> QED
    BY <1>3, <2>1 DEF Contents
<1>9. ASSUME NEW d \in Clients \ {c}, NEW v \in Windows
      PROVE  out.db.data[<<d, v>>] = db.data[<<d, v>>]
  <2>1. <<d, v>> \in Keys \ {k, p}
    BY Numbers DEF k, p
  <2> QED
    BY <1>3, <2>1
<1>10. Contents'
  <2>1. IsStore(db)'
    BY <1>2, <1>3 DEF IsStore
  <2>2. \A d \in Clients, v \in Windows : Written(db.data[<<d, v>>], sent[d][v])'
    BY <1>2, <1>7 DEF Written, Holds
  <2> QED
    BY <1>2, <1>8, <2>1, <2>2 DEF Contents, Windows, W
<1> QED
  BY <1>2, <1>4, <1>9, <1>10 DEF c, w, t

-----------------------------------------------------------------------------
\* The history and the types after a pipeline has been executed.
LEMMA ExecutedHistory ==
  ASSUME MaxKeys = 0, Types, Contents, History, NEW r \in Requests, slot[r] # None, Executed(r),
         LET c == slot[r].client
             t == slot[r].t
         IN  admitted' = admitted \/ AdmitOne(c, t)
  PROVE  Types' /\ Contents' /\ History'
<1> DEFINE c == slot[r].client
           t == slot[r].t
           w == WindowOf(t)
<1>1. c \in Clients /\ t \in Ticks /\ w \in Windows
  BY SlotTypes, WindowTypes
<1>2. /\ slot' = [slot EXCEPT ![r] = None] /\ now' = now /\ lost' = lost
  BY Zenon DEF Executed
<1>3. /\ Contents'
      /\ sent' \in [Clients -> [Windows -> 0 .. MaxSent]]
      /\ sent'[c][w] = sent[c][w] + 1
      /\ \A d \in Clients, v \in Windows : ~(d = c /\ v = w) => sent'[d][v] = sent[d][v]
  BY ExecutedContents
<1>4. admitted' = admitted \/ AdmitOne(c, t)
  OBVIOUS
<1> HIDE DEF c, t, w
<1>5. /\ admitted' \in [Clients -> [Ticks -> Nat]]
      /\ \A d \in Clients, s \in Ticks : admitted'[d][s] <= sent'[d][WindowOf(s)]
  <2>1. /\ admitted \in [Clients -> [Ticks -> Nat]]
        /\ \A d \in Clients : admitted[d] \in [Ticks -> Nat]
        /\ \A d \in Clients, s \in Ticks : admitted[d][s] \in Nat
    BY DEF Types
  <2>2. \A d \in Clients, s \in Ticks :
          /\ WindowOf(s) \in Windows /\ sent[d][WindowOf(s)] \in Nat
          /\ admitted[d][s] <= sent[d][WindowOf(s)]
          /\ sent'[d][WindowOf(s)] \in Nat
    BY <1>3, WindowTypes, LimiterAssumption DEF Types, History
  <2>3. CASE admitted' = admitted
    <3>1. ASSUME NEW d \in Clients, NEW s \in Ticks
          PROVE  admitted[d][s] <= sent'[d][WindowOf(s)]
      <4>1. CASE d = c /\ WindowOf(s) = w
        BY <1>3, <2>1, <2>2, <4>1
      <4>2. CASE ~(d = c /\ WindowOf(s) = w)
        BY <1>3, <2>1, <2>2, <4>2
      <4> QED
        BY <4>1, <4>2
    <3> QED
      BY <2>1, <2>3, <3>1
  <2>4. CASE AdmitOne(c, t)
    <3> DEFINE a == [admitted[c] EXCEPT ![t] = admitted[c][t] + 1]
    <3>1. admitted' = [admitted EXCEPT ![c] = a]
      BY <2>4 DEF AdmitOne
    <3>2. /\ a \in [Ticks -> Nat]
          /\ \A s \in Ticks : a[s] = IF s = t THEN admitted[c][t] + 1 ELSE admitted[c][s]
      BY <1>1, <2>1
    <3> HIDE DEF a
    <3>3. /\ admitted' \in [Clients -> [Ticks -> Nat]] /\ admitted'[c] = a
          /\ \A d \in Clients \ {c} : admitted'[d] = admitted[d]
      BY <1>1, <2>1, <3>1, <3>2
    <3>4. ASSUME NEW d \in Clients, NEW s \in Ticks
          PROVE  admitted'[d][s] <= sent'[d][WindowOf(s)]
      <4>1. CASE d = c /\ s = t
        BY <1>1, <1>3, <2>1, <2>2, <3>2, <3>3, <4>1 DEF w
      <4>2. CASE d = c /\ s # t /\ WindowOf(s) = w
        BY <1>3, <2>1, <2>2, <3>2, <3>3, <4>2
      <4>3. CASE d = c /\ s # t /\ WindowOf(s) # w
        BY <1>3, <2>1, <2>2, <3>2, <3>3, <4>3
      <4>4. CASE d # c
        BY <1>3, <2>1, <2>2, <3>3, <4>4
      <4> QED
        BY <4>1, <4>2, <4>3, <4>4
    <3> QED
      BY <3>3, <3>4
  <2> QED
    BY <1>4, <2>3, <2>4
<1>6. slot' \in [Requests -> [client : Clients, t : Ticks] \cup {None}]
  BY <1>2 DEF Types
<1>7. Types'
  <2>1. sent' \in [Clients -> [Windows -> Nat]]
    <3>1. 0 .. MaxSent \in SUBSET Nat
      OBVIOUS
    <3>2. [Windows -> 0 .. MaxSent] \in SUBSET [Windows -> Nat]
      BY <3>1
    <3> QED
      BY <1>3, <3>2
  <2>2. late' \in BOOLEAN
    BY ExecutedLate
  <2> QED
    BY <1>2, <1>5, <1>6, <2>1, <2>2 DEF Types, Ticks, Windows, W
<1>8. History'
  BY <1>3, <1>5 DEF History, Ticks, Windows, WindowOf, W
<1> QED
  BY <1>3, <1>7, <1>8

\* Everything has its type in the beginning.
LEMMA InitTyped == Init => TypeInv
<1> SUFFICES ASSUME Init PROVE TypeInv
  OBVIOUS
<1>1. Types
  BY InitLimit DEF LimitInv
<1>2. Contents
  <2>1. IsStore(db) /\ \A k \in Keys : db.data[k] = None
    BY DEF Init, EmptyDB, IsStore
  <2> QED
    BY <2>1, Numbers DEF Contents, Written
<1>3. History
  <2>1. \A c \in Clients, t \in Ticks : admitted[c][t] = 0 /\ sent[c][WindowOf(t)] = 0
    BY WindowTypes DEF Init, NoneAdmitted
  <2>2. 0 \in 0 .. MaxSent
    BY LimiterAssumption
  <2> QED
    BY <2>1, <2>2 DEF History, Init
<1>4. answer \in [Clients -> AnswerType]
  <2>1. NoAnswer \in AnswerType
    BY LimiterAssumption DEF NoAnswer, AnswerType, Ticks
  <2> QED
    BY <2>1 DEF Init
<1> QED
  BY <1>1, <1>2, <1>3, <1>4 DEF TypeInv, Init

\* Nothing but the clock and the slots changes.
LEMMA TypedSame ==
  ASSUME TypeInv, Types', UNCHANGED <<db, sent, admitted, answer, overtaken>>
  PROVE  TypeInv'
<1>1. Contents' /\ History'
  <2>1. Contents /\ History
    BY DEF TypeInv
  <2>2. Contents'
    <3>1. IsStore(db)'
      BY <2>1 DEF Contents, IsStore
    <3>2. \A c \in Clients, w \in Windows : Written(db.data[<<c, w>>], sent[c][w])'
      BY <2>1 DEF Contents, Written, Holds
    <3> QED
      BY <2>1, <3>1, <3>2 DEF Contents, Windows, W
  <2>3. History'
    BY <2>1 DEF History, Ticks, Windows, WindowOf, W
  <2> QED
    BY <2>2, <2>3
<1>2. answer' \in [Clients -> AnswerType]' /\ overtaken' \in BOOLEAN
  BY DEF TypeInv, AnswerType, Ticks
<1> QED
  BY <1>1, <1>2 DEF TypeInv

\* Decide keeps the types.
LEMMA DecideTyped ==
  ASSUME MaxKeys = 0, TypeInv, NEW r \in Requests, Decide(r)
  PROVE  TypeInv'
<1> DEFINE c == slot[r].client
           t == slot[r].t
           w == WindowOf(t)
           p == Pipeline(c, w)
           n == Counted(sent'[c])
           a == Answer(p.prev, p.curr, t, n)
<1>1. /\ slot[r] # None /\ Executed(r)
      /\ admitted' = [admitted EXCEPT ![c][t] = IF a.allowed /\ ~lost THEN @ + 1 ELSE @]
      /\ answer' = [answer EXCEPT ![c] = a]
  BY Zenon DEF Decide
<1>2. Types /\ Contents /\ History
  BY DEF TypeInv
<1>3. /\ c \in Clients /\ t \in Ticks /\ w \in Windows /\ w - 1 \in Windows
  BY <1>1, <1>2, SlotTypes, WindowTypes
<1>4. sent'[c] \in [Windows -> 0 .. MaxSent]
  BY <1>1, <1>2, <1>3, ExecutedContents
<1>5. overtaken' \in BOOLEAN
  <2>1. overtaken' = (~lost /\ (overtaken \/ \E o \in Requests :
                                    slot[o] # None /\ slot[o].t < slot[r].t))
    BY <1>1, Zenon DEF Executed
  <2> QED
    BY <2>1 DEF TypeInv
<1>6. n \in Nat
  BY <1>4, ExecutionsFinite
<1>7. p.prev \in Nat /\ p.curr \in Nat
  <2>1. CountIn(db.data[<<c, w>>]) \in Nat /\ CountIn(db.data[<<c, w - 1>>]) \in Nat
    <3>1. ASSUME NEW v \in Windows PROVE CountIn(db.data[<<c, v>>]) \in Nat
      <4>1. Written(db.data[<<c, v>>], sent[c][v]) /\ sent[c][v] \in Nat
        BY <1>2, <1>3 DEF Contents, Types
      <4> QED
        BY <4>1, WrittenCount
    <3> QED
      BY <1>3, <3>1
  <2>2. /\ p.curr \in 1 .. CountIn(db.data[<<c, w>>]) + 1
        /\ p.prev \in 0 .. CountIn(db.data[<<c, w - 1>>])
    BY <1>2, <1>3, PipelineReads
  <2> QED
    BY <2>1, <2>2
<1> HIDE DEF p, n
<1>8. a \in AnswerType
  BY <1>3, <1>6, <1>7, AnswerTypes DEF AnswerType
<1> HIDE DEF a
<1>9. admitted' = admitted \/ AdmitOne(c, t)
  <2>1. CASE a.allowed /\ ~lost
    BY <1>1, <2>1 DEF AdmitOne
  <2>2. CASE ~(a.allowed /\ ~lost)
    <3>1. admitted' = [admitted EXCEPT ![c][t] = @]
      BY <1>1, <2>2
    <3> QED
      BY <1>2, <1>3, <3>1 DEF Types
  <2> QED
    BY <2>1, <2>2
<1>10. Types' /\ Contents' /\ History'
  BY <1>1, <1>2, <1>9, ExecutedHistory
<1>11. answer' \in [Clients -> AnswerType]
  BY <1>1, <1>8 DEF TypeInv
<1> QED
  BY <1>5, <1>10, <1>11 DEF TypeInv, AnswerType, Ticks

\* Losing counters keeps the types.
LEMMA LoseTyped ==
  ASSUME TypeInv, NEW K, Lose(K)
  PROVE  TypeInv'
<1>1. /\ db' = DelKeys(db, K) /\ lost' = TRUE /\ admitted' = NoneAdmitted
      /\ overtaken' = FALSE /\ late' = FALSE /\ UNCHANGED <<now, slot, sent, answer>>
  BY DEF Lose
<1>2. Types /\ Contents /\ History
  BY DEF TypeInv
<1>3. IsStore(db') /\ \A j \in Keys : db'.data[j] = IF j \in K THEN None ELSE db.data[j]
  BY <1>1, <1>2, DelKeysData DEF Contents
<1>4. Contents'
  <2>1. IsStore(db)'
    BY <1>3 DEF IsStore
  <2>2. ASSUME NEW c \in Clients, NEW w \in Windows
        PROVE  Written(db'.data[<<c, w>>], sent'[c][w])
    <3>1. db'.data[<<c, w>>] \in {db.data[<<c, w>>], None}
      BY <1>3, Numbers
    <3> QED
      BY <1>1, <1>2, <3>1 DEF Contents, Written
  <2>3. \A c \in Clients, w \in Windows : Written(db.data[<<c, w>>], sent[c][w])'
    BY <2>2 DEF Written, Holds
  <2>4. \A k \in Keys \ (Clients \X Windows) : db'.data[k] = None
    BY <1>2, <1>3 DEF Contents
  <2> QED
    BY <2>1, <2>3, <2>4 DEF Contents, Windows, W
<1>5. admitted' \in [Clients -> [Ticks -> Nat]] /\ \A c \in Clients, t \in Ticks : admitted'[c][t] = 0
  BY <1>1 DEF NoneAdmitted
<1>6. Types'
  BY <1>1, <1>2, <1>5 DEF Types, Ticks, Windows, W
<1>7. History'
  <2>1. \A c \in Clients, t \in Ticks : admitted'[c][t] <= sent'[c][WindowOf(t)]
    BY <1>1, <1>2, <1>5, WindowTypes DEF Types
  <2> QED
    BY <1>1, <1>2, <2>1 DEF History, Ticks, Windows, WindowOf, W
<1> QED
  BY <1>1, <1>4, <1>6, <1>7 DEF TypeInv, AnswerType, Ticks

\* Every step keeps the types.
LEMMA NextTyped ==
  ASSUME MaxKeys = 0, TypeInv, [Next]_vars
  PROVE  TypeInv'
<1>1. ASSUME NEW r \in Requests, NEW c \in Clients, Start(r, c) PROVE TypeInv'
  <2>1. /\ slot' = [slot EXCEPT ![r] = [client |-> c, t |-> now]]
        /\ UNCHANGED <<db, now, sent, admitted, answer, lost, overtaken, late>>
    BY <1>1 DEF Start
  <2>2. Types'
    BY <2>1 DEF TypeInv, Types, Ticks, Windows, W
  <2> QED
    BY <2>1, <2>2, TypedSame
<1>2. ASSUME NEW r \in Requests, Decide(r) PROVE TypeInv'
  BY <1>2, DecideTyped
<1>3. ASSUME NEW r \in Requests, Fail(r) PROVE TypeInv'
  <2>1. slot[r] # None /\ UNCHANGED <<admitted, answer>>
    BY <1>3 DEF Fail
  <2>2. CASE Executed(r)
    <3>1. Types' /\ Contents' /\ History'
      BY <2>1, <2>2, ExecutedHistory DEF TypeInv
    <3>2. overtaken' = (~lost /\ (overtaken \/ \E o \in Requests :
                                      slot[o] # None /\ slot[o].t < slot[r].t))
      BY <2>2, Zenon DEF Executed
    <3>3. overtaken' \in BOOLEAN
      BY <3>2 DEF TypeInv
    <3> QED
      BY <2>1, <3>1, <3>3 DEF TypeInv, AnswerType, Ticks
  <2>3. CASE slot' = [slot EXCEPT ![r] = None] /\ UNCHANGED <<db, now, sent, lost, overtaken, late>>
    <3>1. Types'
      BY <2>1, <2>3 DEF TypeInv, Types, Ticks, Windows, W
    <3> QED
      BY <2>1, <2>3, <3>1, TypedSame
  <2> QED
    BY <1>3, <2>2, <2>3 DEF Fail
<1>4. CASE Tick
  <2>1. now' \in Ticks /\ UNCHANGED <<db, slot, sent, admitted, answer, lost, overtaken, late>>
    BY <1>4 DEF Tick
  <2>2. Types'
    BY <2>1 DEF TypeInv, Types, Ticks, Windows, W
  <2> QED
    BY <2>1, <2>2, TypedSame
<1>5. CASE RedisRestart
  BY <1>5, LoseTyped DEF RedisRestart
<1>6. ASSUME NEW k \in Keys, Evicted(k) PROVE TypeInv'
  BY <1>6, LoseTyped DEF Evicted
<1>7. CASE UNCHANGED vars
  <2>1. Types'
    BY <1>7 DEF vars, TypeInv, Types, Ticks, Windows, W
  <2> QED
    BY <1>7, <2>1, TypedSame DEF vars
<1> QED
  BY <1>1, <1>2, <1>3, <1>4, <1>5, <1>6, <1>7 DEF Next

\* The store is one and the history is within its bound.
LEMMA TypedOK == TypeInv => TypeOK
<1> SUFFICES ASSUME TypeInv PROVE TypeOK
  OBVIOUS
<1>1. Types /\ Contents /\ History
  BY DEF TypeInv
<1>2. db \in DB
  <2>1. ASSUME NEW k \in Keys PROVE db.data[k] \in Entry \cup {None}
    <3>1. CASE k \in Clients \X Windows
      <4>1. PICK c \in Clients, w \in Windows : k = <<c, w>>
        BY <3>1
      <4>2. Written(db.data[k], sent[c][w]) /\ sent[c][w] \in Nat
        BY <1>1, <4>1 DEF Contents, Types
      <4> QED
        BY <4>2, WrittenCount
    <3>2. CASE k \notin Clients \X Windows
      BY <1>1, <3>2 DEF Contents
    <3> QED
      BY <3>1, <3>2
  <2>2. db.data \in [Keys -> Entry \cup {None}] /\ db.before \in [Keys -> SUBSET Keys]
    BY <1>1, <2>1 DEF Contents, IsStore
  <2>3. db = [data |-> db.data, before |-> db.before]
    BY <1>1 DEF Contents, IsStore
  <2> QED
    BY <2>2, <2>3 DEF DB
<1>3. admitted \in [Clients -> [Ticks -> 0 .. MaxSent]]
  <2>1. ASSUME NEW c \in Clients, NEW t \in Ticks PROVE admitted[c][t] \in 0 .. MaxSent
    <3>1. admitted[c][t] \in Nat /\ admitted[c][t] <= sent[c][WindowOf(t)]
      BY <1>1 DEF Types, History
    <3>2. sent[c][WindowOf(t)] \in 0 .. MaxSent
      BY <1>1, WindowTypes DEF History
    <3> QED
      BY <3>1, <3>2, LimiterAssumption
  <2>2. \A c \in Clients : admitted[c] \in [Ticks -> 0 .. MaxSent]
    <3>1. \A c \in Clients : admitted[c] \in [Ticks -> Nat]
      BY <1>1 DEF Types
    <3> QED
      BY <2>1, <3>1
  <2>3. admitted \in [Clients -> [Ticks -> Nat]]
    BY <1>1 DEF Types
  <2> QED
    BY <2>2, <2>3
<1> QED
  BY <1>1, <1>2, <1>3 DEF TypeOK, TypeInv, Types, History, AnswerType

-----------------------------------------------------------------------------
(* What X-RateLimit-Remaining promises                                     *)

\* The counters of a client leave room for one more request that starts at t.
Room(d, c, t) ==
  LET w == WindowOf(t)
  IN  CountIn(d.data[<<c, w - 1>>]) * (W - (t % W)) + CountIn(d.data[<<c, w>>]) * W + W <= limit * W

\* As long as nothing was counted since the last answer of a client, and that one
\* left something, there is room for a request.
Promised ==
  \A c \in Clients :
    /\ answer[c].counted <= Counted(sent[c])
    /\ answer[c].remaining > 0 /\ answer[c].counted = Counted(sent[c]) => Room(db, c, answer[c].at)

HonestInv == TypeInv /\ Promised

\* The weight of the previous window, times W, is between 1 and W.
LEMMA Weight ==
  ASSUME NEW t \in Nat
  PROVE  W - (t % W) \in 1 .. W /\ t % W = t - WindowOf(t) * W
<1> DEFINE q == WindowOf(t)
           m == t % W
<1>1. W \in Nat \ {0}
  BY WindowLength
<1>2. t % W \in 0 .. W - 1 /\ t = (t \div W) * W + (t % W) /\ t \div W \in Nat
  BY <1>1, Quotient
<1>3. q \in Nat /\ m \in 0 .. W - 1 /\ t = q * W + m
  BY <1>2 DEF WindowOf
<1> HIDE DEF q, m
<1>4. q * W \in Nat
  BY <1>1, <1>3
<1>5. W - m \in 1 .. W /\ m = t - q * W
  BY <1>1, <1>3, <1>4
<1> QED
  BY <1>5 DEF q, m

\* What the counters of a client hold.
LEMMA CounterTypes ==
  ASSUME Types, Contents, NEW c \in Clients, NEW w \in Windows
  PROVE  /\ CountIn(db.data[<<c, w>>]) \in Nat
         /\ sent[c][w] = 0 => CountIn(db.data[<<c, w>>]) = 0
<1>1. Written(db.data[<<c, w>>], sent[c][w]) /\ sent[c][w] \in Nat
  BY DEF Contents, Types
<1>2. CountIn(db.data[<<c, w>>]) \in 0 .. sent[c][w]
  BY <1>1, WrittenCount
<1> QED
  BY <1>1, <1>2

\* Lower counts leave more room.
LEMMA MoreRoom ==
  ASSUME NEW d, NEW e, NEW c, NEW t \in Nat, Room(d, c, t),
         \A w \in {WindowOf(t) - 1, WindowOf(t)} :
           /\ CountIn(d.data[<<c, w>>]) \in Nat /\ CountIn(e.data[<<c, w>>]) \in Nat
           /\ CountIn(e.data[<<c, w>>]) <= CountIn(d.data[<<c, w>>])
  PROVE  Room(e, c, t)
<1> DEFINE w == WindowOf(t)
           r == W - (t % W)
           p == CountIn(d.data[<<c, w - 1>>])
           k == CountIn(d.data[<<c, w>>])
           q == CountIn(e.data[<<c, w - 1>>])
           l == CountIn(e.data[<<c, w>>])
<1>1. r \in Nat /\ W \in Nat /\ limit \in Nat
  BY Weight, WindowLength, LimiterAssumption
<1>2. p \in Nat /\ k \in Nat /\ q \in Nat /\ l \in Nat /\ q <= p /\ l <= k
  OBVIOUS
<1>3. p * r + k * W + W <= limit * W
  BY DEF Room
<1> HIDE DEF p, k, q, l, r
<1>4. q * r \in Nat /\ p * r \in Nat /\ q * r <= p * r
  BY <1>1, <1>2, Products
<1>5. l * W \in Nat /\ k * W \in Nat /\ l * W <= k * W
  BY <1>1, <1>2, Products
<1>6. limit * W \in Nat
  BY <1>1
<1>7. q * r + l * W + W <= limit * W
  BY <1>1, <1>3, <1>4, <1>5, <1>6
<1> QED
  BY <1>7 DEF q, r, l, w, Room

\* A count is the next one for the client whose request is executed, and is not changed
\* for the others.
LEMMA ExecutedCounted ==
  ASSUME MaxKeys = 0, Types, Contents, History, NEW r \in Requests, slot[r] # None, Executed(r),
         NEW d \in Clients
  PROVE  /\ Counted(sent[d]) \in Nat
         /\ Counted(sent'[d]) = IF d = slot[r].client THEN Counted(sent[d]) + 1 ELSE Counted(sent[d])
<1> DEFINE c == slot[r].client
           w == WindowOf(slot[r].t)
<1>1. c \in Clients /\ w \in Windows
  BY SlotTypes, WindowTypes
<1>2. /\ sent' \in [Clients -> [Windows -> 0 .. MaxSent]]
      /\ sent'[c][w] = sent[c][w] + 1
      /\ \A e \in Clients, v \in Windows : ~(e = c /\ v = w) => sent'[e][v] = sent[e][v]
  BY ExecutedContents
<1> HIDE DEF c, w
<1>3. sent[d] \in [Windows -> 0 .. MaxSent] /\ sent'[d] \in [Windows -> 0 .. MaxSent]
  BY <1>2 DEF History
<1>4. Counted(sent[d]) \in Nat
  BY <1>3, ExecutionsFinite
<1>5. CASE d = c
  <2>1. sent'[d][w] = sent[d][w] + 1 /\ \A v \in Windows \ {w} : sent'[d][v] = sent[d][v]
    BY <1>1, <1>2, <1>5
  <2>2. Counted(sent'[d]) = Counted(sent[d]) + 1
    BY <1>1, <1>3, <2>1, CountedOneMore
  <2> QED
    BY <1>4, <1>5, <2>2 DEF c
<1>6. CASE d # c
  <2>1. \A v \in Windows : sent'[d][v] = sent[d][v]
    BY <1>2, <1>6
  <2>2. sent'[d] = sent[d]
    BY <1>3, <2>1
  <2> QED
    BY <1>4, <1>6, <2>2 DEF c
<1> QED
  BY <1>5, <1>6

\* A request of another client leaves a client's room as it was.
LEMMA OthersPromised ==
  ASSUME MaxKeys = 0, HonestInv, NEW r \in Requests, slot[r] # None, Executed(r),
         NEW d \in Clients, d # slot[r].client, answer'[d] = answer[d]
  PROVE  /\ answer'[d].counted <= Counted(sent'[d])
         /\ answer'[d].remaining > 0 /\ answer'[d].counted = Counted(sent'[d])
              => Room(db', d, answer'[d].at)
<1> DEFINE t == answer[d].at
<1>1. Types /\ Contents /\ History /\ Promised
  BY DEF HonestInv, TypeInv
<1>2. Counted(sent'[d]) = Counted(sent[d])
  BY <1>1, ExecutedCounted
<1>3. t \in Ticks
  BY DEF HonestInv, TypeInv, AnswerType
<1>4. \A w \in {WindowOf(t) - 1, WindowOf(t)} : db'.data[<<d, w>>] = db.data[<<d, w>>]
  <2>1. \A v \in Windows : db'.data[<<d, v>>] = db.data[<<d, v>>]
    BY <1>1, ExecutedContents
  <2> QED
    BY <1>3, <2>1, WindowTypes
<1> HIDE DEF t
<1>5. Room(db, d, t) = Room(db', d, t)
  <2>1. /\ db'.data[<<d, WindowOf(t) - 1>>] = db.data[<<d, WindowOf(t) - 1>>]
        /\ db'.data[<<d, WindowOf(t)>>] = db.data[<<d, WindowOf(t)>>]
    BY <1>4
  <2> QED
    BY <2>1, Zenon DEF Room
<1> QED
  BY <1>1, <1>2, <1>5 DEF Promised, t

\* An answer that leaves something leaves room.
LEMMA AnswerRoom ==
  ASSUME NEW prev \in Nat, NEW curr \in Nat, NEW t \in Nat, NEW counted,
         Answer(prev, curr, t, counted).remaining > 0
  PROVE  prev * (W - (t % W)) + curr * W + W <= limit * W
<1> DEFINE free == limit * W - Estimated(prev, curr, t)
           q    == free \div W
           r    == W - (t % W)
<1>1. Answer(prev, curr, t, counted).remaining = IF free >= 0 THEN q ELSE 0
  BY DEF Answer
<1>2. W \in Nat \ {0} /\ limit \in Nat /\ r \in Nat
  BY WindowLength, LimiterAssumption, Weight
<1>3. Estimated(prev, curr, t) = prev * r + curr * W
  BY DEF Estimated
<1> HIDE DEF r
<1>4. prev * r \in Nat /\ curr * W \in Nat /\ limit * W \in Nat
  BY <1>2
<1>5. free = limit * W - (prev * r + curr * W)
  BY <1>3
<1> HIDE DEF free
<1>6. free >= 0 /\ q > 0
  BY <1>1
<1>7. q \in Nat /\ q * W <= free
  BY <1>2, <1>4, <1>5, <1>6, Quotient
<1> HIDE DEF q
<1>8. W <= q * W
  <2> DEFINE e == q - 1
  <2>1. e \in Nat /\ q = e + 1
    BY <1>6, <1>7
  <2> HIDE DEF e
  <2>2. q * W = e * W + W /\ e * W \in Nat
    BY <1>2, <2>1
  <2> QED
    BY <1>2, <2>2
<1>9. q * W \in Nat
  BY <1>2, <1>7
<1>10. prev * r + curr * W + W <= limit * W
  BY <1>2, <1>4, <1>5, <1>7, <1>8, <1>9
<1> QED
  BY <1>10 DEF r

\* A request that is answered leaves the promise of its answer.
LEMMA DecidePromised ==
  ASSUME MaxKeys = 0, HonestInv, NEW r \in Requests, Decide(r)
  PROVE  Promised'
<1> DEFINE c == slot[r].client
           t == slot[r].t
           w == WindowOf(t)
           p == Pipeline(c, w)
           n == Counted(sent'[c])
           a == Answer(p.prev, p.curr, t, n)
<1>1. /\ slot[r] # None /\ Executed(r) /\ answer' = [answer EXCEPT ![c] = a]
  BY Zenon DEF Decide
<1>2. Types /\ Contents /\ History /\ Promised
  BY DEF HonestInv, TypeInv
<1>3. c \in Clients /\ t \in Ticks /\ t \in Nat /\ w \in Windows /\ w - 1 \in Windows
  BY <1>1, <1>2, SlotTypes, WindowTypes, Numbers
<1>4. db' = p.db
  BY <1>1, Zenon DEF Executed
<1>5. answer'[c] = a /\ \A d \in Clients \ {c} : answer'[d] = answer[d]
  BY <1>1, <1>3 DEF HonestInv, TypeInv
<1>6. n \in Nat
  BY <1>1, <1>2, <1>3, ExecutedCounted
<1>7. p.curr \in Nat /\ CountIn(p.db.data[<<c, w>>]) = p.curr
      /\ p.prev \in Nat /\ CountIn(p.db.data[<<c, w - 1>>]) = p.prev
  <2>1. CountIn(db.data[<<c, w>>]) \in Nat /\ CountIn(db.data[<<c, w - 1>>]) \in Nat
    BY <1>2, <1>3, CounterTypes
  <2>2. /\ p.curr \in 1 .. CountIn(db.data[<<c, w>>]) + 1
        /\ CountIn(p.db.data[<<c, w>>]) = p.curr
        /\ p.prev \in 0 .. CountIn(db.data[<<c, w - 1>>])
        /\ CountIn(p.db.data[<<c, w - 1>>]) = p.prev
    BY <1>2, <1>3, PipelineReads
  <2> HIDE DEF p
  <2> QED
    BY <2>1, <2>2
<1>8. a.counted = n /\ a.at = t
  BY DEF Answer
<1> HIDE DEF n, p, c
<1>9. ASSUME a.remaining > 0 PROVE Room(p.db, c, t)
  <2>1. p.prev * (W - (t % W)) + p.curr * W + W <= limit * W
    BY <1>3, <1>7, <1>9, AnswerRoom
  <2>2. CountIn(p.db.data[<<c, w - 1>>]) = p.prev /\ CountIn(p.db.data[<<c, w>>]) = p.curr
    BY <1>7
  <2> QED
    BY <2>1, <2>2 DEF Room
<1> HIDE DEF a
<1>10. ASSUME NEW d \in Clients
       PROVE  /\ answer'[d].counted <= Counted(sent'[d])
              /\ answer'[d].remaining > 0 /\ answer'[d].counted = Counted(sent'[d])
                   => Room(db', d, answer'[d].at)
  <2>1. CASE d = c
    <3>1. answer'[d] = a /\ Counted(sent'[d]) = n
      BY <1>5, <2>1 DEF n
    <3> QED
      BY <1>4, <1>6, <1>8, <1>9, <2>1, <3>1
  <2>2. CASE d # c
    <3>1. answer'[d] = answer[d]
      BY <1>5, <2>2
    <3> QED
      BY <1>1, <2>2, <3>1, OthersPromised DEF c
  <2> QED
    BY <2>1, <2>2
<1> QED
  BY <1>10, Zenon DEF Promised, Room, Counted, Executions, Windows, WindowOf, W

\* A request that fails is counted or not: the promise is void or stays.
LEMMA FailPromised ==
  ASSUME MaxKeys = 0, HonestInv, NEW r \in Requests, slot[r] # None, Executed(r), answer' = answer
  PROVE  Promised'
<1>1. Types /\ Contents /\ History /\ Promised
  BY DEF HonestInv, TypeInv
<1>2. ASSUME NEW d \in Clients
      PROVE  /\ answer'[d].counted <= Counted(sent'[d])
             /\ answer'[d].remaining > 0 /\ answer'[d].counted = Counted(sent'[d])
                  => Room(db', d, answer'[d].at)
  <2>1. CASE d = slot[r].client
    <3>1. /\ Counted(sent[d]) \in Nat /\ Counted(sent'[d]) = Counted(sent[d]) + 1
      BY <1>1, <2>1, ExecutedCounted
    <3>2. answer[d].counted <= Counted(sent[d]) /\ answer[d].counted \in Nat
      BY <1>1 DEF Promised, HonestInv, TypeInv, AnswerType
    <3>3. answer[d].counted < Counted(sent'[d])
      BY <3>1, <3>2
    <3> QED
      BY <3>1, <3>2, <3>3
  <2>2. CASE d # slot[r].client
    BY <2>2, OthersPromised
  <2> QED
    BY <2>1, <2>2
<1> QED
  BY <1>2, Zenon DEF Promised, Room, Counted, Executions, Windows, WindowOf, W

\* Counters that are lost leave more room.
LEMMA LosePromised ==
  ASSUME HonestInv, NEW K, Lose(K)
  PROVE  Promised'
<1>1. db' = DelKeys(db, K) /\ UNCHANGED <<sent, answer>>
  BY DEF Lose
<1>2. Types /\ Contents /\ Promised
  BY DEF HonestInv, TypeInv
<1>3. \A j \in Keys : db'.data[j] = IF j \in K THEN None ELSE db.data[j]
  BY <1>1, <1>2, DelKeysData DEF Contents
<1>4. ASSUME NEW d \in Clients, Room(db, d, answer[d].at)
      PROVE  Room(db', d, answer[d].at)
  <2> DEFINE t == answer[d].at
             y == db'
  <2>1. t \in Ticks /\ t \in Nat
    BY Numbers DEF HonestInv, TypeInv, AnswerType
  <2>2. ASSUME NEW w \in Windows
        PROVE  /\ CountIn(db.data[<<d, w>>]) \in Nat /\ CountIn(y.data[<<d, w>>]) \in Nat
               /\ CountIn(y.data[<<d, w>>]) <= CountIn(db.data[<<d, w>>])
    <3>1. CountIn(db.data[<<d, w>>]) \in Nat
      BY <1>2, CounterTypes
    <3>2. y.data[<<d, w>>] \in {None, db.data[<<d, w>>]}
      BY <1>3, Numbers
    <3> QED
      BY <3>1, <3>2 DEF CountIn
  <2>3. WindowOf(t) \in Windows /\ WindowOf(t) - 1 \in Windows
    BY <2>1, WindowTypes
  <2>4. Room(db, d, t)
    BY <1>4
  <2> HIDE DEF y, t
  <2>5. Room(y, d, t)
    BY <2>1, <2>2, <2>3, <2>4, MoreRoom
  <2> QED
    BY <2>5 DEF y, t
<1>5. ASSUME NEW d \in Clients
      PROVE  /\ answer'[d].counted <= Counted(sent'[d])
             /\ answer'[d].remaining > 0 /\ answer'[d].counted = Counted(sent'[d])
                  => Room(db', d, answer'[d].at)
  BY <1>1, <1>2, <1>4 DEF Promised
<1> QED
  BY <1>5, Zenon DEF Promised, Room, Counted, Executions, Windows, WindowOf, W

\* The promise is kept by every step.
LEMMA NextHonest ==
  ASSUME MaxKeys = 0, HonestInv, [Next]_vars
  PROVE  HonestInv'
<1>1. TypeInv'
  BY NextTyped DEF HonestInv
<1>2. ASSUME UNCHANGED <<db, sent, answer>> PROVE Promised'
  BY <1>2 DEF HonestInv, Promised, Room, Counted, Executions, Windows, WindowOf, W
<1>3. ASSUME NEW r \in Requests, NEW c \in Clients, Start(r, c) PROVE Promised'
  BY <1>2, <1>3 DEF Start
<1>4. ASSUME NEW r \in Requests, Decide(r) PROVE Promised'
  BY <1>4, DecidePromised
<1>5. ASSUME NEW r \in Requests, Fail(r) PROVE Promised'
  <2>1. slot[r] # None /\ answer' = answer
    BY <1>5 DEF Fail
  <2>2. Executed(r) \/ UNCHANGED <<db, sent, answer>>
    BY <1>5, <2>1, Zenon DEF Fail
  <2> QED
    BY <1>2, <2>1, <2>2, FailPromised
<1>6. ASSUME Tick PROVE Promised'
  BY <1>2, <1>6 DEF Tick
<1>7. ASSUME RedisRestart PROVE Promised'
  BY <1>7, LosePromised DEF RedisRestart
<1>8. ASSUME NEW k \in Keys, Evicted(k) PROVE Promised'
  BY <1>8, LosePromised DEF Evicted
<1>9. ASSUME UNCHANGED vars PROVE Promised'
  BY <1>2, <1>9 DEF vars
<1>10. Promised'
  BY <1>3, <1>4, <1>5, <1>6, <1>7, <1>8, <1>9 DEF Next
<1> QED
  BY <1>1, <1>10 DEF HonestInv

\* With the room that the promise leaves, the next request is admitted: in the
\* same window it weighs W; in the next one what was current is the previous count,
\* and in a later one nothing is left.
LEMMA PromiseKept ==
  ASSUME MaxKeys = 0, HonestInv, NEW r \in Requests, NextOf(r),
         answer[slot[r].client].remaining > 0,
         \A w \in Windows :
           w > WindowOf(answer[slot[r].client].at) => sent[slot[r].client][w] = 0
  PROVE  answer'[slot[r].client].allowed
<1> DEFINE c == slot[r].client
           t == slot[r].t
           w == WindowOf(t)
           p == Pipeline(c, w)
           a == Answer(p.prev, p.curr, t, Counted(sent'[c]))
           s == answer[c].at
           v == WindowOf(s)
           C(u) == CountIn(db.data[<<c, u>>])
<1>1. /\ slot[r] # None /\ Executed(r) /\ answer' = [answer EXCEPT ![c] = a]
      /\ t >= s /\ Counted(sent[c]) = answer[c].counted
  BY Zenon DEF NextOf, Decide
<1>2. Types /\ Contents /\ Promised
  BY DEF HonestInv, TypeInv
<1>3. /\ c \in Clients /\ t \in Ticks /\ t \in Nat /\ w \in Windows /\ w - 1 \in Windows /\ w \in Nat
  BY <1>1, <1>2, SlotTypes, WindowTypes, Numbers, WithinWindow
<1>4. /\ s \in Ticks /\ s \in Nat /\ v \in Windows /\ v - 1 \in Windows /\ v \in Nat
  <2>1. s \in Ticks
    BY <1>3 DEF HonestInv, TypeInv, AnswerType
  <2> QED
    BY <2>1, WindowTypes, Numbers, WithinWindow
<1>5. answer'[c].allowed <=> Estimated(p.prev, p.curr, t) <= limit * W
  <2>1. answer'[c] = a
    BY <1>1, <1>3 DEF HonestInv, TypeInv
  <2>2. a.allowed <=> limit * W - Estimated(p.prev, p.curr, t) >= 0
    BY DEF Answer
  <2>3. limit * W \in Int /\ Estimated(p.prev, p.curr, t) \in Int
    <3>1. p.curr \in Nat /\ p.prev \in Nat
      <4>1. C(w) \in Nat /\ C(w - 1) \in Nat
        BY <1>2, <1>3, CounterTypes
      <4>2. p.curr \in 1 .. C(w) + 1 /\ p.prev \in 0 .. C(w - 1)
        BY <1>2, <1>3, PipelineReads
      <4> HIDE DEF C, p
      <4> QED
        BY <4>1, <4>2
    <3>2. W \in Nat /\ limit \in Nat /\ t % W \in Int
      BY <1>3, WindowLength, LimiterAssumption, Quotient
    <3> QED
      BY <3>1, <3>2 DEF Estimated
  <2> DEFINE E == Estimated(p.prev, p.curr, t)
             L == limit * W
  <2>4. E \in Int /\ L \in Int /\ (a.allowed <=> L - E >= 0)
    BY <2>2, <2>3
  <2> HIDE DEF a, E, L
  <2>5. a.allowed <=> E <= L
    BY <2>4
  <2>6. answer'[c].allowed <=> a.allowed
    BY <2>1, Zenon
  <2> QED
    BY <2>5, <2>6, Zenon DEF E, L
<1>6. Room(db, c, s)
  BY <1>1, <1>2, <1>3 DEF Promised
<1>7. \A u \in Windows : u > v => sent[c][u] = 0
  OBVIOUS
<1>8. p.curr \in 1 .. C(w) + 1 /\ p.prev \in 0 .. C(w - 1)
  BY <1>2, <1>3, PipelineReads
<1>9. \A u \in Windows : C(u) \in Nat /\ (u > v => C(u) = 0)
  BY <1>2, <1>3, <1>7, CounterTypes
<1> DEFINE x == W - (t % W)
           y == W - (s % W)
<1>10. x \in 1 .. W /\ y \in 1 .. W /\ W \in Nat \ {0} /\ limit \in Nat \ {0}
       /\ t % W = t - w * W /\ s % W = s - v * W
  BY <1>3, <1>4, Weight, WindowLength, LimiterAssumption
<1>11. C(v - 1) * y + C(v) * W + W <= limit * W
  BY <1>6, Zenon DEF Room
<1>12. v <= w
  BY <1>1, <1>3, <1>4, WindowOrder
<1>13. Estimated(p.prev, p.curr, t) = p.prev * x + p.curr * W
  BY DEF Estimated
<1>14. v = w => x <= y
  <2> SUFFICES ASSUME v = w PROVE x <= y
    OBVIOUS
  <2>1. x = W - (t - w * W) /\ y = W - (s - w * W)
    BY <1>10
  <2> HIDE DEF x, y
  <2>2. w * W \in Nat
    BY <1>3, <1>10
  <2> QED
    BY <1>1, <1>3, <1>4, <1>10, <2>1, <2>2
<1> HIDE DEF p, x, y, c, t, w, s, v, C
<1> DEFINE P == p.prev
           Q == p.curr
<1>15. /\ P \in Nat /\ Q \in Nat /\ C(v - 1) \in Nat /\ C(v) \in Nat /\ C(w) \in Nat /\ C(w - 1) \in Nat
       /\ P <= C(w - 1) /\ Q <= C(w) + 1
  <2>1. C(v - 1) \in Nat /\ C(v) \in Nat /\ C(w) \in Nat /\ C(w - 1) \in Nat
    BY <1>3, <1>4, <1>9
  <2> QED
    BY <1>8, <2>1
<1> HIDE DEF P, Q
<1>16. /\ C(v - 1) * y \in Nat /\ C(v) * W \in Nat /\ limit * W \in Nat /\ P * x \in Nat /\ Q * W \in Nat
  BY <1>10, <1>15
<1>17. ASSUME v = w PROVE answer'[c].allowed
  <2>1. P * x <= C(v - 1) * y
    BY <1>10, <1>14, <1>15, <1>17, Products
  <2>2. Q * W <= (C(v) + 1) * W
    BY <1>10, <1>15, <1>17, Products
  <2>3. (C(v) + 1) * W = C(v) * W + W
    BY <1>10, <1>15
  <2> QED
    BY <1>5, <1>10, <1>11, <1>13, <1>16, <2>1, <2>2, <2>3 DEF P, Q
<1>18. ASSUME v < w PROVE answer'[c].allowed
  <2>1. C(w) = 0 /\ Q <= 1
    BY <1>3, <1>4, <1>9, <1>15, <1>18
  <2>2. P <= C(v)
    <3>1. CASE w - 1 = v
      BY <1>15, <3>1
    <3>2. CASE w - 1 # v
      <4>1. w - 1 > v
        BY <1>3, <1>4, <1>18, <3>2
      <4>2. C(w - 1) = 0
        BY <1>3, <1>9, <4>1
      <4> QED
        BY <1>15, <4>2
    <3> QED
      BY <3>1, <3>2
  <2>3. P * x <= C(v) * W
    BY <1>10, <1>15, <2>2, Products
  <2>4. Q * W <= 1 * W
    BY <1>10, <1>15, <2>1, Products
  <2> QED
    BY <1>5, <1>10, <1>11, <1>13, <1>16, <2>3, <2>4 DEF P, Q
<1>19. answer'[c].allowed
  BY <1>3, <1>4, <1>12, <1>17, <1>18
<1> QED
  BY <1>19 DEF c

-----------------------------------------------------------------------------
(* Theorems                                                                *)

\* limiter.py:51-62: with a Redis that neither evicts nor forgets counters, no
\* more than limit requests of a window are admitted, for any number of clients
\* and of overlapping requests, as long as Redis executes each of them within a window
\* of its start: a counter lives for two.
THEOREM AtMostLimit ==
  ASSUME MaxKeys = 0, MaxDelay <= W + 1
  PROVE  Spec => []WindowLimit
<1>1. Init => LimitInv
  BY InitLimit
<1>2. LimitInv /\ [Next]_vars => LimitInv'
  BY NextLimit
<1>3. LimitInv => WindowLimit
  BY DEF LimitInv, InTime, WithinSent, WindowLimit, Span
<1> QED
  BY <1>1, <1>2, <1>3, PTL DEF Spec

\* limiter.py:54: up to the end of the window after its own, a counter tells all
\* that was counted in it, for any number of clients and of overlapping requests
\* and however late Redis executes them.
THEOREM CountersKept ==
  ASSUME MaxKeys = 0
  PROVE  Spec => []NothingForgotten
<1>1. Init => LimitInv
  BY InitLimit
<1>2. LimitInv /\ [Next]_vars => LimitInv'
  BY NextLimit
<1>3. LimitInv => NothingForgotten
  <2> SUFFICES ASSUME LimitInv, ~lost, NEW c \in Clients, NEW w \in Windows,
                      now <= (w + 2) * W
               PROVE  Count(<<c, w>>) = sent[c][w]
    BY DEF NothingForgotten
  <2> DEFINE k == <<c, w>>
  <2>1. w \in Int /\ k \in Keys /\ W \in Nat /\ now \in Nat
    BY Numbers, WindowLength DEF LimitInv, Types
  <2>2. w * W + 2 * W \in Int /\ now <= w * W + 2 * W
    BY <2>1
  <2>3. Kept(db.data[k], sent[c][w], w, now) /\ sent[c][w] \in Nat
    BY DEF LimitInv, Counters, Types
  <2> HIDE DEF k
  <2>4. CASE sent[c][w] = 0
    <3>1. k \notin Live(db, now)
      BY <2>3, <2>4 DEF Kept, Live, Stored
    <3> QED
      BY <2>4, <3>1 DEF Count, k
  <2>5. CASE sent[c][w] > 0
    <3>1. Holds(db.data[k], sent[c][w]) /\ w * W + 2 * W <= db.data[k].expires
      BY <2>2, <2>3, <2>5 DEF Kept, Holds
    <3>2. k \in Live(db, now)
      BY <2>1, <2>2, <3>1, LiveCounter DEF Holds
    <3>3. db.data[k].value = sent[c][w]
      BY <3>1 DEF Holds
    <3> QED
      BY <3>2, <3>3 DEF Count, k
  <2> QED
    BY <2>3, <2>4, <2>5
<1> QED
  BY <1>1, <1>2, <1>3, PTL DEF Spec

\* limiter.py:32: as long as every request was counted before its window had
\* ended, and none before one that started earlier, 2 * limit requests have never
\* been admitted within the length of a window, however slow Redis may become.
THEOREM BurstsBounded ==
  ASSUME MaxKeys = 0
  PROVE  Spec => []NoDoubleBurst
<1>2. Init => BurstInv
  <2> SUFFICES ASSUME Init PROVE BurstInv
    OBVIOUS
  <2>1. LimitInv /\ WithinSent
    BY InitLimit DEF LimitInv, InTime, Init
  <2>2. \A c \in Clients, w \in Windows : sent[c][w] = 0
    BY DEF Init
  <2>3. InTurn
    <3>1. \A c \in Clients, w \in Windows : ~(sent[c][w] > 0)
      BY <2>2
    <3>2. overtaken \in BOOLEAN
      BY DEF Init
    <3> QED
      BY <3>1, <3>2, Zenon DEF InTurn
  <2>4. NoBurst
    <3>1. ASSUME NEW c \in Clients, NEW w \in Windows PROVE Admitted(c, Span(w)) = 0
      BY <2>1, <2>2, AdmittedBounds
    <3> QED
      BY <3>1, LimiterAssumption DEF NoBurst
  <2> QED
    BY <2>1, <2>3, <2>4 DEF BurstInv
<1>3. BurstInv /\ [Next]_vars => BurstInv'
  <2> SUFFICES ASSUME BurstInv, [Next]_vars PROVE BurstInv'
    OBVIOUS
  <2>1. LimitInv'
    BY NextLimit DEF BurstInv
  <2> QED
    BY <2>1, NextBurst
<1>4. BurstInv => NoDoubleBurst
  BY BurstBound DEF NoDoubleBurst
<1> QED
  BY <1>2, <1>3, <1>4, PTL DEF Spec

\* The store, the requests, the history and the answers have their types, with
\* any number of requests, however late they are counted and whatever is lost.
THEOREM LimiterTypes ==
  ASSUME MaxKeys = 0
  PROVE  Spec => []TypeOK
<1>1. Init => TypeInv
  BY InitTyped
<1>2. TypeInv /\ [Next]_vars => TypeInv'
  BY NextTyped
<1>3. TypeInv => TypeOK
  BY TypedOK
<1> QED
  BY <1>1, <1>2, <1>3, PTL DEF Spec

\* limiter.py:63, 72: what X-RateLimit-Remaining promises is kept, however late
\* requests are counted and whatever counters Redis loses.
THEOREM RemainingKept ==
  ASSUME MaxKeys = 0
  PROVE  Spec => RemainingHonest
<1>1. Init => HonestInv
  <2> SUFFICES ASSUME Init PROVE HonestInv
    OBVIOUS
  <2>1. TypeInv
    BY InitTyped
  <2>2. ASSUME NEW c \in Clients
        PROVE  answer[c].counted = 0 /\ answer[c].remaining = 0 /\ Counted(sent[c]) \in Nat
    <3>1. answer[c] = NoAnswer
      BY DEF Init
    <3>2. Counted(sent[c]) \in Nat
      BY <2>1, ExecutionsFinite DEF TypeInv, History
    <3> QED
      BY <3>1, <3>2 DEF NoAnswer
  <2> QED
    BY <2>1, <2>2 DEF HonestInv, Promised
<1>2. HonestInv /\ [Next]_vars => HonestInv'
  BY NextHonest
<1>3. HonestInv /\ [Next]_vars =>
        \A r \in Requests :
          LET c == slot[r].client
              a == answer[c] IN
          slot[r] # None /\ a.remaining > 0 /\ NextOf(r) /\ (\A w \in Windows : w > WindowOf(a.at) => sent[c][w] = 0)
            => answer'[c].allowed
  BY PromiseKept, Zenon
<1> QED
  BY <1>1, <1>2, <1>3, PTL DEF Spec, RemainingHonest
=============================================================================
