------------------------------ MODULE StoreOps ------------------------------
(***************************************************************************)
(* The methods of redis_clone/src/store.py as pure operators: each takes   *)
(* the contents of the store and the current time and returns the contents *)
(* it leaves and the value it answers.                                     *)
(*                                                                         *)
(* A method of Store runs without an await, so nothing can happen between  *)
(* its first and its last statement: one operator per method is the grain  *)
(* at which the event loop can interleave them.                            *)
(*                                                                         *)
(* Time is counted in ticks of 1/TicksPerSecond second.  Python's None     *)
(* (no entry, no deadline, option not given, null reply) is None.  A value *)
(* is a string: the ones int() accepts are represented by that integer,    *)
(* the others are the members of Texts.                                    *)
(***************************************************************************)
EXTENDS Integers, FiniteSets

CONSTANTS
  Keys,            \* the keys clients use
  MaxKeys,         \* MAX_KEYS: 0 means unlimited
  TicksPerSecond,  \* resolution of the clock
  Texts,           \* string values that are not integers
  None,            \* Python's None
  OK,              \* the +OK reply
  ValueError       \* the reply to INCR/INCRBY on a value that is not an integer

Value    == Int \cup Texts
Deadline == Int \cup {None}
Entry    == [value : Value, expires : Deadline]

ASSUME StoreAssumption ==
  /\ IsFiniteSet(Keys)
  /\ MaxKeys \in Nat
  /\ TicksPerSecond \in Nat \ {0}
  /\ Texts \cap Int = {}
  /\ None \notin Int
  /\ None \notin Entry

(***************************************************************************)
(* The OrderedDict: data[k] is the entry of k (None if there is none) and  *)
(* before[k] is the set of keys that stand before k, so that the key with  *)
(* nothing before it is the least recently used one.                       *)
(***************************************************************************)
DB == [data : [Keys -> Entry \cup {None}], before : [Keys -> SUBSET Keys]]

EmptyDB == [data |-> [k \in Keys |-> None], before |-> [k \in Keys |-> {}]]

IsExpired(e, now) == e.expires # None /\ now > e.expires

Stored(db) == {k \in Keys : db.data[k] # None}

Live(db, now) == {k \in Stored(db) : ~IsExpired(db.data[k], now)}

DelKeys(db, K) ==
  [data   |-> [k \in Keys |-> IF k \in K THEN None ELSE db.data[k]],
   before |-> [k \in Keys |-> IF k \in K THEN {} ELSE db.before[k] \ K]]

MoveToEnd(db, k) ==
  [db EXCEPT !.before = [j \in Keys |-> IF j = k THEN Stored(db) \ {k}
                                                 ELSE db.before[j] \ {k}]]

\* Mutant of GetLive: a read does not count as a use.
GetLive_NotTouched(db, now, k) ==
  IF k \in Live(db, now) THEN db ELSE DelKeys(db, {k})

\* _get_live: an expired entry is deleted, a live one becomes the most
\* recently used.  (Deleting a key that is not there changes nothing.)
GetLive(db, now, k) ==
  IF k \in Live(db, now) THEN MoveToEnd(db, k) ELSE DelKeys(db, {k})

\* Mutant of EvictIfNeeded: one key too many is tolerated.
EvictIfNeeded_OneLate(db) ==
  LET surplus == Cardinality(Stored(db)) - MaxKeys - 1
  IN  IF MaxKeys = 0 THEN db
      ELSE DelKeys(db, {k \in Stored(db) : Cardinality(db.before[k]) < surplus})

\* _evict_if_needed: popitem(last=False) until MaxKeys keys are left, that is,
\* the first |Stored| - MaxKeys keys of the OrderedDict go.
EvictIfNeeded(db) ==
  LET surplus == Cardinality(Stored(db)) - MaxKeys
  IN  IF MaxKeys = 0 THEN db
      ELSE DelKeys(db, {k \in Stored(db) : Cardinality(db.before[k]) < surplus})

\* Mutant of Assign: the value is stored without its Entry.
Assign_Bare(db, k, e) == [data   |-> [j \in Keys |-> IF j = k THEN e.value ELSE db.data[j]],
                          before |-> db.before]

\* self._data[key] = e
Assign(db, k, e) == [data   |-> [j \in Keys |-> IF j = k THEN e ELSE db.data[j]],
                     before |-> db.before]

\* self._data[key] = Entry(...); move_to_end(key); _evict_if_needed()
Put(db, k, e) == EvictIfNeeded(MoveToEnd(Assign(db, k, e), k))

-----------------------------------------------------------------------------

\* ex (seconds) wins over px (milliseconds, here ticks) when both are given.
ExpiresAt(now, ex, px) ==
  CASE ex # None              -> now + ex * TicksPerSecond
    [] ex = None /\ px # None -> now + px
    [] OTHER                  -> None

Set(db, now, k, v, ex, px) ==
  [db  |-> Put(db, k, [value |-> v, expires |-> ExpiresAt(now, ex, px)]),
   res |-> OK]

Get(db, now, k) ==
  [db  |-> GetLive(db, now, k),
   res |-> IF k \in Live(db, now) THEN db.data[k].value ELSE None]

\* Mutant of IncrBy: the new entry has no deadline.
IncrBy_DropsDeadline(db, now, k, amount) ==
  LET live == GetLive(db, now, k)
      old  == IF k \in Live(db, now) THEN db.data[k].value ELSE 0
  IN  IF old \in Texts
      THEN [db |-> live, res |-> ValueError]
      ELSE [db  |-> Put(live, k, [value |-> old + amount, expires |-> None]),
            res |-> old + amount]

\* incrby; incr is IncrBy(db, now, k, 1).  The entry is replaced by a new one
\* that inherits the deadline of the old one.
IncrBy(db, now, k, amount) ==
  LET live    == GetLive(db, now, k)
      old     == IF k \in Live(db, now) THEN db.data[k]
                                        ELSE [value |-> 0, expires |-> None]
      new_val == old.value + amount
  IN  IF old.value \in Texts
      THEN [db |-> live, res |-> ValueError]
      ELSE [db  |-> Put(live, k, [old EXCEPT !.value = new_val]),
            res |-> new_val]

\* delete(*keys): counts the entries it pops, expired or not.
Delete(db, K) == [db |-> DelKeys(db, K), res |-> Cardinality(K \cap Stored(db))]

\* exists(j, k): each key is looked up, and thereby touched, in turn.
Exists(db, now, j, k) ==
  LET Count(i) == IF i \in Live(db, now) THEN 1 ELSE 0
  IN  [db |-> GetLive(GetLive(db, now, j), now, k), res |-> Count(j) + Count(k)]

Expire(db, now, k, seconds, nx) ==
  LET live == GetLive(db, now, k)
  IN  IF k \notin Live(db, now) \/ (nx /\ db.data[k].expires # None)
      THEN [db |-> live, res |-> 0]
      ELSE [db  |-> Assign(live, k, [db.data[k] EXCEPT !.expires = now + seconds * TicksPerSecond]),
            res |-> 1]

\* Mutant of Ttl: the remaining time is rounded up.
Ttl_RoundedUp(db, now, k) ==
  [db  |-> GetLive(db, now, k),
   res |-> CASE k \notin Live(db, now)     -> -2
             [] k \in Live(db, now) /\ db.data[k].expires = None -> -1
             [] OTHER -> (db.data[k].expires - now + TicksPerSecond - 1) \div TicksPerSecond]

\* ttl: the remaining time is truncated to whole seconds.
Ttl(db, now, k) ==
  [db  |-> GetLive(db, now, k),
   res |-> CASE k \notin Live(db, now)     -> -2
             [] k \in Live(db, now) /\ db.data[k].expires = None -> -1
             [] OTHER -> (db.data[k].expires - now) \div TicksPerSecond]

DbSize(db, now) ==
  [db  |-> DelKeys(db, Stored(db) \ Live(db, now)),
   res |-> Cardinality(Live(db, now))]

Flush == [db |-> EmptyDB, res |-> OK]
=============================================================================
