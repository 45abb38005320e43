----------------------------- MODULE RedisStore -----------------------------
(***************************************************************************)
(* The key-value store of redis_clone as a state machine: one action per   *)
(* data command that commands.py dispatches to a Store, the passing of     *)
(* time, and a restart of the process (nothing is persisted).              *)
(*                                                                         *)
(* Commands of different connections are served by one event loop and      *)
(* dispatch() never suspends, so a command is one atomic step; an EXEC is  *)
(* a run of such steps.                                                    *)
(***************************************************************************)
EXTENDS StoreOps

CONSTANTS
  InputValues,  \* values given to SET
  Seconds,      \* arguments of EX and of EXPIRE
  Millis,       \* arguments of PX, in ticks
  Amounts,      \* arguments of INCRBY (INCR is INCRBY 1)
  MaxTime,      \* bound: the clock stops here
  MaxCount      \* bound: no counter grows beyond this

ASSUME InputAssumption ==
  /\ InputValues \subseteq Value
  /\ Seconds \subseteq Int
  /\ Millis \subseteq Int
  /\ Amounts \subseteq Int

VARIABLES
  db,    \* self._data
  now,   \* time.monotonic()
  last   \* the last command: its name, the keys it was given, its reply

vars == <<db, now, last>>

Ops == {"SET", "GET", "INCRBY", "DEL", "EXISTS", "EXPIRE", "TTL",
        "DBSIZE", "FLUSHALL", "start"}

Reply == Value \cup {None, OK, ValueError}

NoCommand == [op |-> "start", keys |-> {}, res |-> OK]

Init == db = EmptyDB /\ now = 0 /\ last = NoCommand

\* Carries out a command: out is what the Store method leaves and answers, the
\* exception included that dispatch turns into an error.
Run(op, K, out) ==
  /\ db' = out.db
  /\ last' = [op |-> op, keys |-> K, res |-> out.res]
  /\ UNCHANGED now

SET(k, v, ex, px) == Run("SET", {k}, Set(db, now, k, v, ex, px))

GET(k) == Run("GET", {k}, Get(db, now, k))

INCRBY(k, amount) ==
  /\ k \in Live(db, now) /\ db.data[k].value \in Int
       => db.data[k].value + amount \in -MaxCount .. MaxCount
  /\ Run("INCRBY", {k}, IncrBy(db, now, k, amount))

DEL(K) == Run("DEL", K, Delete(db, K))

EXISTS(j, k) == Run("EXISTS", {j, k}, Exists(db, now, j, k))

EXPIRE(k, seconds, nx) == Run("EXPIRE", {k}, Expire(db, now, k, seconds, nx))

TTL(k) == Run("TTL", {k}, Ttl(db, now, k))

DBSIZE == Run("DBSIZE", {}, DbSize(db, now))

FLUSHALL == Run("FLUSHALL", {}, Flush)

Tick ==
  /\ now < MaxTime
  /\ now' = now + 1
  /\ UNCHANGED <<db, last>>

\* The process stops and is started again with an empty Store.
Restart == db' = EmptyDB /\ last' = NoCommand /\ UNCHANGED now

KeyCommand(k) ==
  \/ \E v \in InputValues, ex \in Seconds \cup {None}, px \in Millis \cup {None} :
       SET(k, v, ex, px)
  \/ GET(k)
  \/ \E amount \in Amounts : INCRBY(k, amount)
  \/ \E j \in Keys : EXISTS(j, k)
  \/ \E seconds \in Seconds, nx \in BOOLEAN : EXPIRE(k, seconds, nx)
  \/ TTL(k)

Next ==
  \/ \E k \in Keys : KeyCommand(k)
  \/ \E K \in SUBSET Keys \ {{}} : DEL(K)
  \/ DBSIZE
  \/ FLUSHALL
  \/ Tick
  \/ Restart

Spec == Init /\ [][Next]_vars

-----------------------------------------------------------------------------
(* Properties                                                              *)

\* The store, the clock and the last command have their types.
TypeOK ==
  /\ db \in DB
  /\ now \in Nat
  /\ last \in [op : Ops, keys : SUBSET Keys, res : Reply]

\* With a MAX_KEYS limit the store never holds more entries than that, the
\* expired ones included, whatever sequence of writes, reads and expirations
\* led there (store.py:32-37).
WithinMaxKeys == MaxKeys > 0 => Cardinality(Stored(db)) <= MaxKeys

\* Least recently used means just that: with room for two keys, what the
\* previous command touched is still there after a write to another key, so
\* every read that touches a key must also move it to the end of the order
\* (store.py:29,50,84).
RecentlyUsedSurvives ==
  [][ \A k \in last.keys :
        /\ MaxKeys >= 2 /\ k \in Stored(db)
        /\ last.keys = {k}
        /\ last'.op \in {"SET", "INCRBY"} /\ last # last' /\ k \notin last'.keys
        => k \in Stored(db)' ]_vars

\* The deadline of a key that stays alive moves only when a SET replaces the
\* key, an EXPIRE sets it, or the key was lost and created again; in
\* particular no increment, read or sweep renews or drops it (store.py:57-86,
\* "Preserves existing TTL"), and EXPIRE NX never moves a deadline
\* (store.py:110): the window counters of the limiter depend on both.
DeadlineKept ==
  [][ \A k \in Keys :
        /\ k \in Live(db, now) /\ k \in Live(db, now)'
        /\ db.data[k].expires # db.data[k].expires'
        => \/ \E v \in InputValues, ex \in Seconds \cup {None}, px \in Millis \cup {None} :
                SET(k, v, ex, px)
           \/ \E seconds \in Seconds : EXPIRE(k, seconds, FALSE)
           \/ db.data[k].expires = None /\ \E seconds \in Seconds : EXPIRE(k, seconds, TRUE)
    ]_vars

\* Clients see a map whose entries vanish on time: lazy expiration, touching,
\* purging and the order of the keys never show in a reply, except in the
\* answer of a DEL that names a key which expired unseen (store.py:88-94).
liveMap   == [k \in Keys |-> IF k \in Live(db, now) THEN db.data[k] ELSE None]
staleKeys == Stored(db) \ Live(db, now)

Map == INSTANCE ExpiringMap WITH map <- liveMap, stale <- staleKeys

ImplementsMap == Map!Spec

\* What store.py:89 ("Returns count of keys actually deleted") and PRD.md:893
\* ("DEL MUST return 1 if deleted, 0 if not found") say of DEL: it counts the
\* keys that were still there.  A key that expired is not found by GET or
\* EXISTS, yet DEL counts it as long as nobody looked it up (store.py:92).
DelCountsTheLiving ==
  [][ \A K \in SUBSET Keys \ {{}} :
        DEL(K) => last'.res = Cardinality(K \cap Live(db, now)) ]_vars
=============================================================================
