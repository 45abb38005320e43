---------------------------- MODULE ExpiringMap -----------------------------
(***************************************************************************)
(* What the clients of redis_clone may count on: a map whose entries vanish *)
(* by themselves the moment their deadline has passed.  There is no order,  *)
(* and no lookup changes what a later one answers.  Two weaknesses of the   *)
(* implementation remain visible.  With a MAX_KEYS limit a write may push   *)
(* out one other key.  And a key that expired while nobody looked at it is  *)
(* still counted by the DEL that names it: stale holds those keys, and a    *)
(* key that was never stored, was deleted, or was looked up since it        *)
(* expired is not among them.                                               *)
(***************************************************************************)
EXTENDS Integers, FiniteSets

CONSTANTS Keys, MaxKeys, TicksPerSecond, Texts, None, OK, ValueError,
          InputValues, Seconds, Millis, Amounts

VARIABLES
  map,   \* the entry of each key, None where there is none
  stale, \* the keys that have expired and were not looked up since
  now,
  last   \* the last command: its name, its keys, its reply

vars == <<map, stale, now, last>>

Present(m) == {k \in Keys : m[k] # None}

NoCommand == [op |-> "start", keys |-> {}, res |-> OK]

Nothing == map' = [k \in Keys |-> None] /\ stale' = {}

Init == map = [k \in Keys |-> None] /\ stale = {} /\ now = 0 /\ last = NoCommand

Reply(op, K, res) ==
  /\ last' = [op |-> op, keys |-> K, res |-> res]
  /\ UNCHANGED now

\* A lookup of the keys K: the expired ones among them are gone for good.
Read(op, K, res) == Reply(op, K, res) /\ stale' = stale \ K /\ UNCHANGED map

Past(deadline) == deadline # None /\ deadline < now

\* Stores e under k, and may push out one other key; an entry whose deadline
\* has passed is stale from the beginning.
Write(k, e) ==
  \E lost \in SUBSET (Keys \ {k}) :
    /\ Cardinality(lost) <= (IF MaxKeys = 0 THEN 0 ELSE 1)
    /\ map' = [j \in Keys |-> IF j \in lost THEN None
                              ELSE IF j # k THEN map[j]
                              ELSE IF Past(e.expires) THEN None ELSE e]
    /\ stale' = (stale \ ({k} \cup lost)) \cup (IF Past(e.expires) THEN {k} ELSE {})

SET(k, v, ex, px) ==
  /\ Reply("SET", {k}, OK)
  /\ Write(k, [value   |-> v,
               expires |-> IF ex # None THEN now + ex * TicksPerSecond
                           ELSE IF px # None THEN now + px ELSE None])

GET(k) == Read("GET", {k}, IF map[k] = None THEN None ELSE map[k].value)

INCRBY(k, amount) ==
  \/ /\ map[k] = None
     /\ Reply("INCRBY", {k}, amount)
     /\ Write(k, [value |-> amount, expires |-> None])
  \/ /\ map[k] # None /\ map[k].value \notin Texts
     /\ Reply("INCRBY", {k}, map[k].value + amount)
     /\ Write(k, [value |-> map[k].value + amount, expires |-> map[k].expires])
  \/ /\ map[k] # None /\ map[k].value \in Texts
     /\ Read("INCRBY", {k}, ValueError)

\* Counts what it deletes: a key that is neither present nor stale is not.
DEL(K) ==
  /\ Reply("DEL", K, Cardinality(K \cap (Present(map) \cup stale)))
  /\ map' = [k \in Keys |-> IF k \in K THEN None ELSE map[k]]
  /\ stale' = stale \ K

EXISTS(j, k) ==
  Read("EXISTS", {j, k}, (IF map[j] = None THEN 0 ELSE 1) + (IF map[k] = None THEN 0 ELSE 1))

\* A deadline in the past removes the key at once.
EXPIRE(k, seconds, nx) ==
  LET deadline == now + seconds * TicksPerSecond
      refused  == map[k] = None \/ (nx /\ map[k].expires # None)
  IN  \/ refused /\ Read("EXPIRE", {k}, 0)
      \/ /\ ~refused
         /\ Reply("EXPIRE", {k}, 1)
         /\ map' = [map EXCEPT ![k] = IF Past(deadline) THEN None
                                      ELSE [value |-> map[k].value, expires |-> deadline]]
         /\ stale' = stale \cup (IF Past(deadline) THEN {k} ELSE {})

TTL(k) ==
  \/ map[k] = None /\ Read("TTL", {k}, -2)
  \/ map[k] # None /\ map[k].expires = None /\ Read("TTL", {k}, -1)
  \/ /\ map[k] # None /\ map[k].expires # None
     /\ Read("TTL", {k}, (map[k].expires - now) \div TicksPerSecond)

\* Counting the keys is a look at all of them.
DBSIZE ==
  /\ Reply("DBSIZE", {}, Cardinality(Present(map)))
  /\ stale' = {}
  /\ UNCHANGED map

FLUSHALL == Reply("FLUSHALL", {}, OK) /\ Nothing

\* Entries disappear when the clock passes their deadline.
Tick ==
  LET gone == {k \in Present(map) : map[k].expires # None /\ map[k].expires <= now}
  IN  /\ now' = now + 1
      /\ map' = [k \in Keys |-> IF k \in gone THEN None ELSE map[k]]
      /\ stale' = stale \cup gone
      /\ UNCHANGED last

Restart == Nothing /\ last' = NoCommand /\ UNCHANGED now

Next ==
  \/ \E k \in Keys :
       \/ \E v \in InputValues, ex \in Seconds \cup {None}, px \in Millis \cup {None} :
            SET(k, v, ex, px)
       \/ GET(k)
       \/ \E amount \in Amounts : INCRBY(k, amount)
       \/ \E j \in Keys : EXISTS(j, k)
       \/ \E seconds \in Seconds, nx \in BOOLEAN : EXPIRE(k, seconds, nx)
       \/ TTL(k)
  \/ \E K \in SUBSET Keys \ {{}} : DEL(K)
  \/ DBSIZE
  \/ FLUSHALL
  \/ Tick
  \/ Restart

Spec == Init /\ [][Next]_vars
=============================================================================
