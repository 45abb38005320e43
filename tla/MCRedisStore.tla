---------------------------- MODULE MCRedisStore ----------------------------
(* Instances of RedisStore small enough for TLC.                           *)
EXTENDS RedisStore, TLC

CONSTANTS a, b, c, text

TwoKeys   == {a, b}
ThreeKeys == {a, b, c}
Symmetry  == Permutations(ThreeKeys)
OneText   == {text}

\* SET stores a string that INCR rejects; counters are made by INCR itself.
OnlyText   == {text}

\* EX 0 and EX -1 are accepted by the code: deadlines now and in the past.
EdgeSeconds == {-1, 0, 1}

OneAmount == {1}
OneMilli  == {1}
=============================================================================
