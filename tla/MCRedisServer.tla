--------------------------- MODULE MCRedisServer ----------------------------
(* Instances of RedisServer small enough for TLC.                          *)
EXTENDS RedisServer

CONSTANTS c1, c2

TwoConnections == {c1, c2}
OneKey         == {counter}
NoTexts        == {}

\* Connections are treated alike.
Symmetry == Permutations(Connections)
=============================================================================
