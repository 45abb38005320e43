--------------------------- MODULE MCLoadBalancer ---------------------------
(* Instances of LoadBalancer small enough for TLC.                         *)
EXTENDS LoadBalancer, TLC

CONSTANTS r1, r2, x1

OneRequest  == {r1}
TwoRequests == {r1, r2}
OneSession  == {x1}

NoServers   == {}
FirstServer == {1}
NoSessions  == {}

\* What may become of server 1 and of server 2.
OneDown    == <<{"up", "down"}, {"up"}>>
DownOrSick == <<{"up", "down"}, {"up", "sick"}>>
AlwaysUp   == <<{"up"}, {"up"}>>

\* Requests are treated alike.
Symmetry == Permutations(Requests)
=============================================================================
