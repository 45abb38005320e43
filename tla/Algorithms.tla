----------------------------- MODULE Algorithms -----------------------------
(***************************************************************************)
(* pick() of the three algorithms of load_balancer/src/algorithms.py, for  *)
(* a set of healthy servers, which are numbered in the order of the list   *)
(* that pick() is given.  pick() raises when there is none.                *)
(***************************************************************************)
EXTENDS Integers, FiniteSets

\* The server of H at position i, counted from 0.
Nth(H, i) == CHOOSE s \in H : Cardinality({t \in H : t < s}) = i

\* Mutants of RoundRobin: the index is advanced by the number of servers; it is
\* not reduced.
RoundRobin_Stuck(healthy, index) ==
  LET size == Cardinality(healthy)
  IN  [server |-> Nth(healthy, index % size), index |-> (index + size) % size]

RoundRobin_Unreduced(healthy, index) ==
  [server |-> Nth(healthy, index % Cardinality(healthy)), index |-> index + 1]

\* RoundRobin.pick: the server and what _index becomes.
RoundRobin(healthy, index) ==
  LET size == Cardinality(healthy)
  IN  [server |-> Nth(healthy, index % size), index |-> (index + 1) % size]

\* LeastConnections.pick: min() returns the first of those with the least.
LeastConnections(healthy, conns) ==
  CHOOSE s \in healthy : \A t \in healthy : conns[s] < conns[t] \/ (conns[s] = conns[t] /\ s <= t)

\* WeightedRoundRobin.pick: the list holds every healthy server as often as its
\* weight says; picks is the sum of _counters.
WeightedRoundRobin(healthy, weight, picks) ==
  LET weighted  == UNION {{s} \X (1 .. weight[s]) : s \in healthy}
      before(w) == {v \in weighted : v[1] < w[1] \/ (v[1] = w[1] /\ v[2] < w[2])}
      w         == CHOOSE w \in weighted : Cardinality(before(w)) = picks % Cardinality(weighted)
  IN  w[1]
=============================================================================
