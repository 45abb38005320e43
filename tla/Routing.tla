------------------------------ MODULE Routing -------------------------------
(***************************************************************************)
(* A stream of picks by one of the three algorithms from a pool that       *)
(* changes, by requests that come and go.  The load balancer runs round    *)
(* robin only (see LoadBalancer); the other two are there to replace it.   *)
(* Between the pick of a server and the moment its connection is counted   *)
(* the handler waits for the pin of the session to be stored: other        *)
(* requests are picked for meanwhile, from counts that know nothing of it. *)
(***************************************************************************)
EXTENDS Algorithms, Sequences

CONSTANTS
  Servers,   \* numbered in the order of the list
  weight,    \* BackendServer.weight
  MaxPicks   \* bound: picks of an algorithm

ASSUME RoutingAssumption ==
  /\ IsFiniteSet(Servers) /\ Servers # {} /\ Servers \subseteq Nat
  /\ weight \in [Servers -> Nat \ {0}]
  /\ MaxPicks \in Nat

VARIABLES
  algorithm, \* the algorithm in use
  healthy,   \* the servers that are HEALTHY
  index,     \* RoundRobin._index
  picks,     \* picks so far: the sum of WeightedRoundRobin._counters
  waiting,   \* of each server: the requests it was picked for that wait for their pin
  conns,     \* BackendServer.active_connections
  picked     \* history: servers picked since the pool has changed

vars == <<algorithm, healthy, index, picks, waiting, conns, picked>>

Algorithm == {"RoundRobin", "LeastConnections", "WeightedRoundRobin"}

Init ==
  /\ algorithm \in Algorithm
  /\ healthy = Servers
  /\ index = 0
  /\ picks = 0
  /\ waiting = [s \in Servers |-> 0]
  /\ conns = [s \in Servers |-> 0]
  /\ picked = <<>>

Choice ==
  CASE algorithm = "RoundRobin"         -> RoundRobin(healthy, index).server
    [] algorithm = "LeastConnections"   -> LeastConnections(healthy, conns)
    [] algorithm = "WeightedRoundRobin" -> WeightedRoundRobin(healthy, weight, picks)

\* A server is picked, and the pin of the session is sent to Redis.
Pick ==
  /\ healthy # {} /\ picks < MaxPicks
  /\ waiting' = [waiting EXCEPT ![Choice] = @ + 1]
  /\ picked' = Append(picked, Choice)
  /\ picks' = picks + 1
  /\ index' = IF algorithm = "RoundRobin" THEN RoundRobin(healthy, index).index ELSE index
  /\ UNCHANGED <<algorithm, healthy, conns>>

\* The pin is stored: the request goes to the server picked for it ...
Begin(s) ==
  /\ waiting[s] > 0
  /\ waiting' = [waiting EXCEPT ![s] = @ - 1]
  /\ conns' = [conns EXCEPT ![s] = @ + 1]
  /\ UNCHANGED <<algorithm, healthy, index, picks, picked>>

\* ... or Redis fails, and the request with it.
PinFailed(s) ==
  /\ waiting[s] > 0
  /\ waiting' = [waiting EXCEPT ![s] = @ - 1]
  /\ UNCHANGED <<algorithm, healthy, index, picks, conns, picked>>

\* A request ends.
Done(s) ==
  /\ conns[s] > 0
  /\ conns' = [conns EXCEPT ![s] = @ - 1]
  /\ UNCHANGED <<algorithm, healthy, index, picks, waiting, picked>>

\* A server leaves the pool or comes back.
Change(s) ==
  /\ healthy' = IF s \in healthy THEN healthy \ {s} ELSE healthy \cup {s}
  /\ picked' = <<>>
  /\ UNCHANGED <<algorithm, index, picks, waiting, conns>>

Next ==
  \/ Pick
  \/ \E s \in Servers : Begin(s) \/ PinFailed(s) \/ Done(s) \/ Change(s)

Spec == Init /\ [][Next]_vars

-----------------------------------------------------------------------------
(* Properties                                                              *)

\* The pool and the state of the algorithms have their types.
TypeOK ==
  /\ algorithm \in Algorithm
  /\ healthy \subseteq Servers
  /\ index \in 0 .. Cardinality(Servers) - 1
  /\ picks \in 0 .. MaxPicks
  /\ waiting \in [Servers -> 0 .. MaxPicks]
  /\ conns \in [Servers -> 0 .. MaxPicks]
  /\ picked \in Seq(healthy)

\* How often a cycle through the pool has to pick s.
Share(s) == IF algorithm = "WeightedRoundRobin" THEN weight[s] ELSE 1

Cycle == Cardinality(UNION {{s} \X (1 .. Share(s)) : s \in healthy})

\* From wherever a change of the pool has left the index or the counters, any
\* picks that make up a cycle give every healthy server its share
\* (algorithms.py:5, algorithms.py:30): a server that has been skipped because
\* the pool changed gets its turn once it stops changing.
FairShares ==
  algorithm # "LeastConnections" /\ Cycle > 0 /\ Len(picked) >= Cycle
    => \A s \in healthy :
         Cardinality({i \in Len(picked) - Cycle + 1 .. Len(picked) : picked[i] = s}) = Share(s)
=============================================================================
