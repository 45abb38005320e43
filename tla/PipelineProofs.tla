--------------------------- MODULE PipelineProofs ---------------------------
(***************************************************************************)
(* What clients of the rate limiter are told is true, and the limit of an  *)
(* endpoint holds behind the balancer, for every number of requests, every *)
(* set of paths and all limits.                                            *)
(***************************************************************************)
EXTENDS Pipeline, FiniteSetTheorems, TLAPS

\* The balancer knows nothing of a request before the limiter has sent it, and
\* has replied to none that it still handles; what it replies is true.
InOrder ==
  \A r \in Requests :
    /\ call[r] \notin {"sent", "done"} => ~open[r] /\ delivered[r] = 0 /\ reply[r] = None
    /\ call[r] # "done" => answer[r] = None
    /\ open[r] => reply[r] = None
    /\ reply[r] = 200 => delivered[r] = 1
    /\ reply[r] \in {413, 503} => delivered[r] = 0

\* The requests to an endpoint that have passed the limiter and that backends
\* have received or may still receive.
Held(r) == call[r] \in {"body", "connect", "sent"} \/ open[r] \/ delivered[r] = 1

Admitted(n) == {r \in Requests : path[r].name = n /\ Held(r)}

Key(n) == [name |-> n, slash |-> FALSE]

\* Each of them has been counted, and not more than the limit allows.
Counted ==
  \A n \in Names : /\ Cardinality(Admitted(n)) <= counter[Key(n)]
                   /\ Cardinality(Admitted(n)) <= LimitOf(n)

-----------------------------------------------------------------------------
(* Types and the order of the steps                                        *)

\* Every step keeps the types.
LEMMA TypeStep ==
  ASSUME TypeOK, [Next]_vars
  PROVE  TypeOK'
<1> USE DEF TypeOK
<1>1. CASE UNCHANGED vars
  BY <1>1 DEF vars
<1>2. ASSUME NEW r \in Requests,
             \/ Arrive(r) \/ BodyRead(r) \/ BodyFailed(r) \/ Refused(r)
             \/ Timeout(r) \/ Disconnected(r)
      PROVE  TypeOK'
  BY <1>2 DEF Arrive, BodyRead, BodyFailed, Refused, Timeout, Disconnected, Goto, Answer, PC
<1>3. ASSUME NEW r \in Requests, Decide(r) \/ RedisError(r)
      PROVE  TypeOK'
  <2>1. counter' \in [Paths -> Nat]
    BY <1>3 DEF Decide, RedisError, Count
  <2> QED
    BY <1>3, <2>1 DEF Decide, RedisError, Goto, Answer, PC
<1>4. ASSUME NEW r \in Requests, Accepted(r)
      PROVE  TypeOK'
  BY <1>4 DEF Accepted, Balancer!Accept, Goto, PC
<1>5. ASSUME NEW r \in Requests, Relay(r)
      PROVE  TypeOK'
  BY <1>5 DEF Relay, Answer, PC, Balancer!Code
<1>6. ASSUME NEW r \in Requests, Forward(r)
      PROVE  TypeOK'
  <2>1. CASE Balancer!Deliver(r)
    BY <1>6, <2>1 DEF Forward, Balancer!Deliver
  <2>2. ASSUME NEW code \in Balancer!Code, Balancer!Reply(r, code)
        PROVE  TypeOK'
    BY <1>6, <2>2 DEF Forward, Balancer!Reply
  <2> QED
    BY <1>6, <2>1, <2>2 DEF Forward
<1>7. CASE BalancerCrash
  <2>1. running' \in BOOLEAN
    BY <1>7, ZenonT(40) DEF BalancerCrash
  <2>2. open' \in [Requests -> BOOLEAN]
    BY <1>7 DEF BalancerCrash, Balancer!Crash
  <2> QED
    BY <1>7, <2>1, <2>2 DEF BalancerCrash, Balancer!Crash
<1>8. CASE BalancerStart
  <2>1. running' \in BOOLEAN
    BY <1>8, ZenonT(40) DEF BalancerStart
  <2> QED
    BY <1>8, <2>1 DEF BalancerStart
<1>9. CASE LimiterCrash
  BY <1>9 DEF LimiterCrash, PC
<1> QED
  BY <1>1, <1>2, <1>3, <1>4, <1>5, <1>6, <1>7, <1>8, <1>9 DEF Next, Handle

\* Every step keeps the order, and what clients have been told true.
LEMMA OrderStep ==
  ASSUME TypeOK, InOrder, Truthful, [Next]_vars
  PROVE  InOrder' /\ Truthful'
<1> USE DEF TypeOK, InOrder, Truthful
<1>0. None \notin {200, 413, 429, 500, 502, 503, 504}
  BY PipelineAssumption
<1>1. CASE UNCHANGED vars
  BY <1>1 DEF vars
<1>2. ASSUME NEW r \in Requests,
             \/ Arrive(r) \/ BodyRead(r) \/ BodyFailed(r) \/ Refused(r)
             \/ Timeout(r) \/ Disconnected(r) \/ Decide(r) \/ RedisError(r)
      PROVE  InOrder' /\ Truthful'
  BY <1>0, <1>2 DEF Arrive, BodyRead, BodyFailed, Refused, Timeout, Disconnected,
                    Decide, RedisError, Goto, Answer, PC
<1>3. ASSUME NEW r \in Requests, Accepted(r)
      PROVE  InOrder' /\ Truthful'
  BY <1>0, <1>3 DEF Accepted, Balancer!Accept, Goto, PC
<1>4. ASSUME NEW r \in Requests, Relay(r)
      PROVE  InOrder' /\ Truthful'
  BY <1>0, <1>4 DEF Relay, Answer, PC, Balancer!Code
<1>5. ASSUME NEW r \in Requests, Forward(r)
      PROVE  InOrder' /\ Truthful'
  BY <1>0, <1>5 DEF Forward, Balancer!Deliver, Balancer!Reply
<1>6. CASE BalancerCrash \/ BalancerStart \/ LimiterCrash
  BY <1>0, <1>6 DEF BalancerCrash, BalancerStart, LimiterCrash, Balancer!Crash, PC
<1> QED
  BY <1>1, <1>2, <1>3, <1>4, <1>5, <1>6 DEF Next, Handle

-----------------------------------------------------------------------------
(* The limit                                                               *)

\* A trailing slash changes neither the key nor the limit.
LEMMA KeyOfPath ==
  ASSUME TypeOK, NEW r \in Requests
  PROVE  /\ path[r].name \in Names
         /\ BaseKey(path[r]) = Key(path[r].name)
         /\ Config(path[r]) = LimitOf(path[r].name)
<1>1. path[r].name \in Names
  BY DEF TypeOK, Paths
<1>2. Strip(path[r]) = Key(path[r].name)
  BY Zenon DEF Strip, Key
<1>3. \A n : Key(n).name = n
  BY DEF Key
<1>4. \A n : Strip(Key(n)) = Key(n)
  BY <1>3, Zenon DEF Strip, Key
<1> QED
  BY <1>1, <1>2, <1>4, Zenon DEF BaseKey, Config, LimitOf, Key

\* The sets that are counted are finite.
LEMMA AdmittedFinite ==
  ASSUME NEW n
  PROVE  /\ IsFiniteSet(Admitted(n)) /\ Cardinality(Admitted(n)) \in Nat
         /\ IsFiniteSet(Admitted(n)') /\ Cardinality(Admitted(n)') \in Nat
<1>1. Admitted(n) \in SUBSET Requests /\ Admitted(n)' \in SUBSET Requests
  BY DEF Admitted
<1> QED
  BY <1>1, FS_Subset, FS_CardinalityType, PipelineAssumption

\* A step that lets no request pass and that only adds to the counters keeps
\* the bounds.
LEMMA NoneAdmitted ==
  ASSUME TypeOK, TypeOK', Counted, UNCHANGED path,
         \A r \in Requests : Held(r)' => Held(r),
         \A p \in Paths : counter'[p] >= counter[p]
  PROVE  Counted'
<1> SUFFICES ASSUME NEW n \in Names
             PROVE  /\ Cardinality(Admitted(n)') <= counter'[Key(n)]
                    /\ Cardinality(Admitted(n)') <= LimitOf(n)
  BY DEF Counted, Key, LimitOf, Config, Strip
<1>1. Admitted(n)' \in SUBSET Admitted(n)
  BY DEF Admitted
<1>2. Cardinality(Admitted(n)') <= Cardinality(Admitted(n))
  BY <1>1, AdmittedFinite, FS_Subset
<1>3. Key(n) \in Paths
  BY DEF Key, Paths
<1>4. counter[Key(n)] \in Nat /\ counter'[Key(n)] \in Nat /\ LimitOf(n) \in Nat
  BY <1>3, PipelineAssumption DEF TypeOK, LimitOf, Config, Strip
<1> QED
  BY <1>2, <1>3, <1>4, AdmittedFinite DEF Counted

\* A request that passes is counted first, and passes only within the limit.
LEMMA DecideCounts ==
  ASSUME TypeOK, TypeOK', InOrder, Counted, NEW r \in Requests, Decide(r)
  PROVE  Counted'
<1> DEFINE m == path[r].name
<1>1. /\ m \in Names /\ Key(m) \in Paths /\ UNCHANGED path
      /\ counter' = [counter EXCEPT ![Key(m)] = @ + 1]
  BY KeyOfPath DEF Decide, Count, Key, Paths
<1>2. \A p \in Paths : counter'[p] >= counter[p]
  BY <1>1 DEF TypeOK
<1>3. CASE Answer(r, 429)
  <2>1. \A o \in Requests : Held(o)' => Held(o)
    BY <1>3 DEF Decide, Answer, Held, TypeOK
  <2> QED
    BY <1>1, <1>2, <2>1, NoneAdmitted
<1>4. CASE Goto(r, "body") /\ counter'[Key(m)] <= LimitOf(m)
  <2>1. ~Held(r)
    BY DEF Decide, Held, InOrder
  <2>2. \A o \in Requests \ {r} : Held(o)' => Held(o)
    BY <1>4 DEF Decide, Goto, Held, TypeOK
  <2> SUFFICES ASSUME NEW n \in Names
               PROVE  /\ Cardinality(Admitted(n)') <= counter'[Key(n)]
                      /\ Cardinality(Admitted(n)') <= LimitOf(n)
    BY DEF Counted, Key, LimitOf, Config, Strip
  <2>3. Key(n) \in Paths /\ (Key(n) = Key(m) => n = m)
    BY DEF Key, Paths
  <2>4. /\ counter[Key(n)] \in Nat /\ counter'[Key(n)] \in Nat /\ LimitOf(n) \in Nat
        /\ Cardinality(Admitted(n)) <= counter[Key(n)]
        /\ Cardinality(Admitted(n)) <= LimitOf(n)
    BY <2>3, PipelineAssumption DEF TypeOK, LimitOf, Config, Strip, Counted
  <2>5. CASE n # m
    <3>1. Admitted(n)' \in SUBSET Admitted(n)
      BY <1>1, <2>2, <2>5 DEF Admitted
    <3>2. Cardinality(Admitted(n)') <= Cardinality(Admitted(n))
      BY <3>1, AdmittedFinite, FS_Subset
    <3> QED
      BY <1>2, <2>3, <2>4, <3>2, AdmittedFinite
  <2>6. CASE n = m
    <3>1. Admitted(n)' \in SUBSET (Admitted(n) \cup {r})
      BY <1>1, <2>2 DEF Admitted
    <3>2. r \notin Admitted(n)
      BY <2>1 DEF Admitted
    <3>3. /\ IsFiniteSet(Admitted(n) \cup {r})
          /\ Cardinality(Admitted(n) \cup {r}) = Cardinality(Admitted(n)) + 1
      BY <3>2, AdmittedFinite, FS_AddElement
    <3>4. Cardinality(Admitted(n)') <= Cardinality(Admitted(n)) + 1
      BY <3>1, <3>3, FS_Subset
    <3>5. counter'[Key(n)] = counter[Key(n)] + 1
      BY <1>1, <2>3, <2>6 DEF TypeOK
    <3> QED
      BY <1>4, <2>4, <2>6, <3>4, <3>5, AdmittedFinite
  <2> QED
    BY <2>5, <2>6
<1> QED
  BY <1>1, <1>3, <1>4, KeyOfPath DEF Decide

\* Every step keeps the bounds.
LEMMA CountedStep ==
  ASSUME TypeOK, TypeOK', InOrder, Counted, [Next]_vars
  PROVE  Counted'
<1>1. CASE UNCHANGED vars
  <2>1. /\ UNCHANGED path /\ \A r \in Requests : Held(r)' => Held(r)
        /\ \A p \in Paths : counter'[p] >= counter[p]
    BY <1>1 DEF vars, Held, TypeOK
  <2> QED
    BY <2>1, NoneAdmitted
<1>2. ASSUME NEW r \in Requests, Decide(r)
      PROVE  Counted'
  BY <1>2, DecideCounts
<1>3. ASSUME NEW r \in Requests,
             \/ Arrive(r) \/ BodyRead(r) \/ BodyFailed(r) \/ Refused(r)
             \/ Timeout(r) \/ Disconnected(r) \/ Relay(r)
      PROVE  Counted'
  <2>1. /\ UNCHANGED path /\ \A o \in Requests : Held(o)' => Held(o)
        /\ \A p \in Paths : counter'[p] >= counter[p]
    BY <1>3 DEF Arrive, BodyRead, BodyFailed, Refused, Timeout, Disconnected, Relay,
                Goto, Answer, Held, TypeOK
  <2> QED
    BY <2>1, NoneAdmitted
<1>4. ASSUME NEW r \in Requests, RedisError(r)
      PROVE  Counted'
  <2>1. /\ UNCHANGED path /\ \A o \in Requests : Held(o)' => Held(o)
        /\ \A p \in Paths : counter'[p] >= counter[p]
    BY <1>4 DEF RedisError, Answer, Count, Held, TypeOK
  <2> QED
    BY <2>1, NoneAdmitted
<1>5. ASSUME NEW r \in Requests, Accepted(r) \/ Forward(r)
      PROVE  Counted'
  <2>1. /\ UNCHANGED path /\ \A o \in Requests : Held(o)' => Held(o)
        /\ \A p \in Paths : counter'[p] >= counter[p]
    BY <1>5 DEF Accepted, Forward, Balancer!Accept, Balancer!Deliver, Balancer!Reply,
                Goto, Held, TypeOK
  <2> QED
    BY <2>1, NoneAdmitted
<1>6. CASE BalancerCrash \/ BalancerStart \/ LimiterCrash
  <2>1. /\ UNCHANGED path /\ \A o \in Requests : Held(o)' => Held(o)
        /\ \A p \in Paths : counter'[p] >= counter[p]
    BY <1>6 DEF BalancerCrash, BalancerStart, LimiterCrash, Balancer!Crash, Held, TypeOK
  <2> QED
    BY <2>1, NoneAdmitted
<1> QED
  BY <1>1, <1>2, <1>3, <1>4, <1>5, <1>6 DEF Next, Handle

-----------------------------------------------------------------------------
(* The theorems                                                            *)

\* In the beginning nothing has passed.
LEMMA Initially ==
  ASSUME Init
  PROVE  TypeOK /\ InOrder /\ Truthful /\ Counted
<1>1. TypeOK /\ InOrder /\ Truthful
  BY PipelineAssumption DEF Init, TypeOK, InOrder, Truthful, PC, Balancer!Init
<1>2. \A n \in Names : Admitted(n) = {}
  BY DEF Init, Balancer!Init, Admitted, Held
<1>3. \A n \in Names : Key(n) \in Paths /\ LimitOf(n) \in Nat
  BY PipelineAssumption DEF Key, Paths, LimitOf, Config, Strip
<1>4. Counted
  <2>1. IsFiniteSet({}) /\ Cardinality({}) = 0
    BY FS_EmptySet
  <2>2. \A p \in Paths : counter[p] \in Nat
    BY <1>1 DEF TypeOK
  <2> QED
    BY <1>2, <1>3, <2>1, <2>2 DEF Counted
<1> QED
  BY <1>1, <1>4

\* The state of the pipeline keeps its types.
THEOREM PipelineTyped == Spec => []TypeOK
<1>1. Init => TypeOK
  BY Initially
<1>2. TypeOK /\ [Next]_vars => TypeOK'
  BY TypeStep
<1> QED
  BY <1>1, <1>2, PTL DEF Spec

\* What a client is told stays true, although the balancer may go on with a
\* request that the limiter has given up (server.py:88-93).
THEOREM AnswersTrue == Spec => []Truthful
<1> DEFINE Inv == TypeOK /\ InOrder /\ Truthful
<1>1. Init => Inv
  BY Initially
<1>2. Inv /\ [Next]_vars => Inv'
  BY TypeStep, OrderStep
<1>3. Inv => Truthful
  OBVIOUS
<1> QED
  BY <1>1, <1>2, <1>3, PTL DEF Spec

\* Backends receive no more requests to an endpoint than its limit, whatever
\* fails, times out or crashes on the way (server.py:37-40, config.py:13).
THEOREM LimitHolds == Spec => []EndpointLimit
<1> DEFINE Inv == TypeOK /\ InOrder /\ Truthful /\ Counted
<1>1. Init => Inv
  BY Initially
<1>2. Inv /\ [Next]_vars => Inv'
  BY TypeStep, OrderStep, CountedStep
<1>3. Inv => EndpointLimit
  <2> SUFFICES ASSUME Inv, NEW n \in Names
               PROVE  Cardinality(Received(n)) <= LimitOf(n)
    BY DEF EndpointLimit
  <2>1. Received(n) \in SUBSET Admitted(n)
    BY DEF Received, Admitted, Held
  <2>2. Cardinality(Received(n)) <= Cardinality(Admitted(n))
    BY <2>1, AdmittedFinite, FS_Subset
  <2>3. IsFiniteSet(Received(n)) /\ Cardinality(Received(n)) \in Nat
    BY <2>1, AdmittedFinite, FS_Subset, FS_CardinalityType
  <2>4. LimitOf(n) \in Nat
    BY PipelineAssumption DEF LimitOf, Config, Strip
  <2> QED
    BY <2>2, <2>3, <2>4, AdmittedFinite DEF Counted
<1> QED
  BY <1>1, <1>2, <1>3, PTL DEF Spec
=============================================================================
