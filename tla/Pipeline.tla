------------------------------ MODULE Pipeline ------------------------------
(***************************************************************************)
(* The way of a request through the proxy handler of the rate limiter      *)
(* (rate_limiter/src/server.py, config.py), with the load balancer behind  *)
(* it.  The balancer is the abstract Proxy, which LoadBalancer implements. *)
(*                                                                         *)
(* The handler gives up control while Redis executes its pipeline, while   *)
(* the body is read, and while the balancer connects and answers.  When    *)
(* its FORWARD_TIMEOUT strikes it answers 504 and closes its connection,   *)
(* but the handler of the balancer is not cancelled: it goes on, and may   *)
(* yet deliver the request.                                                *)
(*                                                                         *)
(* Requests of one client within one window; each is sent once.  How       *)
(* is_allowed counts from window to window is the subject of RateLimiter.  *)
(***************************************************************************)
EXTENDS Integers, FiniteSets

CONSTANTS
  Requests,
  Names,            \* paths up to their trailing slash
  ENDPOINT_LIMITS,  \* the limits of some of them
  DEFAULT_LIMIT,
  None

Paths == [name : Names, slash : BOOLEAN]

ASSUME PipelineAssumption ==
  /\ IsFiniteSet(Requests)
  /\ DOMAIN ENDPOINT_LIMITS \subseteq Names
  /\ \A n \in DOMAIN ENDPOINT_LIMITS : ENDPOINT_LIMITS[n] \in Nat
  /\ DEFAULT_LIMIT \in Nat
  /\ None \notin Nat

VARIABLES
  call,       \* of each request: where its handler in the limiter waits
  path,       \* its path
  answer,     \* what its client has been told
  counter,    \* requests counted in Redis: rl:{ip}:{path}:{window}
  running,    \* the balancer accepts connections
  open, delivered, reply   \* the balancer: see Proxy

vars == <<call, path, answer, counter, running, open, delivered, reply>>

Balancer == INSTANCE Proxy

PC == {"new", "allowed?", "body", "connect", "sent", "done"}

Init ==
  /\ call = [r \in Requests |-> "new"]
  /\ path \in [Requests -> Paths]
  /\ answer = [r \in Requests |-> None]
  /\ counter = [p \in Paths |-> 0]
  /\ running = TRUE
  /\ Balancer!Init

-----------------------------------------------------------------------------
(* Limits                                                                  *)

\* rstrip('/')
Strip(p) == [name |-> p.name, slash |-> FALSE]

\* Mutant of Config: the path is looked up as it came.
Config_AsCame(p) ==
  IF ~p.slash /\ p.name \in DOMAIN ENDPOINT_LIMITS THEN ENDPOINT_LIMITS[p.name] ELSE DEFAULT_LIMIT

\* get_config
Config(p) ==
  LET n == Strip(p).name
  IN  IF n \in DOMAIN ENDPOINT_LIMITS THEN ENDPOINT_LIMITS[n] ELSE DEFAULT_LIMIT

\* _base_key
BaseKey(p) == Strip(p)

-----------------------------------------------------------------------------
(* The handler                                                             *)

Goto(r, pc) == call' = [call EXCEPT ![r] = pc] /\ UNCHANGED answer

Answer(r, code) ==
  /\ call' = [call EXCEPT ![r] = "done"]
  /\ answer' = [answer EXCEPT ![r] = code]

Count(r) == counter' = [counter EXCEPT ![BaseKey(path[r])] = @ + 1]

Arrive(r) ==
  /\ call[r] = "new"
  /\ Goto(r, "allowed?")
  /\ UNCHANGED <<path, counter, running, open, delivered, reply>>

\* Redis executes the pipeline of is_allowed, and the handler goes on.
Decide(r) ==
  /\ call[r] = "allowed?"
  /\ Count(r)
  /\ \/ counter'[BaseKey(path[r])] <= Config(path[r]) /\ Goto(r, "body")
     \/ counter'[BaseKey(path[r])] > Config(path[r]) /\ Answer(r, 429)
  /\ UNCHANGED <<path, running, open, delivered, reply>>

\* It fails, counted or not: the exception leaves the handler.
RedisError(r) ==
  /\ call[r] = "allowed?"
  /\ Count(r) \/ UNCHANGED counter
  /\ Answer(r, 500)
  /\ UNCHANGED <<path, running, open, delivered, reply>>

BodyRead(r) ==
  /\ call[r] = "body"
  /\ Goto(r, "connect")
  /\ UNCHANGED <<path, counter, running, open, delivered, reply>>

\* The body is larger than aiohttp accepts, or its client has gone.
BodyFailed(r) ==
  /\ call[r] = "body"
  /\ \E code \in {413, 500} : Answer(r, code)
  /\ UNCHANGED <<path, counter, running, open, delivered, reply>>

\* The balancer accepts the connection and starts to handle the request.
Accepted(r) ==
  /\ call[r] = "connect" /\ running
  /\ Balancer!Accept(r)
  /\ Goto(r, "sent")
  /\ UNCHANGED <<path, counter, running>>

\* except ClientConnectorError
Refused(r) ==
  /\ call[r] = "connect" /\ ~running
  /\ Answer(r, 502)
  /\ UNCHANGED <<path, counter, running, open, delivered, reply>>

\* Mutant of Timeout: the time for connecting is not limited.
Timeout_Total(r) ==
  /\ call[r] = "sent"
  /\ Answer(r, 504)
  /\ UNCHANGED <<path, counter, running, open, delivered, reply>>

\* except TimeoutError: CONNECT_TIMEOUT or FORWARD_TIMEOUT.
Timeout(r) ==
  /\ call[r] \in {"connect", "sent"}
  /\ Answer(r, 504)
  /\ UNCHANGED <<path, counter, running, open, delivered, reply>>

\* Mutant of Relay: it answers as soon as the balancer has the request.
Relay_Early(r) ==
  /\ call[r] = "sent"
  /\ Answer(r, IF reply[r] = None THEN 200 ELSE reply[r])
  /\ UNCHANGED <<path, counter, running, open, delivered, reply>>

\* The response of the balancer is passed on.
Relay(r) ==
  /\ call[r] = "sent" /\ reply[r] # None
  /\ Answer(r, reply[r])
  /\ UNCHANGED <<path, counter, running, open, delivered, reply>>

\* The balancer has ended: an exception that the handler does not catch.
Disconnected(r) ==
  /\ call[r] = "sent" /\ ~open[r] /\ reply[r] = None
  /\ Answer(r, 500)
  /\ UNCHANGED <<path, counter, running, open, delivered, reply>>

-----------------------------------------------------------------------------
(* The other processes                                                     *)

\* Mutant of Forward: the request is sent again when no answer comes.
Forward_Again(r) ==
  /\ open[r]
  /\ delivered' = [delivered EXCEPT ![r] = @ + 1]
  /\ UNCHANGED <<call, path, answer, counter, running, open, reply>>

\* The balancer works on a request, whether the limiter still waits or not.
Forward(r) ==
  /\ Balancer!Deliver(r) \/ \E code \in Balancer!Code : Balancer!Reply(r, code)
  /\ UNCHANGED <<call, path, answer, counter, running>>

BalancerCrash ==
  /\ running
  /\ running' = FALSE
  /\ Balancer!Crash
  /\ UNCHANGED <<call, path, answer, counter>>

BalancerStart ==
  /\ ~running
  /\ running' = TRUE
  /\ UNCHANGED <<call, path, answer, counter, open, delivered, reply>>

\* The limiter restarts: clients lose their connections.
LimiterCrash ==
  /\ call' = [r \in Requests |-> IF call[r] = "new" THEN "new" ELSE "done"]
  /\ UNCHANGED <<path, answer, counter, running, open, delivered, reply>>

-----------------------------------------------------------------------------

\* What takes the handler of a request further.
Handle(r) ==
  \/ Decide(r)
  \/ BodyRead(r)
  \/ Refused(r)
  \/ Timeout(r)
  \/ Relay(r)
  \/ Disconnected(r)

Next ==
  \/ \E r \in Requests :
       \/ Arrive(r)
       \/ Handle(r)
       \/ RedisError(r)
       \/ BodyFailed(r)
       \/ Accepted(r)
       \/ Forward(r)
  \/ BalancerCrash
  \/ BalancerStart
  \/ LimiterCrash

Spec == Init /\ [][Next]_vars

\* Redis answers or fails, bodies arrive, and no attempt to forward outlasts
\* its time-out.  Nothing is expected of the balancer.
FairSpec == Spec /\ \A r \in Requests : WF_vars(Handle(r))

-----------------------------------------------------------------------------
(* Properties                                                              *)

\* The handlers, the counters and what clients were told have their types.
TypeOK ==
  /\ call \in [Requests -> PC]
  /\ path \in [Requests -> Paths]
  /\ answer \in [Requests -> {200, 413, 429, 500, 502, 503, 504, None}]
  /\ counter \in [Paths -> Nat]
  /\ running \in BOOLEAN
  /\ open \in [Requests -> BOOLEAN]
  /\ delivered \in [Requests -> {0, 1}]
  /\ reply \in [Requests -> Balancer!Code \cup {None}]

\* What a client is told is true for good: after 413, 429, 502 and 503 no
\* backend has received its request and none will, although its handler in
\* the balancer may outlive the one in the limiter (server.py:88); after
\* 200 exactly one has.
Truthful ==
  \A r \in Requests :
    /\ answer[r] \in {413, 429, 502, 503} => delivered[r] = 0 /\ ~open[r]
    /\ answer[r] = 200 => delivered[r] = 1

\* Backends receive no more requests to an endpoint in one window than its
\* limit, however its path is written and whatever fails, times out or
\* crashes on the way (server.py:37-40, config.py:13, limiter.py:19).
Received(n) == {r \in Requests : path[r].name = n /\ delivered[r] = 1}

LimitOf(n) == Config([name |-> n, slash |-> FALSE])

EndpointLimit == \A n \in Names : Cardinality(Received(n)) <= LimitOf(n)

\* Every client gets an answer, or loses its connection, also when the
\* balancer hangs or is gone (server.py:88-93).
Answered == \A r \in Requests : call[r] # "new" ~> call[r] = "done"
=============================================================================
