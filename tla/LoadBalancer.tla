---------------------------- MODULE LoadBalancer ----------------------------
(***************************************************************************)
(* The load balancer: the pool (pool.py), round robin (algorithms.py), the *)
(* pinning of sessions in Redis (session.py), the request handler          *)
(* (server.py) and the health checker (health.py), run by one event loop.  *)
(*                                                                         *)
(* The handler of a request gives up control at each await: while Redis    *)
(* executes a command, while the body is read, while a backend connects    *)
(* and answers.  An action is what runs between two of these points, or    *)
(* what Redis or a backend does in the meantime.  Servers is 1 .. N in the *)
(* order of SERVERS.                                                       *)
(***************************************************************************)
EXTENDS Algorithms

CONSTANTS
  N,           \* len(SERVERS)
  Requests,    \* slots for requests that are handled at the same time
  Sessions,    \* session ids that clients hold
  Threshold,   \* failures in a row that make a server UNHEALTHY
  Drainable,   \* servers an operator may set to DRAINING
  Conditions,  \* what may become of each backend
  Forgetful,   \* sessions whose pin Redis may expire, evict or lose
  None         \* no session, no server, no reply

Servers   == 1 .. N
Status    == {"HEALTHY", "UNHEALTHY", "DRAINING"}

\* An up backend serves requests and answers 200 to /health; a sick one serves
\* requests but its /health fails; a down one refuses connections.
Condition == {"up", "sick", "down"}

ASSUME BalancerAssumption ==
  /\ N \in Nat \ {0}
  /\ IsFiniteSet(Requests)
  /\ Threshold \in Nat \ {0}
  /\ Drainable \subseteq Servers
  /\ Conditions \in [Servers -> SUBSET Condition]
  /\ Forgetful \subseteq Sessions
  /\ None \notin Servers \cup Sessions

VARIABLES
  status,   \* BackendServer.status
  fails,    \* BackendServer.consecutive_failures, counted up to Threshold
  conns,    \* BackendServer.active_connections
  index,    \* RoundRobin._index
  pins,     \* the session: keys of Redis: the server a session is pinned to
  req,      \* what the handler of each request knows and where it waits
  attempted,\* of each request: the servers a lookup in its attempted finds
  probe,    \* the health check of each server that is under way
  backend   \* the condition of each backend

vars == <<status, fails, conns, index, pins, req, attempted, probe, backend>>

\* Where a handler waits: for GET, DEL or SET of its pin ("lookup", "clear",
\* "pin"), to resume with the address GET found ("looked"), for the body, for
\* a connection, to resume with its refusal, for the response.
PC == {"idle", "lookup", "looked", "clear", "body", "pin", "connect", "refused", "sent"}

\* Those in which server.active_connections counts the request.
Forwarding == {"connect", "refused", "sent"}

Req == [pc        : PC,
        session   : Sessions \cup {None},  \* session_id
        pinned    : Servers \cup {None},   \* the address found, then pinned_server
        server    : Servers \cup {None},   \* server
        tries     : 0 .. N,                \* turns of the retry loop completed
        delivered : 0 .. N,                \* how often a backend received the request
        reply     : {200, 413, 500, 503, 504, None}]

Idle == [pc |-> "idle", session |-> None, pinned |-> None, server |-> None,
         tries |-> 0, delivered |-> 0, reply |-> None]

Init ==
  /\ status  = [s \in Servers |-> "HEALTHY"]
  /\ fails   = [s \in Servers |-> 0]
  /\ conns   = [s \in Servers |-> 0]
  /\ index   = 0
  /\ pins    = [x \in Sessions |-> None]
  /\ req     = [r \in Requests |-> Idle]
  /\ attempted = [r \in Requests |-> {}]
  /\ probe   = [s \in Servers |-> "none"]
  /\ backend = [s \in Servers |-> "up"]

-----------------------------------------------------------------------------
(* The pool                                                                *)

FailsAfter(s) == IF fails[s] < Threshold THEN fails[s] + 1 ELSE Threshold

\* mark_failure: DRAINING is overwritten like any other status.
MarkFailure(s) ==
  /\ fails' = [fails EXCEPT ![s] = FailsAfter(s)]
  /\ status' = [status EXCEPT ![s] = IF FailsAfter(s) >= Threshold THEN "UNHEALTHY" ELSE @]

\* Mutant of MarkSuccess: the failures are not reset.
MarkSuccess_KeepsFailures(s) ==
  /\ status' = [status EXCEPT ![s] = "HEALTHY"]
  /\ UNCHANGED fails

\* mark_success: one success is enough (recovery_threshold is not used).
MarkSuccess(s) ==
  /\ fails' = [fails EXCEPT ![s] = 0]
  /\ status' = [status EXCEPT ![s] = "HEALTHY"]

\* A BackendServer hashes by all of its fields, and both mark_failure and
\* mark_success change last_check: from then on no set that holds the server
\* finds it, although it is still in there.  (active_connections is a field as
\* well, but every server a handler looks up has failed since it was added.)
Forget(s) == [r \in Requests |-> attempted[r] \ {s}]

-----------------------------------------------------------------------------
(* The request handler                                                     *)

Finished(q, code) ==
  [Idle EXCEPT !.reply = code, !.delivered = q.delivered]

\* attempted.add(server); server.active_connections += 1; the request is sent.
\* att, cn: attempted and active_connections before that.
Send(r, q, server, att, cn) ==
  /\ req' = [req EXCEPT ![r] = [q EXCEPT !.pc = "connect", !.server = server]]
  /\ attempted' = [o \in Requests |-> IF o = r THEN att[o] \cup {server} ELSE att[o]]
  /\ conns' = [cn EXCEPT ![server] = cn[server] + 1]

\* Mutant of UsePinned: the condition is turned round.
UsePinned_Attempted(q, tried) == q.pinned # None /\ q.pinned \in tried

\* pinned_server and pinned_server not in attempted
UsePinned(q, tried) == q.pinned # None /\ q.pinned \notin tried

\* From the head of the retry loop to the next await.  The pinned server is
\* preferred; otherwise round robin picks among the healthy ones that are not
\* found in attempted.  q, att, st, cn: the request r, and the attempted sets,
\* statuses and active_connections at this point.
NextAttempt(r, q, att, st, cn) ==
  LET usePinned == UsePinned(q, att[r])
      healthy   == {s \in Servers \ att[r] : st[s] = "HEALTHY"}
      picked    == RoundRobin(healthy, index)
  IN  \/ /\ q.tries < N /\ usePinned
         /\ Send(r, q, q.pinned, att, cn)
         /\ UNCHANGED index
      \/ /\ q.tries < N /\ ~usePinned /\ healthy # {}
         /\ req' = [req EXCEPT ![r] = [q EXCEPT !.pc = "pin", !.server = picked.server]]
         /\ index' = picked.index
         /\ attempted' = att /\ conns' = cn
      \/ /\ q.tries = N \/ (~usePinned /\ healthy = {})
         /\ req' = [req EXCEPT ![r] = Finished(q, 503)]
         /\ attempted' = [o \in Requests |-> IF o = r THEN {} ELSE att[o]]
         /\ conns' = cn
         /\ UNCHANGED index

Goto(r, pc) == req' = [req EXCEPT ![r].pc = pc]

\* A request arrives, with or without a session cookie.
Arrive(r) ==
  /\ req[r].pc = "idle"
  /\ \E x \in Sessions \cup {None} :
       req' = [req EXCEPT ![r] = [Idle EXCEPT !.session = x,
                                              !.pc = IF x = None THEN "body" ELSE "lookup"]]
  /\ UNCHANGED <<status, fails, conns, index, pins, attempted, probe, backend>>

\* get_server: Redis executes the GET ...
LookupExecuted(r) ==
  /\ req[r].pc = "lookup"
  /\ req' = [req EXCEPT ![r] = [@ EXCEPT !.pc = "looked", !.pinned = pins[req[r].session]]]
  /\ UNCHANGED <<status, fails, conns, index, pins, attempted, probe, backend>>

\* Mutant of LookupAnswered: only a pin to an UNHEALTHY server is dropped.
LookupAnswered_Draining(r) ==
  /\ req[r].pc = "looked"
  /\ LET s == req[r].pinned IN
       \/ s = None /\ Goto(r, "body")
       \/ s # None /\ status[s] # "UNHEALTHY" /\ Goto(r, "body")
       \/ /\ s # None /\ status[s] = "UNHEALTHY"
          /\ req' = [req EXCEPT ![r] = [@ EXCEPT !.pc = "clear", !.pinned = None]]
  /\ UNCHANGED <<status, fails, conns, index, pins, attempted, probe, backend>>

\* ... and the handler resumes: a pin to a server that is not healthy (now) is
\* dropped, and will be cleared.
LookupAnswered(r) ==
  /\ req[r].pc = "looked"
  /\ LET s == req[r].pinned IN
       \/ s = None /\ Goto(r, "body")
       \/ s # None /\ status[s] = "HEALTHY" /\ Goto(r, "body")
       \/ /\ s # None /\ status[s] # "HEALTHY"
          /\ req' = [req EXCEPT ![r] = [@ EXCEPT !.pc = "clear", !.pinned = None]]
  /\ UNCHANGED <<status, fails, conns, index, pins, attempted, probe, backend>>

\* clear_session
ClearExecuted(r) ==
  /\ req[r].pc = "clear"
  /\ pins' = [pins EXCEPT ![req[r].session] = None]
  /\ Goto(r, "body")
  /\ UNCHANGED <<status, fails, conns, index, attempted, probe, backend>>

\* The body has arrived: the handler runs into the retry loop.
BodyRead(r) ==
  /\ req[r].pc = "body"
  /\ NextAttempt(r, req[r], attempted, status, conns)
  /\ UNCHANGED <<status, fails, pins, probe, backend>>

\* read() raises: the body is larger than aiohttp accepts, or the client has
\* gone before it is complete.
BodyLost(r) ==
  /\ req[r].pc = "body"
  /\ \E code \in {413, 500} : req' = [req EXCEPT ![r] = Finished(req[r], code)]
  /\ UNCHANGED <<status, fails, conns, index, pins, attempted, probe, backend>>

\* Sessions no one holds: a request that comes without a cookie gets a new id.
\* (None stands for one that its client will never send back.)
FreshSessions ==
  {x \in Sessions : pins[x] = None /\ \A q \in Requests : req[q].session # x} \cup {None}

PinTo(x, s) == pins' = IF x = None THEN pins ELSE [pins EXCEPT ![x] = s]

\* pin_session has been executed: the request goes to the server picked before.
PinExecuted(r) ==
  /\ req[r].pc = "pin"
  /\ \E x \in IF req[r].session = None THEN FreshSessions ELSE {req[r].session} :
       /\ PinTo(x, req[r].server)
       /\ Send(r, [req[r] EXCEPT !.session = x], req[r].server, attempted, conns)
  /\ UNCHANGED <<status, fails, index, probe, backend>>

\* Redis cannot be reached, or its answer is lost (the command may have been
\* executed): the exception leaves the handler, the client gets a 500.
RedisError(r) ==
  /\ req[r].pc \in {"lookup", "looked", "clear", "pin"}
  /\ \/ UNCHANGED pins
     \/ req[r].pc = "clear" /\ PinTo(req[r].session, None)
     \/ req[r].pc = "pin" /\ PinTo(req[r].session, req[r].server)
  /\ req' = [req EXCEPT ![r] = Finished(req[r], 500)]
  /\ attempted' = [attempted EXCEPT ![r] = {}]
  /\ UNCHANGED <<status, fails, conns, index, probe, backend>>

\* The backend refuses the connection ...
Refuse(r) ==
  /\ req[r].pc = "connect" /\ backend[req[r].server] = "down"
  /\ Goto(r, "refused")
  /\ UNCHANGED <<status, fails, conns, index, pins, attempted, probe, backend>>

\* Mutant of ConnectorError: the retries are not counted.
ConnectorError_Unbounded(r) ==
  /\ req[r].pc = "refused"
  /\ LET s == req[r].server IN
       /\ MarkFailure(s)
       /\ NextAttempt(r, [req[r] EXCEPT !.server = None],
                      Forget(s), status', [conns EXCEPT ![s] = @ - 1])
  /\ UNCHANGED <<pins, probe, backend>>

\* ... and the handler resumes with ClientConnectorError: the failure counts
\* against the server, the connection is given back, the loop goes on.
ConnectorError(r) ==
  /\ req[r].pc = "refused"
  /\ LET s == req[r].server IN
       /\ MarkFailure(s)
       /\ NextAttempt(r, [req[r] EXCEPT !.tries = @ + 1, !.server = None],
                      Forget(s), status', [conns EXCEPT ![s] = @ - 1])
  /\ UNCHANGED <<pins, probe, backend>>

\* The backend accepts the connection and receives the request.
Deliver(r) ==
  /\ req[r].pc = "connect" /\ backend[req[r].server] # "down"
  /\ req' = [req EXCEPT ![r] = [req[r] EXCEPT !.delivered = @ + 1, !.pc = "sent"]]
  /\ UNCHANGED <<status, fails, conns, index, pins, attempted, probe, backend>>

\* Mutants of Leave: there is no finally, so that errors keep the connection;
\* the connection is given back once more in the handler of the exception.
Leave_NoFinally(r, code) ==
  /\ req' = [req EXCEPT ![r] = Finished(req[r], code)]
  /\ attempted' = [attempted EXCEPT ![r] = {}]
  /\ conns' = [conns EXCEPT ![req[r].server] = IF code = 200 THEN @ - 1 ELSE @]
  /\ UNCHANGED <<status, fails, index, pins, probe, backend>>

Leave_Twice(r, code) ==
  /\ req' = [req EXCEPT ![r] = Finished(req[r], code)]
  /\ attempted' = [attempted EXCEPT ![r] = {}]
  /\ conns' = [conns EXCEPT ![req[r].server] = IF code = 504 THEN @ - 2 ELSE @ - 1]
  /\ UNCHANGED <<status, fails, index, pins, probe, backend>>

\* return, or an exception that leaves the handler; finally gives the
\* connection back.
Leave(r, code) ==
  /\ req' = [req EXCEPT ![r] = Finished(req[r], code)]
  /\ attempted' = [attempted EXCEPT ![r] = {}]
  /\ conns' = [conns EXCEPT ![req[r].server] = @ - 1]
  /\ UNCHANGED <<status, fails, index, pins, probe, backend>>

Respond(r) == req[r].pc = "sent" /\ Leave(r, 200)

\* Mutant of Timeout: it is retried like a refused connection.
Timeout_Retried(r) ==
  /\ req[r].pc \in {"connect", "sent"}
  /\ LET s == req[r].server IN
       /\ MarkFailure(s)
       /\ NextAttempt(r, [req[r] EXCEPT !.tries = @ + 1, !.server = None],
                      Forget(s), status', [conns EXCEPT ![s] = @ - 1])
  /\ UNCHANGED <<pins, probe, backend>>

\* CONNECT_TIMEOUT or FORWARD_TIMEOUT: no retry, not counted as a failure.
Timeout(r) == req[r].pc \in {"connect", "sent"} /\ Leave(r, 504)

\* The backend closes the connection without an answer; the handler does not
\* catch that exception.
Disconnected(r) == req[r].pc \in {"connect", "sent"} /\ Leave(r, 500)

-----------------------------------------------------------------------------
(* The health checker                                                      *)

\* Mutant of StartRound: only the servers in rotation are checked.
StartRound_HealthyOnly ==
  /\ \A s \in Servers : probe[s] = "none"
  /\ probe' = [s \in Servers |-> IF status[s] # "HEALTHY" THEN "none" ELSE "asked"]
  /\ UNCHANGED <<status, fails, conns, index, pins, req, attempted, backend>>

\* gather() starts a check of every server that is not DRAINING; the previous
\* ones have all ended, and the interval has passed.
StartRound ==
  /\ \A s \in Servers : probe[s] = "none"
  /\ probe' = [s \in Servers |-> IF status[s] = "DRAINING" THEN "none" ELSE "asked"]
  /\ UNCHANGED <<status, fails, conns, index, pins, req, attempted, backend>>

\* Mutant of Answer: the status of the response is not looked at.
Answer_AnyStatus(s) ==
  /\ probe[s] = "asked"
  /\ probe' = [probe EXCEPT ![s] = IF backend[s] # "down" THEN "ok" ELSE "failed"]
  /\ UNCHANGED <<status, fails, conns, index, pins, req, attempted, backend>>

\* The backend answers /health, or the check fails ...
Answer(s) ==
  /\ probe[s] = "asked"
  /\ probe' = [probe EXCEPT ![s] = IF backend[s] = "up" THEN "ok" ELSE "failed"]
  /\ UNCHANGED <<status, fails, conns, index, pins, req, attempted, backend>>

\* ... and _check_one resumes with the outcome.
CheckDone(s) ==
  /\ probe[s] \in {"ok", "failed"}
  /\ IF probe[s] = "ok" THEN MarkSuccess(s) ELSE MarkFailure(s)
  /\ attempted' = Forget(s)
  /\ probe' = [probe EXCEPT ![s] = "none"]
  /\ UNCHANGED <<conns, index, pins, req, backend>>

-----------------------------------------------------------------------------
(* The environment                                                         *)

\* A backend fails, falls sick or comes back.
Become(s, c) ==
  /\ backend[s] # c
  /\ backend' = [backend EXCEPT ![s] = c]
  /\ UNCHANGED <<status, fails, conns, index, pins, req, attempted, probe>>

\* An operator takes a server out of the pool.
Drain(s) ==
  /\ status[s] # "DRAINING"
  /\ status' = [status EXCEPT ![s] = "DRAINING"]
  /\ UNCHANGED <<fails, conns, index, pins, req, attempted, probe, backend>>

\* The pin reaches its ttl, or Redis evicts it or restarts.
PinLost(x) ==
  /\ pins[x] # None
  /\ pins' = [pins EXCEPT ![x] = None]
  /\ UNCHANGED <<status, fails, conns, index, req, attempted, probe, backend>>

-----------------------------------------------------------------------------

\* The steps of a handler, and of Redis and the backends on its behalf, that
\* take a request further.
Handle(r) ==
  \/ LookupExecuted(r)
  \/ LookupAnswered(r)
  \/ ClearExecuted(r)
  \/ BodyRead(r)
  \/ PinExecuted(r)
  \/ ConnectorError(r)
  \/ Timeout(r)

Next ==
  \/ \E r \in Requests :
       \/ Arrive(r)
       \/ Handle(r)
       \/ BodyLost(r)
       \/ RedisError(r)
       \/ Refuse(r)
       \/ Deliver(r)
       \/ Respond(r)
       \/ Disconnected(r)
  \/ StartRound
  \/ \E s \in Servers : Answer(s) \/ CheckDone(s)
  \/ \E s \in Servers : \E c \in Conditions[s] : Become(s, c)
  \/ \E s \in Drainable : Drain(s)
  \/ \E x \in Forgetful : PinLost(x)

\* Redis executes every command it is sent, bodies arrive, and every attempt
\* ends at the latest when its timeout strikes; the checker never stops, and
\* no check takes longer than its timeout.  Nothing else must happen.
Fairness ==
  /\ \A r \in Requests : WF_vars(Handle(r))
  /\ WF_vars(StartRound)
  /\ \A s \in Servers : WF_vars(Answer(s)) /\ WF_vars(CheckDone(s))

Spec == Init /\ [][Next]_vars

FairSpec == Spec /\ Fairness

-----------------------------------------------------------------------------
(* Properties                                                              *)

\* The pool, the pins and what the handlers know have their types.
TypeOK ==
  /\ status \in [Servers -> Status]
  /\ fails \in [Servers -> 0 .. Threshold]
  /\ conns \in [Servers -> Nat]
  /\ index \in 0 .. N - 1
  /\ pins \in [Sessions -> Servers \cup {None}]
  /\ req \in [Requests -> Req]
  /\ attempted \in [Requests -> SUBSET Servers]
  /\ probe \in [Servers -> {"none", "asked", "ok", "failed"}]
  /\ backend \in [Servers -> Condition]

\* active_connections is exactly the number of requests that are being
\* forwarded to the server: no way out of the handler (an answer, a refusal
\* followed by another attempt, a timeout, a lost connection, an error of
\* Redis) leaks a connection or gives one back twice (server.py:90,121).
ConnsExact ==
  \A s \in Servers :
    conns[s] = Cardinality({r \in Requests : req[r].pc \in Forwarding /\ req[r].server = s})

\* Retrying is safe (server.py:73-75), and clients are told the truth: whatever
\* fails on the way, a request is received by one backend at most, by none if
\* its client is told that there is no server, by one if it gets an answer.
Promise == INSTANCE Proxy WITH
  open      <- [r \in Requests |-> req[r].pc # "idle"],
  delivered <- [r \in Requests |-> req[r].delivered],
  reply     <- [r \in Requests |-> req[r].reply]

ImplementsProxy == Promise!Spec

\* session.py:8: "they always route to the same server", as far as a request
\* finds the pin (overlapping requests may pin or clear it after it has looked).
\* A server that never fails stays in the pool, whatever becomes of the others and however late
\* their failures are counted; a request that has found its session pinned to
\* it is sent there and nowhere else and does not pin the session again.
Sticky ==
  \A s \in Servers \ Drainable :
    Conditions[s] = {"up"}
      => /\ status[s] = "HEALTHY"
         /\ \A r \in Requests :
              req[r].pinned = s
                => req[r].pc # "pin" /\ (req[r].pc \in Forwarding => req[r].server = s)

\* A server is HEALTHY only while fewer than Threshold failures have been
\* counted since its last success, and UNHEALTHY only when that many have,
\* although failures of requests and of checks are counted in any order and
\* may be outdated when they are (pool.py:30-39).  One success ends that, as
\* docs/index.md:270 says ("Recovers on the next successful probe"): nothing
\* counts successes, although README.md:75, PRD.md:926 and the unused
\* RECOVERY = 3 of health.py:11 ask for three in a row.
StatusMatchesFailures ==
  \A s \in Servers :
    /\ status[s] = "HEALTHY" => fails[s] < Threshold
    /\ status[s] = "UNHEALTHY" => fails[s] = Threshold

\* Every request is answered in the end, whatever becomes of the backends
\* (the retry loop is bounded and every attempt has a timeout).
Answered == \A r \in Requests : req[r].pc # "idle" ~> req[r].pc = "idle"

\* A backend that stays down or sick is taken out of the pool in the end and
\* stays out, whatever late answers are still on their way (health.py:20-46).
OutageDetected ==
  \A s \in Servers : <>[](backend[s] # "up") => <>[](status[s] # "HEALTHY")

\* A backend that stays up is put back in the end and stays in, whatever late
\* refusals are still on their way, unless it is draining.
RecoveryDetected ==
  \A s \in Servers : <>[](backend[s] = "up") => <>[](status[s] \in {"HEALTHY", "DRAINING"})

\* A server that stays DRAINING loses its last connection in the end and gets
\* no new one: pinned sessions leave it, too (server.py:59, algorithms.py:12).
DrainCompletes ==
  \A s \in Servers : <>[](status[s] = "DRAINING") => <>[](conns[s] = 0)

\* docs/index.md:271: "On a connection failure mid-request, the balancer
\* retries the next backend automatically", and "503 when no backend is
\* healthy" (docs/index.md:272).  Broken by sessions pinned to a dead server.
UnavailableOnlyIfNoneHealthy ==
  [][ \A r \in Requests :
        req[r].pc # "idle" /\ req'[r].reply = 503
          => \A s \in Servers : status'[s] # "HEALTHY" ]_vars

\* README.md, PRD.md:229: a server set to DRAINING is gracefully removed from
\* the pool.  Broken by a check or a request under way at that time.
DrainingIsKept ==
  [][\A s \in Servers : status[s] = "DRAINING" => status'[s] = "DRAINING"]_vars

=============================================================================
