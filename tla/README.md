# TLA+ models of backend-systems-lab

The repository is a request pipeline written in Python asyncio:

    client -> rate limiter (8080) -> load balancer (8090) -> backends (8001..8003)
                     \                    /
                      redis clone (6380)      counters rl:{ip}:{path}:{window}, pins session:{id}

Each of the four programs is one process with one event loop: code runs without interruption from one
`await` to the next, and everything that is hard in it happens between two awaits. The models
therefore have one action for each stretch of code that the event loop can run in one go, and actions of
their own for what another process does while a handler waits.

## 1. Inventory

| Component | Source | State | Operations | Talks to |
|---|---|---|---|---|
| Store | `redis_clone/src/store.py` | OrderedDict of entries (value, deadline), `max_keys` | set, get, incr(by), delete, exists, expire [NX], ttl, dbsize, flush | called by dispatch |
| Dispatch | `redis_clone/src/commands.py` | none | one branch per command | Store, RESP |
| Connections | `redis_clone/src/server.py` | per connection: authenticated, in_multi, queued_cmds, proto | AUTH, HELLO, MULTI, EXEC, DISCARD, queue, dispatch, disconnect | Store shared by all connections |
| RESP codec | `redis_clone/src/resp.py` | none | parse_resp, encode_resp, encode_hello | byte streams |
| Sliding window | `rate_limiter/src/limiter.py` | counters in Redis | is_allowed: GET previous, INCR current, EXPIRE NX as a pipeline | Redis |
| Limiter proxy | `rate_limiter/src/server.py`, `config.py` | per request: what it waits for | handle: 429, read the body, forward, 502, 504 | sliding window, load balancer |
| Pool | `load_balancer/src/pool.py` | per server: status, consecutive_failures, active_connections, last_check | mark_failure, mark_success | health checker, handler |
| Routing | `load_balancer/src/algorithms.py` | RoundRobin: index; WeightedRoundRobin: counters; LeastConnections: none | pick | handler |
| Sessions | `load_balancer/src/session.py` | pins in Redis with a ttl | get_server, pin_session, clear_session | Redis |
| Health checker | `load_balancer/src/health.py` | the checks under way | rounds of concurrent checks | backends, pool |
| Balancer proxy | `load_balancer/src/server.py` | per request: session_id, pinned_server, attempted | handle: look up the pin, retry loop, forward | all of the above |
| Mock backend, test client | `shared/` | none | answer; send | |

What is hard, and the properties that make each component correct (the list with lines is `hazards` in
`PROJECT.json`):

* Store: expired entries stay until something touches them, so every reader must skip them and no write
  may resurrect them; the victim of an eviction depends on the whole history of reads. Correct means: it
  looks like a map whose entries vanish on time, keeps its limit, and evicts the least recently used key.
* Connections: part of the state changes outside the queue (HELLO, AUTH), transactions break half way,
  other connections count in between. Correct means: a client can tell from the replies what its
  connection holds, and no INCR is lost, repeated or carried out early.
* RESP: commands arrive in pieces, without waiting for replies, with payloads that look like frames; the version
  of the replies changes on the way. Correct means: the commands that are executed are those that were sent, no
  read waits for what nobody will send, and the client reads the replies as they were meant.
* Sliding window: the clock is read before the await and the window fixed by it; requests are counted late,
  out of order, or without an answer, by a store that expires, evicts and forgets. Correct means: no window
  admits more than the limit, straddling two windows does not double it, remaining and Retry-After
  tell the truth.
* Balancer: status and pins are read before an await and used after it; failures are counted late; a
  BackendServer in a set is found by a hash that its methods change. Correct means: connections are counted
  exactly, nothing is delivered twice, every request is answered, outages and recoveries are noticed,
  a drained server drains.
* Routing: an index and counters that are reduced by the length of a list that changes. Correct means: every
  server gets its share once the pool stops changing, and only healthy servers are picked.
* Limiter proxy: it gives up on a request that the balancer goes on with. Correct means: what a client is told
  stays true, the limit of an endpoint bounds what backends receive, and every client is answered.

## 2. Modules

| Module | Models | Notes |
|---|---|---|
| `StoreOps` | store.py | methods as pure operators `(contents, time, arguments) -> [db, res]` |
| `ExpiringMap` | what clients of the store may count on | abstract specification |
| `RedisStore` | the store as a state machine, one action per data command, clock, restart | refines `ExpiringMap` |
| `RedisStoreProofs` | theorems about `RedisStore` | TLAPS |
| `RedisServer` | server.py of the clone: connections on a shared store | uses `StoreOps` |
| `RedisServerProofs` | theorems about `RedisServer` | TLAPS |
| `Resp` | resp.py and the reads and writes of server.py and commands.py | one connection as two streams |
| `RespProofs` | theorems about `Resp`: reading undoes writing, of commands and of replies | TLAPS |
| `RateLimiter` | limiter.py on a store | uses `StoreOps` |
| `RateLimiterProofs` | theorems about `RateLimiter` | TLAPS |
| `Algorithms` | the three `pick` functions | pure operators |
| `AlgorithmsProofs` | what each of the three picks, and how often | TLAPS, lemmas |
| `Routing` | a stream of picks from a pool that changes | uses `Algorithms` |
| `RoutingProofs` | theorems about `Routing` | TLAPS |
| `Proxy` | what the load balancer promises to who forwards requests to it | abstract specification |
| `LoadBalancer` | pool, round robin, sessions, health checker, handler | uses `Algorithms`, refines `Proxy` |
| `LoadBalancerProofs` | the pool, connection counts, sessions, and the refinement of `Proxy` | TLAPS |
| `Pipeline` | the handler of the rate limiter and its limits per endpoint | composed with `Proxy` |
| `PipelineProofs` | theorems about `Pipeline` | TLAPS |
| `MC...` | instances for TLC | values of the constants only |

### Store

The OrderedDict is a pair of functions: `data[k]`, and `before[k]`, the set of keys that stand before
`k`. `move_to_end`, `del`, `popitem(last=False)` become set operations on `before`; that this encoding stays
a strict total order of the stored keys is part of the invariant that the proofs use. Time is counted in
ticks of 1/`TicksPerSecond` second and stands still within a method (the code calls `time.monotonic()`
several times; a deadline that falls between two of these calls is not modelled). An integer value stands for the
string that int() reads as that integer. PX counts in ticks.

`ExpiringMap` has no order, and no lookup changes what a later one answers. Two weaknesses of the implementation are
visible in it. A write may lose one other key if there is a limit (also a live one while the store holds expired
ones, store.py:33): which one is left open. And DEL counts the keys that have expired and were not looked up since
(store.py:92): these it keeps apart (`stale`), so that the answer of every DEL is determined, and 0 for keys that were
never stored, were deleted, or were looked up after they expired. That an expired key is counted at all is a
disagreement with the documents (`store_del`, below).

### Connections

An action of `RedisServer` is the handling of one command. EXEC runs its whole queue in one action because
`dispatch` never suspends (commands.py has no await). `view` is a history variable: what a client that
sees nothing but replies concludes. Commands are grouped by what the code does with them; `BROKEN` is a
command whose name is not a string (`*1 :5`), which makes `cmd[0].upper()` raise outside the
try of `dispatch`: alone it ends the connection, in a queue it ends EXEC half way. What such an EXEC has counted stays
counted, although no reply says so: the history variable `unanswered` keeps that number apart.

### RESP

`Resp` looks at one connection from the side of the wire. A symbol of a stream is the prefix and the number of
a line as one, a whole word, CR, LF or a blank; a length counts symbols. `Parse` is a function of what has
arrived and of whether more will: a value and the rest, the wait for more, IncompleteReadError, or another
exception. The reader of the code keeps its place while it awaits; parsing again from the start gives the same
value, as nothing is consumed in between. The recursion of parse_resp, a value within a list within a list, is a
recursive function on what is left to read: `read[m][n]` are the n values that begin with the last m symbols of the
stream, and one line at least is read before the next value, so m falls (`Values`, `Elements`); `Frame` is one call without
its elements. The only bound on values is on replies: a list in a reply holds no list that holds another (EXEC answers
with lists of texts, numbers, nulls and empty lists; `EncodeInner`). `Encode` is encode_resp, `Decode` a client that follows the
protocol (redis-py) and is not part of the repository. There is no password, so AUTH is refused, and the store is
empty: SET, INCR, INCRBY and EXPIRE, which store a value or read a number, are not sent (`RespAssumption`); every other
command of dispatch is answered as it would be then. One field of each type stands for the seven of encode_hello.

### Sliding window

`Start` reads the clock; `Decide` is the execution of the pipeline by Redis (atomic: redis-py wraps it in
MULTI/EXEC) at most `MaxDelay` ticks later and the answer computed from it; `Fail` is an exception, with
or without the pipeline having been executed. `MaxDelay` is a bound for TLC: limiter.py:55 awaits without a time-out.
`RedisRestart` and `Evicted` lose counters, any number of times: other keys of the same
Redis are not in the model, only that they may push a counter out. What was admitted before is forgotten then
(`lost`, `admitted`); `overtaken` and `late` tell whether requests were counted out of order, or after their window had ended. The estimate is multiplied by the length of the
window so that it is a whole number; the floats of the code are taken as exact. One clock stands for the wall clock
of the limiter and the monotonic clock of Redis, which may drift apart in reality.

### Routing

`pick` sees the list of healthy servers in the order of the pool, so a server is a number and the list a set of
numbers. `_counters` of WeightedRoundRobin matters only by its sum, which is the number of picks. Between a pick
(server.py:82) and the increment of active_connections (server.py:90) the handler awaits `pin_session` (server.py:87), so
`Pick` and `Begin` are two actions, and `PinFailed` is the exception in between. Least connections therefore picks from
counts that leave out the requests whose pin is under way, and overlapping requests can pile up on one server: no
bound on the difference of two loads holds.

### Load balancer

A handler is where it waits (`pc`): for GET, DEL and SET of its pin, for the body, for a connection, for the
response. Redis executing a command and the handler resuming with its result are separate actions where
something may change in between (`LookupExecuted` / `LookupAnswered`, `Refuse` / `ConnectorError`,
`Answer` / `CheckDone`). `attempted` holds what a lookup in the set of the same name
*finds*: `BackendServer` is a dataclass with `unsafe_hash=True` (pool.py:12), so every `mark_failure` and
`mark_success` changes its hash and hides it from all sets it is in (`Forget`); a chance
collision of two hashes is left out. `consecutive_failures` is counted up to the threshold only, nothing looks at
larger values. Session ids of new clients are drawn from those that nobody uses. A reply of 200 stands for
whatever a backend answers. aiohttp's own retry on a stale pooled connection and the limits of its connection
pools are not modelled.

`Proxy` is what remains if one forgets servers, pins and retries: a request is open, has been delivered
to backends so many times, and has been answered. It allows one delivery; 503 only if nothing was delivered; 200
only if something was; and a crash. `LoadBalancer` has no crash of its own: it starts with nothing in memory, and the
step of `Proxy` is there for who composes with it.

### Limiter proxy

`Pipeline` follows `handle` of the rate limiter from await to await: Redis, the body, the connection, the response.
Behind it is `Proxy`, and not `LoadBalancer`: what is proved of the composition then holds for everything that
implements `Proxy`, and the refinement says that the load balancer does. When the limiter gives up
(`Timeout`), the request stays open at the balancer, because aiohttp does not cancel a handler whose client
disconnects. The requests are those of one client in one window, each sent once: how the counters carry over from
window to window is the subject of `RateLimiter`, and Redis keeps its counters here.

## 3. Runs

| Run | Expect | What it shows | Bounds and why they are enough |
|---|---|---|---|
| `store` | pass | limit, eviction of the least recently used, deadlines, refinement | 3 keys and room for 2: an eviction always has a choice; 2 ticks to the second, so TTL truncates; EX -1, 0, 1 and PX of half a second: before, at and after now; deadlines pass while keys are stored, so expired and live entries compete |
| `redis_server` | pass | client and server agree, the counter is what was answered and what broken EXECs had done, EXEC answers its queue | 2 connections, 2 queued commands, 3 INCRs: one connection counts between QUEUED and EXEC of the other; with and without REQUIREPASS; HELLO with up to two AUTH clauses |
| `resp` | pass | commands and replies survive the wire | every sequence of up to 3 out of 24 commands: MULTI, one queued command and EXEC; two changes of version and a null; payloads that are empty, hold line ends, or look like frames; streams that end after any symbol |
| `limiter` | pass | limit per window, counters kept while they count, no double burst of requests that are in time, X-RateLimit-Remaining is honoured | 2 overlapping requests, up to 3 ticks late, windows of 2 ticks, 7 ticks and 4 counted requests of a client: a request can be counted in the window after its own and in the one after that; a counter is created, read as the previous one, and expires (at tick 5 at the earliest), also before a late request asks for it; restarts and evictions at every point |
| `routing` | pass | fair shares | 3 servers of weights 1, 3, 2, each of which leaves and comes back; 8 picks: a full cycle of 6 after any start |
| `lb_requests` | pass | exact connection counts, sessions stay, status | 2 requests, 2 servers, threshold 2, checks, one backend that fails, pins that get lost; longer retry loops repeat the same step |
| `lb_liveness` | pass | refinement of `Proxy`; answered, outage and recovery detected, drain completes | 1 request at a time, one server goes down, the other sick, one may be drained |
| `pipeline` | pass | answers are true, limits per endpoint hold, every client is answered | 2 requests, a limit of 1 for one path and of 2 for all others, each path with and without a slash; every time-out and crash between any two steps |
| `lb_unavailable` | violation | 503 although a server is healthy | |
| `lb_draining` | violation | DRAINING undone | |
| `limiter_retry` | violation | Retry-After too short | |
| `store_del` | violation | DEL counts a key that has expired | |

Deadlock is checked in the store, connection, routing and balancer runs. It is not in the others, where the system
really stops: in the limiter runs the clock ends at `LastTick` and the counters at `MaxSent`, in `pipeline` every
request is sent once, in `resp` the connection ends.
Constants named in the modules as *bound* (`MaxTime`, `MaxCount`, `MaxQueue`, `MaxIncr`, `LastTick`,
`MaxSent`, `MaxPicks`, `MaxCommands`) exist for TLC only.

Every property has a mutant, an operator next to the one it replaces, which changes the code's behaviour as a plausible
bug would and makes TLC find the property violated.

### Disagreements between code and documents

* `lb_unavailable` (server.py:77): the hash of a server changes when a failure is counted, so `pinned_server
  not in attempted` stays true and all attempts of a pinned request go to the same dead server, against
  docs/index.md:271-272.
* `lb_draining` (health.py:26): a check that is under way, or a refused request, overwrites
  DRAINING, against README.md:76.
* `limiter_retry` (limiter.py:65): at the start of the next window all requests of this one, the rejected ones
  included, weigh fully, so waiting Retry-After seconds (docs/index.md:350) is not enough.
* `store_del` (store.py:92): DEL counts a key that has expired as long as nobody has looked it up, against store.py:89
  ("keys actually deleted") and PRD.md:893 ("1 if deleted, 0 if not found").

The documents also disagree with the code, or with each other, where the models follow the code and no run is spent:

* Recovery. `mark_success` (pool.py:36) sets a server to HEALTHY at once, and docs/index.md:270 says so ("Recovers on the
  next successful probe"). README.md:75 ("3 consecutive successes"), PRD.md:277, PRD.md:926 (FR-LB-05) and `RECOVERY = 3`
  (health.py:11, used nowhere) ask for three. `StatusMatchesFailures` states what the code does: HEALTHY after one.
* PRD.md:910 (FR-RL-06) has a counter absent after its window resets; the code keeps it for two windows from its first request
  (limiter.py:54), as the sliding window needs it. `NothingForgotten` states how long it is there.
* PRD.md:911 (FR-RL-07) has rejected requests not counted; the code increments before it judges (limiter.py:53), so a
  rejected request weighs as much as an admitted one. This is what `limiter_retry` runs into.
* limiter.py:32 ("eliminates the fixed-window double-burst problem") and docs/index.md:312 ("off by ~1 at window edges"): up to
  2 * limit - 1 requests can be admitted within the length of a window, since the estimate takes the previous window
  to have been used evenly, and 2 * limit if requests are counted out of order or after their window has ended, when the
  previous counter may be gone. `NoDoubleBurst` states what is left of the claim.

### What the passing properties do not say

* `Sticky` speaks of requests that found the session pinned. Overlapping requests of one session that find no
  pin each pick a server and each pin it (server.py:87), so the session can move off a healthy server in between
  (session.py:8 says "always").
* `FairShares` speaks of picks since the pool last changed. A pool that keeps changing at the wrong moments can make
  round robin pass over a server that was healthy all the time (algorithms.py:13).
* `NoDoubleBurst` is about histories in which every request was counted in the order of the starts and before its window
  had ended. If one is overtaken by a request of the next window, that one has read the previous counter too early;
  if one is counted after its window had ended, the previous counter may have expired. `WindowLimit`,
  `NothingForgotten` and `NoDoubleBurst` hold until Redis loses a counter; `RemainingHonest` holds beyond that.
* `NothingForgotten` says nothing of a counter once the window after its own has ended. It was created at the first request
  of its window and lives for two windows from then, so a request of that next window which is counted later than that may
  no longer find it, whatever its own weight for it is (limiter.py:54).
* `WindowLimit` needs a bound on how late Redis executes a request, which limiter.py:55 does not set: W + 1 ticks, W being the length
  of a window. Later than that the counter of the request's own window may have expired, and a new one starts at 1. The run
  has just this bound (`MaxDelay` = 3).
* `Truthful` says nothing of 500 and 504: a backend may have received the request before, or may after.
* `RepliesInStep` assumes that no text in a reply holds a line break: `encode_resp` writes texts as simple strings
  (resp.py:69), which such a text would end early.
* `CommandsIntact` allows that the last inline command is executed although it was cut off (resp.py:15).

## 4. Fairness

`LoadBalancer` and `Pipeline` have liveness properties. `Fairness` of `LoadBalancer` asks that

* each handler that can go on does (`Handle`): the event loop runs every ready task; Redis executes what it
  is sent (or the connection breaks, which ends the request); a client that announced a body
  sends it or disconnects; and a request to a backend ends at the latest with `FORWARD_TIMEOUT`
  (server.py:20), which is why `Timeout` is among the steps of `Handle`, and `Respond` need not be;
* rounds of checks go on (`while True` in health.py:42) and each check ends (2 s timeout, health.py:24).

`FairSpec` of `Pipeline` asks the first of these of the handler of the limiter (`Timeout` for
`CONNECT_TIMEOUT` and `FORWARD_TIMEOUT`, server.py:69), and nothing of the balancer: it may hang for ever.

No fairness is assumed of backends, clients, the operator, crashes and restarts, or for losing pins.

## 5. Proofs

`RedisStoreProofs` proves, for every finite set of keys, every `MAX_KEYS`, clock resolution and choice of inputs
(assumptions `StoreAssumption`, `InputAssumption`):

* `TypeCorrect`: `Spec => []TypeOK`;
* `LimitKept`: `Spec => []WithinMaxKeys`.

The inductive invariant is `IInv == TypeOK /\ Good(db)`, where `Good(d)` joins the order and the limit.
The limit alone is not inductive: `EvictIfNeeded` removes the keys with fewer than `surplus` keys before them,
and that these are exactly `surplus` keys holds only if `before` is a total order. Between
`MoveToEnd` and `EvictIfNeeded` the limit may be exceeded by one, so the lemmas speak of the operators
separately: deleting keys, moving one to the end and assigning an entry keep the order; a surplus of one makes
`EvictIfNeeded` remove exactly the first key. That there is a first key, and only one, follows from the
well-foundedness of the subset order on finite sets (`FirstKey`). Each method is then a composition of these
operators, and each action a use of one method.

From `IInv`, on the same assumptions:

* `StoreImplementsMap`: `Spec => ImplementsMap`. The map is what is stored and has not expired (`LiveMap`). Each operator of
  the store is described once by what it does to that map (`...Map`): moving a key or deleting expired ones
  does nothing, assigning an entry replaces one, and `EvictIfNeeded` removes at most one key besides (`EvictOne`, which
  needs the order: with a surplus of one, the keys with nothing before them are one key). Each method then is
  one action of `ExpiringMap` (`...Refines`), time passing is its `Tick`, and FLUSHALL and a restart empty both.
* `DeadlinesKept`: `Spec => DeadlineKept`, an action property: what a method does to any key but its own is to leave it or to
  lose it (`WriteOthers`), and of its own key only SET and EXPIRE write a deadline.
* `LastUsedSurvives`: `Spec => RecentlyUsedSurvives`. It is about two commands in a row, so the invariant has to
  remember the first: the key it used is the last of the order as long as it is stored (`LastUsedIsLast`). A key that
  is last is not the first unless it is alone, and eviction removes the first.

`LoadBalancerProofs` proves, from `BalancerAssumption` only:

* `StatusInStep`: `Spec => []StatusMatchesFailures`. The invariant `PoolInv` adds the types of `status` and
  `fails`; without them `FailsAfter` could step over the threshold. Only `mark_failure`, `mark_success`
  and the operator touch the pool, so the proof has a lemma for each of them and one that says that all
  other steps leave it alone. Nothing has to be known about requests: a failure counted for
  something that is not a server would be recorded nowhere.
* `BalancerImplementsProxy`: `Spec => ImplementsProxy`, for any number of servers, requests and sessions. The
  invariant `HandlerInv` says of each handler what its place implies: a request that is handled has no reply, and was
  delivered exactly if the handler waits for a response (`Undecided`), which is what makes another attempt safe. Every step of a handler then is an acceptance, a delivery, a reply or a stutter of `Proxy`;
  steps of the checker, the backends and the operator are stutters.

* `ConnectionsExact`: `Spec => []ConnsExact`. A handler enters `Forwarding` when it picks a server and leaves it by
  whichever way the attempt ends; the set of requests at a server gains or loses one element when its
  counter changes by one (`Recount`). The invariant `ConnInv` adds that a handler forwards to a server that exists, for
  which a pin must be a server and so must what round robin picks (`RoundRobinPicks` in `AlgorithmsProofs`, see below).
* `SessionsStick`: `Spec => []Sticky`. A server that is always up never has a failure to be
  counted, as no attempt at it is refused and no check of it fails (`StickyInv`, on top of `ConnInv` and `PoolInv`); so
  nothing clears the pin of a request to it, and nothing was attempted before the request goes there.
* `BalancerTypes`: `Spec => []TypeOK`. That the index stays within the list comes from `RoundRobinPicks`; that a
  handler tries at most N servers is not inductive: the handler counts a try when it has failed and stops when it has
  counted N, so while it has a server it must have counted fewer (`BoundsInv`).

`AlgorithmsProofs` is about `Algorithms` for any finite set of numbers and any weights. The provers cannot use
an induction theorem, as it takes a predicate as a parameter; what takes its place is that a set of numbers has a smallest member
(`SmallestOf`), which is a statement about a set:

* `NthIs`: counting the smaller members maps the set one to one onto 0 .. |set| - 1 (`Ranking`), so the n-th
  exists, and only one does. `RoundRobinPicks`, `LeastPicks`: a pick is a member, and what the index becomes.
* `WeightedNthIs`, `WeightedPicks`: the same for the list that holds a server as often as its weight says.
* `Cyclic`: n picks in a row, from wherever the counter stands, take each position of a list of n once, since
  the n rests are different (`DifferentRests`, `SameRests`). `WeightedShare`: so a server is picked as often as it is in the list.

`RoutingProofs` proves about `Routing`, from `RoutingAssumption` (a finite set of servers that are numbers, not empty, and weights
that are positive):

* `RoutingTypes`: `Spec => []TypeOK`;
* `EveryShareFair`: `Spec => []FairShares`, of round robin and of weighted round robin. `FairShares` speaks of a
  full cycle of picks and so is not inductive: the invariant says of each pick since the pool has changed which position it
  took (`RoundInTurn`, `WeightedInTurn`), which is where the change left the index, plus the picks since. By `Cyclic` a full
  cycle then takes each position once.

`RateLimiterProofs` proves, from `StoreAssumption` and `LimiterAssumption`, with `MaxKeys = 0` (eviction by
other keys is the action `Evicted`):

* `AtMostLimit`: `Spec => []WindowLimit`, if no request is executed later than W + 1 ticks after its start, W
  ticks being the length of a window. Until a counter is lost, it holds exactly what was sent, for two windows from its
  creation (`Counters`), so nobody counts on a counter that has gone too early; and what was admitted is at
  most what was sent and at most the limit (`WithinSent`), as a request is admitted only while its own count is within it.
* `CountersKept`: `Spec => []NothingForgotten`, however late requests are: a counter that may have expired belongs to a window
  whose successor has ended.
* `LimiterTypes`: `Spec => []TypeOK`, of the store with its counters and of the requests under way.
* `RemainingKept`: `Spec => []RemainingHonest`, with no bound on how late a request is executed, and although counters may be
  lost. The invariant (`Promised`) says that as long as nothing else was counted for a client that was left something, the counters that its
  next request will read leave room for it, in the window of its last answer; the estimate only falls
  as time passes and as counters are lost, and `RemainingHonest` follows for that window and for the next.
* `BurstsBounded`: `Spec => []NoDoubleBurst`, with no bound on how late a request is executed: the premise is on the history. If anything was counted for the previous window
  the estimate leaves room for less than the limit, so two windows in a row are never both full (`NoBurst`); that the
  earlier one does not fill up afterwards is what "in the order of their starts" gives (`InTurn`).

What the pipeline does to the store and answers is a lemma of its own (`PipelineData`), composed of one for each
method. How many requests were admitted is the cardinality of a set (`Passed`), not a sum, so that one more is
a set with one more element.

`RedisServerProofs` proves `ClientKnows`: `Spec => []ClientInSync`. The invariant says that of each connection either
both sides know nothing or the two sessions differ at most in that the handler is better authenticated (`Knows`). Each
action then is a reply from which the client concludes what the handler did, or one from which it concludes nothing and which
changed nothing.

On top of it:

* `ServerTypes`: `Spec => []TypeOK`;
* `CounterExact`: `Spec => []CountExact`. The counter is what was answered and what broken EXECs had run (`unanswered`), so an INCR
  that was dropped with its queue, its connection, or behind the command that raised is not in it. Each INCR that
  was accepted is queued on one connection, or counted, or was dropped (`CountInv`). What is queued is a set of pairs of a connection and a place
  in its queue (`Queued`), so that one connection can be taken out of it.
* `ExecInOrder`: `Spec => ExecAnswersQueue`, an action property. What EXEC has done after the first n commands of a queue (`Running`)
  is a function whose value at n is given by that at n - 1. That there is such a function (`RunningExists`), and that
  what it says of the n-th result holds for every n (`RunAllIs`), is induction, done by hand: if it failed somewhere, it
  would fail at a smallest n (`SmallestNumber`).

`PipelineProofs` proves, from `PipelineAssumption` (a finite set of requests):

* `PipelineTyped`: `Spec => []TypeOK`;
* `AnswersTrue`: `Spec => []Truthful`. Inductive with the order of events (`InOrder`): a request that has not
  been sent on is not open and was not delivered, and a reply of the balancer tells what it did.
* `LimitHolds`: `Spec => []EndpointLimit`. The invariant compares two counts: the requests of an endpoint that
  were let through are at most as many as its counter says, and never more than its limit (`Counted`). Whatever is delivered was let through.
  An endpoint whose path is written in two ways has one counter since `BaseKey` and `Config` strip alike.

`RespProofs` proves, from `RespAssumption` only (commands of any words, whatever symbols of the protocol they hold, and
any number of them):

* `CommandsAsSent`: `Spec => []CommandsIntact`;
* `FramesWhole`: `Spec => []ReadsToTheEnd`;
* `RepliesRead`: `Spec => []RepliesInStep`.

The first two follow from one invariant, `StreamInv`: the commands that have been read are the first ones of the script, and
what has arrived and is on its way is what the rest of the script writes, or a part of it once the client is gone (`SoFar`);
or the last command read was an inline one that had been cut off, and nothing follows (`CutShort`). It is inductive because
reading undoes writing, wherever the stream is cut:

* `CommandWhole`: if a command has arrived, `Parse` returns it, as sent, and leaves what follows it. For an array it
  is `ArrayWhole`: a bulk string is read by its length (`BulkWhole`), and n of them one after the other (`BulksWhole`). For an
  inline command `LineSplit`: taking the line apart at its blanks gives the words that were put together.
* `CommandCut`: if only a part of it has arrived, `Parse` waits, or finds that the stream has ended (`ArrayCut`); of an
  inline command it reads a beginning (`SplitPrefix`).
* `NextRead` says both of what has arrived (`inbox`) and what follows (`net`), and `StreamStep` is the step of the invariant.

A recursive function has the value its recursion says only if there is such a function. That there is (`ReadsExist`,
`SplitsExist`), and what it computes of the streams that a client makes, is induction, done by hand for each: the
numbers for which it holds are a set with 0 in it and closed under successor (`EveryNumber`).

`RepliesRead` is about the other direction. `RepliesInStep` says nothing of `outbox` but what a client makes of it, so it is
not inductive. The invariant `MadeInv`, on top of `StreamInv`, says what `outbox` is: what `Encode` makes of one reply of `made`
after another, each in the version that was asked for up to its command (`Written`); that `proto` is the version that was
asked for last (`AskedOf`); that a map was made only for a client that asked for version 3; and that there are as many replies as
commands, or one more once the handler has ended. TLC checked `MadeInv` on the instance of `resp` before it was proved.

* `CommandReplies`: whatever a command is, the handler makes one reply of it, of the kinds in `Reply`, and changes the version if and
  only if the client asked it to (HELLO 2 or 3, not with anything else). With it, `MadeStep` is the step of the invariant; `AskedBefore`,
  `AskedOther` and `AskedLast` say that a command more changes nothing about the versions of the replies before it.
* `ReplyReads`: `Decode` undoes `Encode`, in both versions, whatever follows: for what is one line or one bulk string by `LineEncodes` and
  `BulkEncodes`, for lists of what can be read, lists included (`ListEncodes`), and for the map of HELLO. Its hypothesis that
  no text holds a line break is that of `RepliesInStep`, and it is needed: a text is read to the first line break.
* `AllRead`: so after n replies the client is left with what the others are written as (`Beyond`), and at the end with nothing, for which
  it would wait (`DecodeNothing`).

Model-checked only: liveness (`Answered` of `LoadBalancer` and of `Pipeline`, `OutageDetected`, `RecoveryDetected`,
`DrainCompletes`), since fairness and ENABLED are out of the prover's reach. The theorems about `RateLimiter` assume that there is
no limit on keys (`MaxKeys = 0`): the runs check them so too, and what eviction could do is the action `Evicted`. That a
list in a reply holds no list that is not empty is a bound of `Encode` itself (`EncodeInner`), not of the proof.

## 6. Not modelled

* Texts in RESP that are not UTF-8, and lines beyond the 64 KB buffer of a StreamReader.
* Headers (X-Forwarded-For, hop-by-hop, X-RateLimit-Limit), status codes of backends, bodies, logging.
* Start-up, signals and shutdown, the pools of connections of aiohttp and redis-py and their own retries.
* The mock backend beyond being up, sick or down, and the test client: they answer and ask, and keep nothing.
* The drawings (`generate_diagrams.py`), compose files and deployment: nothing in them runs with the system.

## 7. Plan

Done: `StoreOps`, `ExpiringMap`, `RedisStore`; `RedisServer` and `RateLimiter` on the same operators; `LoadBalancer`,
`Proxy` and the proof that the one implements the other; `Routing`; `Pipeline` on top of `Proxy`; `Resp`; theorems that
state every safety invariant, action property and refinement which the passing runs check.

Nothing of the plan is left. What could be added: texts that are not UTF-8, and headers.
