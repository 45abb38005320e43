---------------------------- MODULE RateLimiter -----------------------------
(***************************************************************************)
(* RateLimiter.is_allowed (limiter.py) for requests that overlap, with the *)
(* counters in a real Store: the pipeline that reads the counter of the    *)
(* previous window and increments the one of the current window is carried *)
(* out by the operators of StoreOps.                                       *)
(*                                                                         *)
(* is_allowed reads the clock before it awaits the pipeline, which Redis   *)
(* executes atomically (redis-py sends it as MULTI ... EXEC) up to         *)
(* MaxDelay ticks later; the answer is computed from what was read then    *)
(* and from the clock of the start.  Client stands for one pair of ip      *)
(* address and path.  A tick is 1/TicksPerSecond second for both programs. *)
(***************************************************************************)
EXTENDS StoreOps

CONSTANTS
  Clients,
  Requests,     \* slots for requests that overlap
  limit,        \* RateLimitConfig.limit
  window,       \* RateLimitConfig.window_seconds, in seconds
  MaxDelay,     \* ticks between the start of a request and its pipeline
  LastTick,     \* bound: the clock stops there
  MaxSent       \* bound: requests counted for a client

\* The length of a window in ticks.
W == window * TicksPerSecond

\* Key <<c, w>> stands for rl:{ip}:{path}:{w}.
Windows == -1 .. LastTick \div W

ASSUME LimiterAssumption ==
  /\ limit \in Nat \ {0}
  /\ window \in Nat \ {0}
  /\ MaxDelay \in Nat
  /\ LastTick \in Nat
  /\ MaxSent \in Nat
  /\ Clients \X Windows \subseteq Keys

VARIABLES
  db,       \* the Store of the redis clone
  now,      \* the clock
  slot,     \* the request in each slot: who sent it and when it started
  sent,     \* history: pipelines executed for each client and window
  admitted, \* history: requests admitted before Redis lost a counter, by client
            \* and tick of their start
  answer,   \* the last answer each client was given
  lost,     \* history: Redis has lost a counter
  overtaken, \* history: a request was counted before one that started earlier
  late      \* history: a request was counted after its window had ended (both
            \* are only kept up until Redis has lost a counter)

vars == <<db, now, slot, sent, admitted, answer, lost, overtaken, late>>

Ticks == 0 .. LastTick

\* The answer to a request that started at: whether it was admitted, what
\* X-RateLimit-Remaining and Retry-After say; and the requests of the client
\* that had been counted by then.
NoAnswer == [at |-> 0, allowed |-> TRUE, remaining |-> 0, retry_after |-> 0, counted |-> 0]

NoneAdmitted == [c \in Clients |-> [t \in Ticks |-> 0]]

\* How many requests have been counted; <<w, i>> is the i-th of window w.
Executions(counts) == UNION {{w} \X (1 .. counts[w]) : w \in Windows}

Counted(counts) == Cardinality(Executions(counts))

Init ==
  /\ db = EmptyDB
  /\ now = 0
  /\ slot = [r \in Requests |-> None]
  /\ sent = [c \in Clients |-> [w \in Windows |-> 0]]
  /\ admitted = NoneAdmitted
  /\ answer = [c \in Clients |-> NoAnswer]
  /\ lost = FALSE
  /\ overtaken = FALSE
  /\ late = FALSE

WindowOf(t) == t \div W

\* Mutant of Pipeline: counters are kept for one window only.
Pipeline_OneWindow(c, w) ==
  LET get    == Get(db, now, <<c, w - 1>>)
      incr   == IncrBy(get.db, now, <<c, w>>, 1)
      expire == Expire(incr.db, now, <<c, w>>, window, TRUE)
  IN  [db   |-> expire.db,
       prev |-> IF get.res = None THEN 0 ELSE get.res,
       curr |-> incr.res]

\* pipe.get(prev); pipe.incr(curr); pipe.expire(curr, 2 * window, nx=True)
Pipeline(c, w) ==
  LET get    == Get(db, now, <<c, w - 1>>)
      incr   == IncrBy(get.db, now, <<c, w>>, 1)
      expire == Expire(incr.db, now, <<c, w>>, 2 * window, TRUE)
  IN  [db   |-> expire.db,
       prev |-> IF get.res = None THEN 0 ELSE get.res,
       curr |-> incr.res]

\* Mutant of Estimated: a fixed window.
Estimated_Fixed(prev, curr, t) == curr * W

\* estimated, multiplied by W to be a whole number.
Estimated(prev, curr, t) == prev * (W - (t % W)) + curr * W

\* Mutants of Answer: remaining is not cut off at 0; the request itself does not
\* count; remaining is what there was before this request.
Answer_Negative(prev, curr, t, counted) ==
  LET free == limit * W - Estimated(prev, curr, t)
  IN  [NoAnswer EXCEPT !.at = t, !.allowed = free >= 0, !.remaining = free \div W,
                       !.counted = counted]

Answer_BeforeCounting(prev, curr, t, counted) ==
  LET free == limit * W - Estimated(prev, curr - 1, t)
  IN  [NoAnswer EXCEPT !.at = t, !.allowed = free >= 0, !.counted = counted]

Answer_OneMore(prev, curr, t, counted) ==
  LET free == limit * W - Estimated(prev, curr, t)
  IN  [NoAnswer EXCEPT !.at = t, !.allowed = free >= 0, !.counted = counted,
                       !.remaining = IF free >= 0 THEN free \div W + 1 ELSE 0]

\* allowed, remaining and retry_after of a request that started at t.
Answer(prev, curr, t, counted) ==
  LET free    == limit * W - Estimated(prev, curr, t)
      allowed == free >= 0
  IN  [at          |-> t,
       allowed     |-> allowed,
       remaining   |-> IF allowed THEN free \div W ELSE 0,
       retry_after |-> IF allowed THEN 0
                       ELSE (WindowOf(t) + 1) * window - (t \div TicksPerSecond),
       counted     |-> counted]

-----------------------------------------------------------------------------

\* A request arrives and reads the clock.
Start(r, c) ==
  /\ slot[r] = None
  /\ slot' = [slot EXCEPT ![r] = [client |-> c, t |-> now]]
  /\ UNCHANGED <<db, now, sent, admitted, answer, lost, overtaken, late>>

\* Redis executes the pipeline of the request in slot r.
Executed(r) ==
  LET c == slot[r].client
      w == WindowOf(slot[r].t)
  IN  /\ Counted(sent[c]) < MaxSent
      /\ db' = Pipeline(c, w).db
      /\ sent' = [sent EXCEPT ![c][w] = @ + 1]
      /\ slot' = [slot EXCEPT ![r] = None]
      /\ overtaken' = (~lost /\ (overtaken \/ \E o \in Requests :
                                     slot[o] # None /\ slot[o].t < slot[r].t))
      /\ late' = (~lost /\ (late \/ now > (w + 1) * W))
      /\ UNCHANGED <<now, lost>>

\* ... and the handler resumes with the counts.
Decide(r) ==
  /\ slot[r] # None
  /\ Executed(r)
  /\ LET c == slot[r].client
         t == slot[r].t
         p == Pipeline(c, WindowOf(t))
         a == Answer(p.prev, p.curr, t, Counted(sent'[c]))
     IN  /\ answer' = [answer EXCEPT ![c] = a]
         /\ admitted' = [admitted EXCEPT ![c][t] = IF a.allowed /\ ~lost THEN @ + 1 ELSE @]

\* Redis fails before or after it has executed the pipeline: the exception
\* leaves the handler, the client gets a 500 and nothing is forwarded.
Fail(r) ==
  /\ slot[r] # None
  /\ \/ Executed(r)
     \/ slot' = [slot EXCEPT ![r] = None] /\ UNCHANGED <<db, now, sent, lost, overtaken, late>>
  /\ UNCHANGED <<admitted, answer>>

Tick ==
  /\ now + 1 \in Ticks
  /\ \A r \in Requests : slot[r] # None => now + 1 <= slot[r].t + MaxDelay
  /\ now' = now + 1
  /\ UNCHANGED <<db, slot, sent, admitted, answer, lost, overtaken, late>>

\* Redis loses the counters of K, now and any number of times later: what has been
\* admitted does not matter any more.
Lose(K) ==
  /\ K # {}
  /\ db' = DelKeys(db, K)
  /\ lost' = TRUE
  /\ admitted' = NoneAdmitted
  /\ overtaken' = FALSE
  /\ late' = FALSE
  /\ UNCHANGED <<now, slot, sent, answer>>

\* Redis restarts, which empties it.
RedisRestart == Lose(Stored(db))

\* Redis is full of other keys, the pins of the load balancer for example: it
\* evicts the counter that was used least recently.
Evicted(k) == k \in Stored(db) /\ db.before[k] = {} /\ Lose({k})

Next ==
  \/ \E r \in Requests, c \in Clients : Start(r, c)
  \/ \E r \in Requests : Decide(r) \/ Fail(r)
  \/ Tick
  \/ RedisRestart
  \/ \E k \in Keys : Evicted(k)

Spec == Init /\ [][Next]_vars

-----------------------------------------------------------------------------
(* Properties                                                              *)

\* The store, the requests, the history and the answers have their types.
TypeOK ==
  /\ db \in DB
  /\ now \in Ticks
  /\ slot \in [Requests -> [client : Clients, t : Ticks] \cup {None}]
  /\ sent \in [Clients -> [Windows -> 0 .. MaxSent]]
  /\ admitted \in [Clients -> [Ticks -> 0 .. MaxSent]]
  /\ answer \in [Clients -> [at : Ticks, allowed : BOOLEAN, remaining : 0 .. limit,
                              retry_after : 0 .. window, counted : Nat]]
  /\ lost \in BOOLEAN
  /\ overtaken \in BOOLEAN
  /\ late \in BOOLEAN

\* The requests admitted that started at a tick of T; <<t, i>> is the i-th of t.
Passed(c, T) == UNION {{t} \X (1 .. admitted[c][t]) : t \in T \cap Ticks}

Admitted(c, T) == Cardinality(Passed(c, T))

\* As long as Redis keeps the counters, no more than limit requests of one
\* window are admitted, however many of them overlap, whichever order Redis
\* executes them in and whether it answers or not (limiter.py:51-62).
WindowLimit ==
  ~lost => \A c \in Clients, w \in Windows :
    Admitted(c, w * W .. w * W + W - 1) <= limit

\* Until the window after its own has ended, a counter tells every request that
\* was counted in it, however late they were, unless Redis lost it: INCR keeps
\* the deadline that the first EXPIRE NX has set, and that is far enough for "prev
\* is readable" (limiter.py:54).  After that it may expire, and a request of that
\* window or the next which is counted so late no longer finds what there was.
Count(k) == IF k \in Live(db, now) THEN db.data[k].value ELSE 0

NothingForgotten ==
  ~lost => \A c \in Clients, w \in Windows :
    now <= (w + 2) * W => Count(<<c, w>>) = sent[c][w]

\* What is left of limiter.py:32, "eliminates the fixed-window double-burst
\* problem where a client could send 2*limit requests": never are 2 * limit
\* requests admitted within the length of a window if each was counted before its
\* window had ended and in the order in which they started.  (2 * limit - 1 can be
\* where a window has ticks enough; and 2 * limit can be if one of them is counted
\* later than that, or after one that started after it.)
NoDoubleBurst ==
  ~lost /\ ~overtaken /\ ~late =>
    \A c \in Clients, t \in Ticks : Admitted(c, t .. t + W - 1) < 2 * limit

\* The next request of the client after an answer to it, if nothing else was
\* counted for the client in between.
NextOf(r) ==
  /\ slot[r].t >= answer[slot[r].client].at
  /\ Counted(sent[slot[r].client]) = answer[slot[r].client].counted
  /\ Decide(r)

\* X-RateLimit-Remaining is a promise: while it was positive the next request
\* is admitted, also if a new window begins in between (limiter.py:63) or Redis
\* loses counters, unless the answer was to a late request and did not see the
\* window that had begun.
RemainingHonest ==
  [][ \A r \in Requests :
        LET c == slot[r].client
            a == answer[c] IN
        slot[r] # None /\ a.remaining > 0 /\ NextOf(r) /\ (\A w \in Windows : w > WindowOf(a.at) => sent[c][w] = 0)
          => answer'[c].allowed ]_vars

\* docs/index.md:350: "Wait for Retry-After seconds".  Rejected requests are
\* counted, and at the start of the next window all of them still weigh fully.
RetryAfterSuffices ==
  [][ \A r \in Requests :
        LET a == answer[slot[r].client] IN
        slot[r] # None /\ ~a.allowed /\ slot[r].t >= a.at + a.retry_after * TicksPerSecond /\ NextOf(r)
          => answer'[slot[r].client].allowed ]_vars
=============================================================================
