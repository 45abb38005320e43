------------------------- MODULE LoadBalancerProofs -------------------------
(***************************************************************************)
(* What TLAPS proves about LoadBalancer, for any number of servers,        *)
(* requests and sessions, any threshold and any behaviour of the backends. *)
(***************************************************************************)
EXTENDS LoadBalancer, AlgorithmsProofs

\* The part of TypeOK that the status of a server depends on.
PoolType ==
  /\ status \in [Servers -> Status]
  /\ fails \in [Servers -> 0 .. Threshold]

\* The inductive invariant.
PoolInv == PoolType /\ StatusMatchesFailures

\* The threshold is a positive number.
LEMMA ThresholdPositive == Threshold \in Nat /\ Threshold > 0
BY BalancerAssumption, SMT

\* mark_failure keeps the status in step with the failures.  (Of a server that
\* is not in the pool nothing is recorded.)
LEMMA FailureKeepsPool ==
  ASSUME PoolInv, NEW s, MarkFailure(s)
  PROVE  PoolInv'
<1>1. fails' = [fails EXCEPT ![s] = FailsAfter(s)]
  BY DEF MarkFailure
<1>2. status' = [status EXCEPT ![s] = IF FailsAfter(s) >= Threshold THEN "UNHEALTHY" ELSE @]
  BY DEF MarkFailure
<1>3. ASSUME s \in Servers
      PROVE  FailsAfter(s) \in 0 .. Threshold
  BY <1>3, ThresholdPositive DEF PoolInv, PoolType, FailsAfter
<1>4. PoolType'
  BY <1>1, <1>2, <1>3 DEF PoolInv, PoolType, Status
<1>5. ASSUME NEW t \in Servers
      PROVE  /\ status'[t] = "HEALTHY" => fails'[t] < Threshold
             /\ status'[t] = "UNHEALTHY" => fails'[t] = Threshold
  <2>1. CASE t # s
    BY <1>1, <1>2, <2>1 DEF PoolInv, PoolType, StatusMatchesFailures
  <2>2. CASE t = s
    <3>1. fails'[t] = FailsAfter(s) /\ fails[s] \in 0 .. Threshold
      BY <1>1, <2>2 DEF PoolInv, PoolType
    <3>2. status'[t] = IF FailsAfter(s) >= Threshold THEN "UNHEALTHY" ELSE status[s]
      BY <1>2, <2>2 DEF PoolInv, PoolType
    <3>3. FailsAfter(s) \in 0 .. Threshold
      BY <1>3, <2>2
    <3>4. CASE FailsAfter(s) >= Threshold
      BY <3>1, <3>2, <3>3, <3>4, ThresholdPositive
    <3>5. CASE FailsAfter(s) < Threshold
      <4>1. fails[s] < Threshold
        BY <3>1, <3>5, ThresholdPositive DEF FailsAfter
      <4>2. status[s] # "UNHEALTHY"
        BY <2>2, <4>1, <3>1, ThresholdPositive DEF PoolInv, StatusMatchesFailures
      <4>3. status'[t] = status[s]
        BY <3>2, <3>3, <3>5, ThresholdPositive
      <4> QED
        BY <3>1, <3>5, <4>2, <4>3
    <3> QED
      BY <3>3, <3>4, <3>5, ThresholdPositive
  <2> QED
    BY <2>1, <2>2
<1>6. StatusMatchesFailures'
  BY <1>5 DEF StatusMatchesFailures
<1> QED
  BY <1>4, <1>6 DEF PoolInv

\* So does mark_success.
LEMMA SuccessKeepsPool ==
  ASSUME PoolInv, NEW s, MarkSuccess(s)
  PROVE  PoolInv'
<1>1. PoolType'
  <2>1. fails' \in [Servers -> 0 .. Threshold]
    <3>1. fails \in [Servers -> 0 .. Threshold] /\ 0 \in 0 .. Threshold
      BY ThresholdPositive DEF PoolInv, PoolType
    <3>2. fails' = [fails EXCEPT ![s] = 0]
      BY DEF MarkSuccess
    <3> QED
      BY <3>1, <3>2, Zenon
  <2>2. status' \in [Servers -> Status]
    BY DEF PoolInv, PoolType, MarkSuccess, Status
  <2> QED
    BY <2>1, <2>2 DEF PoolType
<1>2. ASSUME NEW t \in Servers
      PROVE  /\ status'[t] = "HEALTHY" => fails'[t] < Threshold
             /\ status'[t] = "UNHEALTHY" => fails'[t] = Threshold
  <2>1. CASE t # s
    BY <2>1 DEF MarkSuccess, PoolInv, PoolType, StatusMatchesFailures
  <2>2. CASE t = s
    <3>1. status'[t] = "HEALTHY" /\ fails'[t] = 0
      BY <2>2 DEF MarkSuccess, PoolInv, PoolType
    <3> QED
      BY <3>1, ThresholdPositive
  <2> QED
    BY <2>1, <2>2
<1> QED
  BY <1>1, <1>2 DEF PoolInv, StatusMatchesFailures

\* So does setting a server to DRAINING.
LEMMA DrainKeepsPool ==
  ASSUME PoolInv, NEW s, Drain(s)
  PROVE  PoolInv'
BY DEF PoolInv, PoolType, StatusMatchesFailures, Drain, Status

\* And what leaves the pool alone.
LEMMA UnchangedKeepsPool ==
  ASSUME PoolInv, UNCHANGED <<status, fails>>
  PROVE  PoolInv'
BY DEF PoolInv, PoolType, StatusMatchesFailures

\* A handler changes the pool only when a connection was refused.
LEMMA HandlersKeepPool ==
  ASSUME PoolInv, NEW r \in Requests,
         \/ Arrive(r) \/ Handle(r) \/ BodyLost(r) \/ RedisError(r)
         \/ Refuse(r) \/ Deliver(r) \/ Respond(r) \/ Disconnected(r)
  PROVE  PoolInv'
<1>1. CASE ConnectorError(r)
  BY <1>1, FailureKeepsPool DEF ConnectorError
<1>2. CASE Arrive(r) \/ LookupExecuted(r) \/ LookupAnswered(r) \/ ClearExecuted(r)
  BY <1>2, UnchangedKeepsPool DEF Arrive, LookupExecuted, LookupAnswered, ClearExecuted
<1>3. CASE BodyRead(r) \/ BodyLost(r) \/ PinExecuted(r) \/ RedisError(r)
  BY <1>3, UnchangedKeepsPool DEF BodyRead, BodyLost, PinExecuted, RedisError
<1>4. CASE Refuse(r) \/ Deliver(r)
  BY <1>4, UnchangedKeepsPool DEF Refuse, Deliver
<1>5. CASE Respond(r) \/ Timeout(r) \/ Disconnected(r)
  BY <1>5, UnchangedKeepsPool DEF Respond, Timeout, Disconnected, Leave
<1> QED
  BY <1>1, <1>2, <1>3, <1>4, <1>5 DEF Handle

\* Every step keeps the pool consistent.
LEMMA PoolStep ==
  ASSUME PoolInv, [Next]_vars
  PROVE  PoolInv'
<1>1. CASE UNCHANGED vars
  BY <1>1, UnchangedKeepsPool DEF vars
<1>2. ASSUME NEW r \in Requests,
             \/ Arrive(r) \/ Handle(r) \/ BodyLost(r) \/ RedisError(r)
             \/ Refuse(r) \/ Deliver(r) \/ Respond(r) \/ Disconnected(r)
      PROVE  PoolInv'
  BY <1>2, HandlersKeepPool
<1>3. CASE StartRound
  BY <1>3, UnchangedKeepsPool DEF StartRound
<1>4. ASSUME NEW s \in Servers, Answer(s) \/ CheckDone(s)
      PROVE  PoolInv'
  <2>1. CASE Answer(s)
    BY <2>1, UnchangedKeepsPool DEF Answer
  <2>2. CASE CheckDone(s)
    BY <2>2, SuccessKeepsPool, FailureKeepsPool DEF CheckDone
  <2> QED
    BY <1>4, <2>1, <2>2
<1>5. ASSUME NEW s \in Servers, NEW c \in Conditions[s], Become(s, c)
      PROVE  PoolInv'
  BY <1>5, UnchangedKeepsPool DEF Become
<1>6. ASSUME NEW s \in Drainable, Drain(s)
      PROVE  PoolInv'
  BY <1>6, DrainKeepsPool
<1>7. ASSUME NEW x \in Forgetful, PinLost(x)
      PROVE  PoolInv'
  BY <1>7, UnchangedKeepsPool DEF PinLost
<1> QED
  BY <1>1, <1>2, <1>3, <1>4, <1>5, <1>6, <1>7 DEF Next

\* In whichever order the failures and successes of requests and of checks are
\* counted, a HEALTHY server has failed less than Threshold times since its
\* last success, and an UNHEALTHY one that many times (pool.py:30-39).
THEOREM StatusInStep == Spec => []StatusMatchesFailures
<1>1. Init => PoolInv
  BY ThresholdPositive DEF Init, PoolInv, PoolType, StatusMatchesFailures, Status
<1>2. PoolInv /\ [Next]_vars => PoolInv'
  BY PoolStep
<1>3. PoolInv => StatusMatchesFailures
  BY DEF PoolInv
<1> QED
  BY <1>1, <1>2, <1>3, PTL DEF Spec

-----------------------------------------------------------------------------
(* The load balancer implements Proxy.                                     *)

\* q has the fields of a request.
Shape(q) == q = [pc |-> q.pc, session |-> q.session, pinned |-> q.pinned, server |-> q.server,
                 tries |-> q.tries, delivered |-> q.delivered, reply |-> q.reply]

\* A request that is handled has not been answered, and has been received by a
\* backend only while the handler waits for that backend's response.
Undecided(q) ==
  q.pc # "idle" => q.reply = None /\ q.delivered = (IF q.pc = "sent" THEN 1 ELSE 0)

\* The inductive invariant of the refinement.
HandlerInv ==
  /\ req = [r \in Requests |-> req[r]]
  /\ \A r \in Requests : Shape(req[r]) /\ Undecided(req[r])

\* q with one field changed.
SetPc(q, x) == [q EXCEPT !.pc = x]
SetSession(q, x) == [q EXCEPT !.session = x]
SetPinned(q, x) == [q EXCEPT !.pinned = x]
SetServer(q, x) == [q EXCEPT !.server = x]
SetTries(q, x) == [q EXCEPT !.tries = x]
SetDelivered(q, x) == [q EXCEPT !.delivered = x]
SetReply(q, x) == [q EXCEPT !.reply = x]

\* Setting one field leaves the others alone.
LEMMA SetField ==
  ASSUME NEW q, NEW x, Shape(q)
  PROVE  /\ Shape(SetPc(q, x)) /\ SetPc(q, x).pc = x
            /\ SetPc(q, x).delivered = q.delivered /\ SetPc(q, x).reply = q.reply
         /\ Shape(SetSession(q, x)) /\ SetSession(q, x).pc = q.pc
            /\ SetSession(q, x).delivered = q.delivered /\ SetSession(q, x).reply = q.reply
         /\ Shape(SetPinned(q, x)) /\ SetPinned(q, x).pc = q.pc
            /\ SetPinned(q, x).delivered = q.delivered /\ SetPinned(q, x).reply = q.reply
         /\ Shape(SetServer(q, x)) /\ SetServer(q, x).pc = q.pc
            /\ SetServer(q, x).delivered = q.delivered /\ SetServer(q, x).reply = q.reply
         /\ Shape(SetTries(q, x)) /\ SetTries(q, x).pc = q.pc
            /\ SetTries(q, x).delivered = q.delivered /\ SetTries(q, x).reply = q.reply
         /\ Shape(SetDelivered(q, x)) /\ SetDelivered(q, x).pc = q.pc
            /\ SetDelivered(q, x).delivered = x /\ SetDelivered(q, x).reply = q.reply
         /\ Shape(SetReply(q, x)) /\ SetReply(q, x).pc = q.pc
            /\ SetReply(q, x).delivered = q.delivered /\ SetReply(q, x).reply = x
BY DEF Shape, SetPc, SetSession, SetPinned, SetServer, SetTries, SetDelivered, SetReply

\* A step in which r becomes q and no other request changes keeps the invariant.
LEMMA BecomesKeeps ==
  ASSUME HandlerInv, NEW r \in Requests, NEW q, Shape(q), Undecided(q),
         req' = [req EXCEPT ![r] = q]
  PROVE  HandlerInv'
<1>1. req' = [o \in Requests |-> IF o = r THEN q ELSE req[o]]
  BY DEF HandlerInv
<1>2. req' = [o \in Requests |-> req'[o]]
  BY <1>1
<1>3. \A o \in Requests : Shape(req'[o]) /\ Undecided(req'[o])
  BY <1>1 DEF HandlerInv
<1> QED
  BY <1>2, <1>3 DEF HandlerInv

\* If it is still handled and has not been delivered by the step, the caller of
\* the balancer sees nothing.
LEMMA Unseen ==
  ASSUME HandlerInv, NEW r \in Requests, NEW q, Shape(q), Undecided(q),
         req' = [req EXCEPT ![r] = q],
         req[r].pc # "idle", q.pc # "idle", q.delivered = req[r].delivered
  PROVE  HandlerInv' /\ UNCHANGED Promise!vars
<1>1. req' = [o \in Requests |-> IF o = r THEN q ELSE req[o]]
  BY DEF HandlerInv
<1>2. q.reply = None /\ req[r].reply = None
  BY DEF HandlerInv, Undecided
<1>3. \A o \in Requests : /\ (req'[o].pc # "idle") = (req[o].pc # "idle")
                          /\ req'[o].delivered = req[o].delivered
                          /\ req'[o].reply = req[o].reply
  BY <1>1, <1>2
<1>4. UNCHANGED Promise!vars
  BY <1>3 DEF Promise!vars
<1> QED
  BY <1>4, BecomesKeeps

\* If its handler ends, the caller sees its reply.
LEMMA Replied ==
  ASSUME HandlerInv, NEW r \in Requests, NEW q, NEW code \in Promise!Code,
         req' = [req EXCEPT ![r] = Finished(q, code)],
         req[r].pc # "idle", q.delivered = req[r].delivered,
         code = 200 => q.delivered = 1,
         code \in {413, 503} => q.delivered = 0
  PROVE  HandlerInv' /\ Promise!Next
<1> DEFINE f == Finished(q, code)
<1>1. /\ Shape(f)
      /\ f.pc = "idle" /\ f.reply = code /\ f.delivered = req[r].delivered
  <2>1. Shape(Idle) /\ Idle.pc = "idle"
    BY DEF Shape, Idle
  <2>2. f = SetDelivered(SetReply(Idle, code), q.delivered)
    BY Zenon DEF Finished, SetDelivered, SetReply
  <2> HIDE DEF f
  <2> QED
    BY <2>1, <2>2, SetField
<1>2. HandlerInv'
  BY <1>1, BecomesKeeps DEF Undecided
<1>3. req' = [o \in Requests |-> IF o = r THEN f ELSE req[o]]
  BY DEF HandlerInv
<1> HIDE DEF f
<1>4. Promise!Reply(r, code)
  BY <1>1, <1>3 DEF Promise!Reply
<1> QED
  BY <1>2, <1>4 DEF Promise!Next

\* From the head of the retry loop the handler goes on or answers 503.
LEMMA NextAttemptSeen ==
  ASSUME HandlerInv, NEW r \in Requests, NEW q, NEW att, NEW st, NEW cn,
         req[r].pc # "idle", req[r].delivered = 0,
         Shape(q), q.delivered = 0, q.reply = None,
         NextAttempt(r, q, att, st, cn)
  PROVE  HandlerInv' /\ (Promise!Next \/ UNCHANGED Promise!vars)
<1>1. ASSUME NEW s, NEW pc \in {"connect", "pin"},
             req' = [req EXCEPT ![r] = [q EXCEPT !.pc = pc, !.server = s]]
      PROVE  HandlerInv' /\ UNCHANGED Promise!vars
  <2> DEFINE p == [q EXCEPT !.pc = pc, !.server = s]
  <2>1. p = SetServer(SetPc(q, pc), s)
    BY Zenon DEF SetServer, SetPc
  <2>2. req' = [req EXCEPT ![r] = p]
    BY <1>1, Zenon
  <2> HIDE DEF p
  <2>3. Shape(p) /\ p.pc = pc /\ p.delivered = 0 /\ p.reply = None
    BY <2>1, SetField
  <2> QED
    BY <2>2, <2>3, Unseen DEF Undecided
<1>2. CASE req' = [req EXCEPT ![r] = Finished(q, 503)]
  <2>1. PICK code \in Promise!Code : code = 503
    BY DEF Promise!Code
  <2>2. req' = [req EXCEPT ![r] = Finished(q, code)]
    BY <1>2, <2>1, Zenon
  <2>3. /\ code = 200 => q.delivered = 1
        /\ code = 503 => q.delivered = 0
        /\ q.delivered = req[r].delivered
    BY <2>1
  <2> QED
    BY <2>2, <2>3, Replied, Zenon
<1>3. \/ Send(r, q, q.pinned, att, cn)
      \/ \E s : req' = [req EXCEPT ![r] = [q EXCEPT !.pc = "pin", !.server = s]]
      \/ req' = [req EXCEPT ![r] = Finished(q, 503)]
  BY Zenon DEF NextAttempt
<1>4. CASE Send(r, q, q.pinned, att, cn)
  <2>1. req' = [req EXCEPT ![r] = [q EXCEPT !.pc = "connect", !.server = q.pinned]]
    BY <1>4, Zenon DEF Send
  <2> QED
    BY <1>1, <2>1, Zenon
<1>5. CASE \E s : req' = [req EXCEPT ![r] = [q EXCEPT !.pc = "pin", !.server = s]]
  BY <1>1, <1>5, Zenon
<1> QED
  BY <1>2, <1>3, <1>4, <1>5, Zenon

\* A request that arrives is accepted.
LEMMA ArriveSeen ==
  ASSUME HandlerInv, NEW r \in Requests, Arrive(r)
  PROVE  HandlerInv' /\ Promise!Next
<1>1. PICK x, pc :
        /\ pc \in {"body", "lookup"}
        /\ req' = [req EXCEPT ![r] = [Idle EXCEPT !.session = x, !.pc = pc]]
  <2>1. PICK x : req' = [req EXCEPT ![r] = [Idle EXCEPT !.session = x,
                                              !.pc = IF x = None THEN "body" ELSE "lookup"]]
    BY Zenon DEF Arrive
  <2> DEFINE pc == IF x = None THEN "body" ELSE "lookup"
  <2>2. pc \in {"body", "lookup"}
    OBVIOUS
  <2> QED
    BY <2>1, <2>2, Zenon
<1> DEFINE p == [Idle EXCEPT !.session = x, !.pc = pc]
<1>2. p = SetPc(SetSession(Idle, x), pc)
  BY Zenon DEF SetPc, SetSession
<1>3. req' = [req EXCEPT ![r] = p]
  BY <1>1, Zenon
<1> HIDE DEF p
<1>4. Shape(p) /\ p.pc = pc /\ p.delivered = 0 /\ p.reply = None
  <2>1. Shape(Idle) /\ Idle.delivered = 0 /\ Idle.reply = None
    BY DEF Shape, Idle
  <2> QED
    BY <1>2, <2>1, SetField
<1>5. HandlerInv'
  BY <1>1, <1>3, <1>4, BecomesKeeps DEF Undecided
<1>6. req' = [o \in Requests |-> IF o = r THEN p ELSE req[o]]
  BY <1>3 DEF HandlerInv
<1>7. req[r].pc = "idle"
  BY DEF Arrive
<1>8. Promise!Accept(r)
  BY <1>1, <1>4, <1>6, <1>7 DEF Promise!Accept
<1> QED
  BY <1>5, <1>8 DEF Promise!Next

\* A handler that goes on to wait for something else is not seen.
LEMMA GotoSeen ==
  ASSUME HandlerInv, NEW r \in Requests, NEW pc \in PC \ {"idle", "sent"},
         req[r].pc \notin {"idle", "sent"}, Goto(r, pc)
  PROVE  HandlerInv' /\ UNCHANGED Promise!vars
<1> DEFINE p == SetPc(req[r], pc)
<1>1. req' = [req EXCEPT ![r] = p]
  BY Zenon DEF Goto, SetPc
<1> HIDE DEF p
<1>2. Shape(req[r]) /\ Undecided(req[r])
  BY DEF HandlerInv
<1>3. Shape(p) /\ p.pc = pc /\ p.delivered = req[r].delivered /\ p.reply = req[r].reply
  BY <1>2, SetField DEF p
<1> QED
  BY <1>1, <1>2, <1>3, Unseen DEF Undecided

\* Nor is one that learns or drops the pin of its session.
LEMMA PinnedSeen ==
  ASSUME HandlerInv, NEW r \in Requests, NEW pc \in PC \ {"idle", "sent"}, NEW s,
         req[r].pc \notin {"idle", "sent"},
         req' = [req EXCEPT ![r] = [@ EXCEPT !.pc = pc, !.pinned = s]]
  PROVE  HandlerInv' /\ UNCHANGED Promise!vars
<1> DEFINE p == SetPinned(SetPc(req[r], pc), s)
<1>1. req' = [req EXCEPT ![r] = p]
  BY Zenon DEF SetPinned, SetPc
<1> HIDE DEF p
<1>2. Shape(req[r]) /\ Undecided(req[r])
  BY DEF HandlerInv
<1>3. Shape(p) /\ p.pc = pc /\ p.delivered = req[r].delivered /\ p.reply = req[r].reply
  BY <1>2, SetField DEF p
<1> QED
  BY <1>1, <1>2, <1>3, Unseen DEF Undecided

\* So the lookup of a pin and a refused connection are not seen.
LEMMA LookupSeen ==
  ASSUME HandlerInv, NEW r \in Requests,
         LookupExecuted(r) \/ LookupAnswered(r) \/ ClearExecuted(r) \/ Refuse(r)
  PROVE  HandlerInv' /\ UNCHANGED Promise!vars
<1>1. CASE LookupExecuted(r)
  <2>1. req' = [req EXCEPT ![r] = [@ EXCEPT !.pc = "looked", !.pinned = pins[req[r].session]]]
    BY <1>1, Zenon DEF LookupExecuted
  <2>2. req[r].pc = "lookup" /\ "looked" \in PC \ {"idle", "sent"}
    BY <1>1 DEF LookupExecuted, PC
  <2> QED
    BY <2>1, <2>2, PinnedSeen
<1>2. CASE LookupAnswered(r)
  <2>1. \/ Goto(r, "body")
        \/ req' = [req EXCEPT ![r] = [@ EXCEPT !.pc = "clear", !.pinned = None]]
    BY <1>2, Zenon DEF LookupAnswered
  <2>2. req[r].pc = "looked" /\ {"body", "clear"} \subseteq PC \ {"idle", "sent"}
    BY <1>2 DEF LookupAnswered, PC
  <2>3. CASE Goto(r, "body")
    BY <2>2, <2>3, GotoSeen
  <2>4. CASE req' = [req EXCEPT ![r] = [@ EXCEPT !.pc = "clear", !.pinned = None]]
    BY <2>2, <2>4, PinnedSeen
  <2> QED
    BY <2>1, <2>3, <2>4
<1>3. CASE ClearExecuted(r)
  <2>1. req[r].pc = "clear" /\ "body" \in PC \ {"idle", "sent"} /\ Goto(r, "body")
    BY <1>3 DEF ClearExecuted, PC
  <2> QED
    BY <2>1, GotoSeen
<1>4. CASE Refuse(r)
  <2>1. req[r].pc = "connect" /\ "refused" \in PC \ {"idle", "sent"} /\ Goto(r, "refused")
    BY <1>4 DEF Refuse, PC
  <2> QED
    BY <2>1, GotoSeen
<1> QED
  BY <1>1, <1>2, <1>3, <1>4

\* Nor is the pin that is set before the request is sent.
LEMMA PinSeen ==
  ASSUME HandlerInv, NEW r \in Requests, PinExecuted(r)
  PROVE  HandlerInv' /\ UNCHANGED Promise!vars
<1>1. PICK x, s :
        req' = [req EXCEPT ![r] = [[req[r] EXCEPT !.session = x] EXCEPT !.pc = "connect",
                                                                        !.server = s]]
  BY Zenon DEF PinExecuted, Send
<1> DEFINE p == SetServer(SetPc(SetSession(req[r], x), "connect"), s)
<1>2. req' = [req EXCEPT ![r] = p]
  BY <1>1, Zenon DEF SetServer, SetPc, SetSession
<1> HIDE DEF p
<1>3. Shape(req[r]) /\ Undecided(req[r]) /\ req[r].pc = "pin"
  BY DEF HandlerInv, PinExecuted
<1>4. /\ Shape(p) /\ p.pc = "connect"
      /\ p.delivered = req[r].delivered /\ p.reply = req[r].reply
  BY <1>3, SetField DEF p
<1> QED
  BY <1>2, <1>3, <1>4, Unseen DEF Undecided

\* The delivery to a backend is a delivery: it is the first.
LEMMA DeliverSeen ==
  ASSUME HandlerInv, NEW r \in Requests, Deliver(r)
  PROVE  HandlerInv' /\ Promise!Next
<1>1. Shape(req[r]) /\ Undecided(req[r]) /\ req[r].pc = "connect"
  BY DEF HandlerInv, Deliver
<1> DEFINE p == SetPc(SetDelivered(req[r], req[r].delivered + 1), "sent")
<1>2. req' = [req EXCEPT ![r] = p]
  BY Zenon DEF Deliver, SetDelivered, SetPc
<1> HIDE DEF p
<1>3. Shape(p) /\ p.pc = "sent" /\ p.delivered = req[r].delivered + 1 /\ p.reply = req[r].reply
  BY <1>1, SetField DEF p
<1>4. req[r].delivered = 0 /\ req[r].reply = None /\ p.delivered = 1
  BY <1>1, <1>3 DEF Undecided
<1>5. HandlerInv'
  BY <1>2, <1>3, <1>4, BecomesKeeps DEF Undecided
<1>6. req' = [o \in Requests |-> IF o = r THEN p ELSE req[o]]
  BY <1>2 DEF HandlerInv
<1>7. Promise!Deliver(r)
  BY <1>1, <1>3, <1>4, <1>6 DEF Promise!Deliver
<1> QED
  BY <1>5, <1>7 DEF Promise!Next

\* A handler that enters or re-enters the retry loop has delivered nothing.
LEMMA LoopSeen ==
  ASSUME HandlerInv, NEW r \in Requests, BodyRead(r) \/ ConnectorError(r)
  PROVE  HandlerInv' /\ (Promise!Next \/ UNCHANGED Promise!vars)
<1>1. Shape(req[r]) /\ Undecided(req[r]) /\ req[r].pc \in {"body", "refused"}
  BY DEF HandlerInv, BodyRead, ConnectorError
<1>2. req[r].delivered = 0 /\ req[r].reply = None
  BY <1>1 DEF Undecided
<1>3. CASE BodyRead(r)
  <2>1. NextAttempt(r, req[r], attempted, status, conns)
    BY <1>3 DEF BodyRead
  <2> QED
    BY <1>1, <1>2, <2>1, NextAttemptSeen
<1>4. CASE ConnectorError(r)
  <2> DEFINE p == SetServer(SetTries(req[r], req[r].tries + 1), None)
  <2>1. PICK att, st, cn : NextAttempt(r, p, att, st, cn)
    BY <1>4, Zenon DEF ConnectorError, SetServer, SetTries
  <2> HIDE DEF p
  <2>2. Shape(p) /\ p.delivered = 0 /\ p.reply = None
    BY <1>1, <1>2, SetField DEF p
  <2> QED
    BY <1>1, <1>2, <2>1, <2>2, NextAttemptSeen
<1> QED
  BY <1>3, <1>4

\* Every other way out of a handler: what it replies, and what it leaves alone.
ReplyWith(r, code) ==
  /\ code = 200 => req[r].pc = "sent"
  /\ code = 413 => req[r].pc = "body"
  /\ req' = [req EXCEPT ![r] = Finished(req[r], code)]
  /\ \/ attempted' = [attempted EXCEPT ![r] = {}]
     \/ attempted' = attempted /\ req[r].pc = "body"
  /\ UNCHANGED <<status, index, probe, backend>>

\* They are these.
LEMMA WayOut ==
  ASSUME NEW r \in Requests,
         BodyLost(r) \/ RedisError(r) \/ Respond(r) \/ Timeout(r) \/ Disconnected(r)
  PROVE  \E code \in {200, 413, 500, 504} : ReplyWith(r, code)
<1>1. CASE BodyLost(r)
  <2>1. PICK code \in {413, 500} : req' = [req EXCEPT ![r] = Finished(req[r], code)]
    BY <1>1, Zenon DEF BodyLost
  <2>2. code # 200 /\ code \in {200, 413, 500, 504}
    OBVIOUS
  <2>3. /\ req[r].pc = "body" /\ attempted' = attempted
        /\ UNCHANGED <<status, index, probe, backend>>
    BY <1>1 DEF BodyLost
  <2>4. ReplyWith(r, code)
    BY <2>1, <2>2, <2>3, Zenon DEF ReplyWith
  <2> QED
    BY <2>2, <2>4
<1>2. CASE RedisError(r)
  <2>1. ReplyWith(r, 500)
    BY <1>2 DEF ReplyWith, RedisError
  <2> QED
    BY <2>1
<1>3. CASE Respond(r)
  <2>1. ReplyWith(r, 200)
    BY <1>3 DEF ReplyWith, Respond, Leave
  <2> QED
    BY <2>1
<1>4. CASE Timeout(r)
  <2>1. ReplyWith(r, 504)
    BY <1>4 DEF ReplyWith, Timeout, Leave
  <2> QED
    BY <2>1
<1>5. CASE Disconnected(r)
  <2>1. ReplyWith(r, 500)
    BY <1>5 DEF ReplyWith, Disconnected, Leave
  <2> QED
    BY <2>1
<1> QED
  BY <1>1, <1>2, <1>3, <1>4, <1>5

\* Such a reply tells the truth.
LEMMA LeaveSeen ==
  ASSUME HandlerInv, NEW r \in Requests,
         BodyLost(r) \/ RedisError(r) \/ Respond(r) \/ Timeout(r) \/ Disconnected(r)
  PROVE  HandlerInv' /\ Promise!Next
<1>1. PICK code : code \in {200, 413, 500, 504} /\ ReplyWith(r, code)
  BY WayOut
<1>2. Undecided(req[r]) /\ req[r].pc # "idle"
  BY DEF HandlerInv, BodyLost, RedisError, Respond, Timeout, Disconnected
<1>3. /\ code \in Promise!Code
      /\ code = 200 => req[r].delivered = 1
      /\ code \in {413, 503} => req[r].delivered = 0
  BY <1>1, <1>2 DEF Undecided, Promise!Code, ReplyWith
<1>4. req' = [req EXCEPT ![r] = Finished(req[r], code)]
  BY <1>1 DEF ReplyWith
<1> QED
  BY <1>2, <1>3, <1>4, Replied

\* Every step of the balancer is a step of Proxy or is not seen.
LEMMA StepSeen ==
  ASSUME HandlerInv, [Next]_vars
  PROVE  HandlerInv' /\ [Promise!Next]_(Promise!vars)
<1>1. CASE UNCHANGED req
  BY <1>1 DEF HandlerInv, Shape, Undecided, Promise!vars
<1>2. ASSUME NEW r \in Requests,
             \/ Arrive(r) \/ Handle(r) \/ BodyLost(r) \/ RedisError(r)
             \/ Refuse(r) \/ Deliver(r) \/ Respond(r) \/ Disconnected(r)
      PROVE  HandlerInv' /\ [Promise!Next]_(Promise!vars)
  BY <1>2, ArriveSeen, LookupSeen, PinSeen, DeliverSeen, LoopSeen, LeaveSeen, Zenon
     DEF Handle
<1>3. \/ UNCHANGED req
      \/ \E r \in Requests :
           \/ Arrive(r) \/ Handle(r) \/ BodyLost(r) \/ RedisError(r)
           \/ Refuse(r) \/ Deliver(r) \/ Respond(r) \/ Disconnected(r)
  BY DEF Next, vars, StartRound, Answer, CheckDone, Become, Drain, PinLost
<1> QED
  BY <1>1, <1>2, <1>3, Zenon

\* Whatever fails on the way, a request is received by one backend at most, by
\* none if its client is told that there is no server, by one if it is answered
\* with 200 (server.py:73-121); pins, retries, statuses and checks are not seen.
THEOREM BalancerImplementsProxy == Spec => ImplementsProxy
<1>1. ASSUME Init
      PROVE  HandlerInv /\ Promise!Init
  <2>1. \A r \in Requests : req[r] = Idle
    BY <1>1 DEF Init
  <2>2. /\ Shape(Idle) /\ Undecided(Idle)
        /\ Idle.pc = "idle" /\ Idle.delivered = 0 /\ Idle.reply = None
    BY DEF Shape, Undecided, Idle
  <2>3. HandlerInv
    BY <1>1, <2>1, <2>2 DEF Init, HandlerInv
  <2>4. Promise!Init
    BY <2>1, <2>2 DEF Promise!Init
  <2> QED
    BY <2>3, <2>4
<1>2. HandlerInv /\ [Next]_vars => HandlerInv' /\ [Promise!Next]_(Promise!vars)
  BY StepSeen
<1> QED
  BY <1>1, <1>2, PTL DEF Spec, ImplementsProxy, Promise!Spec

-----------------------------------------------------------------------------
(* Connections and sessions: active_connections of every server is exact,  *)
(* no way through the handler leaks a connection or gives one back twice.  *)
(* A session stays with a server that never fails, whatever the other      *)
(* servers do and however the requests of the session overlap.  The state  *)
(* keeps its types.                                                        *)

\* q counts as a connection of s.
On(q, s) == q.pc \in Forwarding /\ q.server = s

One(b) == IF b THEN 1 ELSE 0

\* What a handler knows of its session ...
Informed(q) == q.session \in Sessions \cup {None} /\ q.pinned \in Servers \cup {None}

\* ... and where it waits: it has a session if it waits for its pin, a server if
\* it has picked one.
Known(q) ==
  /\ q.pc \in PC
  /\ Informed(q)
  /\ q.pc \in Forwarding \cup {"pin"} => q.server \in Servers
  /\ q.pc = "lookup" => q.session \in Sessions

\* The inductive invariant.
ConnInv ==
  /\ conns \in [Servers -> Nat]
  /\ index \in Nat
  /\ pins \in [Sessions -> Servers \cup {None}]
  /\ req = [r \in Requests |-> req[r]]
  /\ \A r \in Requests : Shape(req[r]) /\ Known(req[r])
  /\ ConnsExact

\* q with one field changed knows what q knew.
LEMMA FieldsKept ==
  ASSUME NEW q, NEW x, Shape(q)
  PROVE  /\ SetPc(q, x).session = q.session /\ SetPc(q, x).pinned = q.pinned
            /\ SetPc(q, x).server = q.server
         /\ SetSession(q, x).session = x /\ SetSession(q, x).pinned = q.pinned
            /\ SetSession(q, x).server = q.server
         /\ SetPinned(q, x).session = q.session /\ SetPinned(q, x).pinned = x
            /\ SetPinned(q, x).server = q.server
         /\ SetServer(q, x).session = q.session /\ SetServer(q, x).pinned = q.pinned
            /\ SetServer(q, x).server = x
         /\ SetTries(q, x).session = q.session /\ SetTries(q, x).pinned = q.pinned
            /\ SetTries(q, x).server = q.server
         /\ SetDelivered(q, x).session = q.session /\ SetDelivered(q, x).pinned = q.pinned
            /\ SetDelivered(q, x).server = q.server
         /\ SetReply(q, x).session = q.session /\ SetReply(q, x).pinned = q.pinned
            /\ SetReply(q, x).server = q.server
BY DEF Shape, SetPc, SetSession, SetPinned, SetServer, SetTries, SetDelivered, SetReply

\* A handler that has ended knows nothing and counts nowhere.
LEMMA FinishedKnown ==
  ASSUME NEW q, NEW code
  PROVE  /\ Shape(Finished(q, code)) /\ Known(Finished(q, code))
         /\ Finished(q, code).pc = "idle" /\ Finished(q, code).pinned = None
<1> DEFINE f == Finished(q, code)
<1>1. Shape(Idle) /\ Known(Idle) /\ Idle.pc = "idle" /\ Idle.pinned = None
  BY DEF Shape, Idle, Known, Informed, PC, Forwarding
<1>2. f = SetDelivered(SetReply(Idle, code), q.delivered)
  BY Zenon DEF Finished, SetDelivered, SetReply
<1> HIDE DEF f
<1>3. /\ Shape(f) /\ f.pc = Idle.pc /\ f.session = Idle.session
      /\ f.pinned = Idle.pinned /\ f.server = Idle.server
  BY <1>1, <1>2, SetField, FieldsKept
<1>4. Shape(f) /\ Known(f) /\ f.pc = "idle" /\ f.pinned = None
  BY <1>1, <1>3 DEF Known, Informed
<1> QED
  BY <1>4 DEF f

\* When r becomes q, the requests on s are those that were, without r, and with
\* r if q is on s.
LEMMA Recount ==
  ASSUME ConnInv, NEW r \in Requests, NEW q, Shape(q), Known(q),
         req' = [req EXCEPT ![r] = q],
         index' \in Nat, pins' \in [Sessions -> Servers \cup {None}],
         conns' \in [Servers -> Int],
         \A s \in Servers : conns'[s] = conns[s] - One(On(req[r], s)) + One(On(q, s))
  PROVE  ConnInv'
<1>1. req' = [o \in Requests |-> IF o = r THEN q ELSE req[o]]
  BY DEF ConnInv
<1>2. req' = [o \in Requests |-> req'[o]]
  BY <1>1
<1>3. \A o \in Requests : Shape(req'[o]) /\ Known(req'[o])
  BY <1>1 DEF ConnInv
<1>4. ASSUME NEW s \in Servers
      PROVE  conns'[s] = Cardinality({o \in Requests : On(req'[o], s)}) /\ conns'[s] \in Nat
  <2> DEFINE A == {o \in Requests : On(req[o], s)}
             B == {o \in Requests : On(req'[o], s)}
  <2>1. IsFiniteSet(Requests) /\ A \in SUBSET Requests
    BY BalancerAssumption
  <2>2. IsFiniteSet(A) /\ Cardinality(A) \in Nat
    <3> HIDE DEF A
    <3> QED
      BY <2>1, FS_Subset, FS_CardinalityType
  <2>3. conns[s] = Cardinality(A)
    BY DEF ConnInv, ConnsExact, On
  <2>4. On(req[r], s) \in BOOLEAN /\ On(q, s) \in BOOLEAN
    BY DEF On
  <2>5. (r \in A) = On(req[r], s)
    BY <2>4
  <2>6. conns'[s] = Cardinality(A) - One(r \in A) + One(On(q, s))
    BY <2>3, <2>5
  <2>7. CASE On(q, s)
    <3>1. B = A \cup {r}
      BY <1>1, <2>7
    <3> HIDE DEF A, B
    <3>2. Cardinality(B) = (IF r \in A THEN Cardinality(A) ELSE Cardinality(A) + 1)
      BY <2>2, <3>1, FS_AddElement
    <3> QED
      BY <2>2, <2>6, <2>7, <3>2 DEF One, B
  <2>8. CASE ~On(q, s)
    <3>1. B = A \ {r}
      BY <1>1, <2>8
    <3> HIDE DEF A, B
    <3>2. IsFiniteSet(B) /\ Cardinality(B) = (IF r \in A THEN Cardinality(A) - 1 ELSE Cardinality(A))
      BY <2>2, <3>1, FS_RemoveElement
    <3>3. Cardinality(B) \in Nat
      BY <3>2, FS_CardinalityType
    <3> QED
      BY <2>2, <2>6, <2>8, <3>2, <3>3 DEF One, B
  <2> QED
    BY <2>7, <2>8
<1>5. ConnsExact'
  BY <1>4 DEF ConnsExact, On
<1>6. conns' \in [Servers -> Nat]
  BY <1>4
<1> QED
  BY <1>2, <1>3, <1>5, <1>6 DEF ConnInv

\* It is the same if it is on no server before and after, ...
LEMMA NotCounted ==
  ASSUME ConnInv, NEW r \in Requests, NEW q, Shape(q), Known(q),
         req' = [req EXCEPT ![r] = q], conns' = conns,
         index' \in Nat, pins' \in [Sessions -> Servers \cup {None}],
         \/ req[r].pc \notin Forwarding /\ q.pc \notin Forwarding
         \/ req[r].pc \in Forwarding /\ q.pc \in Forwarding /\ q.server = req[r].server
  PROVE  ConnInv'
<1>1. \A s \in Servers : On(req[r], s) = On(q, s)
  BY DEF On
<1>2. conns' \in [Servers -> Nat]
  BY DEF ConnInv
<1>3. \A s \in Servers : conns'[s] = conns[s] - One(On(req[r], s)) + One(On(q, s))
  BY <1>1, <1>2 DEF One
<1>4. conns' \in [Servers -> Int]
  BY <1>2
<1> QED
  BY <1>3, <1>4, Recount

\* ... it is counted where it is sent, ...
LEMMA SendCounts ==
  ASSUME ConnInv, NEW r \in Requests, NEW q, Shape(q), Informed(q),
         NEW server \in Servers, NEW att, NEW cn \in [Servers -> Int],
         \A s \in Servers : cn[s] = conns[s] - One(On(req[r], s)),
         Send(r, q, server, att, cn),
         index' \in Nat, pins' \in [Sessions -> Servers \cup {None}]
  PROVE  ConnInv'
<1> DEFINE p == SetServer(SetPc(q, "connect"), server)
<1>1. req' = [req EXCEPT ![r] = p]
  BY Zenon DEF Send, SetServer, SetPc
<1> HIDE DEF p
<1>2. /\ Shape(p) /\ p.pc = "connect" /\ p.server = server
      /\ p.session = q.session /\ p.pinned = q.pinned
  BY SetField, FieldsKept DEF p
<1>3. Known(p)
  BY <1>2 DEF Known, Informed, PC, Forwarding
<1>4. conns' = [s \in Servers |-> IF s = server THEN cn[s] + 1 ELSE cn[s]]
  <2>1. conns' = [cn EXCEPT ![server] = cn[server] + 1]
    BY Zenon DEF Send
  <2> QED
    BY <2>1
<1>5. \A s \in Servers : One(On(p, s)) = (IF s = server THEN 1 ELSE 0)
  BY <1>2 DEF One, On, Forwarding
<1>6. \A s \in Servers : conns'[s] = cn[s] + One(On(p, s))
  BY <1>4, <1>5
<1>7. conns' \in [Servers -> Int]
  BY <1>4
<1>8. \A s \in Servers : conns'[s] = conns[s] - One(On(req[r], s)) + One(On(p, s))
  BY <1>6
<1> QED
  BY <1>1, <1>2, <1>3, <1>7, <1>8, Recount

\* ... and given back as cn says when it is on no server any more.
LEMMA LeaveCounts ==
  ASSUME ConnInv, NEW r \in Requests, NEW q, Shape(q), Known(q), q.pc \notin Forwarding,
         req' = [req EXCEPT ![r] = q],
         conns' \in [Servers -> Int],
         \A s \in Servers : conns'[s] = conns[s] - One(On(req[r], s)),
         index' \in Nat, pins' \in [Sessions -> Servers \cup {None}]
  PROVE  ConnInv'
<1>1. \A s \in Servers : One(On(q, s)) = 0
  BY DEF On, One
<1>2. \A s \in Servers : conns[s] - One(On(req[r], s)) \in Int
  BY DEF ConnInv, One
<1>3. \A s \in Servers : conns'[s] = conns[s] - One(On(req[r], s)) + One(On(q, s))
  BY <1>1, <1>2
<1> QED
  BY <1>3, Recount

\* From the head of the retry loop, with cn the connections without r.
LEMMA NextAttemptCounts ==
  ASSUME ConnInv, NEW r \in Requests, NEW q, Shape(q), Informed(q),
         NEW att, NEW st, NEW cn \in [Servers -> Int],
         \A s \in Servers : cn[s] = conns[s] - One(On(req[r], s)),
         NextAttempt(r, q, att, st, cn), UNCHANGED pins
  PROVE  ConnInv'
<1> DEFINE healthy == {s \in Servers \ att[r] : st[s] = "HEALTHY"}
           picked  == RoundRobin(healthy, index)
<1>1. index \in Nat /\ pins' \in [Sessions -> Servers \cup {None}]
  BY DEF ConnInv
<1>2. \/ /\ q.tries < N /\ UsePinned(q, att[r])
         /\ Send(r, q, q.pinned, att, cn) /\ UNCHANGED index
      \/ /\ q.tries < N /\ ~UsePinned(q, att[r]) /\ healthy # {}
         /\ req' = [req EXCEPT ![r] = [q EXCEPT !.pc = "pin", !.server = picked.server]]
         /\ index' = picked.index /\ attempted' = att /\ conns' = cn
      \/ /\ q.tries = N \/ (~UsePinned(q, att[r]) /\ healthy = {})
         /\ req' = [req EXCEPT ![r] = Finished(q, 503)]
         /\ attempted' = [o \in Requests |-> IF o = r THEN {} ELSE att[o]]
         /\ conns' = cn /\ UNCHANGED index
  BY Zenon DEF NextAttempt
<1>3. CASE UsePinned(q, att[r]) /\ Send(r, q, q.pinned, att, cn) /\ UNCHANGED index
  <2>1. q.pinned \in Servers
    BY <1>3 DEF Known, Informed, UsePinned
  <2> QED
    BY <1>1, <1>3, <2>1, SendCounts
<1>4. CASE /\ healthy # {}
           /\ req' = [req EXCEPT ![r] = [q EXCEPT !.pc = "pin", !.server = picked.server]]
           /\ index' = picked.index /\ conns' = cn
  <2>1. picked.server \in Servers /\ picked.index \in Nat
    <3>1. Servers \in SUBSET Nat /\ IsFiniteSet(Servers)
      BY BalancerAssumption, FS_Interval DEF Servers
    <3>2. healthy \in SUBSET Servers
      OBVIOUS
    <3> HIDE DEF healthy
    <3>3. IsFiniteSet(healthy) /\ healthy \in SUBSET Nat
      BY <3>1, <3>2, FS_Subset
    <3> QED
      BY <1>1, <1>4, <3>2, <3>3, RoundRobinPicks
  <2> DEFINE p == SetServer(SetPc(q, "pin"), picked.server)
  <2>2. req' = [req EXCEPT ![r] = p]
    BY <1>4, Zenon DEF SetServer, SetPc
  <2> HIDE DEF p, picked
  <2>3. /\ Shape(p) /\ p.pc = "pin" /\ p.server = picked.server
        /\ p.session = q.session /\ p.pinned = q.pinned
    BY SetField, FieldsKept DEF p
  <2>4. Known(p) /\ p.pc \notin Forwarding
    BY <2>1, <2>3 DEF Known, Informed, PC, Forwarding
  <2> QED
    BY <1>1, <1>4, <2>1, <2>2, <2>3, <2>4, LeaveCounts
<1>5. CASE /\ req' = [req EXCEPT ![r] = Finished(q, 503)]
           /\ conns' = cn /\ UNCHANGED index
  <2>1. PICK code : code = 503
    OBVIOUS
  <2> DEFINE p == Finished(q, code)
  <2>2. req' = [req EXCEPT ![r] = p]
    BY <1>5, <2>1, Zenon
  <2> HIDE DEF p
  <2>3. Shape(p) /\ Known(p) /\ p.pc \notin Forwarding
    BY FinishedKnown DEF p, Forwarding
  <2> QED
    BY <1>1, <1>5, <2>1, <2>2, <2>3, LeaveCounts
<1> QED
  BY <1>2, <1>3, <1>4, <1>5

\* A handler that moves on without a server, or with the same one.
LEMMA GotoCounts ==
  ASSUME ConnInv, NEW r \in Requests, NEW pc \in PC,
         req' = [req EXCEPT ![r] = SetPc(req[r], pc)],
         conns' = conns, index' = index, pins' \in [Sessions -> Servers \cup {None}],
         pc = "lookup" => req[r].session \in Sessions,
         \/ req[r].pc \notin Forwarding /\ pc \notin Forwarding \cup {"pin"}
         \/ req[r].pc \in Forwarding /\ pc \in Forwarding
  PROVE  ConnInv'
<1> DEFINE p == SetPc(req[r], pc)
<1> HIDE DEF p
<1>1. Shape(req[r]) /\ Known(req[r]) /\ index' \in Nat
  BY DEF ConnInv
<1>2. /\ Shape(p) /\ p.pc = pc /\ p.server = req[r].server
      /\ p.session = req[r].session /\ p.pinned = req[r].pinned
  BY <1>1, SetField, FieldsKept DEF p
<1>3. Known(p)
  BY <1>1, <1>2 DEF Known, Informed, Forwarding
<1>4. req' = [req EXCEPT ![r] = p]
  BY DEF p
<1> QED
  BY <1>1, <1>2, <1>3, <1>4, NotCounted

\* Setting the pin of a session to a server, or to nothing.
LEMMA PinsKept ==
  ASSUME ConnInv, NEW x, NEW s \in Servers \cup {None}, PinTo(x, s)
  PROVE  pins' \in [Sessions -> Servers \cup {None}]
BY DEF ConnInv, PinTo

\* The handler that arrives, looks up, drops or clears its pin.
LEMMA LookupCounts ==
  ASSUME ConnInv, NEW r \in Requests,
         \/ Arrive(r) \/ LookupExecuted(r) \/ LookupAnswered(r) \/ ClearExecuted(r)
  PROVE  ConnInv'
<1>1. /\ Shape(req[r]) /\ Known(req[r]) /\ index \in Nat
      /\ pins \in [Sessions -> Servers \cup {None}]
  BY DEF ConnInv
<1>2. CASE Arrive(r)
  <2>1. PICK x \in Sessions \cup {None} :
          req' = [req EXCEPT ![r] = [Idle EXCEPT !.session = x,
                                              !.pc = IF x = None THEN "body" ELSE "lookup"]]
    BY <1>2, Zenon DEF Arrive
  <2> DEFINE pc == IF x = None THEN "body" ELSE "lookup"
             p  == SetPc(SetSession(Idle, x), pc)
  <2>2. req' = [req EXCEPT ![r] = p]
    BY <2>1, Zenon DEF SetPc, SetSession
  <2>3. Shape(Idle) /\ Idle.pinned = None
    BY DEF Shape, Idle
  <2>4. pc \in {"body", "lookup"} /\ (pc = "lookup" => x \in Sessions)
    OBVIOUS
  <2> HIDE DEF p, pc
  <2>5. Shape(p) /\ p.pc = pc /\ p.session = x /\ p.pinned = None
    BY <2>3, SetField, FieldsKept DEF p
  <2>6. Known(p) /\ p.pc \notin Forwarding
    BY <2>4, <2>5 DEF Known, Informed, PC, Forwarding
  <2>7. /\ req[r].pc \notin Forwarding /\ conns' = conns /\ index' = index /\ pins' = pins
    BY <1>2 DEF Arrive, Forwarding
  <2> QED
    BY <1>1, <2>2, <2>5, <2>6, <2>7, NotCounted
<1>3. ASSUME NEW pc \in {"looked", "clear"}, NEW s \in Servers \cup {None},
             req' = [req EXCEPT ![r] = [@ EXCEPT !.pc = pc, !.pinned = s]],
             req[r].pc \notin Forwarding, conns' = conns, index' = index, pins' = pins
      PROVE  ConnInv'
  <2> DEFINE p == SetPinned(SetPc(req[r], pc), s)
  <2>1. req' = [req EXCEPT ![r] = p]
    BY <1>3, Zenon DEF SetPinned, SetPc
  <2> HIDE DEF p
  <2>2. Shape(p) /\ p.pc = pc /\ p.session = req[r].session /\ p.pinned = s
    BY <1>1, SetField, FieldsKept DEF p
  <2>3. Known(p) /\ p.pc \notin Forwarding
    BY <1>1, <2>2 DEF Known, Informed, PC, Forwarding
  <2> QED
    BY <1>1, <1>3, <2>1, <2>2, <2>3, NotCounted
<1>4. CASE LookupExecuted(r)
  <2>1. req' = [req EXCEPT ![r] = [@ EXCEPT !.pc = "looked", !.pinned = pins[req[r].session]]]
    BY <1>4, Zenon DEF LookupExecuted
  <2>2. req[r].pc = "lookup" /\ conns' = conns /\ index' = index /\ pins' = pins
    BY <1>4 DEF LookupExecuted
  <2>3. req[r].pc \notin Forwarding /\ pins[req[r].session] \in Servers \cup {None}
    BY <1>1, <2>2 DEF Known, Informed, Forwarding
  <2> QED
    BY <1>3, <2>1, <2>2, <2>3
<1>5. CASE LookupAnswered(r)
  <2>1. req[r].pc = "looked" /\ conns' = conns /\ index' = index /\ pins' = pins
    BY <1>5 DEF LookupAnswered
  <2>2. \/ req' = [req EXCEPT ![r] = SetPc(req[r], "body")]
        \/ req' = [req EXCEPT ![r] = [@ EXCEPT !.pc = "clear", !.pinned = None]]
    BY <1>5, Zenon DEF LookupAnswered, Goto, SetPc
  <2>3. req[r].pc \notin Forwarding /\ "body" \in PC
    BY <2>1 DEF Forwarding, PC
  <2>4. CASE req' = [req EXCEPT ![r] = SetPc(req[r], "body")]
    BY <1>1, <2>1, <2>3, <2>4, GotoCounts DEF Forwarding
  <2>5. CASE req' = [req EXCEPT ![r] = [@ EXCEPT !.pc = "clear", !.pinned = None]]
    BY <1>3, <2>1, <2>3, <2>5
  <2> QED
    BY <2>2, <2>4, <2>5
<1>6. CASE ClearExecuted(r)
  <2>1. req[r].pc = "clear" /\ conns' = conns /\ index' = index
    BY <1>6 DEF ClearExecuted
  <2>2. req' = [req EXCEPT ![r] = SetPc(req[r], "body")]
    BY <1>6, Zenon DEF ClearExecuted, Goto, SetPc
  <2>3. req[r].pc \notin Forwarding /\ "body" \in PC
    BY <2>1 DEF Forwarding, PC
  <2>4. pins' \in [Sessions -> Servers \cup {None}]
    BY <1>1, <1>6 DEF ClearExecuted
  <2> QED
    BY <1>1, <2>1, <2>2, <2>3, <2>4, GotoCounts DEF Forwarding
<1> QED
  BY <1>2, <1>4, <1>5, <1>6

\* The handler between the connection and the response.
LEMMA SentCounts ==
  ASSUME ConnInv, NEW r \in Requests, Refuse(r) \/ Deliver(r)
  PROVE  ConnInv'
<1>1. /\ Shape(req[r]) /\ Known(req[r]) /\ index \in Nat
      /\ pins \in [Sessions -> Servers \cup {None}]
  BY DEF ConnInv
<1>2. /\ req[r].pc = "connect" /\ conns' = conns /\ index' = index /\ pins' = pins
  BY DEF Refuse, Deliver
<1>3. CASE Refuse(r)
  <2>1. req' = [req EXCEPT ![r] = SetPc(req[r], "refused")]
    BY <1>3, Zenon DEF Refuse, Goto, SetPc
  <2>2. req[r].pc \in Forwarding /\ "refused" \in PC \cap Forwarding
    BY <1>2 DEF Forwarding, PC
  <2> QED
    BY <1>1, <1>2, <2>1, <2>2, GotoCounts
<1>4. CASE Deliver(r)
  <2> DEFINE p == SetPc(SetDelivered(req[r], req[r].delivered + 1), "sent")
  <2>1. req' = [req EXCEPT ![r] = p]
    BY <1>4, Zenon DEF Deliver, SetDelivered, SetPc
  <2> HIDE DEF p
  <2>2. /\ Shape(p) /\ p.pc = "sent" /\ p.server = req[r].server
        /\ p.session = req[r].session /\ p.pinned = req[r].pinned
    BY <1>1, SetField, FieldsKept DEF p
  <2>3. Known(p) /\ req[r].pc \in Forwarding /\ p.pc \in Forwarding
    BY <1>1, <1>2, <2>2 DEF Known, Informed, PC, Forwarding
  <2> QED
    BY <1>1, <1>2, <2>1, <2>2, <2>3, NotCounted
<1> QED
  BY <1>3, <1>4

\* The connections without that of r on s.
LEMMA GivenBack ==
  ASSUME ConnInv, NEW r \in Requests, req[r].pc \in Forwarding,
         NEW cn, cn = [conns EXCEPT ![req[r].server] = @ - 1]
  PROVE  /\ cn \in [Servers -> Int]
         /\ \A s \in Servers : cn[s] = conns[s] - One(On(req[r], s))
<1>1. conns \in [Servers -> Nat] /\ req[r].server \in Servers
  BY DEF ConnInv, Known
<1>2. cn = [s \in Servers |-> IF s = req[r].server THEN conns[s] - 1 ELSE conns[s]]
  BY <1>1
<1>3. \A s \in Servers : One(On(req[r], s)) = (IF s = req[r].server THEN 1 ELSE 0)
  BY DEF One, On
<1>4. cn \in [Servers -> Int]
  BY <1>1, <1>2
<1>5. \A s \in Servers : cn[s] = conns[s] - One(On(req[r], s))
  BY <1>1, <1>2, <1>3
<1> QED
  BY <1>4, <1>5

\* There is nothing to give back before a connection is made.
LEMMA NothingHeld ==
  ASSUME ConnInv, NEW r \in Requests, req[r].pc \notin Forwarding
  PROVE  /\ conns \in [Servers -> Int]
         /\ \A s \in Servers : conns[s] = conns[s] - One(On(req[r], s))
<1>1. conns \in [Servers -> Nat]
  BY DEF ConnInv
<1>2. \A s \in Servers : One(On(req[r], s)) = 0
  BY DEF One, On
<1>3. conns \in [Servers -> Int]
  BY <1>1
<1> QED
  BY <1>1, <1>2, <1>3

\* The retry loop, entered and re-entered.
LEMMA LoopCounts ==
  ASSUME ConnInv, NEW r \in Requests, BodyRead(r) \/ ConnectorError(r)
  PROVE  ConnInv'
<1>1. Shape(req[r]) /\ Known(req[r])
  BY DEF ConnInv
<1>2. CASE BodyRead(r)
  <2>1. /\ req[r].pc \notin Forwarding /\ UNCHANGED pins
        /\ NextAttempt(r, req[r], attempted, status, conns)
    BY <1>2 DEF BodyRead, Forwarding
  <2> QED
    BY <1>1, <2>1, NothingHeld, NextAttemptCounts DEF Known
<1>3. CASE ConnectorError(r)
  <2> DEFINE p  == SetServer(SetTries(req[r], req[r].tries + 1), None)
             cn == [conns EXCEPT ![req[r].server] = @ - 1]
  <2>1. NextAttempt(r, p, Forget(req[r].server), status', cn)
    BY <1>3, Zenon DEF ConnectorError, SetServer, SetTries
  <2>2. req[r].pc = "refused" /\ UNCHANGED pins
    BY <1>3 DEF ConnectorError
  <2>3. req[r].pc \in Forwarding
    BY <2>2 DEF Forwarding
  <2> HIDE DEF p
  <2>4. /\ cn \in [Servers -> Int]
        /\ \A s \in Servers : cn[s] = conns[s] - One(On(req[r], s))
    BY <2>3, GivenBack
  <2> HIDE DEF cn
  <2>5. /\ Shape(p) /\ p.pc = "refused" /\ p.server = None
        /\ p.session = req[r].session /\ p.pinned = req[r].pinned
    BY <1>1, <2>2, SetField, FieldsKept DEF p
  <2>6. Informed(p)
    BY <1>1, <2>5 DEF Known, Informed
  <2> QED
    BY <2>1, <2>2, <2>4, <2>5, <2>6, NextAttemptCounts
<1> QED
  BY <1>2, <1>3

\* The pin is set and the request sent.
LEMMA PinCounts ==
  ASSUME ConnInv, NEW r \in Requests, PinExecuted(r)
  PROVE  ConnInv'
<1>1. /\ Shape(req[r]) /\ Known(req[r]) /\ index \in Nat /\ req[r].pc = "pin"
      /\ index' = index
  BY DEF ConnInv, PinExecuted
<1>2. PICK x \in Sessions \cup {None} :
        /\ PinTo(x, req[r].server)
        /\ Send(r, SetSession(req[r], x), req[r].server, attempted, conns)
  <2>1. PICK x \in IF req[r].session = None THEN FreshSessions ELSE {req[r].session} :
          /\ PinTo(x, req[r].server)
          /\ Send(r, SetSession(req[r], x), req[r].server, attempted, conns)
    BY Zenon DEF PinExecuted, SetSession
  <2>2. x \in Sessions \cup {None}
    BY <1>1 DEF FreshSessions, Known, Informed
  <2> QED
    BY <2>1, <2>2
<1> DEFINE p == SetSession(req[r], x)
<1>3. Shape(p) /\ p.session = x /\ p.pinned = req[r].pinned
  BY <1>1, SetField, FieldsKept
<1> HIDE DEF p
<1>4. Informed(p) /\ req[r].server \in Servers /\ req[r].pc \notin Forwarding
  BY <1>1, <1>3 DEF Known, Informed, Forwarding
<1>5. pins' \in [Sessions -> Servers \cup {None}]
  BY <1>2, <1>4, PinsKept
<1>6. Send(r, p, req[r].server, attempted, conns)
  BY <1>2 DEF p
<1> QED
  BY <1>1, <1>3, <1>4, <1>5, <1>6, NothingHeld, SendCounts

\* Every other way out of the handler.
LEMMA ExitCounts ==
  ASSUME ConnInv, NEW r \in Requests,
         BodyLost(r) \/ RedisError(r) \/ Respond(r) \/ Timeout(r) \/ Disconnected(r)
  PROVE  ConnInv'
<1>1. /\ Shape(req[r]) /\ Known(req[r]) /\ index \in Nat
      /\ pins \in [Sessions -> Servers \cup {None}]
  BY DEF ConnInv
<1>2. ASSUME NEW code, req' = [req EXCEPT ![r] = Finished(req[r], code)],
             conns' \in [Servers -> Int],
             \A s \in Servers : conns'[s] = conns[s] - One(On(req[r], s)),
             index' \in Nat, pins' \in [Sessions -> Servers \cup {None}]
      PROVE  ConnInv'
  <2> DEFINE p == Finished(req[r], code)
  <2>1. Shape(p) /\ Known(p) /\ p.pc \notin Forwarding
    BY FinishedKnown DEF Forwarding
  <2>2. req' = [req EXCEPT ![r] = p]
    BY <1>2
  <2> HIDE DEF p
  <2> QED
    BY <1>2, <2>1, <2>2, LeaveCounts
<1>3. CASE BodyLost(r) \/ RedisError(r)
  <2>1. /\ req[r].pc \notin Forwarding /\ conns' = conns /\ index' = index
    BY <1>3 DEF BodyLost, RedisError, Forwarding
  <2>2. PICK code : req' = [req EXCEPT ![r] = Finished(req[r], code)]
    BY <1>3, WayOut DEF ReplyWith
  <2>3. pins' \in [Sessions -> Servers \cup {None}]
    <3>1. \/ UNCHANGED pins
          \/ PinTo(req[r].session, None)
          \/ req[r].pc = "pin" /\ PinTo(req[r].session, req[r].server)
      BY <1>3, Zenon DEF BodyLost, RedisError
    <3>2. req[r].pc = "pin" => req[r].server \in Servers
      BY <1>1 DEF Known
    <3> QED
      BY <1>1, <3>1, <3>2, PinsKept
  <2> QED
    BY <1>1, <1>2, <2>1, <2>2, <2>3, NothingHeld
<1>4. CASE Respond(r) \/ Timeout(r) \/ Disconnected(r)
  <2>1. PICK code : Leave(r, code)
    <3>1. Leave(r, 200) \/ Leave(r, 504) \/ Leave(r, 500)
      BY <1>4, Zenon DEF Respond, Timeout, Disconnected
    <3> QED
      BY <3>1, Zenon
  <2>2. req[r].pc \in Forwarding
    BY <1>4 DEF Respond, Timeout, Disconnected, Forwarding
  <2>3. /\ req' = [req EXCEPT ![r] = Finished(req[r], code)]
        /\ conns' = [conns EXCEPT ![req[r].server] = @ - 1]
        /\ index' = index /\ pins' = pins
    BY <2>1, Zenon DEF Leave
  <2> QED
    BY <1>1, <1>2, <2>2, <2>3, GivenBack
<1> QED
  BY <1>3, <1>4

\* Every step keeps the invariant; those that are not of a handler touch no
\* request and no connection.
LEMMA ConnStep ==
  ASSUME ConnInv, [Next]_vars
  PROVE  ConnInv'
<1>1. CASE UNCHANGED <<req, conns, index, pins>>
  BY <1>1 DEF ConnInv, ConnsExact, Shape, Known, Informed
<1>2. ASSUME NEW r \in Requests,
             \/ Arrive(r) \/ Handle(r) \/ BodyLost(r) \/ RedisError(r)
             \/ Refuse(r) \/ Deliver(r) \/ Respond(r) \/ Disconnected(r)
      PROVE  ConnInv'
  BY <1>2, LookupCounts, PinCounts, SentCounts, LoopCounts, ExitCounts, Zenon DEF Handle
<1>3. ASSUME NEW x \in Forgetful, PinLost(x)
      PROVE  ConnInv'
  <2>1. pins' \in [Sessions -> Servers \cup {None}]
    BY <1>3 DEF PinLost, ConnInv
  <2>2. UNCHANGED <<req, conns, index>>
    BY <1>3 DEF PinLost
  <2> QED
    BY <2>1, <2>2 DEF ConnInv, ConnsExact, Shape, Known, Informed
<1>4. \/ UNCHANGED <<req, conns, index, pins>>
      \/ \E x \in Forgetful : PinLost(x)
      \/ \E r \in Requests :
           \/ Arrive(r) \/ Handle(r) \/ BodyLost(r) \/ RedisError(r)
           \/ Refuse(r) \/ Deliver(r) \/ Respond(r) \/ Disconnected(r)
  BY DEF Next, vars, StartRound, Answer, CheckDone, Become, Drain
<1> QED
  BY <1>1, <1>2, <1>3, <1>4, Zenon

\* In the beginning there are no connections.
LEMMA ConnInit ==
  ASSUME Init
  PROVE  ConnInv
<1>1. \A r \in Requests : req[r] = Idle
  BY DEF Init
<1>2. Shape(Idle) /\ Known(Idle) /\ Idle.pc \notin Forwarding
  BY DEF Shape, Idle, Known, Informed, PC, Forwarding
<1>3. \A s \in Servers : {r \in Requests : req[r].pc \in Forwarding /\ req[r].server = s} = {}
  BY <1>1, <1>2
<1>4. ConnsExact
  BY <1>3, FS_EmptySet DEF Init, ConnsExact
<1>5. /\ conns \in [Servers -> Nat] /\ index \in Nat
      /\ pins \in [Sessions -> Servers \cup {None}] /\ req = [r \in Requests |-> req[r]]
  BY DEF Init
<1> QED
  BY <1>1, <1>2, <1>4, <1>5 DEF ConnInv

\* active_connections is the number of requests that are being forwarded to the
\* server, whichever way they leave the handler (server.py:90,121).
THEOREM ConnectionsExact == Spec => []ConnsExact
<1>1. ConnInv => ConnsExact
  BY DEF ConnInv
<1> QED
  BY <1>1, ConnInit, ConnStep, PTL DEF Spec

-----------------------------------------------------------------------------
(* Sessions                                                                *)

\* The servers that never fail and are not drained.
Steady == {s \in Servers \ Drainable : Conditions[s] = {"up"}}

\* A handler is never refused by such a server, and if its session is pinned to
\* one, it is sent there without picking another.
Calm(q) ==
  \A s \in Steady :
    /\ q.server = s => q.pc # "refused"
    /\ q.pinned = s => /\ q.pc \notin {"pin", "refused"}
                       /\ q.pc \in Forwarding => q.server = s

\* Before the retry loop.
Early == {"idle", "lookup", "looked", "clear", "body"}

\* The inductive invariant: the servers are in the pool, and no handler has
\* tried one before it enters its loop.
StickyInv ==
  /\ status = [s \in Servers |-> status[s]]
  /\ probe = [s \in Servers |-> probe[s]]
  /\ backend = [s \in Servers |-> backend[s]]
  /\ attempted = [r \in Requests |-> attempted[r]]
  /\ req = [r \in Requests |-> req[r]]
  /\ \A s \in Steady : status[s] = "HEALTHY" /\ probe[s] # "failed" /\ backend[s] = "up"
  /\ \A r \in Requests : Shape(req[r]) /\ Calm(req[r])
  /\ \A r \in Requests : req[r].pc \in Early => attempted[r] = {}

\* A step in which r becomes q, and which does not touch steady servers.
LEMMA StickyBecomes ==
  ASSUME StickyInv, NEW r \in Requests, NEW q, Shape(q), Calm(q),
         req' = [req EXCEPT ![r] = q],
         status' = [s \in Servers |-> status'[s]],
         \A s \in Steady : status'[s] = "HEALTHY",
         attempted' = [o \in Requests |-> attempted'[o]],
         q.pc \in Early => attempted'[r] = {},
         \A o \in Requests \ {r} : attempted[o] = {} => attempted'[o] = {},
         UNCHANGED <<probe, backend>>
  PROVE  StickyInv'
<1>1. req' = [o \in Requests |-> IF o = r THEN q ELSE req[o]]
  BY DEF StickyInv
<1>2. req' = [o \in Requests |-> req'[o]]
  BY <1>1
<1>3. \A o \in Requests : Shape(req'[o]) /\ Calm(req'[o])
  BY <1>1 DEF StickyInv
<1>4. \A o \in Requests : req'[o].pc \in Early => attempted'[o] = {}
  BY <1>1 DEF StickyInv
<1>5. \A s \in Steady : status'[s] = "HEALTHY" /\ probe'[s] # "failed" /\ backend'[s] = "up"
  BY DEF StickyInv
<1> QED
  BY <1>2, <1>3, <1>4, <1>5 DEF StickyInv

\* The same if it leaves the pool and the attempts of all requests alone.
LEMMA StickyMoves ==
  ASSUME StickyInv, NEW r \in Requests, NEW q, Shape(q), Calm(q),
         req' = [req EXCEPT ![r] = q],
         q.pc \in Early => req[r].pc \in Early,
         UNCHANGED <<status, attempted, probe, backend>>
  PROVE  StickyInv'
<1>1. /\ status' = [s \in Servers |-> status'[s]]
      /\ attempted' = [o \in Requests |-> attempted'[o]]
  BY DEF StickyInv
<1>2. q.pc \in Early => attempted'[r] = {}
  BY DEF StickyInv
<1>3. \A s \in Steady : status'[s] = "HEALTHY"
  BY DEF StickyInv
<1> QED
  BY <1>1, <1>2, <1>3, StickyBecomes

\* The handler that arrives, looks up, drops or clears its pin.
LEMMA LookupSticks ==
  ASSUME StickyInv, NEW r \in Requests,
         \/ Arrive(r) \/ LookupExecuted(r) \/ LookupAnswered(r) \/ ClearExecuted(r)
  PROVE  StickyInv'
<1>1. Shape(req[r]) /\ Calm(req[r])
  BY DEF StickyInv
<1>2. req[r].pc \in Early /\ UNCHANGED <<status, attempted, probe, backend>>
  BY DEF Arrive, LookupExecuted, LookupAnswered, ClearExecuted, Early
<1>3. ASSUME NEW q, Shape(q), q.pc \in Early, req' = [req EXCEPT ![r] = q]
      PROVE  StickyInv'
  <2>1. Calm(q)
    BY <1>3 DEF Calm, Early, Forwarding
  <2> QED
    BY <1>2, <1>3, <2>1, StickyMoves
<1>4. CASE Arrive(r)
  <2>1. PICK x, pc :
          /\ pc \in {"body", "lookup"}
          /\ req' = [req EXCEPT ![r] = SetPc(SetSession(Idle, x), pc)]
    <3>1. PICK x : req' = [req EXCEPT ![r] = [Idle EXCEPT !.session = x,
                                                !.pc = IF x = None THEN "body" ELSE "lookup"]]
      BY <1>4, Zenon DEF Arrive
    <3> DEFINE pc == IF x = None THEN "body" ELSE "lookup"
    <3>2. req' = [req EXCEPT ![r] = SetPc(SetSession(Idle, x), pc)]
      BY <3>1, Zenon DEF SetPc, SetSession
    <3>3. pc \in {"body", "lookup"}
      OBVIOUS
    <3> QED
      BY <3>2, <3>3, Zenon
  <2> DEFINE p == SetPc(SetSession(Idle, x), pc)
  <2>2. Shape(Idle)
    BY DEF Shape, Idle
  <2>3. Shape(p) /\ p.pc = pc
    BY <2>2, SetField
  <2> HIDE DEF p
  <2>4. p.pc \in Early
    BY <2>1, <2>3 DEF Early
  <2>5. req' = [req EXCEPT ![r] = p]
    BY <2>1 DEF p
  <2> QED
    BY <1>3, <2>3, <2>4, <2>5
<1>5. CASE \/ LookupExecuted(r) \/ LookupAnswered(r) \/ ClearExecuted(r)
  <2>1. \/ \E s : req' = [req EXCEPT ![r] = SetPinned(SetPc(req[r], "looked"), s)]
        \/ req' = [req EXCEPT ![r] = SetPinned(SetPc(req[r], "clear"), None)]
        \/ req' = [req EXCEPT ![r] = SetPc(req[r], "body")]
    BY <1>5, Zenon DEF LookupExecuted, LookupAnswered, ClearExecuted, Goto, SetPc, SetPinned
  <2>2. ASSUME NEW pc \in {"looked", "body", "clear"}, NEW s,
               \/ req' = [req EXCEPT ![r] = SetPinned(SetPc(req[r], pc), s)]
               \/ req' = [req EXCEPT ![r] = SetPc(req[r], pc)]
        PROVE  StickyInv'
    <3>1. Shape(SetPc(req[r], pc)) /\ SetPc(req[r], pc).pc = pc
      BY <1>1, SetField
    <3>2. Shape(SetPinned(SetPc(req[r], pc), s)) /\ SetPinned(SetPc(req[r], pc), s).pc = pc
      BY <3>1, SetField
    <3>3. pc \in Early
      BY DEF Early
    <3> QED
      BY <1>3, <2>2, <3>1, <3>2, <3>3, Zenon
  <2>3. "looked" \in {"looked", "body", "clear"} /\ "clear" \in {"looked", "body", "clear"}
        /\ "body" \in {"looked", "body", "clear"}
    OBVIOUS
  <2> QED
    BY <2>1, <2>2, <2>3, Zenon
<1> QED
  BY <1>4, <1>5

\* The handler between the connection and the response.
LEMMA SentSticks ==
  ASSUME StickyInv, NEW r \in Requests, Refuse(r) \/ Deliver(r)
  PROVE  StickyInv'
<1>1. Shape(req[r]) /\ Calm(req[r])
  BY DEF StickyInv
<1>2. req[r].pc = "connect" /\ UNCHANGED <<status, attempted, probe, backend>>
  BY DEF Refuse, Deliver
<1>3. CASE Refuse(r)
  <2> DEFINE p == SetPc(req[r], "refused")
  <2>1. req' = [req EXCEPT ![r] = p]
    BY <1>3, Zenon DEF Refuse, Goto, SetPc
  <2>2. /\ Shape(p) /\ p.pc = "refused"
        /\ p.server = req[r].server /\ p.pinned = req[r].pinned
    BY <1>1, SetField, FieldsKept
  <2> HIDE DEF p
  <2>3. req[r].server \notin Steady
    BY <1>3 DEF Refuse, StickyInv
  <2>4. Calm(p) /\ p.pc \notin Early
    BY <1>1, <1>2, <2>2, <2>3 DEF Calm, Forwarding, Early
  <2> QED
    BY <1>2, <2>1, <2>2, <2>4, StickyMoves
<1>4. CASE Deliver(r)
  <2> DEFINE d == SetDelivered(req[r], req[r].delivered + 1)
             p == SetPc(d, "sent")
  <2>1. req' = [req EXCEPT ![r] = p]
    BY <1>4, Zenon DEF Deliver, SetDelivered, SetPc
  <2>2. Shape(d) /\ d.server = req[r].server /\ d.pinned = req[r].pinned
    BY <1>1, SetField, FieldsKept
  <2> HIDE DEF d
  <2>3. /\ Shape(p) /\ p.pc = "sent"
        /\ p.server = req[r].server /\ p.pinned = req[r].pinned
    BY <2>2, SetField, FieldsKept
  <2> HIDE DEF p
  <2>4. Calm(p) /\ p.pc \notin Early
    BY <1>1, <1>2, <2>3 DEF Calm, Forwarding, Early
  <2> QED
    BY <1>2, <2>1, <2>3, <2>4, StickyMoves
<1> QED
  BY <1>3, <1>4

\* Going through the retry loop: q is r at its head.
LEMMA NextAttemptSticks ==
  ASSUME StickyInv, NEW r \in Requests, NEW q, Shape(q), NEW att, NEW st, NEW cn,
         NextAttempt(r, q, att, st, cn),
         att = [o \in Requests |-> att[o]],
         \A o \in Requests : attempted[o] = {} => att[o] = {},
         \A s \in Steady : q.pinned = s => att[r] = {},
         status' = [s \in Servers |-> status'[s]],
         \A s \in Steady : status'[s] = "HEALTHY",
         UNCHANGED <<probe, backend>>
  PROVE  StickyInv'
<1>1. \/ /\ UsePinned(q, att[r])
         /\ req' = [req EXCEPT ![r] = SetServer(SetPc(q, "connect"), q.pinned)]
         /\ attempted' = [o \in Requests |-> IF o = r THEN att[o] \cup {q.pinned} ELSE att[o]]
      \/ \E s : /\ ~UsePinned(q, att[r])
                /\ req' = [req EXCEPT ![r] = SetServer(SetPc(q, "pin"), s)]
                /\ attempted' = att
      \/ /\ req' = [req EXCEPT ![r] = Finished(q, 503)]
         /\ attempted' = [o \in Requests |-> IF o = r THEN {} ELSE att[o]]
  BY Zenon DEF NextAttempt, Send, SetServer, SetPc
<1>2. CASE /\ UsePinned(q, att[r])
           /\ req' = [req EXCEPT ![r] = SetServer(SetPc(q, "connect"), q.pinned)]
           /\ attempted' = [o \in Requests |-> IF o = r THEN att[o] \cup {q.pinned} ELSE att[o]]
  <2> DEFINE p == SetServer(SetPc(q, "connect"), q.pinned)
  <2>1. Shape(p) /\ p.pc = "connect" /\ p.server = q.pinned /\ p.pinned = q.pinned
    BY SetField, FieldsKept
  <2>2. req' = [req EXCEPT ![r] = p]
    BY <1>2
  <2> HIDE DEF p
  <2>3. Calm(p) /\ p.pc \notin Early
    BY <2>1 DEF Calm, Early
  <2>4. /\ attempted' = [o \in Requests |-> attempted'[o]]
        /\ \A o \in Requests \ {r} : attempted[o] = {} => attempted'[o] = {}
    BY <1>2
  <2> QED
    BY <2>1, <2>2, <2>3, <2>4, StickyBecomes
<1>3. ASSUME NEW s,
             /\ ~UsePinned(q, att[r])
             /\ req' = [req EXCEPT ![r] = SetServer(SetPc(q, "pin"), s)]
             /\ attempted' = att
      PROVE  StickyInv'
  <2> DEFINE p == SetServer(SetPc(q, "pin"), s)
  <2>1. Shape(p) /\ p.pc = "pin" /\ p.pinned = q.pinned
    BY SetField, FieldsKept
  <2>2. req' = [req EXCEPT ![r] = p]
    BY <1>3
  <2> HIDE DEF p
  <2>3. q.pinned \notin Steady
    BY <1>3, BalancerAssumption DEF UsePinned, Steady
  <2>4. Calm(p) /\ p.pc \notin Early
    BY <2>1, <2>3 DEF Calm, Early
  <2>5. /\ attempted' = [o \in Requests |-> attempted'[o]]
        /\ \A o \in Requests \ {r} : attempted[o] = {} => attempted'[o] = {}
    BY <1>3
  <2> QED
    BY <2>1, <2>2, <2>4, <2>5, StickyBecomes
<1>4. CASE /\ req' = [req EXCEPT ![r] = Finished(q, 503)]
           /\ attempted' = [o \in Requests |-> IF o = r THEN {} ELSE att[o]]
  <2>1. PICK code : code = 503
    OBVIOUS
  <2> DEFINE p == Finished(q, code)
  <2>2. req' = [req EXCEPT ![r] = p]
    BY <1>4, <2>1, Zenon
  <2>3. Shape(p) /\ p.pc = "idle"
    BY FinishedKnown
  <2> HIDE DEF p
  <2>4. Calm(p)
    BY <2>3 DEF Calm, Forwarding
  <2>5. /\ attempted' = [o \in Requests |-> attempted'[o]] /\ attempted'[r] = {}
        /\ \A o \in Requests \ {r} : attempted[o] = {} => attempted'[o] = {}
    BY <1>4
  <2> QED
    BY <2>2, <2>3, <2>4, <2>5, StickyBecomes
<1> QED
  BY <1>1, <1>2, <1>3, <1>4

\* Failures are counted against a server that is not steady.
LEMMA FailureSticks ==
  ASSUME StickyInv, NEW t, t \notin Steady, MarkFailure(t)
  PROVE  /\ status' = [s \in Servers |-> status'[s]]
         /\ \A s \in Steady : status'[s] = "HEALTHY"
<1> DEFINE v == IF FailsAfter(t) >= Threshold THEN "UNHEALTHY" ELSE status[t]
<1>1. status' = [status EXCEPT ![t] = v]
  BY Zenon DEF MarkFailure
<1> HIDE DEF v
<1>2. status' = [s \in Servers |-> IF s = t THEN v ELSE status[s]]
  BY <1>1 DEF StickyInv
<1>3. status' = [s \in Servers |-> status'[s]]
  BY <1>2
<1>4. ASSUME NEW s \in Steady
      PROVE  status'[s] = "HEALTHY"
  BY <1>2 DEF StickyInv, Steady
<1> QED
  BY <1>3, <1>4

\* The retry loop, entered and re-entered.
LEMMA LoopSticks ==
  ASSUME StickyInv, NEW r \in Requests, BodyRead(r) \/ ConnectorError(r)
  PROVE  StickyInv'
<1>1. Shape(req[r]) /\ Calm(req[r])
  BY DEF StickyInv
<1>2. CASE BodyRead(r)
  <2>1. /\ req[r].pc = "body" /\ UNCHANGED <<status, probe, backend>>
        /\ NextAttempt(r, req[r], attempted, status, conns)
    BY <1>2 DEF BodyRead
  <2>2. /\ attempted = [o \in Requests |-> attempted[o]]
        /\ attempted[r] = {}
        /\ status' = [s \in Servers |-> status'[s]]
        /\ \A s \in Steady : status'[s] = "HEALTHY"
    BY <2>1 DEF StickyInv, Early
  <2> QED
    BY <1>1, <2>1, <2>2, NextAttemptSticks
<1>3. CASE ConnectorError(r)
  <2> DEFINE p   == SetServer(SetTries(req[r], req[r].tries + 1), None)
             att == Forget(req[r].server)
  <2>1. PICK cn : NextAttempt(r, p, att, status', cn)
    BY <1>3, Zenon DEF ConnectorError, SetServer, SetTries
  <2>2. /\ req[r].pc = "refused" /\ UNCHANGED <<probe, backend>>
        /\ MarkFailure(req[r].server)
    BY <1>3 DEF ConnectorError
  <2>3. req[r].server \notin Steady /\ req[r].pinned \notin Steady
    BY <1>1, <2>2 DEF Calm
  <2>4. /\ status' = [s \in Servers |-> status'[s]]
        /\ \A s \in Steady : status'[s] = "HEALTHY"
    BY <2>2, <2>3, FailureSticks
  <2>5. /\ att = [o \in Requests |-> att[o]]
        /\ \A o \in Requests : attempted[o] = {} => att[o] = {}
    BY DEF Forget
  <2>6. Shape(p) /\ p.pinned = req[r].pinned
    BY <1>1, SetField, FieldsKept
  <2>7. \A s \in Steady : p.pinned # s
    BY <2>3, <2>6
  <2> HIDE DEF p, att
  <2> QED
    BY <2>1, <2>2, <2>4, <2>5, <2>6, <2>7, NextAttemptSticks
<1> QED
  BY <1>2, <1>3

\* The pin is set and the request sent: its session was pinned to no steady
\* server when it arrived.
LEMMA PinSticks ==
  ASSUME StickyInv, NEW r \in Requests, PinExecuted(r)
  PROVE  StickyInv'
<1>1. /\ Shape(req[r]) /\ Calm(req[r]) /\ req[r].pc = "pin"
      /\ UNCHANGED <<status, probe, backend>>
  BY DEF StickyInv, PinExecuted
<1>2. PICK x : Send(r, SetSession(req[r], x), req[r].server, attempted, conns)
  BY Zenon DEF PinExecuted, SetSession
<1> DEFINE d == SetSession(req[r], x)
           p == SetServer(SetPc(d, "connect"), req[r].server)
<1>3. /\ req' = [req EXCEPT ![r] = p]
      /\ attempted' = [o \in Requests |-> IF o = r THEN attempted[o] \cup {req[r].server}
                                                   ELSE attempted[o]]
  BY <1>2, Zenon DEF Send, SetServer, SetPc
<1>4. Shape(d) /\ d.pinned = req[r].pinned
  BY <1>1, SetField, FieldsKept
<1> HIDE DEF d
<1>5. Shape(p) /\ p.pc = "connect" /\ p.pinned = req[r].pinned
  BY <1>4, SetField, FieldsKept
<1> HIDE DEF p
<1>6. Calm(p) /\ p.pc \notin Early
  BY <1>1, <1>5 DEF Calm, Early
<1>7. /\ attempted' = [o \in Requests |-> attempted'[o]]
      /\ \A o \in Requests \ {r} : attempted[o] = {} => attempted'[o] = {}
  BY <1>3
<1>8. /\ status' = [s \in Servers |-> status'[s]]
      /\ \A s \in Steady : status'[s] = "HEALTHY"
  BY <1>1 DEF StickyInv
<1> QED
  BY <1>1, <1>3, <1>5, <1>6, <1>7, <1>8, StickyBecomes

\* Every other way out of the handler.
LEMMA ExitSticks ==
  ASSUME StickyInv, NEW r \in Requests,
         BodyLost(r) \/ RedisError(r) \/ Respond(r) \/ Timeout(r) \/ Disconnected(r)
  PROVE  StickyInv'
<1>1. PICK code : ReplyWith(r, code)
  BY WayOut
<1>2. /\ UNCHANGED <<status, probe, backend>>
      /\ \/ attempted' = [attempted EXCEPT ![r] = {}]
         \/ attempted' = attempted /\ req[r].pc = "body"
  BY <1>1 DEF ReplyWith
<1> DEFINE p == Finished(req[r], code)
<1>3. Shape(p) /\ p.pc = "idle" /\ req' = [req EXCEPT ![r] = p]
  BY <1>1, FinishedKnown DEF ReplyWith
<1> HIDE DEF p
<1>4. Calm(p)
  <2>1. p.pinned = None
    BY FinishedKnown DEF p
  <2> QED
    BY <1>3, <2>1 DEF Calm, Forwarding
<1>5. /\ attempted' = [o \in Requests |-> attempted'[o]] /\ attempted'[r] = {}
      /\ \A o \in Requests \ {r} : attempted[o] = {} => attempted'[o] = {}
  BY <1>2 DEF StickyInv, Early
<1>6. /\ status' = [s \in Servers |-> status'[s]]
      /\ \A s \in Steady : status'[s] = "HEALTHY"
  BY <1>2 DEF StickyInv
<1> QED
  BY <1>2, <1>3, <1>4, <1>5, <1>6, StickyBecomes

\* The steps of the checker, the backends and the operator.
LEMMA OthersStick ==
  ASSUME StickyInv, UNCHANGED req,
         \/ \E s \in Servers : Answer(s) \/ CheckDone(s)
         \/ StartRound
         \/ \E s \in Servers : \E c \in Conditions[s] : Become(s, c)
         \/ \E s \in Drainable : Drain(s)
  PROVE  StickyInv'
<1>1. ASSUME status' = [s \in Servers |-> status'[s]], probe' = [s \in Servers |-> probe'[s]],
             backend' = [s \in Servers |-> backend'[s]],
             attempted' = [r \in Requests |-> attempted'[r]],
             \A s \in Steady : status'[s] = "HEALTHY" /\ probe'[s] # "failed" /\ backend'[s] = "up",
             \A r \in Requests : attempted[r] = {} => attempted'[r] = {}
      PROVE  StickyInv'
  BY <1>1 DEF StickyInv, Shape, Calm
<1>2. ASSUME NEW t \in Servers, Answer(t)
      PROVE  StickyInv'
  <2>1. probe' = [s \in Servers |-> IF s = t THEN IF backend[s] = "up" THEN "ok" ELSE "failed"
                                             ELSE probe[s]]
    BY <1>2 DEF Answer, StickyInv
  <2>2. UNCHANGED <<status, backend, attempted>>
    BY <1>2 DEF Answer
  <2> QED
    BY <1>1, <2>1, <2>2 DEF StickyInv, Steady
<1>3. ASSUME NEW t \in Servers, CheckDone(t)
      PROVE  StickyInv'
  <2>1. probe' = [s \in Servers |-> IF s = t THEN "none" ELSE probe[s]]
    BY <1>3 DEF CheckDone, StickyInv
  <2>2. UNCHANGED backend /\ attempted' = [r \in Requests |-> attempted[r] \ {t}]
    BY <1>3 DEF CheckDone, Forget
  <2>3. /\ status' = [s \in Servers |-> status'[s]]
        /\ \A s \in Steady : status'[s] = "HEALTHY"
    <3>1. CASE MarkSuccess(t)
      BY <3>1 DEF MarkSuccess, StickyInv, Steady
    <3>2. CASE probe[t] = "failed" /\ MarkFailure(t)
      <4>1. t \notin Steady
        BY <3>2 DEF StickyInv
      <4> QED
        BY <3>2, <4>1, FailureSticks
    <3> QED
      BY <1>3, <3>1, <3>2 DEF CheckDone
  <2> QED
    BY <1>1, <2>1, <2>2, <2>3 DEF StickyInv, Steady
<1>4. CASE StartRound
  <2>1. probe' = [s \in Servers |-> IF status[s] = "DRAINING" THEN "none" ELSE "asked"]
    BY <1>4 DEF StartRound
  <2>2. UNCHANGED <<status, backend, attempted>>
    BY <1>4 DEF StartRound
  <2> QED
    BY <1>1, <2>1, <2>2 DEF StickyInv, Steady
<1>5. ASSUME NEW t \in Servers, NEW c \in Conditions[t], Become(t, c)
      PROVE  StickyInv'
  <2>1. backend' = [s \in Servers |-> IF s = t THEN c ELSE backend[s]]
    BY <1>5 DEF Become, StickyInv
  <2>2. t \in Steady => c = "up"
    BY DEF Steady
  <2>3. UNCHANGED <<status, probe, attempted>>
    BY <1>5 DEF Become
  <2> QED
    BY <1>1, <2>1, <2>2, <2>3 DEF StickyInv, Steady
<1>6. ASSUME NEW t \in Drainable, Drain(t)
      PROVE  StickyInv'
  <2>1. status' = [s \in Servers |-> IF s = t THEN "DRAINING" ELSE status[s]]
    BY <1>6 DEF Drain, StickyInv
  <2>2. UNCHANGED <<probe, backend, attempted>>
    BY <1>6 DEF Drain
  <2> QED
    BY <1>1, <2>1, <2>2 DEF StickyInv, Steady
<1> QED
  BY <1>2, <1>3, <1>4, <1>5, <1>6

\* Every step keeps the invariant.
LEMMA StickyStep ==
  ASSUME StickyInv, [Next]_vars
  PROVE  StickyInv'
<1>1. CASE UNCHANGED <<status, req, attempted, probe, backend>>
  BY <1>1 DEF StickyInv, Shape, Calm
<1>2. ASSUME NEW r \in Requests,
             \/ Arrive(r) \/ Handle(r) \/ BodyLost(r) \/ RedisError(r)
             \/ Refuse(r) \/ Deliver(r) \/ Respond(r) \/ Disconnected(r)
      PROVE  StickyInv'
  BY <1>2, LookupSticks, PinSticks, SentSticks, LoopSticks, ExitSticks, Zenon DEF Handle
<1>3. CASE /\ UNCHANGED req
           /\ \/ \E s \in Servers : Answer(s) \/ CheckDone(s)
              \/ StartRound
              \/ \E s \in Servers : \E c \in Conditions[s] : Become(s, c)
              \/ \E s \in Drainable : Drain(s)
  BY <1>3, OthersStick
<1>4. \/ UNCHANGED <<status, req, attempted, probe, backend>>
      \/ /\ UNCHANGED req
         /\ \/ \E s \in Servers : Answer(s) \/ CheckDone(s)
            \/ StartRound
            \/ \E s \in Servers : \E c \in Conditions[s] : Become(s, c)
            \/ \E s \in Drainable : Drain(s)
      \/ \E r \in Requests :
           \/ Arrive(r) \/ Handle(r) \/ BodyLost(r) \/ RedisError(r)
           \/ Refuse(r) \/ Deliver(r) \/ Respond(r) \/ Disconnected(r)
  BY DEF Next, vars, StartRound, Answer, CheckDone, Become, Drain, PinLost
<1> QED
  BY <1>1, <1>2, <1>3, <1>4, Zenon

\* A server that never fails stays in the pool, and a request that has found its
\* session pinned to it is sent there and nowhere else, whatever becomes of the
\* others and of other requests of the session (session.py:8, server.py:77).
THEOREM SessionsStick == Spec => []Sticky
<1>1. ASSUME Init
      PROVE  StickyInv
  <2>1. \A r \in Requests : req[r] = Idle
    BY <1>1 DEF Init
  <2>2. Shape(Idle) /\ Calm(Idle)
    BY DEF Shape, Calm, Idle, Forwarding
  <2> QED
    BY <1>1, <2>1, <2>2 DEF Init, StickyInv, Steady
<1>2. StickyInv => Sticky
  BY DEF StickyInv, Sticky, Calm, Steady
<1> QED
  BY <1>1, <1>2, StickyStep, PTL DEF Spec

-----------------------------------------------------------------------------
(* Types                                                                   *)

\* A handler has tried fewer than N servers when it tries one, and no more than one
\* has received its request.
Within(q) ==
  /\ q.server \in Servers \cup {None}
  /\ q.tries \in 0 .. N
  /\ q.delivered \in 0 .. 1
  /\ q.reply \in {200, 413, 500, 503, 504, None}

Bounded(q) == Within(q) /\ (q.pc \in Forwarding \cup {"pin"} => q.tries < N)

\* The inductive invariant, together with those of the pool, of the connections and
\* of the refinement.
BoundsInv ==
  /\ index \in 0 .. N - 1
  /\ attempted \in [Requests -> SUBSET Servers]
  /\ probe \in [Servers -> {"none", "asked", "ok", "failed"}]
  /\ backend \in [Servers -> Condition]
  /\ \A r \in Requests : Bounded(req[r])

\* Setting a field that is not the number of tries leaves that alone.
LEMMA TriesKept ==
  ASSUME NEW q, NEW x, Shape(q)
  PROVE  /\ SetPc(q, x).tries = q.tries /\ SetSession(q, x).tries = q.tries
         /\ SetPinned(q, x).tries = q.tries /\ SetServer(q, x).tries = q.tries
         /\ SetTries(q, x).tries = x /\ SetDelivered(q, x).tries = q.tries
         /\ SetReply(q, x).tries = q.tries
BY DEF Shape, SetPc, SetSession, SetPinned, SetServer, SetTries, SetDelivered, SetReply

\* A handler that has ended has tried none.
LEMMA FinishedBounded ==
  ASSUME NEW q, q.delivered \in 0 .. 1, NEW code \in {200, 413, 500, 503, 504}
  PROVE  Bounded(Finished(q, code))
<1> DEFINE f == Finished(q, code)
<1>1. /\ Shape(Idle) /\ Idle.pc = "idle" /\ Idle.tries = 0 /\ Idle.server = None
  BY DEF Shape, Idle
<1>2. f = SetDelivered(SetReply(Idle, code), q.delivered)
  BY Zenon DEF Finished, SetDelivered, SetReply
<1> HIDE DEF f
<1>3. /\ f.pc = "idle" /\ f.tries = 0 /\ f.server = None
      /\ f.delivered = q.delivered /\ f.reply = code
  BY <1>1, <1>2, SetField, FieldsKept, TriesKept
<1>4. Bounded(f)
  BY <1>3, BalancerAssumption DEF Bounded, Within, Forwarding
<1> QED
  BY <1>4 DEF f

\* A step in which r becomes q and which leaves the checks and the index alone.
LEMMA BoundedBecomes ==
  ASSUME ConnInv, BoundsInv, NEW r \in Requests, NEW q, Bounded(q),
         req' = [req EXCEPT ![r] = q],
         index' \in 0 .. N - 1, attempted' \in [Requests -> SUBSET Servers],
         UNCHANGED <<probe, backend>>
  PROVE  BoundsInv'
<1>1. req' = [o \in Requests |-> IF o = r THEN q ELSE req[o]]
  BY DEF ConnInv
<1>2. \A o \in Requests : Bounded(req'[o])
  BY <1>1 DEF BoundsInv
<1> QED
  BY <1>2 DEF BoundsInv

\* What an attempt adds to attempted is a server.
LEMMA SendBounded ==
  ASSUME ConnInv, BoundsInv, NEW r \in Requests, NEW q, Shape(q), Within(q), q.tries < N,
         NEW server \in Servers, NEW att \in [Requests -> SUBSET Servers], NEW cn,
         Send(r, q, server, att, cn), UNCHANGED <<index, probe, backend>>
  PROVE  BoundsInv'
<1> DEFINE p == SetServer(SetPc(q, "connect"), server)
<1>1. req' = [req EXCEPT ![r] = p]
  BY Zenon DEF Send, SetServer, SetPc
<1> HIDE DEF p
<1>2. /\ p.server = server /\ p.tries = q.tries
      /\ p.delivered = q.delivered /\ p.reply = q.reply
  BY SetField, FieldsKept, TriesKept DEF p
<1>3. Bounded(p)
  BY <1>2 DEF Bounded, Within
<1>4. attempted' \in [Requests -> SUBSET Servers]
  <2>1. attempted' = [o \in Requests |-> IF o = r THEN att[o] \cup {server} ELSE att[o]]
    BY Zenon DEF Send
  <2> QED
    BY <2>1
<1>5. index' \in 0 .. N - 1
  BY DEF BoundsInv
<1> QED
  BY <1>1, <1>3, <1>4, <1>5, BoundedBecomes

\* From the head of the retry loop.
LEMMA NextAttemptBounded ==
  ASSUME ConnInv, BoundsInv, NEW r \in Requests, NEW q, Shape(q), Informed(q), Within(q),
         NEW att \in [Requests -> SUBSET Servers], NEW st, NEW cn,
         NextAttempt(r, q, att, st, cn), UNCHANGED <<probe, backend>>
  PROVE  BoundsInv'
<1> DEFINE healthy == {s \in Servers \ att[r] : st[s] = "HEALTHY"}
           picked  == RoundRobin(healthy, index)
<1>1. index \in 0 .. N - 1
  BY DEF BoundsInv
<1>2. \/ /\ q.tries < N /\ UsePinned(q, att[r])
         /\ Send(r, q, q.pinned, att, cn)
         /\ UNCHANGED index
      \/ /\ q.tries < N /\ ~UsePinned(q, att[r]) /\ healthy # {}
         /\ req' = [req EXCEPT ![r] = [q EXCEPT !.pc = "pin", !.server = picked.server]]
         /\ index' = picked.index
         /\ attempted' = att /\ conns' = cn
      \/ /\ q.tries = N \/ (~UsePinned(q, att[r]) /\ healthy = {})
         /\ req' = [req EXCEPT ![r] = Finished(q, 503)]
         /\ attempted' = [o \in Requests |-> IF o = r THEN {} ELSE att[o]]
         /\ conns' = cn
         /\ UNCHANGED index
  BY Zenon DEF NextAttempt
<1>3. CASE q.tries < N /\ UsePinned(q, att[r]) /\ Send(r, q, q.pinned, att, cn) /\ UNCHANGED index
  <2>1. q.pinned \in Servers
    BY <1>3 DEF Informed, UsePinned
  <2> QED
    BY <1>3, <2>1, SendBounded
<1>4. CASE /\ q.tries < N /\ healthy # {}
           /\ req' = [req EXCEPT ![r] = [q EXCEPT !.pc = "pin", !.server = picked.server]]
           /\ index' = picked.index /\ attempted' = att
  <2>1. picked.server \in Servers /\ picked.index \in 0 .. N - 1
    <3>1. Servers \in SUBSET Nat /\ IsFiniteSet(Servers) /\ Cardinality(Servers) = N
      <4>1. N \in Nat \ {0} /\ 1 \in Int /\ N \in Int
        BY BalancerAssumption
      <4>2. /\ IsFiniteSet(1 .. N)
            /\ Cardinality(1 .. N) = IF 1 > N THEN 0 ELSE N - 1 + 1
        BY <4>1, FS_Interval
      <4> QED
        BY <4>1, <4>2 DEF Servers
    <3>2. healthy \in SUBSET Servers /\ index \in Nat
      BY <1>1, BalancerAssumption
    <3> HIDE DEF healthy
    <3>3. IsFiniteSet(healthy) /\ healthy \in SUBSET Nat /\ Cardinality(healthy) <= N
      BY <3>1, <3>2, FS_Subset
    <3>4. picked.server \in healthy /\ picked.index \in 0 .. Cardinality(healthy) - 1
      BY <1>4, <3>2, <3>3, RoundRobinPicks
    <3>5. Cardinality(healthy) \in Nat /\ N \in Nat
      BY <3>3, FS_CardinalityType, BalancerAssumption
    <3>6. \A x \in 0 .. Cardinality(healthy) - 1 : x \in 0 .. N - 1
      BY <3>3, <3>5
    <3> HIDE DEF picked
    <3> QED
      BY <3>2, <3>4, <3>6
  <2> DEFINE p == SetServer(SetPc(q, "pin"), picked.server)
  <2>2. req' = [req EXCEPT ![r] = p]
    BY <1>4, Zenon DEF SetServer, SetPc
  <2> HIDE DEF p, picked
  <2>3. /\ p.server = picked.server /\ p.tries = q.tries
        /\ p.delivered = q.delivered /\ p.reply = q.reply
    BY SetField, FieldsKept, TriesKept DEF p
  <2>4. Bounded(p)
    BY <1>4, <2>1, <2>3 DEF Bounded, Within
  <2>5. index' \in 0 .. N - 1 /\ attempted' \in [Requests -> SUBSET Servers]
    BY <1>4, <2>1
  <2> QED
    BY <2>2, <2>4, <2>5, BoundedBecomes
<1>5. CASE /\ req' = [req EXCEPT ![r] = Finished(q, 503)]
           /\ attempted' = [o \in Requests |-> IF o = r THEN {} ELSE att[o]]
           /\ UNCHANGED index
  <2>1. PICK code \in {200, 413, 500, 503, 504} : code = 503
    OBVIOUS
  <2> DEFINE p == Finished(q, code)
  <2>2. req' = [req EXCEPT ![r] = p]
    BY <1>5, <2>1, Zenon
  <2>3. Bounded(p)
    BY FinishedBounded DEF Within
  <2> HIDE DEF p
  <2>4. index' \in 0 .. N - 1 /\ attempted' \in [Requests -> SUBSET Servers]
    BY <1>1, <1>5
  <2> QED
    BY <2>2, <2>3, <2>4, BoundedBecomes
<1> QED
  BY <1>2, <1>3, <1>4, <1>5

\* The handler that arrives, looks up, drops or clears its pin.
LEMMA LookupBounded ==
  ASSUME ConnInv, BoundsInv, NEW r \in Requests,
         \/ Arrive(r) \/ LookupExecuted(r) \/ LookupAnswered(r) \/ ClearExecuted(r)
  PROVE  BoundsInv'
<1>1. Shape(req[r]) /\ Bounded(req[r])
  BY DEF ConnInv, BoundsInv
<1>2. /\ UNCHANGED <<index, attempted, probe, backend>>
      /\ index' \in 0 .. N - 1 /\ attempted' \in [Requests -> SUBSET Servers]
  BY DEF BoundsInv, Arrive, LookupExecuted, LookupAnswered, ClearExecuted
<1>3. ASSUME NEW pc \in {"lookup", "looked", "clear", "body"}, NEW q, Shape(q), Bounded(q), NEW x,
             \/ req' = [req EXCEPT ![r] = SetPc(q, pc)]
             \/ req' = [req EXCEPT ![r] = SetPc(SetSession(q, x), pc)]
             \/ req' = [req EXCEPT ![r] = SetPinned(SetPc(q, pc), x)]
      PROVE  BoundsInv'
  <2>1. PICK p : /\ req' = [req EXCEPT ![r] = p]
                 /\ \/ p = SetPc(q, pc) \/ p = SetPc(SetSession(q, x), pc)
                    \/ p = SetPinned(SetPc(q, pc), x)
    BY <1>3, Zenon
  <2>2. /\ p.pc = pc /\ p.server = q.server /\ p.tries = q.tries
        /\ p.delivered = q.delivered /\ p.reply = q.reply
    BY <1>3, <2>1, SetField, FieldsKept, TriesKept
  <2>3. Bounded(p)
    BY <1>3, <2>2 DEF Bounded, Within, Forwarding
  <2> QED
    BY <1>2, <2>1, <2>3, BoundedBecomes
<1>4. CASE Arrive(r)
  <2>1. PICK x : \/ req' = [req EXCEPT ![r] = SetPc(SetSession(Idle, x), "body")]
                 \/ req' = [req EXCEPT ![r] = SetPc(SetSession(Idle, x), "lookup")]
    <3>1. PICK x : req' = [req EXCEPT ![r] = [Idle EXCEPT !.session = x,
                                                !.pc = IF x = None THEN "body" ELSE "lookup"]]
      BY <1>4, Zenon DEF Arrive
    <3> DEFINE pc == IF x = None THEN "body" ELSE "lookup"
    <3>2. req' = [req EXCEPT ![r] = SetPc(SetSession(Idle, x), pc)]
      BY <3>1, Zenon DEF SetPc, SetSession
    <3>3. pc = "body" \/ pc = "lookup"
      OBVIOUS
    <3> QED
      BY <3>2, <3>3, Zenon
  <2>2. Shape(Idle) /\ Bounded(Idle)
    BY BalancerAssumption DEF Shape, Idle, Bounded, Within, Forwarding
  <2> QED
    BY <1>3, <2>1, <2>2
<1>5. CASE LookupExecuted(r)
  <2>1. PICK x : req' = [req EXCEPT ![r] = SetPinned(SetPc(req[r], "looked"), x)]
    BY <1>5, Zenon DEF LookupExecuted, SetPinned, SetPc
  <2> QED
    BY <1>1, <1>3, <2>1
<1>6. CASE LookupAnswered(r)
  <2>1. \/ req' = [req EXCEPT ![r] = SetPc(req[r], "body")]
        \/ \E x : req' = [req EXCEPT ![r] = SetPinned(SetPc(req[r], "clear"), x)]
    BY <1>6, Zenon DEF LookupAnswered, Goto, SetPinned, SetPc
  <2> QED
    BY <1>1, <1>3, <2>1
<1>7. CASE ClearExecuted(r)
  <2>1. req' = [req EXCEPT ![r] = SetPc(req[r], "body")]
    BY <1>7, Zenon DEF ClearExecuted, Goto, SetPc
  <2> QED
    BY <1>1, <1>3, <2>1
<1> QED
  BY <1>4, <1>5, <1>6, <1>7

\* The handler whose pin is set, and then between the connection and the response.
LEMMA SentBounded ==
  ASSUME ConnInv, HandlerInv, BoundsInv, NEW r \in Requests, PinExecuted(r) \/ Refuse(r) \/ Deliver(r)
  PROVE  BoundsInv'
<1>1. /\ Shape(req[r]) /\ Known(req[r]) /\ Undecided(req[r]) /\ Bounded(req[r])
      /\ index \in 0 .. N - 1 /\ attempted \in [Requests -> SUBSET Servers]
  BY DEF ConnInv, HandlerInv, BoundsInv
<1>2. CASE PinExecuted(r)
  <2>1. PICK x : Send(r, SetSession(req[r], x), req[r].server, attempted, conns)
    BY <1>2, Zenon DEF PinExecuted, SetSession
  <2> DEFINE p == SetSession(req[r], x)
  <2>2. req[r].pc = "pin" /\ UNCHANGED <<index, probe, backend>>
    BY <1>2 DEF PinExecuted
  <2>3. req[r].server \in Servers /\ req[r].tries < N
    BY <1>1, <2>2 DEF Known, Bounded, Within
  <2>4. /\ Shape(p) /\ p.pc = req[r].pc /\ p.server = req[r].server /\ p.tries = req[r].tries
        /\ p.delivered = req[r].delivered /\ p.reply = req[r].reply
    BY <1>1, SetField, FieldsKept, TriesKept
  <2>5. Send(r, p, req[r].server, attempted, conns)
    BY <2>1
  <2> HIDE DEF p
  <2>6. Within(p) /\ p.tries < N
    BY <1>1, <2>3, <2>4 DEF Bounded, Within
  <2> QED
    BY <1>1, <2>2, <2>3, <2>4, <2>5, <2>6, SendBounded
<1>3. CASE Refuse(r)
  <2> DEFINE p == SetPc(req[r], "refused")
  <2>1. req' = [req EXCEPT ![r] = p]
    BY <1>3, Zenon DEF Refuse, Goto, SetPc
  <2>2. req[r].pc = "connect" /\ UNCHANGED <<index, attempted, probe, backend>>
    BY <1>3 DEF Refuse
  <2> HIDE DEF p
  <2>3. /\ p.pc = "refused" /\ p.server = req[r].server /\ p.tries = req[r].tries
        /\ p.delivered = req[r].delivered /\ p.reply = req[r].reply
    BY <1>1, SetField, FieldsKept, TriesKept DEF p
  <2>4. Bounded(p)
    BY <1>1, <2>2, <2>3 DEF Bounded, Within, Forwarding
  <2> QED
    BY <1>1, <2>1, <2>2, <2>4, BoundedBecomes
<1>4. CASE Deliver(r)
  <2> DEFINE p == SetPc(SetDelivered(req[r], req[r].delivered + 1), "sent")
  <2>1. req' = [req EXCEPT ![r] = p]
    BY <1>4, Zenon DEF Deliver, SetDelivered, SetPc
  <2>2. req[r].pc = "connect" /\ UNCHANGED <<index, attempted, probe, backend>>
    BY <1>4 DEF Deliver
  <2> HIDE DEF p
  <2>3. /\ p.pc = "sent" /\ p.server = req[r].server /\ p.tries = req[r].tries
        /\ p.delivered = req[r].delivered + 1 /\ p.reply = req[r].reply
    BY <1>1, SetField, FieldsKept, TriesKept DEF p
  <2>4. p.delivered = 1
    BY <1>1, <2>2, <2>3 DEF Undecided
  <2>5. Bounded(p)
    BY <1>1, <2>2, <2>3, <2>4 DEF Bounded, Within, Forwarding
  <2> QED
    BY <1>1, <2>1, <2>2, <2>5, BoundedBecomes
<1> QED
  BY <1>2, <1>3, <1>4

\* What a set that has forgotten a server still finds are servers.
LEMMA ForgetTyped ==
  ASSUME BoundsInv, NEW s
  PROVE  Forget(s) \in [Requests -> SUBSET Servers]
BY DEF BoundsInv, Forget

\* The retry loop, entered and re-entered.
LEMMA LoopBounded ==
  ASSUME ConnInv, BoundsInv, NEW r \in Requests, BodyRead(r) \/ ConnectorError(r)
  PROVE  BoundsInv'
<1>1. /\ Shape(req[r]) /\ Known(req[r]) /\ Bounded(req[r])
      /\ attempted \in [Requests -> SUBSET Servers]
  BY DEF ConnInv, BoundsInv
<1>2. CASE BodyRead(r)
  <2>1. NextAttempt(r, req[r], attempted, status, conns) /\ UNCHANGED <<probe, backend>>
    BY <1>2 DEF BodyRead
  <2> QED
    BY <1>1, <2>1, NextAttemptBounded DEF Known, Bounded
<1>3. CASE ConnectorError(r)
  <2> DEFINE p  == SetServer(SetTries(req[r], req[r].tries + 1), None)
             cn == [conns EXCEPT ![req[r].server] = @ - 1]
  <2>1. NextAttempt(r, p, Forget(req[r].server), status', cn)
    BY <1>3, Zenon DEF ConnectorError, SetServer, SetTries
  <2>2. req[r].pc = "refused" /\ UNCHANGED <<probe, backend>>
    BY <1>3 DEF ConnectorError
  <2> HIDE DEF p, cn
  <2>3. /\ Shape(p) /\ p.pc = "refused" /\ p.server = None /\ p.tries = req[r].tries + 1
        /\ p.session = req[r].session /\ p.pinned = req[r].pinned
        /\ p.delivered = req[r].delivered /\ p.reply = req[r].reply
    BY <1>1, <2>2, SetField, FieldsKept, TriesKept DEF p
  <2>4. Informed(p)
    BY <1>1, <2>3 DEF Known, Informed
  <2>5. Within(p)
    BY <1>1, <2>2, <2>3, BalancerAssumption DEF Bounded, Within, Forwarding
  <2>6. Forget(req[r].server) \in [Requests -> SUBSET Servers]
    BY ForgetTyped
  <2> DEFINE att == Forget(req[r].server)
  <2> HIDE DEF att
  <2> QED
    BY <2>1, <2>2, <2>3, <2>4, <2>5, <2>6, NextAttemptBounded DEF att
<1> QED
  BY <1>2, <1>3

\* Every other way out of the handler.
LEMMA ExitBounded ==
  ASSUME ConnInv, BoundsInv, NEW r \in Requests,
         BodyLost(r) \/ RedisError(r) \/ Respond(r) \/ Timeout(r) \/ Disconnected(r)
  PROVE  BoundsInv'
<1>1. PICK code : code \in {200, 413, 500, 504} /\ ReplyWith(r, code)
  BY WayOut
<1>2. index' \in 0 .. N - 1 /\ attempted' \in [Requests -> SUBSET Servers]
  BY <1>1 DEF BoundsInv, ReplyWith
<1> DEFINE p == Finished(req[r], code)
<1>3. Bounded(p)
  BY <1>1, FinishedBounded DEF BoundsInv, Bounded, Within
<1>4. req' = [req EXCEPT ![r] = p]
  BY <1>1 DEF ReplyWith
<1> HIDE DEF p
<1>5. UNCHANGED <<probe, backend>>
  BY <1>1 DEF ReplyWith
<1> QED
  BY <1>2, <1>3, <1>4, <1>5, BoundedBecomes

\* The checks and the environment leave the handlers alone.
LEMMA OthersBounded ==
  ASSUME BoundsInv, UNCHANGED <<req, index>>,
         \/ StartRound
         \/ \E s \in Servers : Answer(s) \/ CheckDone(s)
         \/ \E s \in Servers : \E c \in Conditions[s] : Become(s, c)
         \/ UNCHANGED <<attempted, probe, backend>>
  PROVE  BoundsInv'
<1>1. attempted' \in [Requests -> SUBSET Servers]
  <2>1. attempted' = attempted \/ \E s : attempted' = Forget(s)
    BY Zenon DEF StartRound, Answer, CheckDone, Become
  <2> QED
    BY <2>1, ForgetTyped DEF BoundsInv
<1>2. probe' \in [Servers -> {"none", "asked", "ok", "failed"}]
  BY DEF BoundsInv, StartRound, Answer, CheckDone, Become
<1>3. backend' \in [Servers -> Condition]
  <2>1. \/ backend' = backend
        \/ \E s \in Servers : \E c \in Conditions[s] : backend' = [backend EXCEPT ![s] = c]
    BY Zenon DEF StartRound, Answer, CheckDone, Become
  <2>2. \A s \in Servers : \A c \in Conditions[s] : c \in Condition
    BY BalancerAssumption
  <2> QED
    BY <2>1, <2>2 DEF BoundsInv
<1>4. index' \in 0 .. N - 1 /\ \A r \in Requests : Bounded(req'[r])
  BY DEF BoundsInv, Bounded, Within
<1> QED
  BY <1>1, <1>2, <1>3, <1>4 DEF BoundsInv

\* Every step keeps the bounds.
LEMMA BoundsStep ==
  ASSUME ConnInv, HandlerInv, BoundsInv, [Next]_vars
  PROVE  BoundsInv'
<1>1. ASSUME NEW r \in Requests,
             \/ Arrive(r) \/ Handle(r) \/ BodyLost(r) \/ RedisError(r)
             \/ Refuse(r) \/ Deliver(r) \/ Respond(r) \/ Disconnected(r)
      PROVE  BoundsInv'
  BY <1>1, LookupBounded, SentBounded, LoopBounded, ExitBounded, Zenon DEF Handle
<1>2. \/ \E r \in Requests :
           \/ Arrive(r) \/ Handle(r) \/ BodyLost(r) \/ RedisError(r)
           \/ Refuse(r) \/ Deliver(r) \/ Respond(r) \/ Disconnected(r)
      \/ /\ UNCHANGED <<req, index>>
         /\ \/ StartRound
            \/ \E s \in Servers : Answer(s) \/ CheckDone(s)
            \/ \E s \in Servers : \E c \in Conditions[s] : Become(s, c)
            \/ UNCHANGED <<attempted, probe, backend>>
  BY DEF Next, vars, StartRound, Answer, CheckDone, Become, Drain, PinLost
<1> QED
  BY <1>1, <1>2, OthersBounded, Zenon

\* In the beginning nothing has been tried.
LEMMA BoundsInit ==
  ASSUME Init
  PROVE  BoundsInv
<1>1. \A r \in Requests : req[r] = Idle
  BY DEF Init
<1>2. Bounded(Idle)
  BY BalancerAssumption DEF Idle, Bounded, Within, Forwarding
<1>3. 0 \in 0 .. N - 1
  BY BalancerAssumption
<1> QED
  BY <1>1, <1>2, <1>3 DEF Init, BoundsInv, Condition

\* The four invariants together.
LEMMA BalancerTyped ==
  ASSUME PoolInv, ConnInv, BoundsInv
  PROVE  TypeOK
<1>1. req \in [Requests -> Req]
  <2>1. ASSUME NEW r \in Requests PROVE req[r] \in Req
    <3>1. Shape(req[r]) /\ Known(req[r]) /\ Bounded(req[r])
      BY DEF ConnInv, BoundsInv
    <3>2. req[r].delivered \in 0 .. N
      BY <3>1, BalancerAssumption DEF Bounded, Within
    <3> DEFINE q == req[r]
    <3> HIDE DEF q
    <3>3. q = [pc |-> q.pc, session |-> q.session, pinned |-> q.pinned, server |-> q.server,
               tries |-> q.tries, delivered |-> q.delivered, reply |-> q.reply]
      BY <3>1 DEF Shape, q
    <3>4. /\ q.pc \in PC /\ q.session \in Sessions \cup {None} /\ q.pinned \in Servers \cup {None}
          /\ q.server \in Servers \cup {None} /\ q.tries \in 0 .. N /\ q.delivered \in 0 .. N
          /\ q.reply \in {200, 413, 500, 503, 504, None}
      BY <3>1, <3>2 DEF Known, Informed, Bounded, Within, q
    <3>5. q \in Req
      BY <3>3, <3>4 DEF Req
    <3> QED
      BY <3>5 DEF q
  <2>2. req = [r \in Requests |-> req[r]]
    BY DEF ConnInv
  <2> QED
    BY <2>1, <2>2
<1> QED
  BY <1>1 DEF PoolInv, PoolType, ConnInv, BoundsInv, TypeOK

\* The pool, the pins and the handlers have their types: in particular the index
\* stays within the list and a handler never tries more than N servers, whatever is
\* forgotten of those it has attempted (server.py:73-121).
THEOREM BalancerTypes == Spec => []TypeOK
<1>1. Init => PoolInv /\ ConnInv /\ HandlerInv /\ BoundsInv
  <2>1. Init => PoolInv
    BY ThresholdPositive DEF Init, PoolInv, PoolType, StatusMatchesFailures, Status
  <2>2. Init => HandlerInv
    BY DEF Init, HandlerInv, Shape, Undecided, Idle
  <2> QED
    BY <2>1, <2>2, ConnInit, BoundsInit
<1>2. PoolInv /\ ConnInv /\ HandlerInv /\ BoundsInv /\ [Next]_vars
        => PoolInv' /\ ConnInv' /\ HandlerInv' /\ BoundsInv'
  BY PoolStep, ConnStep, StepSeen, BoundsStep
<1>3. PoolInv /\ ConnInv /\ BoundsInv => TypeOK
  BY BalancerTyped
<1> QED
  BY <1>1, <1>2, <1>3, PTL DEF Spec
=============================================================================
