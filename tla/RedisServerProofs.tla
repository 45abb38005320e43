-------------------------- MODULE RedisServerProofs --------------------------
(***************************************************************************)
(* Theorems about RedisServer, for any number of connections and any       *)
(* length of their queues.                                                 *)
(*                                                                         *)
(* ClientInSync: what a connection holds and what its client thinks are    *)
(* changed by one action at a time, and nearly always through Answer, so   *)
(* each action has to show that what the client concludes from the reply   *)
(* is what the handler does.                                               *)
(*                                                                         *)
(* CountExact: the store never holds anything but the counter, so that it  *)
(* is known entirely (CounterDB); a queue that is run moves the counter    *)
(* by its INCRs, command by command (After); and INCRs leave the queues    *)
(* only to be counted or to be dropped (CountInv).                         *)
(***************************************************************************)
EXTENDS RedisServer, SequenceTheorems, FiniteSetTheorems, TLAPS

\* A client that thinks v knows the session s.
Knows(v, s) ==
  /\ v \in Session /\ s \in Session
  /\ v.in_multi = s.in_multi
  /\ v.queued_cmds = s.queued_cmds
  /\ v.proto = s.proto
  /\ v.authenticated => s.authenticated

SyncInv ==
  /\ requirepass \in BOOLEAN
  /\ conn = [c \in Connections |-> conn[c]]
  /\ view = [c \in Connections |-> view[c]]
  /\ \A c \in Connections : (conn[c] = None /\ view[c] = None) \/ Knows(view[c], conn[c])

\* The fields of a session.
LEMMA SessionFields ==
  ASSUME NEW s \in Session
  PROVE  /\ s.authenticated \in BOOLEAN /\ s.in_multi \in BOOLEAN
         /\ s.queued_cmds \in BoundedSeq(DataCommand, MaxQueue) /\ s.proto \in {2, 3}
         /\ s # None
BY ServerAssumption DEF Session

\* Queues are bounded sequences.
LEMMA Queues ==
  /\ <<>> \in BoundedSeq(DataCommand, MaxQueue)
  /\ \A q \in BoundedSeq(DataCommand, MaxQueue), name \in DataCommand :
       Len(q) < MaxQueue => Append(q, name) \in BoundedSeq(DataCommand, MaxQueue)
<1>1. \A q : q \in BoundedSeq(DataCommand, MaxQueue)
               <=> \E m \in 0 .. MaxQueue : q \in [1 .. m -> DataCommand]
  BY DEF BoundedSeq, SeqOf
<1>2. MaxQueue \in Nat
  BY ServerAssumption
<1>3. <<>> \in [1 .. 0 -> DataCommand] /\ 0 \in 0 .. MaxQueue
  BY <1>2
<1>4. ASSUME NEW q \in BoundedSeq(DataCommand, MaxQueue), NEW name \in DataCommand, Len(q) < MaxQueue
      PROVE  Append(q, name) \in BoundedSeq(DataCommand, MaxQueue)
  <2>1. PICK m \in 0 .. MaxQueue : q \in [1 .. m -> DataCommand]
    BY <1>1
  <2>2. q \in Seq(DataCommand) /\ Len(q) = m
    BY <2>1
  <2>3. Append(q, name) \in Seq(DataCommand) /\ Len(Append(q, name)) = m + 1
    BY <2>2, AppendProperties
  <2>4. Append(q, name) \in [1 .. m + 1 -> DataCommand]
    BY <2>3, LenProperties
  <2>5. m + 1 \in 0 .. MaxQueue
    BY <1>2, <1>4, <2>2
  <2> QED
    BY <1>1, <2>4, <2>5
<1> QED
  BY <1>1, <1>3, <1>4

\* The properties of the client and of the handler agree, seen from SyncInv.
LEMMA SyncIsClientInSync == SyncInv => ClientInSync
<1> SUFFICES ASSUME SyncInv, NEW c \in Connections
             PROVE  /\ Open(c) <=> view[c] # None
                    /\ Open(c) =>
                         /\ view[c] = [conn[c] EXCEPT !.authenticated = view[c].authenticated]
                         /\ view[c].authenticated => conn[c].authenticated
  BY DEF ClientInSync
<1>1. CASE conn[c] = None /\ view[c] = None
  BY <1>1 DEF Open
<1>2. CASE Knows(view[c], conn[c])
  <2>1. conn[c] # None /\ view[c] # None
    BY <1>2, SessionFields DEF Knows
  <2>2. view[c] = [conn[c] EXCEPT !.authenticated = view[c].authenticated]
    BY <1>2 DEF Knows, Session
  <2> QED
    BY <1>2, <2>1, <2>2 DEF Open, Knows
<1> QED
  BY <1>1, <1>2 DEF SyncInv

\* A connection and its client change, the others do not.
LEMMA OneConnection ==
  ASSUME SyncInv, NEW c \in Connections, NEW s, NEW v,
         conn' = [conn EXCEPT ![c] = s], view' = [view EXCEPT ![c] = v],
         (s = None /\ v = None) \/ Knows(v, s), requirepass' = requirepass
  PROVE  SyncInv'
<1>1. \A d \in Connections : conn'[d] = (IF d = c THEN s ELSE conn[d])
                             /\ view'[d] = (IF d = c THEN v ELSE view[d])
  BY DEF SyncInv
<1>2. conn' = [d \in Connections |-> conn'[d]] /\ view' = [d \in Connections |-> view'[d]]
  BY DEF SyncInv
<1>3. \A d \in Connections : (conn'[d] = None /\ view'[d] = None) \/ Knows(view'[d], conn'[d])
  BY <1>1 DEF SyncInv
<1> QED
  BY <1>2, <1>3 DEF SyncInv, Knows, Session

\* A reply keeps client and handler in step if the client draws the right conclusion from it.
LEMMA AnswerSync ==
  ASSUME SyncInv, NEW c \in Connections, NEW name, NEW reply, NEW s, Answer(c, name, reply, s),
         Knows(Learn(view[c], name, reply), s)
  PROVE  SyncInv'
<1>1. view' = [view EXCEPT ![c] = Learn(view[c], name, reply)]
  BY DEF Answer
<1> QED
  BY <1>1, OneConnection DEF Answer

-----------------------------------------------------------------------------
(* What the client concludes                                               *)

\* A session with one field changed.
SetAuthenticated(s, b) == [s EXCEPT !.authenticated = b]
SetMulti(s, b)         == [s EXCEPT !.in_multi = b]
SetQueue(s, q)         == [s EXCEPT !.queued_cmds = q]
SetProto(s, n)         == [s EXCEPT !.proto = n]

\* Client and handler change the same field in the same way.
LEMMA KnowsField ==
  ASSUME NEW v, NEW s, Knows(v, s)
  PROVE  /\ \A b \in BOOLEAN : /\ Knows(SetMulti(v, b), SetMulti(s, b))
                               /\ Knows(v, SetAuthenticated(s, s.authenticated \/ b))
         /\ Knows(SetAuthenticated(v, TRUE), SetAuthenticated(s, TRUE))
         /\ \A q \in BoundedSeq(DataCommand, MaxQueue) : Knows(SetQueue(v, q), SetQueue(s, q))
         /\ \A n \in {2, 3} : Knows(SetProto(v, n), SetProto(s, n))
<1>1. v \in Session /\ s \in Session
  BY DEF Knows
<1>2. ASSUME NEW b \in BOOLEAN
      PROVE  Knows(SetMulti(v, b), SetMulti(s, b)) /\ Knows(v, SetAuthenticated(s, s.authenticated \/ b))
  BY <1>1 DEF Knows, Session, SetMulti, SetAuthenticated
<1>3. Knows(SetAuthenticated(v, TRUE), SetAuthenticated(s, TRUE))
  BY <1>1 DEF Knows, Session, SetAuthenticated
<1>4. ASSUME NEW q \in BoundedSeq(DataCommand, MaxQueue)
      PROVE  Knows(SetQueue(v, q), SetQueue(s, q))
  BY <1>1 DEF Knows, Session, SetQueue
<1>5. ASSUME NEW n \in {2, 3}
      PROVE  Knows(SetProto(v, n), SetProto(s, n))
  BY <1>1 DEF Knows, Session, SetProto
<1> QED
  BY <1>2, <1>3, <1>4, <1>5

\* A transaction that begins or ends empties the queue on both sides.
LEMMA KnowsTransaction ==
  ASSUME NEW v, NEW s, Knows(v, s), NEW b \in BOOLEAN
  PROVE  Knows([v EXCEPT !.in_multi = b, !.queued_cmds = <<>>],
               [s EXCEPT !.in_multi = b, !.queued_cmds = <<>>])
<1>1. Knows(SetQueue(SetMulti(v, b), <<>>), SetQueue(SetMulti(s, b), <<>>))
  BY KnowsField, Queues
<1> QED
  BY <1>1, Zenon DEF SetQueue, SetMulti

\* Most replies tell nothing.
LEMMA LearnNothing ==
  ASSUME NEW v, NEW name, NEW reply,
         name \notin {"AUTH", "MULTI", "DISCARD"} \/ reply.kind # "OK",
         reply.kind \notin {"hello", "QUEUED", "array"}
  PROVE  Learn(v, name, reply) = v
BY DEF Learn

\* The others tell what the handler has done.
LEMMA LearnSomething ==
  ASSUME NEW v, NEW reply
  PROVE  /\ reply.kind = "OK" => Learn(v, "AUTH", reply) = SetAuthenticated(v, TRUE)
         /\ reply.kind = "OK"
              => Learn(v, "MULTI", reply) = [v EXCEPT !.in_multi = TRUE, !.queued_cmds = <<>>]
         /\ reply.kind = "OK"
              => Learn(v, "DISCARD", reply) = [v EXCEPT !.in_multi = FALSE, !.queued_cmds = <<>>]
         /\ reply.kind = "array"
              => Learn(v, "EXEC", reply) = [v EXCEPT !.in_multi = FALSE, !.queued_cmds = <<>>]
         /\ reply.kind = "hello"
              => Learn(v, "HELLO", reply) = SetProto(SetAuthenticated(v, TRUE), reply.n)
<1> DEFINE begun == [v EXCEPT !.in_multi = TRUE, !.queued_cmds = <<>>]
           ended == [v EXCEPT !.in_multi = FALSE, !.queued_cmds = <<>>]
           hello == [v EXCEPT !.authenticated = TRUE, !.proto = reply.n]
<1>1. \A name : Learn(v, name, reply)
        = CASE name = "AUTH" /\ reply.kind = "OK"  -> SetAuthenticated(v, TRUE)
            [] reply.kind = "hello"                -> hello
            [] name = "MULTI" /\ reply.kind = "OK" -> begun
            [] reply.kind = "QUEUED"               -> SetQueue(v, Append(v.queued_cmds, name))
            [] reply.kind = "array" \/ (name = "DISCARD" /\ reply.kind = "OK") -> ended
            [] OTHER                               -> v
  BY Zenon DEF Learn, SetAuthenticated, SetQueue
<1>2. hello = SetProto(SetAuthenticated(v, TRUE), reply.n)
  BY Zenon DEF SetProto, SetAuthenticated
<1> HIDE DEF begun, ended, hello
<1>3. reply.kind = "OK" => Learn(v, "AUTH", reply) = SetAuthenticated(v, TRUE)
  BY <1>1
<1>4. reply.kind = "OK" => Learn(v, "MULTI", reply) = begun
  BY <1>1
<1>5. reply.kind = "OK" => Learn(v, "DISCARD", reply) = ended
  BY <1>1
<1>6. reply.kind = "array" => Learn(v, "EXEC", reply) = ended
  BY <1>1
<1>7. reply.kind = "hello" => Learn(v, "HELLO", reply) = hello
  BY <1>1
<1> QED
  BY <1>2, <1>3, <1>4, <1>5, <1>6, <1>7 DEF begun, ended

\* A command that is queued is queued in the client's mind.
LEMMA LearnQueued ==
  ASSUME NEW v, NEW name \in DataCommand, NEW reply, reply.kind = "QUEUED"
  PROVE  Learn(v, name, reply) = SetQueue(v, Append(v.queued_cmds, name))
BY DEF Learn, SetQueue, DataCommand

\* A reply that tells nothing and changes nothing.
LEMMA QuietReply ==
  ASSUME SyncInv, NEW c \in Connections, Open(c), NEW name, NEW reply, NEW s,
         Answer(c, name, reply, s), Knows(view[c], s),
         name \notin {"AUTH", "MULTI", "DISCARD"} \/ reply.kind # "OK",
         reply.kind \notin {"hello", "QUEUED", "array"}
  PROVE  SyncInv'
BY AnswerSync, LearnNothing

-----------------------------------------------------------------------------
(* Client and handler: the actions                                         *)

\* An open connection is known to its client.
LEMMA OpenKnown ==
  ASSUME SyncInv, NEW c \in Connections, Open(c)
  PROVE  Knows(view[c], conn[c]) /\ conn[c] \in Session
BY DEF SyncInv, Open, Knows

\* Connections begin alike on both sides, and end alike.
LEMMA ConnectSync ==
  ASSUME SyncInv, NEW c \in Connections, Connect(c) \/ Disconnect(c)
  PROVE  SyncInv'
<1>1. NewSession \in Session
  BY Queues DEF NewSession, Session, SyncInv
<1>2. Knows(NewSession, NewSession)
  BY <1>1 DEF Knows
<1>3. CASE Connect(c)
  BY <1>2, <1>3, OneConnection DEF Connect
<1>4. CASE Disconnect(c)
  BY <1>4, OneConnection DEF Disconnect
<1> QED
  BY <1>3, <1>4

\* AUTH either fails or is noticed by the client.
LEMMA AuthSync ==
  ASSUME SyncInv, NEW c \in Connections, NEW password, AUTH(c, password)
  PROVE  SyncInv'
<1>1. Open(c) /\ Knows(view[c], conn[c])
  BY OpenKnown DEF AUTH
<1>2. CASE Answer(c, "AUTH", Simple("ERR"), conn[c]) \/ Answer(c, "AUTH", Simple("WRONGPASS"), conn[c])
  <2>1. Simple("ERR").kind = "ERR" /\ Simple("WRONGPASS").kind = "WRONGPASS"
    BY DEF Simple
  <2> QED
    BY <1>1, <1>2, <2>1, QuietReply
<1>3. CASE Answer(c, "AUTH", Simple("OK"), [conn[c] EXCEPT !.authenticated = TRUE])
  <2>1. Simple("OK").kind = "OK"
    BY DEF Simple
  <2>2. Learn(view[c], "AUTH", Simple("OK")) = SetAuthenticated(view[c], TRUE)
    BY <2>1, LearnSomething
  <2>3. Answer(c, "AUTH", Simple("OK"), SetAuthenticated(conn[c], TRUE))
    BY <1>3, Zenon DEF SetAuthenticated
  <2> QED
    BY <1>1, <2>2, <2>3, KnowsField, AnswerSync
<1> QED
  BY <1>2, <1>3 DEF AUTH

\* HELLO authenticates before it answers, and changes the version only when it
\* answers so.
LEMMA HelloSync ==
  ASSUME SyncInv, NEW c \in Connections, NEW version \in {2, 3, 4, None}, NEW clauses,
         HELLO(c, version, clauses)
  PROVE  SyncInv'
<1> DEFINE b     == clauses # <<>> /\ clauses[1] = "right"
           auth  == conn[c].authenticated \/ b
           s     == [conn[c] EXCEPT !.authenticated = auth]
           proto == IF version = None THEN s.proto ELSE version
<1>1. Open(c) /\ Knows(view[c], conn[c]) /\ conn[c] \in Session
  BY OpenKnown DEF HELLO
<1>2. /\ \/ version = 4 /\ Answer(c, "HELLO", Simple("NOPROTO"), conn[c])
         \/ version # 4 /\ Answer(c, "HELLO", Simple("WRONGPASS"), s)
         \/ version # 4 /\ Answer(c, "HELLO", Simple("NOAUTH"), s)
         \/ /\ version # 4 /\ auth
            /\ Answer(c, "HELLO", Numbered("hello", proto), [s EXCEPT !.proto = proto])
  BY Zenon DEF HELLO
<1>3. auth \in BOOLEAN /\ s = SetAuthenticated(conn[c], auth)
  BY Zenon, <1>1, SessionFields DEF SetAuthenticated
<1>4. Knows(view[c], s)
  <2>1. b \in BOOLEAN
    OBVIOUS
  <2>2. Knows(view[c], SetAuthenticated(conn[c], auth))
    BY <1>1, <2>1, KnowsField
  <2> QED
    BY <1>3, <2>2
<1>5. auth => s = SetAuthenticated(conn[c], TRUE)
  <2>1. auth => auth = TRUE
    OBVIOUS
  <2> QED
    BY <1>3, <2>1, Zenon
<1> HIDE DEF b, auth, s
<1>6. version # 4 => proto \in {2, 3}
  <2>1. s.proto \in {2, 3}
    BY <1>4, SessionFields DEF Knows
  <2> QED
    BY <2>1
<1>7. CASE version = 4 /\ Answer(c, "HELLO", Simple("NOPROTO"), conn[c])
  <2>1. Simple("NOPROTO").kind = "NOPROTO"
    BY DEF Simple
  <2> QED
    BY <1>1, <1>7, <2>1, QuietReply
<1>8. CASE Answer(c, "HELLO", Simple("WRONGPASS"), s) \/ Answer(c, "HELLO", Simple("NOAUTH"), s)
  <2>1. Simple("WRONGPASS").kind = "WRONGPASS" /\ Simple("NOAUTH").kind = "NOAUTH"
    BY DEF Simple
  <2> QED
    BY <1>1, <1>4, <1>8, <2>1, QuietReply
<1>9. CASE /\ version # 4 /\ auth
           /\ Answer(c, "HELLO", Numbered("hello", proto), [s EXCEPT !.proto = proto])
  <2> HIDE DEF proto
  <2> DEFINE reply == Numbered("hello", proto)
  <2>1. reply.kind = "hello" /\ reply.n = proto
    BY DEF Numbered
  <2>2. Answer(c, "HELLO", reply, SetProto(s, proto))
    BY <1>9, Zenon DEF SetProto
  <2> HIDE DEF reply
  <2>3. Learn(view[c], "HELLO", reply) = SetProto(SetAuthenticated(view[c], TRUE), proto)
    BY <2>1, LearnSomething
  <2>4. Knows(SetAuthenticated(view[c], TRUE), s)
    BY <1>1, <1>5, <1>9, KnowsField
  <2>5. Knows(SetProto(SetAuthenticated(view[c], TRUE), proto), SetProto(s, proto))
    BY <1>6, <1>9, <2>4, KnowsField
  <2> QED
    BY <2>2, <2>3, <2>5, AnswerSync
<1> QED
  BY <1>2, <1>7, <1>8, <1>9

\* MULTI and DISCARD either fail or do on both sides the same.
LEMMA MultiSync ==
  ASSUME SyncInv, NEW c \in Connections, MULTI(c) \/ DISCARD(c)
  PROVE  SyncInv'
<1>1. Open(c) /\ Knows(view[c], conn[c])
  BY OpenKnown DEF MULTI, DISCARD, Serve
<1>2. Simple("OK").kind = "OK" /\ Simple("ERR").kind = "ERR"
  BY DEF Simple
<1>3. CASE MULTI(c)
  <2> DEFINE s == [conn[c] EXCEPT !.in_multi = TRUE, !.queued_cmds = <<>>]
             v == [view[c] EXCEPT !.in_multi = TRUE, !.queued_cmds = <<>>]
  <2>1. Answer(c, "MULTI", Simple("OK"), s)
    BY <1>3, Zenon DEF MULTI
  <2>2. Learn(view[c], "MULTI", Simple("OK")) = v
    BY <1>2, LearnSomething
  <2>3. Knows(v, s)
    BY <1>1, KnowsTransaction
  <2> HIDE DEF s, v
  <2> QED
    BY <2>1, <2>2, <2>3, AnswerSync
<1>4. CASE DISCARD(c)
  <2> DEFINE s == [conn[c] EXCEPT !.in_multi = FALSE, !.queued_cmds = <<>>]
             v == [view[c] EXCEPT !.in_multi = FALSE, !.queued_cmds = <<>>]
  <2>1. Answer(c, "DISCARD", Simple("ERR"), conn[c]) \/ Answer(c, "DISCARD", Simple("OK"), s)
    BY <1>4, Zenon DEF DISCARD
  <2>2. Learn(view[c], "DISCARD", Simple("OK")) = v
    BY <1>2, LearnSomething
  <2>3. Knows(v, s)
    BY <1>1, KnowsTransaction
  <2> HIDE DEF s, v
  <2>4. CASE Answer(c, "DISCARD", Simple("ERR"), conn[c])
    BY <1>1, <1>2, <2>4, QuietReply
  <2>5. CASE Answer(c, "DISCARD", Simple("OK"), s)
    BY <2>2, <2>3, <2>5, AnswerSync
  <2> QED
    BY <2>1, <2>4, <2>5
<1> QED
  BY <1>3, <1>4

\* EXEC fails, ends the transaction on both sides, or ends the connection.
LEMMA ExecSync ==
  ASSUME SyncInv, NEW c \in Connections, EXEC(c)
  PROVE  SyncInv'
<1> DEFINE q   == conn[c].queued_cmds
           out == RunAll(Unbroken(q), conn[c].proto)
           s   == [conn[c] EXCEPT !.in_multi = FALSE, !.queued_cmds = <<>>]
           v   == [view[c] EXCEPT !.in_multi = FALSE, !.queued_cmds = <<>>]
           reply == Array(out.results)
<1>1. Open(c) /\ Knows(view[c], conn[c])
  BY OpenKnown DEF EXEC, Serve
<1>2. Knows(v, s)
  BY <1>1, KnowsTransaction
<1>3. reply.kind = "array"
  BY DEF Array
<1>4. \/ Answer(c, "EXEC", Simple("ERR"), conn[c])
      \/ Answer(c, "EXEC", reply, s)
      \/ /\ conn' = [conn EXCEPT ![c] = None] /\ view' = [view EXCEPT ![c] = None]
         /\ UNCHANGED <<requirepass, accepted, answered>>
  BY Zenon DEF EXEC
<1> HIDE DEF reply
<1>5. Learn(view[c], "EXEC", reply) = v
  BY <1>3, LearnSomething
<1> HIDE DEF s, v
<1>6. CASE Answer(c, "EXEC", Simple("ERR"), conn[c])
  <2>1. Simple("ERR").kind = "ERR"
    BY DEF Simple
  <2> QED
    BY <1>1, <1>6, <2>1, QuietReply
<1>7. CASE Answer(c, "EXEC", reply, s)
  BY <1>2, <1>5, <1>7, AnswerSync
<1>8. CASE /\ conn' = [conn EXCEPT ![c] = None] /\ view' = [view EXCEPT ![c] = None]
           /\ UNCHANGED <<requirepass, accepted, answered>>
  BY <1>8, OneConnection
<1> QED
  BY <1>4, <1>6, <1>7, <1>8

\* What dispatch answers with.
LEMMA DispatchKind ==
  ASSUME NEW d, NEW name \in DataCommand, NEW proto
  PROVE  Dispatch(d, name, proto).reply.kind \in {"int", "null", "value", "ERR"}
<1> DEFINE out == Dispatch(d, name, proto)
<1>1. \/ out.reply = Simple("ERR")
      \/ \E n : out.reply = Numbered("int", n)
      \/ \E n : out.reply = Numbered("null", n)
      \/ \E n : out.reply = Numbered("value", n)
  <2> DEFINE get   == Get(d, 0, counter)
             incr  == IncrBy(d, 0, counter, 1)
             reply == IF get.res = None THEN Numbered("null", proto)
                                        ELSE Numbered("value", get.res)
  <2>1. out = CASE name = "INCR" -> [db |-> incr.db, reply |-> Numbered("int", incr.res)]
                [] name = "GET"  -> [db |-> get.db, reply |-> reply]
                [] OTHER         -> [db |-> d, reply |-> Simple("ERR")]
    BY Zenon DEF Dispatch
  <2>2. reply = Numbered("null", proto) \/ reply = Numbered("value", get.res)
    BY Zenon
  <2> HIDE DEF out, get, incr, reply
  <2>3. CASE name = "INCR"
    BY <2>1, <2>3
  <2>4. CASE name = "GET"
    <3>1. out.reply = reply
      BY <2>1, <2>4
    <3> QED
      BY <2>2, <3>1, Zenon
  <2>5. CASE name # "INCR" /\ name # "GET"
    BY <2>1, <2>5
  <2> QED
    BY <2>3, <2>4, <2>5
<1>2. Simple("ERR").kind = "ERR"
  BY DEF Simple
<1>3. \A n : /\ Numbered("int", n).kind = "int" /\ Numbered("null", n).kind = "null"
             /\ Numbered("value", n).kind = "value"
  BY DEF Numbered
<1> HIDE DEF out
<1>4. out.reply.kind \in {"int", "null", "value", "ERR"}
  BY <1>1, <1>2, <1>3
<1> QED
  BY <1>4 DEF out

\* A data command is queued on both sides, or changes nothing of the connection.
LEMMA DataSync ==
  ASSUME SyncInv, NEW c \in Connections, NEW name \in DataCommand, Data(c, name)
  PROVE  SyncInv'
<1> DEFINE out == Dispatch(db, name, conn[c].proto)
           q   == conn[c].queued_cmds
           s   == SetQueue(conn[c], Append(q, name))
<1>1. Open(c) /\ Knows(view[c], conn[c]) /\ conn[c] \in Session
  BY OpenKnown DEF Data, Serve
<1>2. \/ Len(q) < MaxQueue /\ Answer(c, name, Simple("QUEUED"), s)
      \/ Answer(c, name, out.reply, conn[c])
  BY Zenon DEF Data, SetQueue
<1>3. CASE Len(q) < MaxQueue /\ Answer(c, name, Simple("QUEUED"), s)
  <2> DEFINE reply == Simple("QUEUED")
  <2>1. reply.kind = "QUEUED"
    BY DEF Simple
  <2> HIDE DEF reply, s
  <2>2. Learn(view[c], name, reply) = SetQueue(view[c], Append(view[c].queued_cmds, name))
    BY <2>1, LearnQueued
  <2>3. view[c].queued_cmds = q
    BY <1>1 DEF Knows
  <2>4. Append(q, name) \in BoundedSeq(DataCommand, MaxQueue)
    BY <1>1, <1>3, SessionFields, Queues
  <2>5. Knows(SetQueue(view[c], Append(q, name)), s)
    BY <1>1, <2>4, KnowsField DEF s
  <2>6. Answer(c, name, reply, s)
    BY <1>3 DEF reply
  <2> QED
    BY <2>2, <2>3, <2>5, <2>6, AnswerSync
<1>4. CASE Answer(c, name, out.reply, conn[c])
  <2>1. out.reply.kind \in {"int", "null", "value", "ERR"}
    BY DispatchKind
  <2> HIDE DEF out
  <2>2. out.reply.kind \notin {"OK", "hello", "QUEUED", "array"}
    BY <2>1
  <2> QED
    BY <1>1, <1>4, <2>2, QuietReply
<1> QED
  BY <1>2, <1>3, <1>4

\* Errors tell nothing and change nothing.
LEMMA ErrorSync ==
  ASSUME SyncInv, NEW c \in Connections, Empty(c) \/ NoAuth(c)
  PROVE  SyncInv'
<1>1. Open(c) /\ Knows(view[c], conn[c])
  BY OpenKnown DEF Empty, NoAuth
<1>2. Simple("ERR").kind = "ERR" /\ Simple("NOAUTH").kind = "NOAUTH"
  BY DEF Simple
<1> QED
  BY <1>1, <1>2, QuietReply DEF Empty, NoAuth

\* SyncInv holds before the first command.
LEMMA SyncInit == Init => SyncInv
<1> SUFFICES ASSUME Init PROVE SyncInv
  OBVIOUS
<1>1. \A c \in Connections : conn[c] = None /\ view[c] = None
  BY DEF Init
<1> QED
  BY <1>1 DEF Init, SyncInv

\* Every step keeps SyncInv.
LEMMA SyncNext == SyncInv /\ [Next]_vars => SyncInv'
<1> SUFFICES ASSUME SyncInv, [Next]_vars PROVE SyncInv'
  OBVIOUS
<1>1. CASE UNCHANGED vars
  BY <1>1 DEF vars, SyncInv, Knows, Session
<1>2. ASSUME NEW c \in Connections,
             \/ Connect(c) \/ Disconnect(c) \/ Empty(c)
             \/ \E p \in Password : AUTH(c, p)
             \/ \E version \in {2, 3, 4, None}, clauses \in Clauses : HELLO(c, version, clauses)
             \/ NoAuth(c) \/ MULTI(c) \/ EXEC(c) \/ DISCARD(c)
             \/ \E name \in DataCommand : Data(c, name)
      PROVE  SyncInv'
  BY <1>2, ConnectSync, ErrorSync, AuthSync, HelloSync, MultiSync, ExecSync, DataSync
<1> QED
  BY <1>1, <1>2, Zenon DEF Next

-----------------------------------------------------------------------------
(* Numbers                                                                 *)

\* A set of numbers that is not empty has a smallest element.
LEMMA SmallestNumber ==
  ASSUME NEW T \in SUBSET Nat, T # {}
  PROVE  \E n \in T : \A m \in T : n <= m
<1> DEFINE R == OpToRel(<, Nat)
<1>1. IsWellFoundedOn(R, Nat)
  BY NatLessThanWellFounded
<1>2. \A m, n \in Nat : m < n => <<m, n>> \in R
  BY DEF OpToRel
<1> HIDE DEF R
<1>3. PICK n \in T : \A m \in T : ~(<<m, n>> \in R)
  BY <1>1, WFMin
<1>4. ASSUME NEW m \in T PROVE n <= m
  <2>1. m \in Nat /\ n \in Nat
    OBVIOUS
  <2>2. ~(m < n)
    BY <1>2, <1>3, <2>1, Zenon
  <2> QED
    BY <2>1, <2>2
<1> QED
  BY <1>4

-----------------------------------------------------------------------------
(* The counter                                                             *)

CounterEntry(n) == [value |-> n, expires |-> None]

\* The store that holds nothing but a counter of n.
CounterDB(n) ==
  [data   |-> [k \in Keys |-> IF k = counter /\ n # 0 THEN CounterEntry(n) ELSE None],
   before |-> [k \in Keys |-> {}]]

\* What is in it.
LEMMA CounterStored ==
  ASSUME NEW n \in Nat
  PROVE  /\ CounterDB(n) \in DB
         /\ CounterEntry(n) \in Entry /\ CounterEntry(n) # None
         /\ Stored(CounterDB(n)) = IF n = 0 THEN {} ELSE {counter}
         /\ \A t : Live(CounterDB(n), t) = Stored(CounterDB(n))
         /\ n # 0 => CounterDB(n).data[counter] = CounterEntry(n)
<1>0. counter \in Keys
  BY ServerAssumption
<1>1. CounterEntry(n) \in Entry
  BY DEF CounterEntry, Entry, Value, Deadline
<1>2. CounterEntry(n) # None
  BY <1>1, StoreAssumption
<1>3. CounterDB(n) \in DB
  BY <1>1 DEF CounterDB, DB
<1>4. Stored(CounterDB(n)) = IF n = 0 THEN {} ELSE {counter}
  BY <1>0, <1>2 DEF Stored, CounterDB
<1>5. n # 0 => CounterDB(n).data[counter] = CounterEntry(n)
  BY <1>0 DEF CounterDB
<1>6. \A t : Live(CounterDB(n), t) = Stored(CounterDB(n))
  BY <1>4, <1>5 DEF Live, IsExpired, CounterEntry
<1> QED
  BY <1>1, <1>2, <1>3, <1>4, <1>5, <1>6

\* The only key is the last one anyway.
LEMMA CounterMoved ==
  ASSUME NEW n, Stored(CounterDB(n)) = {counter}
  PROVE  MoveToEnd(CounterDB(n), counter) = CounterDB(n)
<1> DEFINE b == [j \in Keys |-> IF j = counter THEN Stored(CounterDB(n)) \ {counter}
                                ELSE CounterDB(n).before[j] \ {counter}]
<1>1. \A j \in Keys : CounterDB(n).before[j] = {}
  BY DEF CounterDB
<1>2. b = [j \in Keys |-> {}]
  BY <1>1
<1>3. MoveToEnd(CounterDB(n), counter) = [CounterDB(n) EXCEPT !.before = b]
  BY Zenon DEF MoveToEnd
<1> HIDE DEF b
<1> QED
  BY <1>2, <1>3 DEF CounterDB

\* A lookup changes nothing.
LEMMA CounterLookup ==
  ASSUME NEW n \in Nat, NEW t
  PROVE  GetLive(CounterDB(n), t, counter) = CounterDB(n)
<1>1. CASE n = 0
  <2>1. GetLive(CounterDB(n), t, counter) = DelKeys(CounterDB(n), {counter})
    BY <1>1, CounterStored DEF GetLive
  <2> QED
    BY <1>1, <2>1 DEF DelKeys, CounterDB
<1>2. CASE n # 0
  <2>1. GetLive(CounterDB(n), t, counter) = MoveToEnd(CounterDB(n), counter)
    BY <1>2, CounterStored DEF GetLive
  <2>2. Stored(CounterDB(n)) = {counter}
    BY <1>2, CounterStored
  <2>3. MoveToEnd(CounterDB(n), counter) = CounterDB(n)
    BY <2>2, CounterMoved
  <2> QED
    BY <2>1, <2>3
<1> QED
  BY <1>1, <1>2

\* The next number is stored, and nothing is evicted for it.
LEMMA CounterPut ==
  ASSUME NEW n \in Nat
  PROVE  Put(CounterDB(n), counter, CounterEntry(n + 1)) = CounterDB(n + 1)
<1>1. PICK m \in Nat : m = n + 1 /\ m # 0
  OBVIOUS
<1>2. PICK w : w = Assign(CounterDB(n), counter, CounterEntry(m))
  OBVIOUS
<1>3. w = CounterDB(m)
  BY <1>1, <1>2 DEF Assign, CounterDB
<1>4. Stored(CounterDB(m)) = {counter} /\ CounterDB(m) \in DB
  BY <1>1, CounterStored
<1>5. MoveToEnd(w, counter) = CounterDB(m)
  BY <1>3, <1>4, CounterMoved
<1>6. EvictIfNeeded(CounterDB(m)) = CounterDB(m)
  <2>1. CASE MaxKeys = 0
    BY <2>1 DEF EvictIfNeeded
  <2>2. CASE MaxKeys # 0
    <3>1. Cardinality({counter}) = 1 /\ MaxKeys \in Nat
      BY FS_Singleton, StoreAssumption
    <3>2. PICK s : s = Cardinality(Stored(CounterDB(m))) - MaxKeys
      OBVIOUS
    <3>3. s <= 0 /\ s \in Int
      BY <1>4, <2>2, <3>1, <3>2
    <3>4. CounterDB(m).before[counter] = {} /\ Cardinality({}) = 0
      BY FS_EmptySet, ServerAssumption DEF CounterDB
    <3>5. {k \in Stored(CounterDB(m)) : Cardinality(CounterDB(m).before[k]) < s} = {}
      BY <1>4, <3>3, <3>4
    <3>6. EvictIfNeeded(CounterDB(m)) = DelKeys(CounterDB(m), {})
      BY <2>2, <3>2, <3>5 DEF EvictIfNeeded
    <3>7. DelKeys(CounterDB(m), {}) = CounterDB(m)
      BY DEF DelKeys, CounterDB
    <3> QED
      BY <3>6, <3>7
  <2> QED
    BY <2>1, <2>2
<1> QED
  BY <1>1, <1>2, <1>5, <1>6 DEF Put

\* GET reads the counter, INCR counts.
LEMMA CounterCommands ==
  ASSUME NEW n \in Nat
  PROVE  /\ Get(CounterDB(n), 0, counter)
              = [db |-> CounterDB(n), res |-> IF n = 0 THEN None ELSE n]
         /\ IncrBy(CounterDB(n), 0, counter, 1) = [db |-> CounterDB(n + 1), res |-> n + 1]
<1> DEFINE d   == CounterDB(n)
           old == IF counter \in Live(d, 0) THEN d.data[counter] ELSE [value |-> 0, expires |-> None]
<1>1. GetLive(d, 0, counter) = d
  BY CounterLookup
<1>2. counter \in Live(d, 0) <=> n # 0
  BY CounterStored
<1>3. Get(d, 0, counter) = [db |-> d, res |-> IF n = 0 THEN None ELSE n]
  <2>1. CounterEntry(n).value = n
    BY DEF CounterEntry
  <2>2. n # 0 => d.data[counter] = CounterEntry(n)
    BY CounterStored
  <2> HIDE DEF d
  <2> QED
    BY <1>1, <1>2, <2>1, <2>2 DEF Get
<1>4. old = CounterEntry(n)
  BY <1>2, CounterStored DEF CounterEntry
<1>5. old.value = n /\ [old EXCEPT !.value = old.value + 1] = CounterEntry(n + 1)
  BY <1>4 DEF CounterEntry
<1>6. n \notin Texts
  BY StoreAssumption
<1>7. IncrBy(d, 0, counter, 1)
        = IF old.value \in Texts
          THEN [db |-> d, res |-> ValueError]
          ELSE [db  |-> Put(d, counter, [old EXCEPT !.value = old.value + 1]),
                res |-> old.value + 1]
  BY <1>1, Zenon DEF IncrBy
<1>8. Put(d, counter, CounterEntry(n + 1)) = CounterDB(n + 1)
  BY CounterPut
<1> HIDE DEF old
<1> QED
  BY <1>3, <1>5, <1>6, <1>7, <1>8

-----------------------------------------------------------------------------
(* What EXEC runs                                                          *)

\* The INCRs among the first i commands of q.
IncrsTo(q, i) == Cardinality({j \in 1 .. i : q[j] = "INCR"})

\* There is one more of them, or not.
LEMMA IncrsNext ==
  ASSUME NEW q, NEW i \in Nat
  PROVE  /\ IncrsTo(q, i) \in Nat
         /\ IncrsTo(q, 0) = 0
         /\ IncrsTo(q, i + 1) = IF q[i + 1] = "INCR" THEN IncrsTo(q, i) + 1 ELSE IncrsTo(q, i)
<1> DEFINE S == {j \in 1 .. i : q[j] = "INCR"}
           T == {j \in 1 .. i + 1 : q[j] = "INCR"}
<1>1. IsFiniteSet(S) /\ Cardinality(S) \in Nat
  <2>1. IsFiniteSet(1 .. i)
    BY FS_Interval
  <2> QED
    BY <2>1, FS_Subset, FS_CardinalityType
<1>2. {j \in 1 .. 0 : q[j] = "INCR"} = {} /\ Cardinality({}) = 0
  BY FS_EmptySet
<1>3. CASE q[i + 1] = "INCR"
  <2>1. T = S \cup {i + 1} /\ i + 1 \notin S
    BY <1>3
  <2> HIDE DEF S, T
  <2>2. Cardinality(S \cup {i + 1}) = IF i + 1 \in S THEN Cardinality(S) ELSE Cardinality(S) + 1
    BY <1>1, FS_AddElement
  <2> QED
    BY <1>1, <1>2, <1>3, <2>1, <2>2 DEF IncrsTo, S, T
<1>4. CASE q[i + 1] # "INCR"
  <2>1. T = S
    BY <1>4
  <2> QED
    BY <1>1, <1>2, <1>4, <2>1 DEF IncrsTo
<1> QED
  BY <1>3, <1>4

\* What has been done after each of the first n commands of q.
IsRun(f, q, proto, n) ==
  f = [i \in 0 .. n |-> IF i = 0 THEN [db |-> db, results |-> <<>>]
                        ELSE RunOne(f[i - 1], q[i], proto)]

\* The definition of Running has a solution, for every number of commands.
LEMMA RunningExists ==
  ASSUME NEW q, NEW proto, NEW n \in Nat
  PROVE  \E f : IsRun(f, q, proto, n)
<1> DEFINE base    == [db |-> db, results |-> <<>>]
           P(f, m) == f = [i \in 0 .. m |-> IF i = 0 THEN base ELSE RunOne(f[i - 1], q[i], proto)]
           T       == {m \in Nat : ~ \E f : P(f, m)}
<1>1. T = {}
  <2> SUFFICES ASSUME T # {} PROVE FALSE
    OBVIOUS
  <2>1. T \in SUBSET Nat
    OBVIOUS
  <2>2. PICK m \in T : \A l \in T : m <= l
    <3> HIDE DEF T
    <3> QED
      BY <2>1, SmallestNumber
  <2>3. m \in Nat
    OBVIOUS
  <2>4. CASE m = 0
    <3> DEFINE f == [i \in 0 .. 0 |-> base]
    <3>1. P(f, 0)
      <4> HIDE DEF base
      <4> QED
        OBVIOUS
    <3> QED
      BY <2>4, <3>1, Zenon
  <2>5. CASE m # 0
    <3>1. m - 1 \in Nat /\ ~(m <= m - 1)
      BY <2>3, <2>5
    <3>2. m - 1 \notin T
      BY <2>2, <3>1
    <3>3. PICK g : P(g, m - 1)
      BY <3>1, <3>2
    <3> HIDE DEF base
    <3> DEFINE f == [i \in 0 .. m |-> IF i = m THEN RunOne(g[m - 1], q[m], proto) ELSE g[i]]
    <3>4. ASSUME NEW i \in 0 .. m - 1
          PROVE  g[i] = IF i = 0 THEN base ELSE RunOne(g[i - 1], q[i], proto)
      <4> DEFINE h == [l \in 0 .. m - 1 |-> IF l = 0 THEN base ELSE RunOne(g[l - 1], q[l], proto)]
      <4>1. h[i] = IF i = 0 THEN base ELSE RunOne(g[i - 1], q[i], proto)
        OBVIOUS
      <4>2. g = h
        BY <3>3, Zenon
      <4> QED
        BY <4>1, <4>2, Zenon
    <3>5. ASSUME NEW i \in 0 .. m
          PROVE  f[i] = IF i = 0 THEN base ELSE RunOne(f[i - 1], q[i], proto)
      <4>1. CASE i = m
        <5>1. f[m] = RunOne(g[m - 1], q[m], proto) /\ f[m - 1] = g[m - 1]
          BY <2>3, <3>1
        <5> QED
          BY <2>5, <4>1, <5>1
      <4>2. CASE i # m
        <5>1. i \in 0 .. m - 1 /\ f[i] = g[i]
          BY <2>3, <4>2
        <5>2. i # 0 => f[i - 1] = g[i - 1]
          BY <2>3, <4>2
        <5> HIDE DEF f
        <5> QED
          BY <3>4, <5>1, <5>2
      <4> QED
        BY <4>1, <4>2
    <3>6. P(f, m)
      <4> DEFINE h == [i \in 0 .. m |-> IF i = 0 THEN base ELSE RunOne(f[i - 1], q[i], proto)]
      <4>1. DOMAIN f = 0 .. m /\ f = [i \in 0 .. m |-> f[i]]
        OBVIOUS
      <4> HIDE DEF f
      <4>2. f = h
        BY <3>5, <4>1
      <4> QED
        BY <4>2, Zenon
    <3> HIDE DEF f
    <3> QED
      BY <3>6
  <2> QED
    BY <2>4, <2>5
<1>2. n \notin T
  BY <1>1
<1>3. \E f : P(f, n)
  BY <1>2
<1> QED
  BY <1>3, Zenon DEF IsRun

\* So Running is what its definition says.
LEMMA RunningIs ==
  ASSUME NEW q, NEW proto, Len(q) \in Nat
  PROVE  /\ Running(q, proto)[0] = [db |-> db, results |-> <<>>]
         /\ \A i \in 1 .. Len(q) :
              Running(q, proto)[i] = RunOne(Running(q, proto)[i - 1], q[i], proto)
<1> DEFINE base == [db |-> db, results |-> <<>>]
           P(f) == f = [i \in 0 .. Len(q) |-> IF i = 0 THEN base ELSE RunOne(f[i - 1], q[i], proto)]
<1>1. \E f : P(f)
  <2>1. \E f : IsRun(f, q, proto, Len(q))
    BY RunningExists
  <2> QED
    BY <2>1, Zenon DEF IsRun
<1>2. Running(q, proto) = CHOOSE f : P(f)
  BY Zenon DEF Running
<1>3. P(Running(q, proto))
  BY <1>1, <1>2, Zenon
<1> DEFINE R == Running(q, proto)
           h == [i \in 0 .. Len(q) |-> IF i = 0 THEN base ELSE RunOne(R[i - 1], q[i], proto)]
<1>4. R = h
  BY <1>3, Zenon
<1> HIDE DEF base, R
<1>5. h[0] = base /\ \A i \in 1 .. Len(q) : h[i] = RunOne(R[i - 1], q[i], proto)
  OBVIOUS
<1> HIDE DEF h
<1>6. R[0] = base /\ \A i \in 1 .. Len(q) : R[i] = RunOne(R[i - 1], q[i], proto)
  BY <1>4, <1>5
<1> QED
  BY <1>6 DEF base, R

\* The reply to the i-th command of q, when the counter was n before them.
ReplyAt(q, i, n, proto) ==
  LET m == n + IncrsTo(q, i)
  IN  CASE q[i] = "INCR" -> Numbered("int", m)
        [] q[i] = "GET"  -> IF m = 0 THEN Numbered("null", proto) ELSE Numbered("value", m)
        [] OTHER         -> Simple("ERR")

Replies(q, i, n, proto) == [j \in 1 .. i |-> ReplyAt(q, j, n, proto)]

\* What one more command makes of a counter.
LEMMA DispatchCounter ==
  ASSUME NEW q, NEW i \in Nat, NEW n \in Nat, NEW proto
  PROVE  Dispatch(CounterDB(n + IncrsTo(q, i)), q[i + 1], proto)
         = [db |-> CounterDB(n + IncrsTo(q, i + 1)), reply |-> ReplyAt(q, i + 1, n, proto)]
<1> DEFINE d     == CounterDB(n + IncrsTo(q, i))
           get   == Get(d, 0, counter)
           incr  == IncrBy(d, 0, counter, 1)
           found == IF get.res = None THEN Numbered("null", proto) ELSE Numbered("value", get.res)
<1>1. PICK m \in Nat : m = n + IncrsTo(q, i)
  BY IncrsNext
<1>2. get = [db |-> CounterDB(m), res |-> IF m = 0 THEN None ELSE m]
  BY <1>1, CounterCommands
<1>3. incr = [db |-> CounterDB(m + 1), res |-> m + 1]
  BY <1>1, CounterCommands
<1>4. n + IncrsTo(q, i + 1) = IF q[i + 1] = "INCR" THEN m + 1 ELSE m
  BY <1>1, IncrsNext
<1>5. found = IF m = 0 THEN Numbered("null", proto) ELSE Numbered("value", m)
  <2>1. m # None
    BY StoreAssumption
  <2> HIDE DEF get
  <2> QED
    BY <1>2, <2>1
<1>6. Dispatch(d, q[i + 1], proto)
      = CASE q[i + 1] = "INCR" -> [db |-> incr.db, reply |-> Numbered("int", incr.res)]
          [] q[i + 1] = "GET"  -> [db |-> get.db, reply |-> found]
          [] OTHER             -> [db |-> d, reply |-> Simple("ERR")]
  BY Zenon DEF Dispatch
<1>7. d = CounterDB(m)
  BY <1>1
<1> HIDE DEF d, get, incr, found
<1>8. CASE q[i + 1] = "INCR"
  <2>1. Dispatch(d, q[i + 1], proto) = [db |-> CounterDB(m + 1), reply |-> Numbered("int", m + 1)]
    BY <1>3, <1>6, <1>8
  <2>2. ReplyAt(q, i + 1, n, proto) = Numbered("int", m + 1)
    BY <1>4, <1>8 DEF ReplyAt
  <2> QED
    BY <1>4, <1>8, <2>1, <2>2 DEF d
<1>9. CASE q[i + 1] = "GET"
  <2>1. Dispatch(d, q[i + 1], proto) = [db |-> CounterDB(m), reply |-> found]
    BY <1>2, <1>6, <1>9
  <2>2. ReplyAt(q, i + 1, n, proto) = found
    BY <1>4, <1>5, <1>9 DEF ReplyAt
  <2> QED
    BY <1>4, <1>9, <2>1, <2>2 DEF d
<1>10. CASE q[i + 1] # "INCR" /\ q[i + 1] # "GET"
  <2>1. Dispatch(d, q[i + 1], proto) = [db |-> CounterDB(m), reply |-> Simple("ERR")]
    BY <1>6, <1>7, <1>10
  <2>2. ReplyAt(q, i + 1, n, proto) = Simple("ERR")
    BY <1>10 DEF ReplyAt
  <2> QED
    BY <1>4, <1>10, <2>1, <2>2 DEF d
<1> QED
  BY <1>8, <1>9, <1>10

\* One more reply.
LEMMA RepliesNext ==
  ASSUME NEW q, NEW i \in Nat, NEW n, NEW proto
  PROVE  /\ Replies(q, 0, n, proto) = <<>>
         /\ Append(Replies(q, i, n, proto), ReplyAt(q, i + 1, n, proto)) = Replies(q, i + 1, n, proto)
         /\ Len(Replies(q, i, n, proto)) = i
<1> DEFINE S == {ReplyAt(q, j, n, proto) : j \in 1 .. i + 1}
           r == Replies(q, i, n, proto)
<1>1. r \in [1 .. i -> S]
  BY DEF Replies
<1>2. r \in Seq(S) /\ Len(r) = i
  <2> HIDE DEF S, r
  <2> QED
    BY <1>1
<1>3. ReplyAt(q, i + 1, n, proto) \in S
  OBVIOUS
<1>4. \A j \in 1 .. i : r[j] = ReplyAt(q, j, n, proto)
  BY DEF Replies
<1> HIDE DEF S, r
<1>5. PICK e \in S : e = ReplyAt(q, i + 1, n, proto)
  BY <1>3
<1>6. /\ Append(r, e) \in Seq(S) /\ Len(Append(r, e)) = i + 1
      /\ \A j \in 1 .. i : Append(r, e)[j] = r[j]
      /\ Append(r, e)[i + 1] = e
  BY <1>2, AppendProperties
<1>7. Append(r, e) = [j \in 1 .. i + 1 |-> Append(r, e)[j]]
  BY <1>6, LenProperties
<1>8. \A j \in 1 .. i + 1 : Append(r, e)[j] = ReplyAt(q, j, n, proto)
  BY <1>4, <1>5, <1>6
<1>9. Append(r, e) = Replies(q, i + 1, n, proto)
  BY <1>7, <1>8 DEF Replies
<1>10. Replies(q, 0, n, proto) = <<>>
  BY DEF Replies
<1> QED
  BY <1>2, <1>5, <1>9, <1>10 DEF r

\* What has been done after i commands of q, if the counter was n before.
After(q, i, n, proto) ==
  [db |-> CounterDB(n + IncrsTo(q, i)), results |-> Replies(q, i, n, proto)]

\* One more command.
LEMMA AfterNext ==
  ASSUME NEW q, NEW i \in Nat, NEW n \in Nat, NEW proto
  PROVE  RunOne(After(q, i, n, proto), q[i + 1], proto) = After(q, i + 1, n, proto)
<1>1. PICK a : a = After(q, i, n, proto)
  OBVIOUS
<1>2. a.db = CounterDB(n + IncrsTo(q, i)) /\ a.results = Replies(q, i, n, proto)
  BY <1>1 DEF After
<1>3. PICK out : out = Dispatch(a.db, q[i + 1], proto)
  OBVIOUS
<1>4. out.db = CounterDB(n + IncrsTo(q, i + 1)) /\ out.reply = ReplyAt(q, i + 1, n, proto)
  <2>1. Dispatch(CounterDB(n + IncrsTo(q, i)), q[i + 1], proto)
        = [db |-> CounterDB(n + IncrsTo(q, i + 1)), reply |-> ReplyAt(q, i + 1, n, proto)]
    BY DispatchCounter
  <2> QED
    BY <1>2, <1>3, <2>1
<1>5. Append(a.results, out.reply) = Replies(q, i + 1, n, proto)
  BY <1>2, <1>4, RepliesNext
<1>6. RunOne(a, q[i + 1], proto) = [db |-> out.db, results |-> Append(a.results, out.reply)]
  BY <1>3, Zenon DEF RunOne
<1> QED
  BY <1>1, <1>4, <1>5, <1>6 DEF After

\* All of q, from a store that holds nothing but the counter.
LEMMA RunAllIs ==
  ASSUME NEW q, Len(q) \in Nat, NEW proto, NEW n \in Nat, db = CounterDB(n)
  PROVE  RunAll(q, proto) = After(q, Len(q), n, proto)
<1> DEFINE R == Running(q, proto)
           T == {i \in 0 .. Len(q) : R[i] # After(q, i, n, proto)}
<1>1. /\ R[0] = [db |-> db, results |-> <<>>]
      /\ \A i \in 1 .. Len(q) : R[i] = RunOne(R[i - 1], q[i], proto)
  BY RunningIs
<1>2. T = {}
  <2> SUFFICES ASSUME T # {} PROVE FALSE
    OBVIOUS
  <2>1. T \in SUBSET Nat
    OBVIOUS
  <2>2. PICK i \in T : \A j \in T : i <= j
    <3> HIDE DEF T
    <3> QED
      BY <2>1, SmallestNumber
  <2>3. i \in 0 .. Len(q) /\ R[i] # After(q, i, n, proto)
    OBVIOUS
  <2>4. CASE i = 0
    <3>1. n + IncrsTo(q, 0) = n
      BY IncrsNext
    <3>2. After(q, 0, n, proto) = [db |-> db, results |-> <<>>]
      BY <3>1, RepliesNext DEF After
    <3> QED
      BY <1>1, <2>3, <2>4, <3>2
  <2>5. CASE i # 0
    <3>1. PICK j \in Nat : j = i - 1
      BY <2>3, <2>5
    <3>2. j \in 0 .. Len(q) /\ ~(i <= j) /\ i = j + 1
      BY <2>3, <3>1
    <3>3. R[j] = After(q, j, n, proto)
      BY <2>2, <3>2
    <3>4. R[i] = RunOne(R[j], q[i], proto)
      BY <1>1, <2>3, <2>5, <3>1
    <3> HIDE DEF R
    <3>5. RunOne(After(q, j, n, proto), q[j + 1], proto) = After(q, j + 1, n, proto)
      BY AfterNext
    <3> QED
      BY <2>3, <3>2, <3>3, <3>4, <3>5
  <2> QED
    BY <2>4, <2>5
<1>3. R[Len(q)] = After(q, Len(q), n, proto)
  <2> HIDE DEF R
  <2> QED
    BY <1>2
<1> QED
  BY <1>3 DEF RunAll

-----------------------------------------------------------------------------
(* Counting commands                                                       *)

\* Moving a set of numbers does not change its size.
LEMMA ShiftedSize ==
  ASSUME NEW S \in SUBSET Int, IsFiniteSet(S), NEW k \in Int, NEW T, T = {i + k : i \in S}
  PROVE  IsFiniteSet(T) /\ Cardinality(T) = Cardinality(S)
<1> DEFINE f == [i \in S |-> i + k]
<1>1. f \in [S -> T]
  OBVIOUS
<1>2. \A i, j \in S : f[i] = f[j] => i = j
  OBVIOUS
<1>3. \A t \in T : \E i \in S : f[i] = t
  OBVIOUS
<1>4. ExistsBijection(S, T)
  <2> HIDE DEF f
  <2>1. f \in Surjection(S, T)
    BY <1>1, <1>3 DEF Surjection
  <2>2. f \in Injection(S, T)
    <3>1. DOMAIN f = S
      BY <1>1
    <3> QED
      BY <1>1, <1>2, <3>1 DEF Injection, IsInjective
  <2>3. f \in Bijection(S, T)
    BY <2>1, <2>2 DEF Bijection
  <2> QED
    BY <2>3, Zenon DEF ExistsBijection
<1> QED
  BY <1>4, FS_Bijection

\* A queue is a sequence of at most MaxQueue commands.
LEMMA QueueIs ==
  ASSUME NEW q \in BoundedSeq(DataCommand, MaxQueue)
  PROVE  /\ q \in Seq(DataCommand)
         /\ Len(q) \in 0 .. MaxQueue
         /\ DOMAIN q = 1 .. Len(q)
<1>1. PICK m \in 0 .. MaxQueue : q \in [1 .. m -> DataCommand]
  BY DEF BoundedSeq, SeqOf
<1> QED
  BY <1>1, ServerAssumption

\* The number of INCRs in a queue.
LEMMA IncrsIs ==
  ASSUME NEW q, Len(q) \in Nat, DOMAIN q = 1 .. Len(q)
  PROVE  /\ Incrs(q) = IncrsTo(q, Len(q))
         /\ IsFiniteSet(IncrsAt(q))
         /\ Incrs(q) \in Nat
<1>1. IncrsAt(q) = {j \in 1 .. Len(q) : q[j] = "INCR"}
  BY DEF IncrsAt
<1>2. IsFiniteSet(1 .. Len(q))
  BY FS_Interval
<1>3. IsFiniteSet(IncrsAt(q))
  BY <1>1, <1>2, FS_Subset
<1> QED
  BY <1>1, <1>3, IncrsNext DEF Incrs, IncrsTo

\* What is queued on the connections of C if f holds their sessions.
Pairs(f, C) == UNION {{c} \X IncrsAt(f[c].queued_cmds) : c \in {d \in C : f[d] # None}}

\* The INCRs queued on c.
Waiting(s) == IF s = None THEN 0 ELSE Incrs(s.queued_cmds)

\* The connections can be counted one by one.
LEMMA OneOfPairs ==
  ASSUME NEW f, \A d \in Connections : f[d] \in Session \cup {None}, NEW c \in Connections
  PROVE  /\ IsFiniteSet(Pairs(f, Connections \ {c}))
         /\ Cardinality(Pairs(f, Connections))
              = Cardinality(Pairs(f, Connections \ {c})) + Waiting(f[c])
         /\ Waiting(f[c]) \in Nat
<1> DEFINE A == Pairs(f, Connections \ {c})
           I == IncrsAt(f[c].queued_cmds)
<1>1. \A d \in Connections : f[d] # None => IncrsAt(f[d].queued_cmds) \in SUBSET (1 .. MaxQueue)
  <2> SUFFICES ASSUME NEW d \in Connections, f[d] # None
               PROVE  IncrsAt(f[d].queued_cmds) \in SUBSET (1 .. MaxQueue)
    OBVIOUS
  <2>1. PICK q \in BoundedSeq(DataCommand, MaxQueue) : q = f[d].queued_cmds
    BY SessionFields
  <2>2. Len(q) \in 0 .. MaxQueue /\ DOMAIN q = 1 .. Len(q)
    BY QueueIs
  <2> QED
    BY <2>1, <2>2, ServerAssumption DEF IncrsAt
<1>2. A \in SUBSET (Connections \X (1 .. MaxQueue))
  BY <1>1 DEF Pairs
<1>3. IsFiniteSet(Connections \X (1 .. MaxQueue)) /\ IsFiniteSet(1 .. MaxQueue)
  <2>1. IsFiniteSet(Connections) /\ IsFiniteSet(1 .. MaxQueue)
    BY ServerAssumption, FS_Interval
  <2> QED
    BY <2>1, FS_Product
<1>4. IsFiniteSet(A) /\ Cardinality(A) \in Nat
  BY <1>2, <1>3, FS_Subset, FS_CardinalityType
<1>5. CASE f[c] = None
  <2>1. Pairs(f, Connections) = A
    BY <1>5 DEF Pairs
  <2> QED
    BY <1>4, <1>5, <2>1 DEF Waiting
<1>6. CASE f[c] # None
  <2>1. Pairs(f, Connections) = A \cup ({c} \X I)
    BY <1>6 DEF Pairs
  <2>2. A \cap ({c} \X I) = {}
    BY DEF Pairs
  <2>3. IsFiniteSet(I) /\ Cardinality(I) \in Nat
    BY <1>1, <1>3, <1>6, FS_Subset, FS_CardinalityType
  <2>4. IsFiniteSet({c}) /\ Cardinality({c}) = 1
    BY FS_Singleton
  <2>5. IsFiniteSet({c} \X I) /\ Cardinality({c} \X I) = Cardinality({c}) * Cardinality(I)
    BY <2>3, <2>4, FS_Product
  <2>6. Cardinality(A \cup ({c} \X I))
          = Cardinality(A) + Cardinality({c} \X I) - Cardinality(A \cap ({c} \X I))
    BY <1>4, <2>5, FS_Union
  <2>7. Cardinality({}) = 0
    BY FS_EmptySet
  <2>8. Waiting(f[c]) = Cardinality(I)
    BY <1>6 DEF Waiting, Incrs
  <2> HIDE DEF A, I
  <2>9. Cardinality(A \cup ({c} \X I)) = Cardinality(A) + Cardinality(I)
    <3>1. PICK x : x = Cardinality({c} \X I)
      OBVIOUS
    <3>2. x = Cardinality(I)
      BY <2>3, <2>4, <2>5, <3>1
    <3>3. Cardinality(A \cup ({c} \X I)) = Cardinality(A) + x - 0
      BY <2>2, <2>6, <2>7, <3>1, Zenon
    <3> QED
      BY <1>4, <2>3, <3>2, <3>3
  <2> QED
    BY <1>4, <2>1, <2>3, <2>8, <2>9 DEF A
<1> QED
  BY <1>5, <1>6

\* When one connection changes, only what is queued there counts.
LEMMA QueuedChange ==
  ASSUME SyncInv, NEW c \in Connections, NEW s \in Session \cup {None},
         conn' = [conn EXCEPT ![c] = s]
  PROVE  /\ Cardinality(Queued) \in Nat /\ Cardinality(Queued') \in Nat
         /\ Waiting(s) \in Nat /\ Waiting(conn[c]) \in Nat
         /\ Waiting(conn[c]) <= Cardinality(Queued)
         /\ Cardinality(Queued') = Cardinality(Queued) - Waiting(conn[c]) + Waiting(s)
<1>1. \A d \in Connections : conn[d] \in Session \cup {None}
  BY DEF SyncInv, Knows
<1>2. \A d \in Connections : conn'[d] = IF d = c THEN s ELSE conn[d]
  BY DEF SyncInv
<1>3. \A d \in Connections : conn'[d] \in Session \cup {None}
  BY <1>1, <1>2
<1>4. Queued = Pairs(conn, Connections) /\ Queued' = Pairs(conn', Connections)
  BY Zenon DEF Queued, Pairs, Open
<1>5. PICK A : A = Pairs(conn, Connections \ {c})
  OBVIOUS
<1>6. A = Pairs(conn', Connections \ {c})
  BY <1>2, <1>5 DEF Pairs
<1>7. /\ IsFiniteSet(A) /\ Waiting(conn[c]) \in Nat
      /\ Cardinality(Queued) = Cardinality(A) + Waiting(conn[c])
  BY <1>1, <1>4, <1>5, OneOfPairs
<1>8. /\ Waiting(s) \in Nat
      /\ Cardinality(Queued') = Cardinality(A) + Waiting(s)
  BY ZenonT(40), <1>2, <1>3, <1>4, <1>6, OneOfPairs
<1>9. Cardinality(A) \in Nat
  BY <1>7, FS_CardinalityType
<1> QED
  BY <1>7, <1>8, <1>9

-----------------------------------------------------------------------------
(* What the replies count                                                  *)

\* A reply that is not an array counts for itself.
LEMMA IntsOfOne ==
  ASSUME NEW reply, reply.results = <<>>
  PROVE  Ints(<<reply>> \o reply.results) = IF reply.kind = "int" THEN 1 ELSE 0
<1>1. <<reply>> \o reply.results = <<reply>>
  <2>1. <<reply>> \in Seq({reply})
    OBVIOUS
  <2> QED
    BY <2>1, ConcatEmptySeq
<1>2. {i \in DOMAIN <<reply>> : <<reply>>[i].kind = "int"}
        = IF reply.kind = "int" THEN {1} ELSE {}
  OBVIOUS
<1>3. Cardinality({1}) = 1 /\ Cardinality({}) = 0
  BY FS_Singleton, FS_EmptySet
<1> QED
  BY <1>1, <1>2, <1>3 DEF Ints

\* What kind the replies of a run are.
LEMMA ReplyKind ==
  ASSUME NEW q, NEW i, NEW n, NEW proto
  PROVE  /\ ReplyAt(q, i, n, proto).results = <<>>
         /\ ReplyAt(q, i, n, proto).kind \in {"int", "null", "value", "ERR"}
         /\ ReplyAt(q, i, n, proto).kind = "int" <=> q[i] = "INCR"
<1>1. \A kind, m : Numbered(kind, m).kind = kind /\ Numbered(kind, m).results = <<>>
  BY DEF Numbered
<1>2. \A kind : Simple(kind).kind = kind /\ Simple(kind).results = <<>>
  BY DEF Simple
<1>3. PICK m : m = n + IncrsTo(q, i)
  OBVIOUS
<1>4. CASE q[i] = "INCR"
  <2>1. ReplyAt(q, i, n, proto) = Numbered("int", m)
    BY <1>3, <1>4 DEF ReplyAt
  <2> QED
    BY <1>1, <1>4, <2>1
<1>5. CASE q[i] = "GET"
  <2>1. \/ ReplyAt(q, i, n, proto) = Numbered("null", proto)
        \/ ReplyAt(q, i, n, proto) = Numbered("value", m)
    BY <1>3, <1>5 DEF ReplyAt
  <2> QED
    BY <1>1, <1>5, <2>1
<1>6. CASE q[i] # "INCR" /\ q[i] # "GET"
  <2>1. ReplyAt(q, i, n, proto) = Simple("ERR")
    BY <1>6 DEF ReplyAt
  <2> QED
    BY <1>2, <1>6, <2>1
<1> QED
  BY <1>4, <1>5, <1>6

\* The array of EXEC counts for each INCR in it.
LEMMA IntsOfRun ==
  ASSUME NEW q, NEW l \in Nat, NEW n, NEW proto, NEW reply,
         reply = Array(Replies(q, l, n, proto))
  PROVE  Ints(<<reply>> \o reply.results) = IncrsTo(q, l)
<1>1. PICK r : r = Replies(q, l, n, proto)
  OBVIOUS
<1> DEFINE S == {reply} \cup {r[j] : j \in 1 .. l}
           w == <<reply>> \o r
           I == {j \in 1 .. l : q[j] = "INCR"}
           J == {i \in DOMAIN w : w[i].kind = "int"}
<1>2. r = [j \in 1 .. l |-> ReplyAt(q, j, n, proto)]
  BY <1>1 DEF Replies
<1>3. r \in Seq(S) /\ Len(r) = l /\ <<reply>> \in Seq(S) /\ Len(<<reply>>) = 1
  <2>1. \A j \in 1 .. l : r[j] \in S
    OBVIOUS
  <2>2. r \in [1 .. l -> S]
    BY <1>2, <2>1
  <2> HIDE DEF S
  <2>3. r \in Seq(S) /\ Len(r) = l
    BY <2>2
  <2> QED
    BY <2>3 DEF S
<1>4. /\ w \in Seq(S) /\ Len(w) = l + 1
      /\ \A i \in 1 .. l + 1 : w[i] = IF i <= 1 THEN reply ELSE r[i - 1]
  <2> HIDE DEF S
  <2>1. /\ <<reply>> \o r \in Seq(S)
        /\ Len(<<reply>> \o r) = 1 + l
        /\ \A i \in 1 .. 1 + l : (<<reply>> \o r)[i] = IF i <= 1 THEN <<reply>>[i] ELSE r[i - 1]
    BY <1>3, ConcatProperties
  <2>2. l + 1 = 1 + l
    OBVIOUS
  <2>3. ASSUME NEW i \in 1 .. l + 1 PROVE w[i] = IF i <= 1 THEN reply ELSE r[i - 1]
    <3>1. w[i] = IF i <= 1 THEN <<reply>>[i] ELSE r[i - 1]
      BY <2>1, <2>2
    <3> HIDE DEF w
    <3>2. i <= 1 => <<reply>>[i] = reply
      OBVIOUS
    <3> QED
      BY <3>1, <3>2, Zenon
  <2> QED
    BY <2>1, <2>2, <2>3
<1>5. reply.kind = "array" /\ reply.results = r
  BY <1>1 DEF Array
<1> HIDE DEF w
<1>6. DOMAIN w = 1 .. l + 1
  BY <1>4
<1>7. \A j \in 1 .. l : w[j + 1].kind = "int" <=> q[j] = "INCR"
  <2> SUFFICES ASSUME NEW j \in 1 .. l PROVE w[j + 1].kind = "int" <=> q[j] = "INCR"
    OBVIOUS
  <2>1. w[j + 1] = r[j]
    BY <1>4
  <2>2. r[j] = ReplyAt(q, j, n, proto)
    BY <1>2
  <2> QED
    BY <2>1, <2>2, ReplyKind
<1>8. w[1].kind # "int"
  BY <1>4, <1>5
<1>9. J = {j + 1 : j \in I}
  <2>1. ASSUME NEW i \in J PROVE i \in {j + 1 : j \in I}
    <3>1. i \in 1 .. l + 1 /\ i # 1 /\ w[i].kind = "int"
      BY <1>6, <1>8
    <3>2. PICK j \in 1 .. l : i = j + 1
      BY <3>1
    <3>3. j \in I
      BY <1>7, <3>1, <3>2
    <3> QED
      BY <3>2, <3>3
  <2>2. ASSUME NEW j \in I PROVE j + 1 \in J
    BY <1>6, <1>7
  <2> QED
    BY <2>1, <2>2
<1>10. IsFiniteSet(I) /\ I \in SUBSET Int
  <2>1. IsFiniteSet(1 .. l)
    BY FS_Interval
  <2> QED
    BY <2>1, FS_Subset
<1>11. Cardinality(J) = Cardinality(I)
  <2> HIDE DEF I, J
  <2>1. PICK k \in Int : k = 1
    OBVIOUS
  <2>2. J = {j + k : j \in I}
    BY <1>9, <2>1
  <2> QED
    BY <1>10, <2>2, ShiftedSize
<1> QED
  BY <1>5, <1>11 DEF Ints, IncrsTo, w

-----------------------------------------------------------------------------
(* What is queued                                                          *)

\* A command more in the queue.
LEMMA IncrsAppend ==
  ASSUME NEW q \in BoundedSeq(DataCommand, MaxQueue), NEW name \in DataCommand
  PROVE  /\ Incrs(Append(q, name)) = IF name = "INCR" THEN Incrs(q) + 1 ELSE Incrs(q)
         /\ Incrs(q) \in Nat
         /\ Incrs(<<>>) = 0
<1> DEFINE w == Append(q, name)
<1>1. /\ q \in Seq(DataCommand) /\ Len(q) \in Nat /\ DOMAIN q = 1 .. Len(q)
  BY QueueIs, ServerAssumption
<1>2. /\ w \in Seq(DataCommand) /\ Len(w) = Len(q) + 1
      /\ \A j \in 1 .. Len(q) : w[j] = q[j]
      /\ w[Len(q) + 1] = name
  BY <1>1, AppendProperties
<1>3. Incrs(q) = IncrsTo(q, Len(q)) /\ Incrs(q) \in Nat
  BY <1>1, IncrsIs
<1> HIDE DEF w
<1>4. Len(w) \in Nat /\ DOMAIN w = 1 .. Len(w)
  BY <1>1, <1>2
<1>5. Incrs(w) = IncrsTo(w, Len(w))
  BY <1>4, IncrsIs
<1>6. IncrsTo(w, Len(q)) = IncrsTo(q, Len(q))
  <2>1. {j \in 1 .. Len(q) : w[j] = "INCR"} = {j \in 1 .. Len(q) : q[j] = "INCR"}
    BY <1>2
  <2> QED
    BY <2>1 DEF IncrsTo
<1>7. PICK l \in Nat : l = Len(q)
  BY <1>1
<1>8. IncrsTo(w, l + 1) = IF w[l + 1] = "INCR" THEN IncrsTo(w, l) + 1 ELSE IncrsTo(w, l)
  BY IncrsNext
<1>9. Incrs(w) = IF name = "INCR" THEN Incrs(q) + 1 ELSE Incrs(q)
  BY <1>2, <1>3, <1>5, <1>6, <1>7, <1>8
<1>10. Incrs(<<>>) = 0
  <2>1. IncrsAt(<<>>) = {}
    BY DEF IncrsAt
  <2> QED
    BY <2>1, FS_EmptySet DEF Incrs
<1> QED
  BY <1>3, <1>9, <1>10 DEF w

\* What EXEC runs is the beginning of the queue.
LEMMA UnbrokenIs ==
  ASSUME NEW q \in BoundedSeq(DataCommand, MaxQueue)
  PROVE  /\ Len(Unbroken(q)) \in Nat
         /\ IncrsTo(Unbroken(q), Len(Unbroken(q))) \in Nat
         /\ IncrsTo(Unbroken(q), Len(Unbroken(q))) <= Incrs(q)
         /\ Incrs(Unbroken(q)) = IncrsTo(Unbroken(q), Len(Unbroken(q)))
<1> DEFINE w == q \o <<"BROKEN">>
           I == {i \in 1 .. Len(w) : w[i] = "BROKEN"}
           k == SelectInSeq(w, LAMBDA name : name = "BROKEN")
<1>1. q \in Seq(DataCommand) /\ Len(q) \in Nat /\ DOMAIN q = 1 .. Len(q)
  BY QueueIs, ServerAssumption
<1>2. w \in Seq(DataCommand) /\ Len(w) = Len(q) + 1 /\ w[Len(q) + 1] = "BROKEN"
  <2>1. <<"BROKEN">> \in Seq(DataCommand) /\ Len(<<"BROKEN">>) = 1 /\ <<"BROKEN">>[1] = "BROKEN"
    BY DEF DataCommand
  <2>2. PICK b : b = <<"BROKEN">>
    OBVIOUS
  <2>3. /\ q \o b \in Seq(DataCommand) /\ Len(q \o b) = Len(q) + Len(b)
        /\ \A i \in 1 .. Len(q) + Len(b) :
             (q \o b)[i] = IF i <= Len(q) THEN q[i] ELSE b[i - Len(q)]
    BY <1>1, <2>1, <2>2, ConcatProperties
  <2>4. (q \o b)[Len(q) + 1] = b[1]
    BY <1>1, <2>1, <2>2, <2>3
  <2> QED
    BY <2>1, <2>2, <2>3, <2>4
<1> HIDE DEF w
<1>3. k \in I
  <2>1. I # {} /\ I \in SUBSET Nat
    BY <1>1, <1>2
  <2>2. k = Min(I)
    BY <2>1 DEF SelectInSeq
  <2> HIDE DEF I
  <2>3. \E i \in I : \A j \in I : i <= j
    BY <2>1, SmallestNumber
  <2> QED
    BY <2>2, <2>3 DEF Min
<1>4. k \in 1 .. Len(q) + 1
  BY <1>2, <1>3
<1>5. Unbroken(q) = SubSeq(q, 1, k - 1)
  BY Zenon DEF Unbroken, w
<1> HIDE DEF k
<1>6. PICK m \in 0 .. Len(q) : m = k - 1
  BY <1>1, <1>4
<1>7. PICK u : u = Unbroken(q)
  OBVIOUS
<1>8. Len(u) = m /\ DOMAIN u = 1 .. m /\ \A i \in 1 .. m : u[i] = q[i]
  <2>1. \A i \in 1 .. m : q[i] \in DataCommand
    BY <1>1
  <2>2. PICK one \in Int : one = 1
    OBVIOUS
  <2>3. /\ Len(SubSeq(q, one, m)) = IF one <= m THEN m - one + 1 ELSE 0
        /\ \A i \in 1 .. m - one + 1 : SubSeq(q, one, m)[i] = q[one + i - 1]
        /\ SubSeq(q, one, m) \in Seq(DataCommand)
    BY <2>1, <2>2, SubSeqProperties
  <2>4. u = SubSeq(q, one, m)
    BY <1>5, <1>6, <1>7, <2>2
  <2> QED
    BY <2>2, <2>3, <2>4
<1>9. IncrsTo(u, m) \in Nat
  BY IncrsNext
<1>10. IncrsTo(u, m) <= Incrs(q)
  <2> DEFINE A == {j \in 1 .. m : u[j] = "INCR"}
             B == IncrsAt(q)
  <2>1. A \in SUBSET B
    BY <1>1, <1>8 DEF IncrsAt
  <2>2. IsFiniteSet(B)
    BY <1>1, IncrsIs
  <2> HIDE DEF A, B
  <2>3. Cardinality(A) <= Cardinality(B)
    BY <2>1, <2>2, FS_Subset
  <2> QED
    BY <2>3 DEF A, B, IncrsTo, Incrs
<1>11. Incrs(u) = IncrsTo(u, m)
  BY <1>8 DEF Incrs, IncrsAt, IncrsTo
<1> QED
  BY <1>7, <1>8, <1>9, <1>10, <1>11

-----------------------------------------------------------------------------
(* The invariant of the counter                                            *)

\* A counter of n: what was answered or lost its answer; what is queued is to come.
Counts(n) ==
  /\ db = CounterDB(n)
  /\ n = answered + unanswered
  /\ n + Cardinality(Queued) <= accepted

CountInv ==
  /\ SyncInv
  /\ exec.conn \in Connections \cup {None}
  /\ accepted \in 0 .. MaxIncr
  /\ answered \in Nat
  /\ unanswered \in Nat
  /\ \E n \in Nat : Counts(n)

\* The INCRs queued on a session.
LEMMA WaitingOf ==
  ASSUME NEW s \in Session
  PROVE  /\ Waiting(s) = Incrs(s.queued_cmds) /\ Waiting(s) \in Nat
         /\ s.queued_cmds = <<>> => Waiting(s) = 0
<1>1. s # None
  BY SessionFields
<1>2. PICK q \in BoundedSeq(DataCommand, MaxQueue) : q = s.queued_cmds
  BY SessionFields
<1>3. "GET" \in DataCommand
  BY DEF DataCommand
<1>4. Incrs(q) \in Nat /\ Incrs(<<>>) = 0
  BY <1>3, IncrsAppend
<1> QED
  BY <1>1, <1>2, <1>4 DEF Waiting

\* A connection becomes s: done INCRs are counted, given of them answered with a
\* number, lost of them not, and more are accepted.
LEMMA CountStep ==
  ASSUME CountInv, SyncInv', NEW c \in Connections, NEW s, conn' = [conn EXCEPT ![c] = s],
         NEW n \in Nat, Counts(n), NEW done \in Nat, NEW given \in Nat, NEW more \in Nat,
         db' = CounterDB(n + done), answered' = answered + given,
         NEW lost \in Nat, unanswered' = unanswered + lost, done = given + lost,
         accepted' = accepted + more, accepted + more <= MaxIncr,
         Waiting(s) + done <= Waiting(conn[c]) + more,
         exec'.conn \in Connections \cup {None}
  PROVE  CountInv'
<1>1. s \in Session \cup {None}
  <2>1. conn'[c] = s
    BY DEF CountInv, SyncInv
  <2> QED
    BY <2>1 DEF SyncInv, Knows
<1>2. /\ Cardinality(Queued) \in Nat /\ Cardinality(Queued') \in Nat
      /\ Waiting(s) \in Nat /\ Waiting(conn[c]) \in Nat
      /\ Cardinality(Queued') = Cardinality(Queued) - Waiting(conn[c]) + Waiting(s)
  BY <1>1, QueuedChange DEF CountInv
<1>3. answered \in Nat /\ unanswered \in Nat /\ accepted \in Nat /\ MaxIncr \in Nat
  BY ServerAssumption DEF CountInv
<1>4. PICK m \in Nat : m = n + done
  OBVIOUS
<1>5. db' = CounterDB(m)
  BY <1>4
<1>6. m = answered' + unanswered'
  BY <1>3, <1>4 DEF Counts
<1>7. m + Cardinality(Queued') <= accepted'
  BY <1>2, <1>3, <1>4 DEF Counts
<1>8. Counts(m)'
  BY <1>5, <1>6, <1>7 DEF Counts, CounterDB, CounterEntry
<1>9. accepted' \in 0 .. MaxIncr /\ answered' \in Nat /\ unanswered' \in Nat
  BY <1>3
<1> QED
  BY <1>8, <1>9 DEF CountInv

\* A reply that is no number, to a client that queues nothing.
LEMMA AnswerCount ==
  ASSUME CountInv, SyncInv', NEW c \in Connections, NEW name, NEW reply, NEW s,
         Answer(c, name, reply, s), name # "INCR" \/ reply.kind # "QUEUED",
         reply.results = <<>>, reply.kind \notin {"int", "array"},
         Waiting(s) <= Waiting(conn[c]), db' = db
  PROVE  CountInv'
<1>1. PICK n \in Nat : Counts(n)
  BY DEF CountInv
<1>2. Ints(<<reply>> \o reply.results) = 0
  BY IntsOfOne
<1>3. /\ conn' = [conn EXCEPT ![c] = s]
      /\ exec' = NoExec
      /\ accepted' = accepted
      /\ answered' = answered + Ints(<<reply>> \o reply.results)
      /\ unanswered' = unanswered
  BY DEF Answer
<1>4. accepted \in 0 .. MaxIncr /\ MaxIncr \in Nat /\ unanswered \in Nat
  BY ServerAssumption DEF CountInv
<1>5. PICK z \in Nat : z = 0
  OBVIOUS
<1>6. /\ accepted' = accepted + z /\ accepted + z <= MaxIncr /\ answered' = answered + z
      /\ unanswered' = unanswered + z
  BY <1>2, <1>3, <1>4, <1>5
<1>7. Waiting(s) + z <= Waiting(conn[c]) + z
  <2>1. s \in Session \cup {None} /\ conn[c] \in Session \cup {None}
    <3>1. conn'[c] = s
      BY <1>3 DEF CountInv, SyncInv
    <3> QED
      BY <3>1 DEF CountInv, SyncInv, Knows
  <2>2. Waiting(s) \in Nat /\ Waiting(conn[c]) \in Nat
    <3>1. Waiting(None) = 0
      BY DEF Waiting
    <3> QED
      BY <2>1, <3>1, WaitingOf
  <2> QED
    BY <1>5, <2>2
<1>8. db' = CounterDB(n + z) /\ z = z + z
  BY <1>1, <1>5 DEF Counts
<1>9. exec'.conn \in Connections \cup {None}
  BY <1>3 DEF NoExec
<1> QED
  BY <1>1, <1>3, <1>6, <1>7, <1>8, <1>9, CountStep

\* The same when only other fields of the session change.
LEMMA QuietCount ==
  ASSUME CountInv, SyncInv', NEW c \in Connections, NEW name, NEW reply, NEW s, Open(c),
         Answer(c, name, reply, s), name # "INCR" \/ reply.kind # "QUEUED",
         reply.results = <<>>, reply.kind \notin {"int", "array"},
         s.queued_cmds = <<>> \/ s.queued_cmds = conn[c].queued_cmds, s # None, db' = db
  PROVE  CountInv'
<1>1. s \in Session /\ conn[c] \in Session
  <2>1. conn' = [conn EXCEPT ![c] = s]
    BY DEF Answer
  <2>2. conn'[c] = s
    BY <2>1 DEF CountInv, SyncInv
  <2> QED
    BY <2>2 DEF CountInv, SyncInv, Knows, Open
<1>2. Waiting(s) <= Waiting(conn[c])
  BY <1>1, WaitingOf
<1> QED
  BY <1>2, AnswerCount

\* Kinds of simple replies.
LEMMA SimpleIs ==
  /\ \A kind : Simple(kind).kind = kind /\ Simple(kind).results = <<>>
  /\ \A kind, n : Numbered(kind, n).kind = kind /\ Numbered(kind, n).results = <<>>
                  /\ Numbered(kind, n).n = n
BY DEF Simple, Numbered

-----------------------------------------------------------------------------
(* The counter: the actions                                                *)

\* A connection that begins or ends counts nothing, and what was queued on it
\* is never counted.
LEMMA ConnectCount ==
  ASSUME CountInv, SyncInv', NEW c \in Connections, Connect(c) \/ Disconnect(c)
  PROVE  CountInv'
<1>1. PICK n \in Nat : Counts(n)
  BY DEF CountInv
<1>2. PICK s : /\ conn' = [conn EXCEPT ![c] = s]
               /\ s = NewSession \/ s = None
  BY DEF Connect, Disconnect
<1>3. Waiting(s) = 0
  <2>1. CASE s = None
    BY <2>1 DEF Waiting
  <2>2. CASE s = NewSession
    <3>1. NewSession \in Session
      BY Queues DEF NewSession, Session, CountInv, SyncInv
    <3>2. NewSession.queued_cmds = <<>>
      BY DEF NewSession
    <3> QED
      BY <2>2, <3>1, <3>2, WaitingOf
  <2> QED
    BY <1>2, <2>1, <2>2
<1>4. Waiting(conn[c]) \in Nat
  <2>1. conn[c] \in Session \cup {None}
    BY DEF CountInv, SyncInv, Knows
  <2> QED
    BY <2>1, WaitingOf DEF Waiting
<1>5. PICK z \in Nat : z = 0
  OBVIOUS
<1>6. /\ db' = db /\ accepted' = accepted /\ answered' = answered /\ exec' = NoExec
      /\ unanswered' = unanswered
  BY DEF Connect, Disconnect
<1>7. /\ accepted' = accepted + z /\ accepted + z <= MaxIncr /\ answered' = answered + z
      /\ Waiting(s) + z <= Waiting(conn[c]) + z /\ z = z + z /\ unanswered' = unanswered + z
  BY <1>3, <1>4, <1>5, <1>6, ServerAssumption DEF CountInv
<1>8. db' = CounterDB(n + z)
  BY <1>1, <1>5, <1>6 DEF Counts
<1>9. exec'.conn \in Connections \cup {None}
  BY <1>6 DEF NoExec
<1> QED
  BY <1>1, <1>2, <1>7, <1>8, <1>9, CountStep

\* Errors count nothing.
LEMMA ErrorCount ==
  ASSUME CountInv, SyncInv', NEW c \in Connections, Empty(c) \/ NoAuth(c)
  PROVE  CountInv'
<1>1. Open(c) /\ db' = db /\ conn[c] # None
  BY DEF Empty, NoAuth, Open
<1>2. \E name : \E reply \in {Simple("ERR"), Simple("NOAUTH")} :
        name # "INCR" /\ Answer(c, name, reply, conn[c])
  BY DEF Empty, NoAuth
<1> QED
  BY <1>1, <1>2, SimpleIs, QuietCount

\* AUTH counts nothing.
LEMMA AuthCount ==
  ASSUME CountInv, SyncInv', NEW c \in Connections, NEW password, AUTH(c, password)
  PROVE  CountInv'
<1>1. Open(c) /\ conn[c] \in Session /\ db' = db /\ conn[c] # None
  BY DEF AUTH, Open, CountInv, SyncInv, Knows
<1> DEFINE s == SetAuthenticated(conn[c], TRUE)
<1>2. \/ Answer(c, "AUTH", Simple("ERR"), conn[c])
      \/ Answer(c, "AUTH", Simple("WRONGPASS"), conn[c])
      \/ Answer(c, "AUTH", Simple("OK"), s)
  BY Zenon DEF AUTH, SetAuthenticated
<1>3. s.queued_cmds = conn[c].queued_cmds /\ s \in Session
  BY <1>1 DEF SetAuthenticated, Session
<1>4. s # None
  BY <1>3, SessionFields
<1> HIDE DEF s
<1> QED
  BY <1>1, <1>2, <1>3, <1>4, SimpleIs, QuietCount

\* A session whose transaction begins or ends.
LEMMA EmptiedQueue ==
  ASSUME NEW t \in Session, NEW b \in BOOLEAN, NEW s,
         s = [t EXCEPT !.in_multi = b, !.queued_cmds = <<>>]
  PROVE  s \in Session /\ s # None /\ s.queued_cmds = <<>> /\ s.in_multi = b
<1>1. s = SetQueue(SetMulti(t, b), <<>>)
  BY Zenon DEF SetQueue, SetMulti
<1>2. SetQueue(SetMulti(t, b), <<>>) \in Session
  BY Queues DEF SetQueue, SetMulti, Session
<1>3. s.queued_cmds = <<>> /\ s.in_multi = b
  BY <1>1 DEF SetQueue, SetMulti, Session
<1> QED
  BY <1>1, <1>2, <1>3, SessionFields

\* HELLO counts nothing.
LEMMA HelloCount ==
  ASSUME CountInv, SyncInv', NEW c \in Connections, NEW version \in {2, 3, 4, None}, NEW clauses,
         HELLO(c, version, clauses)
  PROVE  CountInv'
<1> DEFINE b     == clauses # <<>> /\ clauses[1] = "right"
           auth  == conn[c].authenticated \/ b
           s     == [conn[c] EXCEPT !.authenticated = auth]
           proto == IF version = None THEN s.proto ELSE version
           t     == [s EXCEPT !.proto = proto]
<1>1. Open(c) /\ conn[c] \in Session /\ db' = db /\ conn[c] # None
  BY DEF HELLO, Open, CountInv, SyncInv, Knows
<1>2. \/ Answer(c, "HELLO", Simple("NOPROTO"), conn[c])
      \/ Answer(c, "HELLO", Simple("WRONGPASS"), s)
      \/ Answer(c, "HELLO", Simple("NOAUTH"), s)
      \/ version # 4 /\ Answer(c, "HELLO", Numbered("hello", proto), t)
  BY Zenon DEF HELLO
<1>3. auth \in BOOLEAN /\ s = SetAuthenticated(conn[c], auth)
  BY Zenon, <1>1, SessionFields DEF SetAuthenticated
<1> HIDE DEF b, auth, s
<1>4. s \in Session /\ s.queued_cmds = conn[c].queued_cmds
  BY <1>1, <1>3 DEF SetAuthenticated, Session
<1>5. version # 4 => proto \in {2, 3}
  BY <1>4, SessionFields
<1>6. t = SetProto(s, proto)
  BY Zenon DEF SetProto
<1> HIDE DEF proto, t
<1>7. version # 4 => t \in Session /\ t.queued_cmds = conn[c].queued_cmds
  BY <1>4, <1>5, <1>6 DEF SetProto, Session
<1>8. s # None /\ (version # 4 => t # None)
  BY <1>4, <1>7, SessionFields
<1>9. CASE \/ Answer(c, "HELLO", Simple("NOPROTO"), conn[c])
           \/ Answer(c, "HELLO", Simple("WRONGPASS"), s)
           \/ Answer(c, "HELLO", Simple("NOAUTH"), s)
  BY <1>1, <1>4, <1>8, <1>9, SimpleIs, QuietCount
<1>10. CASE version # 4 /\ Answer(c, "HELLO", Numbered("hello", proto), t)
  BY <1>1, <1>7, <1>8, <1>10, SimpleIs, QuietCount
<1> QED
  BY <1>2, <1>9, <1>10

\* MULTI and DISCARD drop what is queued, it is never counted.
LEMMA MultiCount ==
  ASSUME CountInv, SyncInv', NEW c \in Connections, MULTI(c) \/ DISCARD(c)
  PROVE  CountInv'
<1> DEFINE s == [conn[c] EXCEPT !.in_multi = TRUE, !.queued_cmds = <<>>]
           t == [conn[c] EXCEPT !.in_multi = FALSE, !.queued_cmds = <<>>]
<1>1. Open(c) /\ conn[c] \in Session /\ db' = db /\ conn[c] # None
  BY DEF MULTI, DISCARD, Serve, Open, CountInv, SyncInv, Knows
<1>2. s # None /\ s.queued_cmds = <<>> /\ t # None /\ t.queued_cmds = <<>>
  <2>1. s # None /\ s.queued_cmds = <<>>
    <3>1. s = [conn[c] EXCEPT !.in_multi = TRUE, !.queued_cmds = <<>>]
      OBVIOUS
    <3> HIDE DEF s, t
    <3> QED
      BY <1>1, <3>1, EmptiedQueue
  <2>2. t # None /\ t.queued_cmds = <<>>
    <3>1. t = [conn[c] EXCEPT !.in_multi = FALSE, !.queued_cmds = <<>>]
      OBVIOUS
    <3> HIDE DEF s, t
    <3> QED
      BY <1>1, <3>1, EmptiedQueue
  <2> QED
    BY <2>1, <2>2
<1>3. \/ Answer(c, "MULTI", Simple("OK"), s)
      \/ Answer(c, "DISCARD", Simple("ERR"), conn[c])
      \/ Answer(c, "DISCARD", Simple("OK"), t)
  BY Zenon DEF MULTI, DISCARD
<1> HIDE DEF s, t
<1> QED
  BY <1>1, <1>2, <1>3, SimpleIs, QuietCount

\* EXEC counts each INCR that was queued, and answers it; when a command makes
\* dispatch raise, those before it have been counted and nobody is told.
LEMMA ExecCount ==
  ASSUME CountInv, SyncInv', NEW c \in Connections, EXEC(c)
  PROVE  CountInv'
<1>1. PICK n \in Nat : Counts(n)
  BY DEF CountInv
<1>2. Open(c) /\ conn[c] \in Session /\ conn[c] # None
  BY DEF EXEC, Serve, Open, CountInv, SyncInv, Knows
<1>3. PICK q \in BoundedSeq(DataCommand, MaxQueue) : q = conn[c].queued_cmds
  BY <1>2, SessionFields
<1>4. PICK proto : proto = conn[c].proto
  OBVIOUS
<1>5. PICK u : u = Unbroken(q)
  OBVIOUS
<1>6. PICK s : s = [conn[c] EXCEPT !.in_multi = FALSE, !.queued_cmds = <<>>]
  OBVIOUS
<1>7. s # None /\ s.queued_cmds = <<>> /\ s \in Session
  BY <1>2, <1>6, EmptiedQueue
<1>8. PICK l : l = Len(u)
  OBVIOUS
<1>9. l \in Nat /\ IncrsTo(u, l) \in Nat /\ IncrsTo(u, l) <= Waiting(conn[c])
  <2>1. Waiting(conn[c]) = Incrs(q)
    BY <1>2, <1>3, WaitingOf
  <2> QED
    BY <1>5, <1>8, <2>1, UnbrokenIs
<1>10. PICK out : out = RunAll(u, proto)
  OBVIOUS
<1>11. out = After(u, l, n, proto)
  BY <1>1, <1>8, <1>9, <1>10, RunAllIs DEF Counts
<1>12. PICK r : r = Replies(u, l, n, proto)
  OBVIOUS
<1>13. PICK done \in Nat : done = IncrsTo(u, l)
  BY <1>9
<1>14. out.db = CounterDB(n + done) /\ out.results = r
  BY <1>11, <1>12, <1>13 DEF After
<1>15. \/ Answer(c, "EXEC", Simple("ERR"), conn[c]) /\ db' = db
       \/ db' = out.db /\ Answer(c, "EXEC", Array(out.results), s)
       \/ /\ db' = out.db
          /\ conn' = [conn EXCEPT ![c] = None]
          /\ exec' = NoExec
          /\ unanswered' = unanswered + Incrs(Unbroken(view[c].queued_cmds))
          /\ UNCHANGED <<requirepass, accepted, answered>>
  <2>1. conn[c].queued_cmds = q /\ Unbroken(q) = u /\ RunAll(u, conn[c].proto) = out
    BY <1>3, <1>4, <1>5, <1>10
  <2>2. EXEC(c)
    OBVIOUS
  <2> QED
    BY <1>6, <2>1, <2>2, Zenon DEF EXEC
<1>16. PICK z \in Nat : z = 0
  OBVIOUS
<1>17. accepted' = accepted => accepted' = accepted + z /\ accepted + z <= MaxIncr
  BY <1>16, ServerAssumption DEF CountInv
<1>18. CASE Answer(c, "EXEC", Simple("ERR"), conn[c]) /\ db' = db
  BY <1>2, <1>18, SimpleIs, QuietCount
<1>19. CASE db' = out.db /\ Answer(c, "EXEC", Array(out.results), s)
  <2>1. PICK reply : reply = Array(r)
    OBVIOUS
  <2>2. Answer(c, "EXEC", reply, s)
    BY <1>14, <1>19, <2>1
  <2>3. Ints(<<reply>> \o reply.results) = done
    BY <1>9, <1>12, <1>13, <2>1, IntsOfRun
  <2>4. reply.kind = "array" /\ reply.results = r
    BY <2>1 DEF Array
  <2>5. /\ conn' = [conn EXCEPT ![c] = s]
        /\ exec' = [conn |-> c, results |-> r]
        /\ accepted' = accepted
        /\ answered' = answered + done
        /\ unanswered' = unanswered + z
    <3>1. unanswered \in Nat
      BY DEF CountInv
    <3> QED
      BY <1>16, <2>2, <2>3, <2>4, <3>1 DEF Answer
  <2>6. exec'.conn \in Connections \cup {None}
    BY <2>5
  <2>7. Waiting(s) = 0 /\ Waiting(conn[c]) \in Nat
    BY <1>2, <1>7, WaitingOf
  <2>8. Waiting(s) + done <= Waiting(conn[c]) + z /\ done = done + z
    BY <1>9, <1>13, <1>16, <2>7
  <2>9. db' = CounterDB(n + done)
    BY <1>14, <1>19
  <2> QED
    BY <1>1, <1>17, <2>5, <2>6, <2>8, <2>9, CountStep
<1>20. CASE /\ db' = out.db
            /\ conn' = [conn EXCEPT ![c] = None]
            /\ exec' = NoExec
            /\ unanswered' = unanswered + Incrs(Unbroken(view[c].queued_cmds))
            /\ UNCHANGED <<requirepass, accepted, answered>>
  <2>1. PICK t : t = None
    OBVIOUS
  <2>2. Waiting(t) = 0 /\ Waiting(conn[c]) \in Nat
    BY <1>2, <2>1, WaitingOf DEF Waiting
  <2>3. Waiting(t) + done <= Waiting(conn[c]) + z /\ done = z + done
    BY <1>9, <1>13, <1>16, <2>2
  <2>4. conn' = [conn EXCEPT ![c] = t] /\ db' = CounterDB(n + done)
    BY <1>14, <1>20, <2>1
  <2>5. accepted' = accepted /\ answered' = answered /\ answered \in Nat
    BY <1>20 DEF CountInv
  <2>6. answered' = answered + z
    BY <1>16, <2>5
  <2>7. exec'.conn \in Connections \cup {None}
    BY <1>20 DEF NoExec
  <2>8. unanswered' = unanswered + done
    <3>1. view[c].queued_cmds = q
      BY <1>2, <1>3 DEF CountInv, SyncInv, Knows
    <3>2. Incrs(Unbroken(view[c].queued_cmds)) = done
      BY <1>5, <1>8, <1>13, <3>1, UnbrokenIs
    <3> QED
      BY <1>20, <3>2
  <2> QED
    BY <1>1, <1>17, <2>3, <2>4, <2>5, <2>6, <2>7, <2>8, CountStep
<1> QED
  BY <1>15, <1>18, <1>19, <1>20

\* A command is queued, which changes the queue of its connection, or carried
\* out, which changes the counter.
LEMMA DataCount ==
  ASSUME CountInv, SyncInv', NEW c \in Connections, NEW name \in DataCommand, Data(c, name)
  PROVE  CountInv'
<1> DEFINE out == Dispatch(db, name, conn[c].proto)
<1>1. PICK n \in Nat : Counts(n)
  BY DEF CountInv
<1>2. Open(c) /\ conn[c] \in Session /\ conn[c] # None
  BY DEF Data, Serve, Open, CountInv, SyncInv, Knows
<1>3. PICK q \in BoundedSeq(DataCommand, MaxQueue) : q = conn[c].queued_cmds
  BY <1>2, SessionFields
<1>4. Waiting(conn[c]) = Incrs(q) /\ Waiting(conn[c]) \in Nat
  BY <1>2, <1>3, WaitingOf
<1>5. PICK one \in Nat : one = IF name = "INCR" THEN 1 ELSE 0
  OBVIOUS
<1>6. PICK z \in Nat : z = 0
  OBVIOUS
<1>7. accepted + one <= MaxIncr /\ accepted \in Nat /\ unanswered \in Nat
  <2>1. accepted \in 0 .. MaxIncr /\ MaxIncr \in Nat /\ unanswered \in Nat
    BY ServerAssumption DEF CountInv
  <2>2. name = "INCR" => accepted < MaxIncr
    BY DEF Data
  <2> QED
    BY <1>5, <2>1, <2>2
<1>8. \/ /\ Len(q) < MaxQueue
         /\ Answer(c, name, Simple("QUEUED"), SetQueue(conn[c], Append(q, name)))
         /\ db' = db
      \/ db' = out.db /\ Answer(c, name, out.reply, conn[c])
  <2>1. Data(c, name)
    OBVIOUS
  <2> QED
    BY <1>3, <2>1, Zenon DEF Data, SetQueue
<1>9. CASE /\ Len(q) < MaxQueue
           /\ Answer(c, name, Simple("QUEUED"), SetQueue(conn[c], Append(q, name)))
           /\ db' = db
  <2>1. PICK s : s = SetQueue(conn[c], Append(q, name))
    OBVIOUS
  <2>2. Append(q, name) \in BoundedSeq(DataCommand, MaxQueue)
    BY <1>9, Queues
  <2>3. s \in Session /\ s.queued_cmds = Append(q, name)
    BY <1>2, <2>1, <2>2 DEF SetQueue, Session
  <2>4. Waiting(s) = IF name = "INCR" THEN Incrs(q) + 1 ELSE Incrs(q)
    BY ZenonT(40), <2>3, WaitingOf, IncrsAppend
  <2>5. Waiting(s) + z <= Waiting(conn[c]) + one
    BY <1>4, <1>5, <1>6, <2>4
  <2>6. PICK reply : reply = Simple("QUEUED")
    OBVIOUS
  <2>7. reply.kind = "QUEUED" /\ reply.results = <<>>
    BY <2>6, SimpleIs
  <2>8. Answer(c, name, reply, s)
    BY <1>9, <2>1, <2>6
  <2>9. Ints(<<reply>> \o reply.results) = 0
    BY <2>7, IntsOfOne
  <2>10. /\ conn' = [conn EXCEPT ![c] = s]
         /\ exec' = NoExec
         /\ accepted' = IF name = "INCR" THEN accepted + 1 ELSE accepted
         /\ answered' = answered + 0
         /\ unanswered' = unanswered
    BY <2>7, <2>8, <2>9 DEF Answer
  <2>11. /\ accepted' = accepted + one /\ answered' = answered + z
         /\ z = z + z /\ unanswered' = unanswered + z
    BY <1>5, <1>6, <1>7, <2>10
  <2>12. db' = CounterDB(n + z)
    BY <1>1, <1>6, <1>9 DEF Counts
  <2>13. exec'.conn \in Connections \cup {None}
    BY <2>10 DEF NoExec
  <2> QED
    BY <1>1, <1>7, <2>5, <2>10, <2>11, <2>12, <2>13, CountStep
<1>10. CASE db' = out.db /\ Answer(c, name, out.reply, conn[c])
  <2>1. PICK proto : proto = conn[c].proto
    OBVIOUS
  <2>2. PICK w : w = <<name>>
    OBVIOUS
  <2>3. PICK reply : reply = ReplyAt(w, 1, n, proto)
    OBVIOUS
  <2>4. PICK s : s = conn[c]
    OBVIOUS
  <2>5. w[0 + 1] = name /\ IncrsTo(w, 0 + 1) = one
    <3>1. w[0 + 1] = name
      BY <2>2
    <3>2. IncrsTo(w, 0) = 0
      BY IncrsNext
    <3>3. IncrsTo(w, 0 + 1) = IF w[0 + 1] = "INCR" THEN IncrsTo(w, 0) + 1 ELSE IncrsTo(w, 0)
      BY IncrsNext
    <3> QED
      BY <1>5, <3>1, <3>2, <3>3
  <2>6. out = [db |-> CounterDB(n + one), reply |-> reply]
    <3>1. Dispatch(CounterDB(n + IncrsTo(w, 0)), w[0 + 1], proto)
          = [db |-> CounterDB(n + IncrsTo(w, 0 + 1)), reply |-> ReplyAt(w, 0 + 1, n, proto)]
      BY DispatchCounter
    <3>2. n + IncrsTo(w, 0) = n
      BY IncrsNext
    <3>3. ReplyAt(w, 0 + 1, n, proto) = reply
      BY <2>3
    <3>4. db = CounterDB(n)
      BY <1>1 DEF Counts
    <3> QED
      BY <2>1, <2>5, <3>1, <3>2, <3>3, <3>4
  <2>7. /\ reply.results = <<>> /\ reply.kind \in {"int", "null", "value", "ERR"}
        /\ reply.kind = "int" <=> name = "INCR"
    BY <2>3, <2>5, ReplyKind
  <2>8. Ints(<<reply>> \o reply.results) = one
    BY <1>5, <2>7, IntsOfOne
  <2>9. Answer(c, name, reply, s) /\ db' = CounterDB(n + one)
    BY <1>10, <2>4, <2>6
  <2>10. /\ conn' = [conn EXCEPT ![c] = s]
         /\ exec' = NoExec
         /\ accepted' = IF name = "INCR" THEN accepted + 1 ELSE accepted
         /\ answered' = answered + one
         /\ unanswered' = unanswered
    BY <2>7, <2>8, <2>9 DEF Answer
  <2>11. accepted' = accepted + one /\ one = one + z /\ unanswered' = unanswered + z
    BY <1>5, <1>6, <1>7, <2>10
  <2>12. Waiting(s) + one <= Waiting(conn[c]) + one
    BY <1>4, <2>4
  <2>13. exec'.conn \in Connections \cup {None}
    BY <2>10 DEF NoExec
  <2> QED
    BY <1>1, <1>7, <2>9, <2>10, <2>11, <2>12, <2>13, CountStep
<1> QED
  BY <1>8, <1>9, <1>10

\* No more is queued than can be counted.
LEMMA QueuedSize ==
  ASSUME SyncInv
  PROVE  Cardinality(Queued) \in Nat
<1>1. \A d \in Connections : conn[d] \in Session \cup {None}
  BY DEF SyncInv, Knows
<1>2. Queued = Pairs(conn, Connections)
  BY Zenon DEF Queued, Pairs, Open
<1>3. CASE Connections = {}
  <2>1. Queued = {}
    BY <1>2, <1>3 DEF Pairs
  <2> QED
    BY <2>1, FS_EmptySet
<1>4. CASE Connections # {}
  <2>1. PICK c \in Connections : TRUE
    BY <1>4
  <2>2. /\ IsFiniteSet(Pairs(conn, Connections \ {c})) /\ Waiting(conn[c]) \in Nat
        /\ Cardinality(Queued) = Cardinality(Pairs(conn, Connections \ {c})) + Waiting(conn[c])
    BY <1>1, <1>2, <2>1, OneOfPairs
  <2>3. Cardinality(Pairs(conn, Connections \ {c})) \in Nat
    BY <2>2, FS_CardinalityType
  <2> QED
    BY <2>2, <2>3
<1> QED
  BY <1>3, <1>4

\* CountInv holds before the first command.
LEMMA CountInit == Init => CountInv
<1> SUFFICES ASSUME Init PROVE CountInv
  OBVIOUS
<1>1. SyncInv
  BY SyncInit
<1>2. Cardinality(Queued) = 0
  <2>1. Queued = {}
    BY DEF Init, Queued, Open
  <2> QED
    BY <2>1, FS_EmptySet
<1>3. PICK z \in Nat : z = 0
  OBVIOUS
<1>4. CounterDB(z) = EmptyDB
  BY <1>3 DEF CounterDB, EmptyDB
<1>5. Counts(z)
  BY <1>2, <1>3, <1>4 DEF Init, Counts
<1> QED
  BY <1>1, <1>5, ServerAssumption DEF Init, NoExec, CountInv

\* Every step keeps it.
LEMMA CountNext == CountInv /\ SyncInv' /\ [Next]_vars => CountInv'
<1> SUFFICES ASSUME CountInv, SyncInv', [Next]_vars PROVE CountInv'
  OBVIOUS
<1>1. CASE UNCHANGED vars
  <2>1. PICK n \in Nat : Counts(n)
    BY DEF CountInv
  <2>2. Counts(n)'
    BY <1>1, <2>1 DEF vars, Counts, CounterDB, CounterEntry, Queued, Open, IncrsAt
  <2> QED
    BY <1>1, <2>2 DEF vars, CountInv
<1>2. ASSUME NEW c \in Connections,
             \/ Connect(c) \/ Disconnect(c) \/ Empty(c)
             \/ \E p \in Password : AUTH(c, p)
             \/ \E version \in {2, 3, 4, None}, clauses \in Clauses : HELLO(c, version, clauses)
             \/ NoAuth(c) \/ MULTI(c) \/ EXEC(c) \/ DISCARD(c)
             \/ \E name \in DataCommand : Data(c, name)
      PROVE  CountInv'
  BY <1>2, ConnectCount, ErrorCount, AuthCount, HelloCount, MultiCount, ExecCount, DataCount
<1> QED
  BY <1>1, <1>2, Zenon DEF Next

\* What CountInv says of the counter and of the types.
LEMMA CountIs == CountInv => CountExact /\ TypeOK
<1> SUFFICES ASSUME CountInv PROVE CountExact /\ TypeOK
  OBVIOUS
<1>1. PICK n \in Nat : Counts(n)
  BY DEF CountInv
<1>2. Cardinality(Queued) \in Nat
  BY QueuedSize DEF CountInv
<1>3. Counter = n
  <2>1. counter \in Keys /\ db = CounterDB(n)
    BY <1>1, ServerAssumption DEF Counts
  <2>2. CASE n = 0
    <3>1. db.data[counter] = None
      BY <2>1, <2>2 DEF CounterDB
    <3> QED
      BY <2>2, <3>1 DEF Counter
  <2>3. CASE n # 0
    <3>1. db.data[counter] = CounterEntry(n) /\ CounterEntry(n) # None
      BY <2>1, <2>3, CounterStored
    <3> QED
      BY <3>1 DEF Counter, CounterEntry
  <2> QED
    BY <2>2, <2>3
<1>4. CountExact
  BY <1>1, <1>3 DEF Counts, CountExact
<1>5. db \in DB
  BY <1>1, CounterStored DEF Counts
<1>6. answered \in 0 .. MaxIncr /\ unanswered \in 0 .. MaxIncr
  BY <1>1, <1>2, ServerAssumption DEF Counts, CountInv
<1>7. \A c \in Connections : conn[c] \in Session \cup {None} /\ view[c] \in Session \cup {None}
  BY DEF CountInv, SyncInv, Knows
<1>8. conn \in [Connections -> Session \cup {None}] /\ view \in [Connections -> Session \cup {None}]
  <2>1. conn = [c \in Connections |-> conn[c]] /\ view = [c \in Connections |-> view[c]]
    BY DEF CountInv, SyncInv
  <2> QED
    BY <1>7, <2>1
<1> QED
  BY <1>4, <1>5, <1>6, <1>8 DEF CountInv, SyncInv, TypeOK

-----------------------------------------------------------------------------
(* EXEC's answer                                                           *)

\* The INCRs after the i-th command of q, up to the j-th.
LEMMA IncrsBetween ==
  ASSUME NEW q \in BoundedSeq(DataCommand, MaxQueue),
         NEW i \in DOMAIN q, NEW j \in DOMAIN q, i < j
  PROVE  IncrsTo(q, j) = IncrsTo(q, i) + Incrs(SubSeq(q, i + 1, j))
<1> DEFINE A == {l \in 1 .. i : q[l] = "INCR"}
           B == {l \in 1 .. j : q[l] = "INCR" /\ i < l}
           u == SubSeq(q, i + 1, j)
           C == IncrsAt(u)
<1>1. /\ q \in Seq(DataCommand) /\ Len(q) \in Nat /\ DOMAIN q = 1 .. Len(q)
      /\ i \in 1 .. Len(q) /\ j \in 1 .. Len(q)
  BY QueueIs, ServerAssumption
<1>2. Len(u) = j - i /\ DOMAIN u = 1 .. j - i /\ \A l \in 1 .. j - i : u[l] = q[i + l]
  <2>1. PICK m \in Int : m = i + 1
    BY <1>1
  <2>2. \A l \in m .. j : q[l] \in DataCommand
    BY <1>1, <2>1
  <2>3. /\ SubSeq(q, m, j) \in Seq(DataCommand)
        /\ Len(SubSeq(q, m, j)) = IF m <= j THEN j - m + 1 ELSE 0
        /\ \A l \in 1 .. j - m + 1 : SubSeq(q, m, j)[l] = q[m + l - 1]
    BY <1>1, <2>2, SubSeqProperties
  <2>4. PICK v : v = SubSeq(q, m, j)
    OBVIOUS
  <2>5. v = u
    BY <2>1, <2>4
  <2>6. v \in Seq(DataCommand) /\ Len(v) = j - i
    BY <1>1, <2>1, <2>3, <2>4
  <2>7. \A l \in 1 .. j - i : v[l] = q[i + l]
    <3> SUFFICES ASSUME NEW l \in 1 .. j - i PROVE v[l] = q[i + l]
      OBVIOUS
    <3>1. j - m + 1 = j - i /\ m + l - 1 = i + l
      BY <1>1, <2>1
    <3> QED
      BY <2>3, <2>4, <3>1
  <2> HIDE DEF u
  <2> QED
    BY <2>5, <2>6, <2>7
<1> HIDE DEF u
<1>3. C = {l \in 1 .. j - i : q[i + l] = "INCR"}
  BY <1>2 DEF IncrsAt
<1>4. B = {l + i : l \in C}
  <2>1. ASSUME NEW l \in B PROVE l \in {m + i : m \in C}
    <3>0. l - i \in 1 .. j - i /\ l = (l - i) + i /\ l = i + (l - i)
      BY <1>1
    <3>1. PICK m \in 1 .. j - i : l = m + i /\ l = i + m
      BY <3>0
    <3>2. m \in C
      BY <1>3, <3>1
    <3> QED
      BY <3>1, <3>2
  <2>2. ASSUME NEW m \in C PROVE m + i \in B
    <3>1. m \in 1 .. j - i /\ q[i + m] = "INCR" /\ m + i = i + m
      BY <1>1, <1>3
    <3> QED
      BY <1>1, <3>1
  <2> QED
    BY <2>1, <2>2
<1>5. IsFiniteSet(A) /\ IsFiniteSet(C) /\ C \in SUBSET Int
  <2>1. IsFiniteSet(1 .. i) /\ IsFiniteSet(1 .. j - i)
    <3>1. 1 \in Int /\ i \in Int /\ j - i \in Int
      BY <1>1
    <3> QED
      BY <3>1, FS_Interval
  <2>2. IsFiniteSet(A)
    BY <2>1, FS_Subset
  <2>3. C \in SUBSET (1 .. j - i)
    BY <1>3
  <2>4. IsFiniteSet(C)
    BY <2>1, <2>3, FS_Subset
  <2> QED
    BY <1>1, <2>2, <2>3, <2>4
<1>6. IsFiniteSet(B) /\ Cardinality(B) = Cardinality(C)
  <2>1. PICK k \in Int : k = i
    BY <1>1
  <2>2. B = {l + k : l \in C}
    BY <1>4, <2>1
  <2> HIDE DEF B, C
  <2> QED
    BY <1>5, <2>2, ShiftedSize
<1>7. {l \in 1 .. j : q[l] = "INCR"} = A \cup B /\ A \cap B = {}
  BY <1>1
<1> HIDE DEF A, B, C
<1>8. Cardinality(A \cup B) = Cardinality(A) + Cardinality(B) - Cardinality(A \cap B)
  BY <1>5, <1>6, FS_Union
<1>9. Cardinality(A) \in Nat /\ Cardinality(C) \in Nat /\ Cardinality({}) = 0
  BY <1>5, FS_CardinalityType, FS_EmptySet
<1>10. Cardinality(A \cup B) = Cardinality(A) + Cardinality(C) - 0
  BY <1>6, <1>7, <1>8, <1>9, Zenon
<1>11. IncrsTo(q, j) = Cardinality(A \cup B)
  BY <1>7, Zenon DEF IncrsTo
<1>12. Cardinality(A) = IncrsTo(q, i) /\ Cardinality(C) = Incrs(u)
  BY Zenon DEF IncrsTo, Incrs, A, C
<1>13. IncrsTo(q, j) = IncrsTo(q, i) + Incrs(u)
  BY <1>9, <1>10, <1>11, <1>12
<1> QED
  BY <1>13 DEF u

\* What an answered EXEC shows.
ExecAnswer(c) ==
  LET q == view[c].queued_cmds
      r == exec'.results
  IN  /\ Len(r) = Len(q)
      /\ \A i \in DOMAIN q : Fits(q[i], r[i], view[c].proto)
      /\ \A i, j \in DOMAIN q :
           i < j /\ q[i] = "INCR" /\ q[j] = "INCR"
             => r[j].n - r[i].n = Incrs(SubSeq(q, i + 1, j))

\* Every reply of a run fits its command.
LEMMA ReplyFits ==
  ASSUME NEW q, NEW i, NEW n, NEW proto, q[i] \in DataCommand
  PROVE  Fits(q[i], ReplyAt(q, i, n, proto), proto)
<1>1. PICK m : m = n + IncrsTo(q, i)
  OBVIOUS
<1>2. PICK x : x = ReplyAt(q, i, n, proto)
  OBVIOUS
<1>3. CASE q[i] = "INCR"
  <2>1. x.kind = "int"
    BY <1>2, <1>3, ReplyKind
  <2> QED
    BY <1>2, <1>3, <2>1 DEF Fits
<1>4. CASE q[i] = "GET"
  <2>1. x = Numbered("null", proto) \/ x = Numbered("value", m)
    BY <1>1, <1>2, <1>4 DEF ReplyAt
  <2>2. x.kind = "value" \/ x = Numbered("null", proto)
    BY <2>1, SimpleIs
  <2> QED
    BY <1>2, <1>4, <2>2 DEF Fits
<1>5. CASE q[i] # "INCR" /\ q[i] # "GET"
  <2>1. x = Simple("ERR")
    BY <1>2, <1>5 DEF ReplyAt
  <2>2. x.kind = "ERR"
    BY <2>1, SimpleIs
  <2> QED
    BY <1>2, <1>5, <2>2 DEF Fits
<1> QED
  BY <1>3, <1>4, <1>5

\* So an EXEC that answers answers what its client has queued.
LEMMA ExecShows ==
  ASSUME CountInv, NEW c \in Connections, EXEC(c), exec'.conn # None
  PROVE  exec'.conn = c /\ ExecAnswer(c)
<1>1. PICK n \in Nat : db = CounterDB(n)
  BY DEF CountInv, Counts
<1>2. /\ conn[c] \in Session /\ view[c].queued_cmds = conn[c].queued_cmds
      /\ view[c].proto = conn[c].proto
  BY OpenKnown DEF EXEC, Serve, CountInv, Knows
<1>3. PICK q \in BoundedSeq(DataCommand, MaxQueue) : q = conn[c].queued_cmds
  BY <1>2, SessionFields
<1>4. PICK proto : proto = conn[c].proto
  OBVIOUS
<1>5. PICK out : out = RunAll(q, proto)
  OBVIOUS
<1>6. PICK l \in Nat : l = Len(q) /\ DOMAIN q = 1 .. l /\ q \in Seq(DataCommand)
  BY QueueIs, ServerAssumption
<1>7. PICK r : r = Replies(q, l, n, proto)
  OBVIOUS
<1>8. out.results = r
  BY <1>1, <1>5, <1>6, <1>7, RunAllIs DEF After
<1>9. exec' = NoExec \/ exec' = [conn |-> c, results |-> r]
  <2> DEFINE s == [conn[c] EXCEPT !.in_multi = FALSE, !.queued_cmds = <<>>]
  <2>1. \/ Answer(c, "EXEC", Simple("ERR"), conn[c])
        \/ Unbroken(q) = q /\ Answer(c, "EXEC", Array(RunAll(Unbroken(q), proto).results), s)
        \/ exec' = NoExec
    <3>1. EXEC(c)
      OBVIOUS
    <3> QED
      BY <1>3, <1>4, <3>1, Zenon DEF EXEC
  <2> HIDE DEF s
  <2>2. CASE Answer(c, "EXEC", Simple("ERR"), conn[c])
    BY <2>2, SimpleIs DEF Answer
  <2>3. CASE Unbroken(q) = q /\ Answer(c, "EXEC", Array(RunAll(Unbroken(q), proto).results), s)
    <3>1. Answer(c, "EXEC", Array(r), s)
      BY <1>5, <1>8, <2>3
    <3>2. Array(r).kind = "array" /\ Array(r).results = r
      BY DEF Array
    <3> QED
      BY <3>1, <3>2 DEF Answer
  <2> QED
    BY <2>1, <2>2, <2>3
<1>10. exec' = [conn |-> c, results |-> r]
  BY <1>9 DEF NoExec
<1>11. Len(r) = l /\ \A i \in 1 .. l : r[i] = ReplyAt(q, i, n, proto)
  BY <1>7, RepliesNext DEF Replies
<1>12. ASSUME NEW i \in DOMAIN q PROVE Fits(q[i], r[i], proto)
  BY <1>6, <1>11, ReplyFits
<1>13. ASSUME NEW i \in DOMAIN q, NEW j \in DOMAIN q, i < j, q[i] = "INCR", q[j] = "INCR"
       PROVE  r[j].n - r[i].n = Incrs(SubSeq(q, i + 1, j))
  <2>1. PICK a \in Nat : a = IncrsTo(q, i)
    BY <1>6, IncrsNext
  <2>2. PICK b \in Nat : b = IncrsTo(q, j)
    BY <1>6, IncrsNext
  <2>3. r[i] = Numbered("int", n + a) /\ r[j] = Numbered("int", n + b)
    BY <1>6, <1>11, <1>13, <2>1, <2>2 DEF ReplyAt
  <2>4. r[i].n = n + a /\ r[j].n = n + b
    BY <2>3, SimpleIs
  <2>5. PICK x : x = Incrs(SubSeq(q, i + 1, j))
    OBVIOUS
  <2>6. b = a + x
    BY <1>13, <2>1, <2>2, <2>5, IncrsBetween
  <2>7. x \in Nat
    <3>1. PICK m \in Int : m = i + 1
      BY <1>6
    <3>2. j \in Int /\ \A k \in m .. j : q[k] \in DataCommand
      BY <1>6, <3>1
    <3>3. SubSeq(q, m, j) \in Seq(DataCommand)
      BY <3>2, SubSeqProperties
    <3>4. PICK v \in Seq(DataCommand) : v = SubSeq(q, i + 1, j)
      BY <3>1, <3>3
    <3> QED
      BY <2>5, <3>4, IncrsIs
  <2> QED
    BY <2>4, <2>5, <2>6, <2>7
<1> QED
  BY <1>2, <1>3, <1>4, <1>6, <1>10, <1>11, <1>12, <1>13 DEF ExecAnswer

\* Nobody else answers with an array.
LEMMA OnlyExecShows ==
  ASSUME CountInv, NEW c \in Connections,
         \/ Connect(c) \/ Disconnect(c) \/ Empty(c)
         \/ \E p \in Password : AUTH(c, p)
         \/ \E version \in {2, 3, 4, None}, clauses \in Clauses : HELLO(c, version, clauses)
         \/ NoAuth(c) \/ MULTI(c) \/ DISCARD(c)
         \/ \E name \in DataCommand : Data(c, name)
  PROVE  exec'.conn = None
<1>1. \A name, reply, s : Answer(c, name, reply, s) /\ reply.kind # "array" => exec' = NoExec
  BY DEF Answer
<1>2. NoExec.conn = None
  BY DEF NoExec
<1>3. CASE Connect(c) \/ Disconnect(c)
  BY <1>2, <1>3 DEF Connect, Disconnect
<1>4. CASE Empty(c) \/ NoAuth(c)
  BY <1>1, <1>2, <1>4, SimpleIs DEF Empty, NoAuth
<1>5. ASSUME NEW p, AUTH(c, p) PROVE exec'.conn = None
  <2>1. \E name, kind, s : kind # "array" /\ Answer(c, name, Simple(kind), s)
    BY <1>5, Zenon DEF AUTH
  <2> QED
    BY <1>1, <1>2, <2>1, SimpleIs
<1>6. ASSUME NEW version, NEW clauses, HELLO(c, version, clauses) PROVE exec'.conn = None
  <2>1. \/ \E name, kind, s : kind # "array" /\ Answer(c, name, Simple(kind), s)
        \/ \E name, n, s : Answer(c, name, Numbered("hello", n), s)
    BY <1>6, Zenon DEF HELLO
  <2> QED
    BY <1>1, <1>2, <2>1, SimpleIs
<1>7. CASE MULTI(c) \/ DISCARD(c)
  <2>1. \E name, kind, s : kind # "array" /\ Answer(c, name, Simple(kind), s)
    BY <1>7, Zenon DEF MULTI, DISCARD
  <2> QED
    BY <1>1, <1>2, <2>1, SimpleIs
<1>8. ASSUME NEW name \in DataCommand, Data(c, name) PROVE exec'.conn = None
  <2>1. PICK reply : reply = Dispatch(db, name, conn[c].proto).reply
    OBVIOUS
  <2>2. \E s : Answer(c, name, Simple("QUEUED"), s) \/ Answer(c, name, reply, s)
    BY <1>8, <2>1, Zenon DEF Data
  <2>3. reply.kind # "array"
    BY <2>1, DispatchKind
  <2> QED
    BY <1>1, <1>2, <2>2, <2>3, SimpleIs
<1> QED
  BY <1>3, <1>4, <1>5, <1>6, <1>7, <1>8

-----------------------------------------------------------------------------
(* Theorems                                                                *)

\* server.py:39-151: a client that sees nothing but the replies to its own
\* commands knows whether its handler is in MULTI, which commands it has queued
\* and which version it answers in, for any number of connections and any length
\* of the queue.
THEOREM ClientKnows == Spec => []ClientInSync
BY SyncInit, SyncNext, SyncIsClientInSync, PTL DEF Spec

\* Every INCR is queued, counted or dropped: the invariant of the counter.
THEOREM CountInvariant == Spec => []CountInv
<1>1. SyncInv /\ [Next]_vars => SyncInv'
  BY SyncNext
<1> QED
  BY <1>1, SyncInit, CountInit, CountNext, PTL DEF Spec, CountInv

\* store.py:86, PRD.md:891: whichever commands the connections interleave, the
\* counter has counted exactly the INCRs that were answered with a number and
\* those that an EXEC ran before it raised: none twice, none that is still queued
\* or that was dropped.
THEOREM CounterExact == Spec => []CountExact
BY CountInvariant, CountIs, PTL

\* The store, the connections and what their clients know always have their
\* types; in particular no queue outgrows its bound and answered no accepted.
THEOREM ServerTypes == Spec => []TypeOK
BY CountInvariant, CountIs, PTL

\* server.py:115-130, README.md:327: EXEC answers exactly what its client was told
\* to be queued, in that order, and its INCRs get successive numbers, whatever
\* the other connections do between the QUEUED and the EXEC.
THEOREM ExecInOrder == Spec => ExecAnswersQueue
<1>1. CountInv /\ [Next]_vars => [\A c \in Connections : exec'.conn = c => ExecAnswer(c)]_vars
  <2> SUFFICES ASSUME CountInv, Next
               PROVE  \A c \in Connections : exec'.conn = c => ExecAnswer(c)
    OBVIOUS
  <2>1. PICK c \in Connections :
             \/ Connect(c) \/ Disconnect(c) \/ Empty(c)
             \/ \E p \in Password : AUTH(c, p)
             \/ \E version \in {2, 3, 4, None}, clauses \in Clauses : HELLO(c, version, clauses)
             \/ NoAuth(c) \/ MULTI(c) \/ EXEC(c) \/ DISCARD(c)
             \/ \E name \in DataCommand : Data(c, name)
    BY Zenon DEF Next
  <2>2. exec'.conn = None \/ (exec'.conn = c /\ ExecAnswer(c))
    BY <2>1, ExecShows, OnlyExecShows
  <2> QED
    BY <2>2, ServerAssumption
<1>2. [\A c \in Connections : exec'.conn = c => ExecAnswer(c)]_vars
        => [\A c \in Connections :
              LET q == view[c].queued_cmds
                  r == exec'.results IN
              exec'.conn = c
                => /\ Len(r) = Len(q)
                   /\ \A i \in DOMAIN q : Fits(q[i], r[i], view[c].proto)
                   /\ \A i, j \in DOMAIN q :
                        i < j /\ q[i] = "INCR" /\ q[j] = "INCR"
                          => r[j].n - r[i].n = Incrs(SubSeq(q, i + 1, j))]_vars
  BY Zenon DEF ExecAnswer
<1> QED
  BY <1>1, <1>2, CountInvariant, PTL DEF Spec, ExecAnswersQueue
=============================================================================
