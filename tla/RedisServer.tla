---------------------------- MODULE RedisServer -----------------------------
(***************************************************************************)
(* The connections of the redis clone (redis_clone/src/server.py): each    *)
(* runs handle_client, which reads one command after the other and keeps   *)
(* whether its client is authenticated, the commands it queued since MULTI *)
(* and the RESP version it negotiated.  All of them share one Store.       *)
(*                                                                         *)
(* dispatch() is a coroutine but never suspends, so a handler gives up     *)
(* control only while it reads a command and while its reply drains: an    *)
(* action is the handling of one command, EXEC with all it runs included.  *)
(*                                                                         *)
(* Data commands stand for the groups that handle_client and dispatch tell *)
(* apart: INCR and GET of one counter, BAD (answered with an error:        *)
(* unknown, or with too few arguments) and BROKEN (its name is not a       *)
(* string, so that dispatch raises outside its try).  No deadlines are set *)
(* here, time stands still.                                                *)
(***************************************************************************)
EXTENDS StoreOps, SequencesExt

CONSTANTS
  Connections,
  counter,    \* the key that INCR and GET are given
  MaxQueue,   \* bound: commands queued on a connection
  MaxIncr     \* bound: INCRs accepted

VARIABLES
  requirepass,  \* REQUIREPASS is not empty
  db,           \* the Store
  conn,         \* the local variables of handle_client, for each connection
  view,         \* history: what each client concludes from the replies it gets
  exec,         \* history: the connection and the results of an EXEC just answered
  accepted,     \* history: INCRs answered with QUEUED or at once with a number
  answered,     \* history: INCRs answered with a number
  unanswered    \* history: INCRs of an EXEC that raised, before the command that did

vars == <<requirepass, db, conn, view, exec, accepted, answered, unanswered>>

DataCommand == {"INCR", "GET", "BAD", "BROKEN"}
Password    == {"right", "wrong"}

\* AUTH clauses of a HELLO: what matters is the first one and whether one is wrong.
Clauses == {<<>>, <<"right">>, <<"wrong">>, <<"right", "wrong">>}

\* n is the number of an "int", or the RESP version that a "null" is encoded
\* for or a "hello" announces; results are what the "array" of EXEC holds.
Simple(kind)    == [kind |-> kind, n |-> 0, results |-> <<>>]
Numbered(kind, n) == [kind |-> kind, n |-> n, results |-> <<>>]
Array(results)  == [kind |-> "array", n |-> 0, results |-> results]

Session == [authenticated : BOOLEAN,
            in_multi      : BOOLEAN,
            queued_cmds   : BoundedSeq(DataCommand, MaxQueue),
            proto         : {2, 3}]

\* None, which stands for a connection that is closed, and for the connection
\* where there was no EXEC, is neither a session nor a connection.
ASSUME ServerAssumption ==
  /\ IsFiniteSet(Connections)
  /\ counter \in Keys
  /\ MaxQueue \in Nat
  /\ MaxIncr \in Nat
  /\ None \notin Session
  /\ None \notin Connections

NewSession == [authenticated |-> ~requirepass, in_multi |-> FALSE,
               queued_cmds |-> <<>>, proto |-> 2]

NoExec == [conn |-> None, results |-> <<>>]

Init ==
  /\ requirepass \in BOOLEAN
  /\ db = EmptyDB
  /\ conn = [c \in Connections |-> None]
  /\ view = [c \in Connections |-> None]
  /\ exec = NoExec
  /\ accepted = 0
  /\ answered = 0
  /\ unanswered = 0

-----------------------------------------------------------------------------
(* The client                                                              *)

\* What a client that thought v concludes from the reply to a command.
Learn(v, name, reply) ==
  CASE name = "AUTH" /\ reply.kind = "OK"  -> [v EXCEPT !.authenticated = TRUE]
    [] reply.kind = "hello"                -> [v EXCEPT !.authenticated = TRUE,
                                                        !.proto = reply.n]
    [] name = "MULTI" /\ reply.kind = "OK" -> [v EXCEPT !.in_multi = TRUE,
                                                        !.queued_cmds = <<>>]
    [] reply.kind = "QUEUED"               -> [v EXCEPT !.queued_cmds = Append(@, name)]
    [] reply.kind = "array" \/ (name = "DISCARD" /\ reply.kind = "OK")
                                           -> [v EXCEPT !.in_multi = FALSE,
                                                        !.queued_cmds = <<>>]
    [] OTHER                               -> v

\* The INCRs of a queue.
IncrsAt(q) == {i \in DOMAIN q : q[i] = "INCR"}

Incrs(q) == Cardinality(IncrsAt(q))

Ints(replies) == Cardinality({i \in DOMAIN replies : replies[i].kind = "int"})

-----------------------------------------------------------------------------
(* The handler                                                             *)

\* The reply is written; s is what the local variables become.
Answer(c, name, reply, s) ==
  /\ conn' = [conn EXCEPT ![c] = s]
  /\ view' = [view EXCEPT ![c] = Learn(@, name, reply)]
  /\ exec' = IF reply.kind = "array" THEN [conn |-> c, results |-> reply.results] ELSE NoExec
  /\ accepted' = IF name = "INCR" /\ reply.kind \in {"int", "QUEUED"} THEN accepted + 1 ELSE accepted
  /\ answered' = answered + Ints(<<reply>> \o reply.results)
  /\ UNCHANGED <<requirepass, unanswered>>

Open(c) == conn[c] # None

\* A client connects.
Connect(c) ==
  /\ ~Open(c)
  /\ conn' = [conn EXCEPT ![c] = NewSession]
  /\ view' = [view EXCEPT ![c] = NewSession]
  /\ exec' = NoExec
  /\ UNCHANGED <<requirepass, db, accepted, answered, unanswered>>

\* The handler ends: the client has gone or sends a null array, or something
\* that is not RESP or that makes dispatch raise (answered with an error).
Disconnect(c) ==
  /\ Open(c)
  /\ conn' = [conn EXCEPT ![c] = None]
  /\ view' = [view EXCEPT ![c] = None]
  /\ exec' = NoExec
  /\ UNCHANGED <<requirepass, db, accepted, answered, unanswered>>

\* An empty array, or AUTH without a password: an error, from any client.
Empty(c) ==
  /\ Open(c)
  /\ Answer(c, "EMPTY", Simple("ERR"), conn[c])
  /\ UNCHANGED db

AUTH(c, password) ==
  /\ Open(c)
  /\ \/ ~requirepass /\ Answer(c, "AUTH", Simple("ERR"), conn[c])
     \/ /\ requirepass /\ password = "right"
        /\ Answer(c, "AUTH", Simple("OK"), [conn[c] EXCEPT !.authenticated = TRUE])
     \/ /\ requirepass /\ password = "wrong"
        /\ Answer(c, "AUTH", Simple("WRONGPASS"), conn[c])
  /\ UNCHANGED db

\* Mutant of HELLO: the version is taken over before the client is known.
HELLO_VersionFirst(c, version, clauses) ==
  LET wrong == requirepass /\ \E i \in DOMAIN clauses : clauses[i] = "wrong"
      auth  == conn[c].authenticated \/ (clauses # <<>> /\ clauses[1] = "right")
      s     == [conn[c] EXCEPT !.authenticated = auth,
                               !.proto = IF version \in {2, 3} THEN version ELSE @]
  IN  /\ Open(c)
      /\ \/ version = 4 /\ Answer(c, "HELLO", Simple("NOPROTO"), conn[c])
         \/ version # 4 /\ wrong /\ Answer(c, "HELLO", Simple("WRONGPASS"), s)
         \/ version # 4 /\ ~wrong /\ ~auth /\ Answer(c, "HELLO", Simple("NOAUTH"), s)
         \/ version # 4 /\ ~wrong /\ auth /\ Answer(c, "HELLO", Numbered("hello", s.proto), s)
      /\ UNCHANGED db

\* HELLO [version [AUTH user password] ...].  The clauses are looked at in
\* turn, up to the first wrong password; the right ones before it count.
HELLO(c, version, clauses) ==
  LET wrong == requirepass /\ \E i \in DOMAIN clauses : clauses[i] = "wrong"
      auth  == conn[c].authenticated \/ (clauses # <<>> /\ clauses[1] = "right")
      s     == [conn[c] EXCEPT !.authenticated = auth]
      proto == IF version = None THEN s.proto ELSE version
  IN  /\ Open(c)
      /\ \/ version = 4 /\ Answer(c, "HELLO", Simple("NOPROTO"), conn[c])
         \/ version # 4 /\ wrong /\ Answer(c, "HELLO", Simple("WRONGPASS"), s)
         \/ version # 4 /\ ~wrong /\ ~auth /\ Answer(c, "HELLO", Simple("NOAUTH"), s)
         \/ /\ version # 4 /\ ~wrong /\ auth
            /\ Answer(c, "HELLO", Numbered("hello", proto), [s EXCEPT !.proto = proto])
      /\ UNCHANGED db

\* Every other command is served to authenticated clients ...
Serve(c) == Open(c) /\ conn[c].authenticated

\* ... and rejected for others.
NoAuth(c) ==
  /\ Open(c) /\ ~conn[c].authenticated
  /\ Answer(c, "ANY", Simple("NOAUTH"), conn[c])
  /\ UNCHANGED db

\* Mutant of MULTI: inside MULTI the queue is kept.
MULTI_KeepsQueue(c) ==
  /\ Serve(c)
  /\ Answer(c, "MULTI", Simple("OK"), [conn[c] EXCEPT !.in_multi = TRUE])
  /\ UNCHANGED db

\* MULTI, inside MULTI as well.
MULTI(c) ==
  /\ Serve(c)
  /\ Answer(c, "MULTI", Simple("OK"), [conn[c] EXCEPT !.in_multi = TRUE, !.queued_cmds = <<>>])
  /\ UNCHANGED db

\* dispatch of INCR and of GET: the store d and the reply it leaves.  What it
\* does not know, or gets too few arguments for, is an error.
Dispatch(d, name, proto) ==
  LET get  == Get(d, 0, counter)
      incr == IncrBy(d, 0, counter, 1)
  IN  CASE name = "INCR" -> [db |-> incr.db, reply |-> Numbered("int", incr.res)]
        [] name = "GET"  -> [db    |-> get.db,
                             reply |-> IF get.res = None THEN Numbered("null", proto)
                                                         ELSE Numbered("value", get.res)]
        [] OTHER         -> [db |-> d, reply |-> Simple("ERR")]

\* What a run has done becomes after one more command of it.
RunOne(done, name, proto) ==
  LET out == Dispatch(done.db, name, proto)
  IN  [db |-> out.db, results |-> Append(done.results, out.reply)]

\* What has been done after each of the first commands of q.
Running(q, proto) ==
  LET done[n \in 0 .. Len(q)] == IF n = 0 THEN [db |-> db, results |-> <<>>]
                                 ELSE RunOne(done[n - 1], q[n], proto)
  IN  done

\* The commands of q one after the other.
RunAll(q, proto) == Running(q, proto)[Len(q)]

\* The commands of q before one that makes dispatch raise.
Unbroken(q) == SubSeq(q, 1, SelectInSeq(q \o <<"BROKEN">>, LAMBDA name : name = "BROKEN") - 1)

\* Mutant of EXEC: the queue stays a transaction.
EXEC_StaysInMulti(c) ==
  LET q   == conn[c].queued_cmds
      out == RunAll(q, conn[c].proto)
  IN  /\ Serve(c)
      /\ conn[c].in_multi /\ Unbroken(q) = q
      /\ db' = out.db
      /\ Answer(c, "EXEC", Array(out.results), conn[c])

EXEC(c) ==
  LET q   == conn[c].queued_cmds
      out == RunAll(Unbroken(q), conn[c].proto)
  IN  /\ Serve(c)
      /\ \/ /\ ~conn[c].in_multi
            /\ Answer(c, "EXEC", Simple("ERR"), conn[c])
            /\ UNCHANGED db
         \/ /\ conn[c].in_multi /\ Unbroken(q) = q
            /\ db' = out.db
            /\ Answer(c, "EXEC", Array(out.results),
                      [conn[c] EXCEPT !.in_multi = FALSE, !.queued_cmds = <<>>])
         \/ /\ conn[c].in_multi /\ Unbroken(q) # q   \* half done, then closed
            /\ db' = out.db
            /\ conn' = [conn EXCEPT ![c] = None]
            /\ view' = [view EXCEPT ![c] = None]
            /\ exec' = NoExec
            /\ unanswered' = unanswered + Incrs(Unbroken(view[c].queued_cmds))
            /\ UNCHANGED <<requirepass, accepted, answered>>

DISCARD(c) ==
  /\ Serve(c)
  /\ \/ ~conn[c].in_multi /\ Answer(c, "DISCARD", Simple("ERR"), conn[c])
     \/ /\ conn[c].in_multi
        /\ Answer(c, "DISCARD", Simple("OK"),
                  [conn[c] EXCEPT !.in_multi = FALSE, !.queued_cmds = <<>>])
  /\ UNCHANGED db

\* Mutant of Data: a queued command is also carried out at once.
Data_RunAndQueue(c, name) ==
  LET out == Dispatch(db, name, conn[c].proto)
  IN  /\ Serve(c) /\ conn[c].in_multi
      /\ Len(conn[c].queued_cmds) < MaxQueue /\ (name = "INCR" => accepted < MaxIncr)
      /\ db' = out.db
      /\ Answer(c, name, Simple("QUEUED"), [conn[c] EXCEPT !.queued_cmds = Append(@, name)])

\* A data command is queued, or dispatched at once.  (A BROKEN one then ends
\* the connection: see Disconnect.)
Data(c, name) ==
  LET out == Dispatch(db, name, conn[c].proto)
  IN  /\ Serve(c)
      /\ name = "INCR" => accepted < MaxIncr
      /\ \/ /\ conn[c].in_multi /\ Len(conn[c].queued_cmds) < MaxQueue
            /\ Answer(c, name, Simple("QUEUED"), [conn[c] EXCEPT !.queued_cmds = Append(@, name)])
            /\ UNCHANGED db
         \/ /\ ~conn[c].in_multi /\ name # "BROKEN"
            /\ db' = out.db
            /\ Answer(c, name, out.reply, conn[c])

Next ==
  \E c \in Connections :
    \/ Connect(c)
    \/ Disconnect(c)
    \/ Empty(c)
    \/ \E p \in Password : AUTH(c, p)
    \/ \E version \in {2, 3, 4, None}, clauses \in Clauses :
         (version = None => clauses = <<>>) /\ HELLO(c, version, clauses)
    \/ NoAuth(c)
    \/ MULTI(c)
    \/ EXEC(c)
    \/ DISCARD(c)
    \/ \E name \in DataCommand : Data(c, name)

Spec == Init /\ [][Next]_vars

-----------------------------------------------------------------------------
(* Properties                                                              *)

\* The store, the connections and the history have their types.
TypeOK ==
  /\ requirepass \in BOOLEAN
  /\ db \in DB
  /\ conn \in [Connections -> Session \cup {None}]
  /\ view \in [Connections -> Session \cup {None}]
  /\ exec.conn \in Connections \cup {None}
  /\ accepted \in 0 .. MaxIncr
  /\ answered \in 0 .. MaxIncr
  /\ unanswered \in 0 .. MaxIncr

\* A client that sees nothing but the replies to its own commands knows what
\* its handler holds: whether it is in MULTI, what EXEC would run, which
\* version its nulls have (HELLO is not queued, server.py:65).  It can be
\* better authenticated than it thinks, by a HELLO with several AUTH clauses.
ClientInSync ==
  \A c \in Connections :
    /\ Open(c) <=> view[c] # None
    /\ Open(c) =>
         /\ view[c] = [conn[c] EXCEPT !.authenticated = view[c].authenticated]
         /\ view[c].authenticated => conn[c].authenticated

Counter == IF db.data[counter] = None THEN 0 ELSE db.data[counter].value

\* <<c, i>> stands for the i-th command in the queue of c.
Queued == UNION {{c} \X IncrsAt(conn[c].queued_cmds) : c \in {d \in Connections : Open(d)}}

\* The counter has counted exactly the INCRs answered with a number and, of each
\* EXEC that raised half-way (server.py:154 closes the connection, nothing is
\* rolled back), those before the command that raised.  So an INCR that MULTI or
\* DISCARD drops, or that goes with its connection, still queued or behind the
\* command that raised, is never counted; and an INCR that is still queued has
\* not been counted yet (PRD.md:891: INCR is atomic under concurrent access).
CountExact ==
  /\ Counter = answered + unanswered
  /\ Counter + Cardinality(Queued) <= accepted

\* EXEC answers the commands that were answered QUEUED since the last MULTI,
\* one by one and in their order, nulls in the version the client expects; its
\* INCRs get successive numbers although other connections count as well
\* (README.md:327).
Fits(name, reply, proto) ==
  CASE name = "INCR" -> reply.kind = "int"
    [] name = "GET"  -> reply.kind = "value" \/ reply = Numbered("null", proto)
    [] OTHER         -> reply.kind = "ERR"

ExecAnswersQueue ==
  [][ \A c \in Connections :
        LET q == view[c].queued_cmds
            r == exec'.results IN
        exec'.conn = c
          => /\ Len(r) = Len(q)
             /\ \A i \in DOMAIN q : Fits(q[i], r[i], view[c].proto)
             /\ \A i, j \in DOMAIN q :
                  i < j /\ q[i] = "INCR" /\ q[j] = "INCR"
                    => r[j].n - r[i].n = Incrs(SubSeq(q, i + 1, j)) ]_vars
=============================================================================
