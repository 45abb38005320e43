-------------------------------- MODULE Resp --------------------------------
(***************************************************************************)
(* One connection of the redis clone seen as two streams: parse_resp,      *)
(* encode_resp and encode_hello (redis_clone/src/resp.py), and what        *)
(* handle_client and dispatch read and write with them.                    *)
(*                                                                         *)
(* A stream is a sequence of symbols: <<p, n>> is the prefix p and the     *)
(* number n of a line, <<x>> anything else, a whole command name included. *)
(* The client sends its commands without waiting for replies; they arrive  *)
(* symbol by symbol, until it may be gone.  There is no password and the   *)
(* store is empty: what the commands do to it is for RedisStore, and for   *)
(* RedisServer when connections share it, so those that store a value or   *)
(* read a number are not sent here.                                        *)
(***************************************************************************)
EXTENDS Integers, SequencesExt

CONSTANTS
  Atoms,        \* what a client may send as one symbol, numbers aside
  Arrays,       \* commands that a client may send as arrays: the words of each
  Lines,        \* commands that it may send as lines of words (inline)
  MaxCommands   \* bound: commands sent

CR == <<"CR">>
LF == <<"LF">>
SP == <<"SP">>
EOL == <<CR, LF>>

Symbol == {<<x>> : x \in Atoms} \cup ({":", "$", "*"} \X Int)

ASSUME RespAssumption ==
  /\ {"CR", "LF", "SP", "+", "?"} \subseteq Atoms
  /\ {"SET", "INCR", "INCRBY", "EXPIRE"} \cap Atoms = {}
  /\ MaxCommands \in Nat
  /\ \A words \in Arrays : words \in Seq(Seq(Symbol))
  /\ \A words \in Lines :
       /\ words \in Seq(Seq(Symbol))
       /\ \A i \in DOMAIN words : words[i] # <<>> /\ Range(words[i]) \cap {SP, CR, LF} = {}

\* Python values.  A string is the sequence of its symbols.
Null    == <<"null">>
Str(s)  == <<"str", s>>
Number(n) == <<"int", n>>
List(s) == <<"list", s>>
Err(s)  == <<"err", s>>
Map(s)  == <<"map", s>>    \* keys and values in turn

Word(x) == <<<<x>>>>

VARIABLES
  script,   \* the commands the client sends
  net,      \* symbols on their way to the server
  inbox,    \* StreamReader: symbols that have arrived and have not been read
  eof,      \* nothing more will arrive
  open,     \* the handler runs
  proto,    \* proto
  queue,    \* queued_cmds, or Null outside of MULTI
  handled,  \* history: the commands that the handler has read
  made,     \* history: the replies it made of them
  outbox    \* the symbols it has written

vars == <<script, net, inbox, eof, open, proto, queue, handled, made, outbox>>

-----------------------------------------------------------------------------
(* parse_resp                                                              *)

\* readline: up to the first LF; at the end of the stream what is left.
Line(buf) ==
  LET lf == SelectInSeq(buf, LAMBDA x : x = LF)
  IN  IF lf = 0 THEN buf ELSE SubSeq(buf, 1, lf)

\* rstrip(b'\r\n')
Stripped(s) == SubSeq(s, 1, SelectLastInSeq(s, LAMBDA x : x \notin {CR, LF}))

After(buf, n) == SubSeq(buf, n + 1, Len(buf))

\* What becomes of a read: a value and what follows it, the wait for more, the
\* end of the stream (IncompleteReadError), or another exception.
Read(v, rest) == <<"value", v, rest>>
Wait == <<"wait">>
Gone == <<"gone">>
Error == <<"error">>

\* Mutants of Bulk: line ends of the string itself are stripped; it waits for
\* one byte more.
Bulk_Stripped(n, buf, ended) ==
  IF n = -1 THEN Read(Null, buf)
  ELSE IF n + 2 < 0 THEN Error
  ELSE IF Len(buf) >= n + 2 THEN Read(Str(Stripped(SubSeq(buf, 1, n + 2))), After(buf, n + 2))
  ELSE IF ended THEN Gone ELSE Wait

Bulk_Longer(n, buf, ended) ==
  IF n = -1 THEN Read(Null, buf)
  ELSE IF n + 2 < 0 THEN Error
  ELSE IF Len(buf) >= n + 3 THEN Read(Str(SubSeq(buf, 1, n)), After(buf, n + 2))
  ELSE IF ended THEN Gone ELSE Wait

\* readexactly(n + 2), where a negative number is an error.
Bulk(n, buf, ended) ==
  IF n = -1 THEN Read(Null, buf)
  ELSE IF n + 2 < 0 THEN Error
  ELSE IF Len(buf) >= n + 2 THEN Read(Str(SubSeq(buf, 1, n)), After(buf, n + 2))
  ELSE IF ended THEN Gone ELSE Wait

\* A list of which only the number of elements has been read.
Opening(n) == <<"opening", n>>

\* One line, and the bulk string that it announces.  (A number that is cut off
\* by the end of the stream is one symbol here: the read fails with either.)
Frame(buf, ended) ==
  LET line   == Line(buf)
      rest   == After(buf, Len(line))
      prefix == Head(line)[1]
      data   == Stripped(Tail(line))
      number == Head(line)[2]
  IN  IF LF \notin Range(line) /\ ~ended THEN Wait
      ELSE IF line = <<>> THEN Gone
      ELSE IF prefix = "+" THEN Read(Str(data), rest)
      ELSE IF prefix \notin {":", "$", "*"} THEN Error
      ELSE IF Len(Head(line)) = 1 \/ data # <<>> THEN Error    \* int() raises
      ELSE IF prefix = ":" THEN Read(Number(number), rest)
      ELSE IF prefix = "$" THEN Bulk(number, rest, ended)
      ELSE IF number = -1 THEN Read(Null, rest)
      ELSE Read(Opening(number), rest)

\* Reads count values from buf, which begins with frame:
\* [await parse_resp(reader) for _ in range(count)].  What follows
\* is shorter, and read[m][n] are n values from the last m symbols.
Elements(read, frame, buf, count) ==
  LET opening == frame[1] = "value" /\ frame[2][1] = "opening"
      first == IF opening THEN read[Len(frame[3])][frame[2][2]] ELSE frame
      more  == read[Len(first[3])][count - 1]
  IN  IF count <= 0 THEN Read(List(<<>>), buf)
      ELSE IF first[1] # "value" THEN first
      ELSE IF more[1] # "value" THEN more
      ELSE Read(List(<<first[2]>> \o more[2][2]), more[3])

\* frame[m]: what the last m symbols of buf begin with.
Values(frame, buf) ==
  LET read[m \in 0 .. Len(buf)] ==
        [count \in Int |-> Elements(read, frame[m], After(buf, Len(buf) - m), count)]
  IN  read

\* One value from the stream.
One(frame, buf) ==
  LET values == Values(frame, buf)[Len(buf)][1]
  IN  IF values[1] = "value" THEN Read(values[2][2][1], values[3]) ELSE values

Parse(buf, ended) ==
  One([m \in 0 .. Len(buf) |-> Frame(After(buf, Len(buf) - m), ended)], buf)

-----------------------------------------------------------------------------
(* encode_resp                                                             *)

Header(prefix, n) == <<<<prefix, n>>>> \o EOL

BulkString(s) == Header("$", Len(s)) \o s \o EOL

\* Mutant of EncodeNull: the version is ignored.
EncodeNull_Always2(version) == <<<<"$", -1>>>> \o EOL

EncodeNull(version) == (IF version = 3 THEN <<<<"_">>>> ELSE <<<<"$", -1>>>>) \o EOL

\* What holds no other value.
EncodeOne(v, version) ==
  CASE v = Null      -> EncodeNull(version)
    [] v[1] = "str"  -> <<<<"+">>>> \o v[2] \o EOL
    [] v[1] = "err"  -> <<<<"-">>>> \o v[2] \o EOL
    [] v[1] = "int"  -> Header(":", v[2])

\* A list within a reply: of EXEC, and of HELLO.  (Bound: it holds no other.)
EncodeInner(v, version) ==
  IF v[1] = "list"
  THEN Header("*", Len(v[2])) \o FlattenSeq([i \in DOMAIN v[2] |-> EncodeOne(v[2][i], version)])
  ELSE EncodeOne(v, version)

Encode(v, version) ==
  CASE v[1] = "list" -> Header("*", Len(v[2]))
                          \o FlattenSeq([i \in DOMAIN v[2] |-> EncodeInner(v[2][i], version)])
    [] v[1] = "map"  -> Header("%", Len(v[2]) \div 2)
                          \o FlattenSeq([i \in DOMAIN v[2] |->
                               IF i % 2 = 1 THEN BulkString(v[2][i][2]) ELSE EncodeInner(v[2][i], 2)])
    [] OTHER         -> EncodeOne(v, version)

\* encode_hello; of its fields, one of each type.
Hello(version) ==
  LET fields == <<Str(Word("server")), Str(Word("redis-clone")),
                  Str(Word("proto")), Number(version),
                  Str(Word("modules")), List(<<>>)>>
  IN  IF version = 3 THEN Map(fields) ELSE List(fields)

-----------------------------------------------------------------------------
(* The client                                                              *)

\* What it sends, with the words the server is to understand: an array of bulk
\* strings; an inline command, its words apart; anything else.
Sent(words) ==
  [kind |-> "array", cmd |-> [i \in DOMAIN words |-> Str(words[i])],
   wire |-> Header("*", Len(words)) \o FlattenSeq([i \in DOMAIN words |-> BulkString(words[i])])]

Inline(words) ==
  [kind |-> "inline", cmd |-> [i \in DOMAIN words |-> Str(words[i])],
   wire |-> <<<<"+">>>> \o FlattenSeq([i \in DOMAIN words |-> words[i] \o <<SP>>]) \o EOL]

Raw(x, cmd) == [kind |-> "raw", cmd |-> cmd, wire |-> <<x>> \o EOL]

\* What is no command: a number, a null, an unknown prefix, a length below zero.
NoCommands ==
  {Raw(<<":", 5>>, <<Number(5)>>), Raw(<<"*", -1>>, <<>>), Raw(<<"?">>, <<>>), Raw(<<"$", -3>>, <<>>)}

Commands == {Sent(words) : words \in Arrays} \cup {Inline(words) : words \in Lines} \cup NoCommands

\* How it reads the replies: lines end with CR LF; nulls, and maps, are those of
\* the version it asked for (resp.py:47-50, redis-py).
DecodeFrame(buf, version) ==
  LET ends   == {i \in 1 .. Len(buf) - 1 : buf[i] = CR /\ buf[i + 1] = LF}
      end    == Min(ends)
      data   == SubSeq(buf, 2, end - 1)
      rest   == After(buf, end + 1)
      prefix == buf[1][1]
      number == buf[1][2]
  IN  IF ends = {} THEN Wait
      ELSE IF prefix = "+" THEN Read(Str(data), rest)
      ELSE IF prefix = "-" THEN Read(Err(data), rest)
      ELSE IF prefix = "_" /\ version = 3 THEN Read(Null, rest)
      ELSE IF Len(buf[1]) = 1 THEN Error
      ELSE IF prefix = ":" THEN Read(Number(number), rest)
      ELSE IF prefix = "$" /\ number >= 0 /\ Len(rest) >= number + 2
           THEN Read(Str(SubSeq(rest, 1, number)), After(rest, number + 2))
      ELSE IF prefix = "$" /\ number = -1 /\ version = 2 THEN Read(Null, rest)
      ELSE IF prefix = "*" THEN Read(Opening(number), rest)
      ELSE Error

\* One reply.  (A map, of which HELLO is the only one, is not within another.)
Decode(buf, version) ==
  LET frames == [m \in 0 .. Len(buf) |-> DecodeFrame(After(buf, Len(buf) - m), version)]
      isMap  == Len(buf) >= 3 /\ buf[1][1] = "%" /\ SubSeq(buf, 2, 3) = EOL /\ version = 3
      fields == Values(frames, buf)[Len(buf) - 3][2 * buf[1][2]]
  IN  IF ~isMap THEN One(frames, buf)
      ELSE IF fields[1] = "value" THEN Read(Map(fields[2][2]), fields[3]) ELSE fields

-----------------------------------------------------------------------------
(* The handler                                                             *)

Init ==
  /\ script \in BoundedSeq(Commands, MaxCommands)
  /\ net = FlattenSeq([i \in DOMAIN script |-> script[i].wire])
  /\ inbox = <<>> /\ eof = FALSE
  /\ open = TRUE
  /\ proto = 2
  /\ queue = Null
  /\ handled = <<>>
  /\ made = <<>>
  /\ outbox = <<>>

\* The next symbol arrives.
Arrive ==
  /\ net # <<>>
  /\ inbox' = Append(inbox, Head(net))
  /\ net' = Tail(net)
  /\ UNCHANGED <<script, eof, open, proto, queue, handled, made, outbox>>

\* The client is gone, and what has not arrived with it.
Leave ==
  /\ ~eof
  /\ eof' = TRUE
  /\ net' = <<>>
  /\ UNCHANGED <<script, inbox, open, proto, queue, handled, made, outbox>>

\* One symbol more of a text that is split: acc.inside if it belongs to a word.
SplitStep(acc, x) ==
  IF x \in {SP, CR, LF} THEN [words |-> acc.words, inside |-> FALSE]
  ELSE IF acc.inside THEN [acc EXCEPT !.words = Append(Front(@), Append(Last(@), x))]
  ELSE [words |-> Append(acc.words, <<x>>), inside |-> TRUE]

\* What the first n symbols of s are split into.
Splitting(s) ==
  LET split[n \in 0 .. Len(s)] ==
        IF n = 0 THEN [words |-> <<>>, inside |-> FALSE] ELSE SplitStep(split[n - 1], s[n])
  IN  split

\* s.split()
Split(s) ==
  LET words == Splitting(s)[Len(s)].words
  IN  [i \in DOMAIN words |-> Str(words[i])]

\* A command is a list: an inline one is split, a lone number made one.
Normalised(v) ==
  CASE v[1] = "str"  -> Split(v[2])
    [] v[1] = "list" -> v[2]
    [] OTHER         -> <<v>>

Name(cmd) == IF cmd # <<>> /\ cmd[1][1] = "str" THEN cmd[1][2] ELSE <<>>

\* dispatch raises for these: outside of its try, the name is not a str.
Broken(cmd) == cmd[1][1] # "str"

\* What dispatch answers whatever the arguments.
Constant(name) ==
  CASE name = Word("PING")                                             -> Str(Word("PONG"))
    [] name = Word("DBSIZE")                                           -> Number(0)
    [] name \in {Word("FLUSHALL"), Word("FLUSHDB"), Word("CLIENT")}    -> Str(Word("OK"))
    [] name \in {Word("COMMAND"), Word("CONFIG")}                      -> List(<<>>)
    [] OTHER                                            -> Err(Word("unknown") \o name)

\* What it answers of keys that are not there: GET; DEL and EXISTS; TTL.
Missing(name) ==
  CASE name = Word("GET") -> Null
    [] name = Word("TTL") -> Number(-2)
    [] OTHER              -> Number(0)

Lookups == {Word("GET"), Word("DEL"), Word("EXISTS"), Word("TTL")}

\* dispatch.  Only what the client has sent comes back as a text of its own.
Dispatch(cmd) ==
  CASE Name(cmd) \in Lookups \cup {Word("ECHO")} /\ Len(cmd) < 2   -> Err(Word("wrong number"))
    [] Name(cmd) \in {Word("ECHO"), Word("PING")} /\ Len(cmd) >= 2 -> cmd[2]
    [] Name(cmd) \in Lookups /\ Len(cmd) >= 2                      -> Missing(Name(cmd))
    [] OTHER                                                       -> Constant(Name(cmd))

\* writer.write(encode_resp(reply, proto))
Write(reply, version) ==
  /\ made' = Append(made, reply)
  /\ outbox' = outbox \o Encode(reply, version)

Answer(reply) == Write(reply, proto) /\ UNCHANGED <<open, proto>>

\* except Exception
Fail == Write(Err(Word("server error")), proto) /\ open' = FALSE /\ UNCHANGED <<proto, queue>>

\* int(cmd[1]); 0 if that raises.
Version(cmd) ==
  IF Len(cmd) < 2 THEN proto
  ELSE IF cmd[2] = Str(Word("2")) THEN 2
  ELSE IF cmd[2] = Str(Word("3")) THEN 3 ELSE 0

HELLO(cmd) ==
  /\ UNCHANGED <<open, queue>>
  /\ \/ /\ Version(cmd) = 0
        /\ Write(Err(Word("NOPROTO")), proto)
        /\ UNCHANGED proto
     \/ /\ Version(cmd) # 0
        /\ proto' = Version(cmd)
        /\ Write(Hello(proto'), proto')

MULTI == queue' = List(<<>>) /\ Answer(Str(Word("OK")))

\* The results, each encoded by dispatch, after a header made by hand.
EXEC ==
  \/ queue = Null /\ Answer(Err(Word("EXEC without MULTI"))) /\ UNCHANGED queue
  \/ /\ queue # Null /\ \E i \in DOMAIN queue[2] : Broken(queue[2][i])
     /\ Fail
  \/ /\ queue # Null /\ \A i \in DOMAIN queue[2] : ~Broken(queue[2][i])
     /\ Answer(List([i \in DOMAIN queue[2] |-> Dispatch(queue[2][i])]))
     /\ queue' = Null

DISCARD ==
  /\ queue' = Null
  /\ Answer(IF queue = Null THEN Err(Word("DISCARD without MULTI")) ELSE Str(Word("OK")))

Data(cmd) ==
  \/ /\ queue # Null
     /\ queue' = List(Append(queue[2], cmd)) /\ Answer(Str(Word("QUEUED")))
  \/ queue = Null /\ Broken(cmd) /\ Fail
  \/ queue = Null /\ ~Broken(cmd) /\ Answer(Dispatch(cmd)) /\ UNCHANGED queue

Command(cmd) ==
  CASE cmd = <<>>                  -> Answer(Err(Word("empty command"))) /\ UNCHANGED queue
    [] Name(cmd) = Word("AUTH")    -> Answer(Err(Word("no password is set"))) /\ UNCHANGED queue
    [] Name(cmd) = Word("HELLO")   -> HELLO(cmd)
    [] Name(cmd) = Word("MULTI")   -> MULTI
    [] Name(cmd) = Word("EXEC")    -> EXEC
    [] Name(cmd) = Word("DISCARD") -> DISCARD
    [] OTHER                       -> Data(cmd)

\* One turn of the loop of handle_client, once parse_resp returns or raises.
Handle ==
  /\ open
  /\ \E out \in {Parse(inbox, eof)} :
       \/ /\ out[1] = "value" /\ out[2] # Null
          /\ Command(Normalised(out[2]))
          /\ handled' = Append(handled, Normalised(out[2]))
          /\ inbox' = out[3]
       \/ /\ out[1] = "gone" \/ (out[1] = "value" /\ out[2] = Null)
          /\ open' = FALSE
          /\ UNCHANGED <<inbox, proto, queue, handled, made, outbox>>
       \/ out[1] = "error" /\ Fail /\ UNCHANGED <<inbox, handled>>
  /\ UNCHANGED <<script, net, eof>>

Next == Arrive \/ Leave \/ Handle

Spec == Init /\ [][Next]_vars

-----------------------------------------------------------------------------
(* Properties                                                              *)

\* The handler executes what the client sent, in that order, whatever symbols
\* of the protocol its words hold and wherever the stream ends.  The one
\* exception: of an inline command that was cut off, what had arrived
\* is executed (resp.py:15: readline returns a line without its end).
Text(cmd) == FlattenSeq([i \in DOMAIN cmd |-> cmd[i][2]])

CommandsIntact ==
  /\ Len(handled) <= Len(script)
  /\ \A i \in DOMAIN handled :
       \/ handled[i] = script[i].cmd
       \/ /\ eof /\ i = Len(handled) /\ inbox = <<>>
          /\ script[i].kind = "inline"
          /\ IsPrefix(Text(handled[i]), Text(script[i].cmd))

\* The handler never waits for more than the client has to send, and ends only
\* if the client is gone or has sent what is no command (which is found out by
\* EXEC if it was queued): a frame is read to its end and no further
\* (resp.py:32,38).
ReadsToTheEnd ==
  /\ open /\ ~eof /\ net = <<>> /\ Parse(inbox, eof) = Wait => Len(handled) = Len(script)
  /\ ~open /\ ~eof => \E i \in DOMAIN script : i <= Len(handled) + 1 /\ script[i].kind = "raw"

\* The client gets one reply to each command and reads it as it was meant, nulls
\* included, although it may change the version with replies still to come.
\* Provided no text in a reply has a line break: as a simple string has no
\* length (resp.py:69), that would end it.
TextsOf(v) == IF v[1] \in {"str", "err"} THEN {v[2]} ELSE {}

Texts(v) ==
  IF v[1] \in {"list", "map"} THEN UNION {TextsOf(v[2][i]) : i \in DOMAIN v[2]} ELSE TextsOf(v)

LineBreak(s) == \E i \in 1 .. Len(s) - 1 : s[i] = CR /\ s[i + 1] = LF

\* The version that was asked for up to the i-th command.
Asked(i) ==
  LET hellos == {j \in DOMAIN handled : /\ j <= i
                                        /\ Name(handled[j]) = Word("HELLO")
                                        /\ Len(handled[j]) >= 2
                                        /\ handled[j][2] \in {Str(Word("2")), Str(Word("3"))}}
  IN  IF \E j \in hellos : j = Max(hellos) /\ handled[j][2] = Str(Word("3")) THEN 3 ELSE 2

\* The first n replies that the client reads, and what is left of the symbols.
Replies ==
  LET read[n \in Nat] ==
        LET before == read[n - 1]
            reply  == Decode(before[3], Asked(n))
        IN  IF n = 0 THEN Read(<<>>, outbox)
            ELSE IF before[1] # "value" THEN before
            ELSE IF reply[1] # "value" THEN reply
            ELSE Read(Append(before[2], reply[2]), reply[3])
  IN  read

RepliesInStep ==
  (\A i \in DOMAIN made : \A s \in Texts(made[i]) : ~LineBreak(s))
    => /\ Replies[Len(made)] = Read(made, <<>>)
       /\ Len(made) = Len(handled) \/ (~open /\ Len(made) = Len(handled) + 1)
=============================================================================
