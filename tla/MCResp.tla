------------------------------- MODULE MCResp -------------------------------
(* An instance of Resp small enough for TLC.                               *)
EXTENDS Resp

AllAtoms ==
  {"CR", "LF", "SP", "+", "?", "a", "2", "3", "4", "ECHO", "PING", "GET", "TTL", "COMMAND",
   "AUTH", "HELLO", "MULTI", "EXEC", "DISCARD"}

a == <<"a">>

\* Payloads that look like the protocol: empty, a line end, the head of a bulk
\* string, and one that ends its line early.
Payloads == {<<>>, <<a, a>>, <<a, CR, LF>>, <<LF, <<"$", 1>>>>}

AllArrays ==
  {<<Word("ECHO"), p>> : p \in Payloads}
    \cup {<<Word("HELLO"), Word(v)>> : v \in {"2", "3", "4"}}
    \cup {<<Word("GET"), <<CR, LF>>>>, <<Word("MULTI")>>, <<Word("EXEC")>>,
          <<Word("DISCARD")>>, <<Word("AUTH"), <<a>>>>, <<Word("PING")>>, <<Word("TTL"), <<a>>>>,
          <<Word("COMMAND")>>, <<Word("ECHO")>>, <<<<a, CR, LF>>>>, <<>>}

AllLines == {<<Word("ECHO"), <<a, a>>>>, <<>>}
=============================================================================
