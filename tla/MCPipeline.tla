----------------------------- MODULE MCPipeline -----------------------------
(* An instance of Pipeline small enough for TLC.                           *)
EXTENDS Pipeline

CONSTANTS r1, r2

TwoRequests == {r1, r2}
TwoNames    == {"/api/upload", "/other"}
Limits      == [n \in {"/api/upload"} |-> 1]
=============================================================================
