------------------------------ MODULE MCRouting -----------------------------
(* An instance of Routing small enough for TLC.                            *)
EXTENDS Routing

ThreeServers == 1 .. 3
Weights      == <<1, 3, 2>>
=============================================================================
