--------------------------- MODULE MCRateLimiter ----------------------------
(* Instances of RateLimiter small enough for TLC.                          *)
EXTENDS RateLimiter, TLC

CONSTANTS c1, r1, r2

OneClient   == {c1}
OneRequest  == {r1}
TwoRequests == {r1, r2}
Counters    == Clients \X Windows
NoTexts     == {}

\* Slots are treated alike.
Symmetry == Permutations(Requests)
=============================================================================
