------------------------------- MODULE Proxy --------------------------------
(***************************************************************************)
(* What the load balancer promises to whoever forwards requests to it: a   *)
(* request is delivered to one backend at most and answered at most once,  *)
(* the client is never told that there is no server (503) about a request  *)
(* that a backend has received, and an answer of a backend (200) is        *)
(* the answer to this request.  After 500 and 504 it cannot know.          *)
(*                                                                         *)
(* An abstract specification: no servers, no pins, no retries.             *)
(* LoadBalancer implements it; Pipeline puts the rate limiter before it.   *)
(***************************************************************************)
CONSTANTS
  Requests,
  None       \* no reply

VARIABLES
  open,      \* the request is being handled
  delivered, \* how often a backend has received it
  reply      \* what it has been answered

vars == <<open, delivered, reply>>

Code == {200, 413, 500, 503, 504}

Init ==
  /\ open = [r \in Requests |-> FALSE]
  /\ delivered = [r \in Requests |-> 0]
  /\ reply = [r \in Requests |-> None]

\* The handler of a request starts (r stands for any earlier one no more).
Accept(r) ==
  /\ ~open[r]
  /\ open' = [open EXCEPT ![r] = TRUE]
  /\ delivered' = [delivered EXCEPT ![r] = 0]
  /\ reply' = [reply EXCEPT ![r] = None]

Deliver(r) ==
  /\ open[r] /\ delivered[r] = 0
  /\ delivered' = [delivered EXCEPT ![r] = 1]
  /\ UNCHANGED <<open, reply>>

Reply(r, code) ==
  /\ open[r]
  /\ code = 200 => delivered[r] = 1
  /\ code \in {413, 503} => delivered[r] = 0
  /\ open' = [open EXCEPT ![r] = FALSE]
  /\ reply' = [reply EXCEPT ![r] = code]
  /\ UNCHANGED delivered

\* The process may end: requests it was handling are never answered.
Crash ==
  /\ open' = [r \in Requests |-> FALSE]
  /\ UNCHANGED <<delivered, reply>>

Next ==
  \/ \E r \in Requests :
       \/ Accept(r)
       \/ Deliver(r)
       \/ \E code \in Code : Reply(r, code)
  \/ Crash

Spec == Init /\ [][Next]_vars
=============================================================================
