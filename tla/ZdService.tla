----------------------------- MODULE ZdService -----------------------------
(***************************************************************************)
(* What the zero-divisor-pair unit promises the circuit around it, without *)
(* cycles or registers.  A request is either refused on the spot or taken  *)
(* and answered later; while one is being worked on no other is taken and  *)
(* no answer shows; every answer is what the oracle says of the request,   *)
(* announced once and left standing.  Reset discards everything.           *)
(***************************************************************************)
CONSTANTS Requests,          \* operand pairs <<lhs, rhs>>
          Answer,            \* the oracle's answer to each request
          Refused,           \* the requests that are refused without a product
          NoRequest, NoAnswer, ResetAnswer

VARIABLES up,        \* out of reset
          pending,   \* the request being worked on, or NoRequest
          answer,    \* what the outputs show
          announced  \* the answer was given at the last clock edge

vars == <<up, pending, answer, announced>>

Init ==
  /\ ~up
  /\ pending = NoRequest
  /\ answer = ResetAnswer
  /\ ~announced

Refuse(q) ==
  /\ up /\ pending = NoRequest /\ q \in Refused
  /\ answer' = Answer[q]
  /\ announced' = TRUE
  /\ UNCHANGED <<up, pending>>

Take(q) ==
  /\ up /\ pending = NoRequest /\ q \notin Refused
  /\ pending' = q
  /\ answer' = NoAnswer
  /\ announced' = FALSE
  /\ UNCHANGED up

Deliver ==
  /\ up /\ pending # NoRequest
  /\ answer' = Answer[pending]
  /\ pending' = NoRequest
  /\ announced' = TRUE
  /\ UNCHANGED up

Settle ==
  /\ up /\ announced
  /\ announced' = FALSE
  /\ UNCHANGED <<up, pending, answer>>

Reset ==
  /\ up' = FALSE
  /\ pending' = NoRequest
  /\ answer' = ResetAnswer
  /\ announced' = FALSE

Release ==
  /\ ~up
  /\ up' = TRUE
  /\ UNCHANGED <<pending, answer, announced>>

Next ==
  \/ \E q \in Requests : Refuse(q) \/ Take(q)
  \/ Deliver \/ Settle \/ Reset \/ Release

(***************************************************************************)
(* A request that is never discarded by a reset is answered.  Settle needs *)
(* no fairness: refusals may follow each other at every clock edge.        *)
(***************************************************************************)
Spec == Init /\ [][Next]_vars /\ WF_vars(Deliver)
============================================================================
