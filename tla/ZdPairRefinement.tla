-------------------------- MODULE ZdPairRefinement --------------------------
(***************************************************************************)
(* The RTL against the two things that say what it should do: the software *)
(* oracle, which computes the answer to a request, and the service, which  *)
(* says when an answer may show.                                           *)
(***************************************************************************)
EXTENDS ZdPair

CONSTANTS Bits, NoRequest, NoAnswer, ResetAnswer

ASSUME BitsAssumption == N = 2^Bits

Oracle == INSTANCE ZdPairOracle

\* The sign of the product of basis elements a and b, as the oracle computes it.
OracleSign(a, b) == Oracle!Sigma[Bits][a][b]

(***************************************************************************)
(* Lane selection and ROM are those of the oracle, cell by cell: what the  *)
(* ROM check and the contract gate establish by hashing both tables.       *)
(***************************************************************************)
ASSUME RomAssumption ==
  /\ Bits \in 0 .. Oracle!MaxBits
  /\ \A a, b \in Lane : /\ Xor(a, b) = Oracle!IndexXor(a, b)
                        /\ OracleSign(a, b) = IF Negative(a, b) THEN -1 ELSE 1
ASSUME NoRequestAssumption == NoRequest \notin Requests

OracleAnswer  == [q \in Requests |-> Oracle!Evaluate(q[1], q[2])]
OracleRefused == {q \in Requests : Oracle!OperandError(q[1], q[2]) # "NONE"}

Shown == [classification |-> classification, error_code |-> error_code,
          product_is_zero |-> product_is_zero, product |-> product]

IsResetState == classification = "ARITHMETIC_ERROR" /\ error_code = "NONE"

PendingRequest == IF InFlight THEN <<lhs_latched, rhs_latched>> ELSE NoRequest

VisibleAnswer == IF InFlight THEN NoAnswer ELSE IF IsResetState THEN ResetAnswer ELSE Shown

(***************************************************************************)
(* The refinement: a request is pending from its admission to the edge     *)
(* that announces its result, and the outputs mean nothing until then.     *)
(***************************************************************************)
Service == INSTANCE ZdService WITH
  Answer    <- OracleAnswer,
  Refused   <- OracleRefused,
  up        <- rst_n,
  pending   <- PendingRequest,
  answer    <- VisibleAnswer,
  announced <- done

(***************************************************************************)
(* Every request is answered with the oracle's verdict on that request,    *)
(* announced by one done pulse, or discarded by a reset; no request is     *)
(* taken while one is being worked on; an admitted one is answered in the  *)
(* end (the handshake of the whole module, lines 92-168).                  *)
(***************************************************************************)
ImplementsService == Service!Spec

(***************************************************************************)
(* The announced product is the product by the doubling formula, the       *)
(* textbook definition of the algebra: sign ROM, exclusive-or lane         *)
(* selection and accumulation together (lines 48-69 and 143-165).          *)
(***************************************************************************)
ProductIsCayleyDickson ==
  (done /\ mac_cycles > 0) => product = Oracle!Doubling[Bits][lhs_latched][rhs_latched]
=============================================================================
