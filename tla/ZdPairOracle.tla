---------------------------- MODULE ZdPairOracle ----------------------------
(***************************************************************************)
(* The software oracle tools/eisa_h/zd_pair_oracle.py: what contract       *)
(* eisa_h.sedenion_zd_pair.v1 says of an ordered operand pair.  Python     *)
(* integers are unbounded, so no width appears here.  Operands of the      *)
(* wrong shape never reach the hardware, whose port fixes the shape, and   *)
(* are left out.                                                           *)
(***************************************************************************)
EXTENDS CayleyDickson, Integers, FiniteSetsExt

CONSTANTS Bits,    \* 2^Bits coefficients to an operand (the code: 4)
          Limit    \* COEFFICIENT_LIMIT

Coordinate == 0 .. 2^Bits - 1

Coefficients(lhs, rhs) == {lhs[k] : k \in Coordinate} \cup {rhs[k] : k \in Coordinate}

Nonzero(x) == {k \in Coordinate : x[k] # 0}

(***************************************************************************)
(* The first objection the oracle has, in the order it looks for one.      *)
(***************************************************************************)
OperandError(lhs, rhs) ==
  IF \E x \in Coefficients(lhs, rhs) : x > Limit \/ -x > Limit THEN "OVERFLOW_RISK"
  ELSE IF Cardinality(Nonzero(lhs)) > 2 \/ Cardinality(Nonzero(rhs)) > 2
       THEN "TOO_MANY_NONZERO_COEFFICIENTS"
  ELSE IF ~(Coefficients(lhs, rhs) \subseteq {-1, 0, 1})
       THEN "UNSUPPORTED_COEFFICIENT_DOMAIN"
  ELSE IF Nonzero(lhs) = {} \/ Nonzero(rhs) = {} THEN "ZERO_OPERAND"
  ELSE "NONE"

(***************************************************************************)
(* Only nonzero coefficients are visited; each pair of them adds to the    *)
(* coefficient at the exclusive or of their indices.                       *)
(***************************************************************************)
Multiply(lhs, rhs) ==
  [k \in Coordinate |->
     MapThenSumSet(LAMBDA p : Sigma[Bits][p[1]][p[2]] * lhs[p[1]] * rhs[p[2]],
                   {p \in Nonzero(lhs) \X Nonzero(rhs) : IndexXor(p[1], p[2]) = k})]

ZeroVector == [k \in Coordinate |-> 0]

(***************************************************************************)
(* The receipt, as far as the hardware has outputs for it: a rejected      *)
(* pair has no product, which the hardware shows as zeros.                 *)
(***************************************************************************)
Evaluate(lhs, rhs) ==
  LET error   == OperandError(lhs, rhs)
      product == IF error = "NONE" THEN Multiply(lhs, rhs) ELSE ZeroVector
  IN  [classification |->
         CASE error = "ZERO_OPERAND" -> "INVALID_ZERO_OPERAND"
           [] error = "NONE" -> IF product = ZeroVector THEN "EXACT_ZD_PAIR"
                                ELSE "NONZERO_PRODUCT"
           [] OTHER -> "ARITHMETIC_ERROR",
       error_code      |-> IF error = "ZERO_OPERAND" THEN "NONE" ELSE error,
       product_is_zero |-> error = "NONE" /\ product = ZeroVector,
       product         |-> product]
============================================================================
