---------------------------- MODULE PhaseAlgebra ----------------------------
(***************************************************************************)
(* What the PIREUS oracles compute about an operator construction code:    *)
(* a bilinear form over F2 that twists the signs of the Cayley-Dickson     *)
(* algebra (tools/eisa_h/pireus_operator_atlas_oracle.py, lines 24-99).    *)
(* The integer of 4 x 4 bits is the set of its one bits; an operand index  *)
(* is a lane.                                                              *)
(***************************************************************************)
EXTENDS CayleyDickson, Integers, FiniteSets

CONSTANT Bits                        \* 4 in the code: 16 lanes
ASSUME BitsAssumption == Bits \in 1 .. MaxBits

Position == 0 .. Bits - 1
Lane == 0 .. 2^Bits - 1
Code == SUBSET (Position \X Position)

Ones(x) == {k \in Position : Bit(x, k) = 1}
Odd(S) == Cardinality(S) % 2 = 1

\* The code as an integer: bit(code, i, j) is its bit i * Bits + j.
CodeNumber(code) ==
  LET bit(n)  == IF <<n \div Bits, n % Bits>> \in code THEN 2^n ELSE 0
      four(n) == bit(n) + bit(n + 1) + bit(n + 2) + bit(n + 3)
  IN  four(0) + four(4) + four(8) + four(12)

\* TAU: the Cayley-Dickson sign as a bit.
Tau == [x \in Lane |-> [y \in Lane |-> Sigma[Bits][x][y] = -1]]

Bilinear(code, x, y) == Odd(code \cap (Ones(x) \X Ones(y)))

(***************************************************************************)
(* Two invariants of a code: the bits of its quadratic form, and the       *)
(* lanes on which the form is one.                                         *)
(***************************************************************************)
QuadraticCode(code) ==
  {c \in Position \X Position :
     \/ c[1] = c[2] /\ c \in code
     \/ c[1] < c[2] /\ (c \in code) # (<<c[2], c[1]>> \in code)}

\* Position of a bit in the integer: diagonal first, then pairs row by row.
QuadraticBit(c) ==
  LET number(d) == d[1] * Bits + d[2]
  IN  IF c[1] = c[2] THEN c[1]
      ELSE Bits + Cardinality({d \in Position \X Position :
                                 d[1] < d[2] /\ number(d) < number(c)})

Diagonal(code) == {x \in Lane : Bilinear(code, x, x)}

IsAlternating(code) ==
  \A i, j \in Position : /\ <<i, i>> \notin code
                         /\ (<<i, j>> \in code) = (<<j, i>> \in code)

-----------------------------------------------------------------------------
(***************************************************************************)
(* Matrices over F2, as the integers the code loops over.                  *)
(***************************************************************************)
Matrix == 0 .. 2^(Bits * Bits) - 1

Row(m, i) == (m \div 2^(i * Bits)) % 2^Bits

LaneOf(S) == CHOOSE x \in Lane : Ones(x) = S

ApplyMatrix(m, v) == LaneOf({i \in Position : Odd(Ones(Row(m, i)) \cap Ones(v))})

Invertible(m) == Cardinality({ApplyMatrix(m, v) : v \in Lane}) = Cardinality(Lane)

=============================================================================
