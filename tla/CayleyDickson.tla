--------------------------- MODULE CayleyDickson ---------------------------
(***************************************************************************)
(* The arithmetic of Cayley-Dickson basis elements that the repository     *)
(* computes in two independent ways: the recursion of the software oracle  *)
(* (tools/eisa_h/zd_pair_oracle.py) and the 256-bit sign ROM of the RTL    *)
(* (rtl/eisa_h_sed16_zd_pair_v1.sv).  Basis element e_a times e_b is       *)
(* sign(a,b) e_(a xor b).  Recursion is written as recursive functions.    *)
(***************************************************************************)
LOCAL INSTANCE Integers

MaxBits == 4                         \* e0..e15: the widest algebra of the code
Index == 0 .. 2^MaxBits - 1

Bit(x, k) == (x \div 2^k) % 2

(***************************************************************************)
(* i ^ j on four-bit lane indices.                                         *)
(***************************************************************************)
XorTable ==
  [a \in Index |-> [b \in Index |->
     LET bit(k) == 2^k * ((Bit(a, k) + Bit(b, k)) % 2)
     IN  bit(0) + bit(1) + bit(2) + bit(3)]]

IndexXor(a, b) == XorTable[a][b]

(***************************************************************************)
(* cd_sigma(a, b, bits): the sign of e_a e_b in the algebra of dimension   *)
(* 2^bits, by halving both indices.                                        *)
(***************************************************************************)
Sigma[bits \in 0 .. MaxBits] ==
  [a \in Index |-> [b \in Index |->
     IF a = 0 \/ b = 0 THEN 1
     ELSE IF bits <= 1 THEN -1
     ELSE LET half == 2^(bits - 1)
              lo(x) == x % half
              low(x, y) == Sigma[bits - 1][x][y]
          IN  CASE a < half /\ b < half   -> low(lo(a), lo(b))
                [] a < half /\ b >= half  -> low(lo(b), lo(a))
                [] a >= half /\ b < half  -> IF lo(b) = 0 THEN low(lo(a), 0)
                                                          ELSE -low(lo(a), lo(b))
                [] a >= half /\ b >= half -> IF lo(b) = 0 THEN -low(0, lo(a))
                                                          ELSE low(lo(b), lo(a))]]

(***************************************************************************)
(* V1_BASIS_NEGATIVE, one 16-bit word per left index.  Bit b of row a is   *)
(* bit {a, b} of the Verilog literal, whose first digits are row 15.       *)
(***************************************************************************)
RomRows ==
  <<\h0000, \h966a, \h3cc6, \h5aac, \hf01e, \haa74, \h66d8, \hccb2,
    \h01fe, \h9794, \h3d38, \h5b52, \hf1e0, \hab8a, \h6726, \hcd4c>>

RomTable == [a, b \in Index |-> Bit(RomRows[a + 1], b) = 1]

\* Mutant: the literal read with its first digits as row 0, as the text runs.
RomNegativeFromLeft(a, b) == RomTable[15 - a, b]

RomNegative(a, b) == RomTable[a, b]

(***************************************************************************)
(* The product by the doubling formula (a,b)(c,d) = (ac - d*b, da + bc* )  *)
(* on coordinate vectors: the definition of the algebra, which neither     *)
(* the recursion on indices nor the ROM is written from.                   *)
(***************************************************************************)
Conjugate(n, x) == [k \in 0 .. 2^n - 1 |-> IF k = 0 THEN x[0] ELSE -x[k]]

BasisVector(n, a) == [k \in 0 .. 2^n - 1 |-> IF k = a THEN 1 ELSE 0]

Doubling[n \in 0 .. MaxBits] ==
  [x \in [0 .. 2^n - 1 -> Int] |-> [y \in [0 .. 2^n - 1 -> Int] |->
     IF n = 0 THEN [k \in {0} |-> x[0] * y[0]]
     ELSE LET half    == 2^(n - 1)
              low(v)  == [k \in 0 .. half - 1 |-> v[k]]
              high(v) == [k \in 0 .. half - 1 |-> v[k + half]]
              times(v, w) == Doubling[n - 1][v][w]
              bar(v)  == Conjugate(n - 1, v)
              ac == times(low(x), low(y))
              db == times(bar(high(y)), high(x))
              da == times(high(y), low(x))
              bc == times(high(x), bar(low(y)))
          IN  [k \in 0 .. 2^n - 1 |-> IF k < half THEN ac[k] - db[k]
                                      ELSE da[k - half] + bc[k - half]]]]
============================================================================
