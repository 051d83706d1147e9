----------------------- MODULE OperatorAdmissionProof -----------------------
(***************************************************************************)
(* Proofs about OperatorAdmission, for every width of a lane, every set of *)
(* codes and lane maps that receipts are written about, and any number of  *)
(* fields tampered with.                                                   *)
(*                                                                         *)
(* The verdict is the truth of the receipt, which takes three things: the  *)
(* number a receipt names its code by gives the code back and is in range  *)
(* (CodeOfNumber, NumberOfCode); a lane map with an odd stride rebuilds    *)
(* the tensor, so that an honest receipt never claims a failure            *)
(* (OddStrideNeverFails); and codes with one quadratic code have the same  *)
(* invariants, class and novelty (InvariantsAreGauge, GaugeClass), because *)
(* they differ by an alternating form, which is symmetric.  The rest is    *)
(* the order of the layers, each of which may rely on those before it.     *)
(***************************************************************************)
EXTENDS OperatorAdmission, OperatorAtlasProof

-----------------------------------------------------------------------------
(* The signs of such codes differ by a symmetric form, which cancels.      *)

\* The signs of two such codes differ by the alternating form.
LEMMA GaugedSigns ==
  ASSUME NEW c \in Code, NEW d \in Code, NEW E, E = (c \ d) \cup (d \ c),
         NEW i \in Lane, NEW j \in Lane
  PROVE  Negative[c][i][j] <=> (Negative[d][i][j] <=> ~Bilinear(E, i, j))
<1>1. Negative[c][i][j] = (Tau[i][j] # Bilinear(c, i, j))
  BY DEF Negative
<1>2. Negative[d][i][j] = (Tau[i][j] # Bilinear(d, i, j))
  BY DEF Negative
<1>3. Tau[i][j] \in BOOLEAN
  BY DEF Tau
<1>4. Bilinear(c, i, j) \in BOOLEAN /\ Bilinear(d, i, j) \in BOOLEAN
  BY BilinearIsBoolean
<1>5. Bilinear(E, i, j) <=> ~(Bilinear(c, i, j) <=> Bilinear(d, i, j))
  BY <1>4, AdditiveCode
<1> QED
  BY <1>1, <1>2, <1>3, <1>4, <1>5

\* A sign is a bit.
LEMMA SignsAreBoolean ==
  ASSUME NEW c \in Code, NEW i \in Lane, NEW j \in Lane
  PROVE  Negative[c][i][j] \in BOOLEAN
BY DEF Negative

\* What the eight invariants count is unmoved by an alternating change of code.
LEMMA InvariantsAreGauge ==
  ASSUME NEW c \in Code, NEW d \in Code, QuadraticCode(c) = QuadraticCode(d)
  PROVE  StructureInvariants(c) = StructureInvariants(d)
<1> DEFINE E == (c \ d) \cup (d \ c)
           e(i, j) == Bilinear(E, i, j)
           n(i, j) == Negative[c][i][j]
           m(i, j) == Negative[d][i][j]
<1>1. E \in Code /\ IsAlternating(E)
  BY DifferenceIsAlternating
<1>2. \A i, j \in Lane : n(i, j) <=> (m(i, j) <=> ~e(i, j))
  BY GaugedSigns
<1>3. \A i, j \in Lane : n(i, j) \in BOOLEAN /\ m(i, j) \in BOOLEAN /\ e(i, j) \in BOOLEAN
  BY SignsAreBoolean, BilinearIsBoolean
<1>4. \A i, j \in Lane : e(i, j) <=> e(j, i)
  BY <1>1, AlternatingIsSymmetric
<1>5. \A i \in Lane : ~e(i, i) /\ ~e(0, i) /\ ~e(i, 0)
  BY <1>1, AlternatingVanishes, ZeroOperand
<1>6. \A i, j, k \in Lane : /\ IndexXor(i, j) \in Lane
                            /\ e(IndexXor(i, j), k) <=> ~(e(i, k) <=> e(j, k))
                            /\ e(k, IndexXor(i, j)) <=> ~(e(k, i) <=> e(k, j))
  <2> SUFFICES ASSUME NEW i \in Lane, NEW j \in Lane, NEW k \in Lane
               PROVE  /\ IndexXor(i, j) \in Lane
                      /\ e(IndexXor(i, j), k) <=> ~(e(i, k) <=> e(j, k))
                      /\ e(k, IndexXor(i, j)) <=> ~(e(k, i) <=> e(k, j))
    OBVIOUS
  <2>1. IndexXor(i, j) \in Lane
    BY OnesOfXor
  <2>2. e(i, k) \in BOOLEAN /\ e(j, k) \in BOOLEAN /\ e(k, i) \in BOOLEAN /\ e(k, j) \in BOOLEAN
    BY <1>3
  <2>3. e(IndexXor(i, j), k) <=> (e(i, k) # e(j, k))
    BY <1>1, AdditiveLeft
  <2>4. e(k, IndexXor(i, j)) <=> (e(k, i) # e(k, j))
    BY <1>1, AdditiveRight
  <2> HIDE DEF e
  <2> QED
    BY <2>1, <2>2, <2>3, <2>4
<1>0. 0 \in Lane
  BY OnesOfZero
<1> HIDE DEF E, e, n, m
<1>11. {t \in Lane \X Lane \X Lane :
          (n(t[1], t[2]) # n(IndexXor(t[1], t[2]), t[3]))
             # (n(t[2], t[3]) # n(t[1], IndexXor(t[2], t[3])))}
       = {t \in Lane \X Lane \X Lane :
          (m(t[1], t[2]) # m(IndexXor(t[1], t[2]), t[3]))
             # (m(t[2], t[3]) # m(t[1], IndexXor(t[2], t[3])))}
  <2>1. \A i, j, k \in Lane :
          ((n(i, j) # n(IndexXor(i, j), k)) # (n(j, k) # n(i, IndexXor(j, k))))
          <=> ((m(i, j) # m(IndexXor(i, j), k)) # (m(j, k) # m(i, IndexXor(j, k))))
    BY <1>2, <1>3, <1>6
  <2> QED
    BY <2>1
<1>12. {p \in Lane \X Lane : n(p[1], p[2]) # n(p[2], p[1])}
       = {p \in Lane \X Lane : m(p[1], p[2]) # m(p[2], p[1])}
  BY <1>2, <1>3, <1>4
<1>13. {p \in Lane \X Lane : p[1] # p[2] /\ 0 \notin {p[1], p[2]} /\ n(p[1], p[2]) = n(p[2], p[1])}
       = {p \in Lane \X Lane : p[1] # p[2] /\ 0 \notin {p[1], p[2]} /\ m(p[1], p[2]) = m(p[2], p[1])}
  BY <1>2, <1>3, <1>4
<1>14. {p \in Lane \X Lane :
          (n(p[1], p[1]) # n(0, p[2])) # (n(p[1], p[2]) # n(p[1], IndexXor(p[1], p[2])))}
       = {p \in Lane \X Lane :
          (m(p[1], p[1]) # m(0, p[2])) # (m(p[1], p[2]) # m(p[1], IndexXor(p[1], p[2])))}
  <2>1. \A i, j \in Lane :
          ((n(i, i) # n(0, j)) # (n(i, j) # n(i, IndexXor(i, j))))
          <=> ((m(i, i) # m(0, j)) # (m(i, j) # m(i, IndexXor(i, j))))
    BY <1>0, <1>2, <1>3, <1>5, <1>6
  <2> QED
    BY <2>1
<1>15. {p \in Lane \X Lane :
          (n(p[1], p[2]) # n(IndexXor(p[1], p[2]), p[2])) # (n(p[2], p[2]) # n(p[1], 0))}
       = {p \in Lane \X Lane :
          (m(p[1], p[2]) # m(IndexXor(p[1], p[2]), p[2])) # (m(p[2], p[2]) # m(p[1], 0))}
  <2>1. \A i, j \in Lane :
          ((n(i, j) # n(IndexXor(i, j), j)) # (n(j, j) # n(i, 0)))
          <=> ((m(i, j) # m(IndexXor(i, j), j)) # (m(j, j) # m(i, 0)))
    BY <1>0, <1>2, <1>3, <1>5, <1>6
  <2> QED
    BY <2>1
<1>16. {p \in Lane \X Lane :
          (n(p[1], p[2]) # n(IndexXor(p[1], p[2]), p[1]))
             # (n(p[2], p[1]) # n(p[1], IndexXor(p[2], p[1])))}
       = {p \in Lane \X Lane :
          (m(p[1], p[2]) # m(IndexXor(p[1], p[2]), p[1]))
             # (m(p[2], p[1]) # m(p[1], IndexXor(p[2], p[1])))}
  <2>1. \A i, j \in Lane :
          ((n(i, j) # n(IndexXor(i, j), i)) # (n(j, i) # n(i, IndexXor(j, i))))
          <=> ((m(i, j) # m(IndexXor(i, j), i)) # (m(j, i) # m(i, IndexXor(j, i))))
    BY <1>2, <1>3, <1>4, <1>5, <1>6
  <2> QED
    BY <2>1
<1>17. {y \in Lane : n(y, y)} = {y \in Lane : m(y, y)}
  BY <1>2, <1>3, <1>5
<1>18. (\A j \in Lane : ~n(0, j) /\ ~n(j, 0)) <=> (\A j \in Lane : ~m(0, j) /\ ~m(j, 0))
  BY <1>0, <1>2, <1>3, <1>5
<1> QED
  BY <1>11, <1>12, <1>13, <1>14, <1>15, <1>16, <1>17, <1>18, Zenon DEF StructureInvariants, n, m

-----------------------------------------------------------------------------
(* Lane maps with an odd stride rebuild the tensor. *)

\* The lanes that contribute to a coefficient of the tensor.
Contributing(stride, offset, a, b, k) ==
  {lane \in Lane : Target(2^Bits, stride, offset, lane) = k
                     /\ IndexXor(Target(2^Bits, stride, offset, lane), b) = a}

\* What TensorFailures counts, by the lanes that contribute to a coefficient.
LEMMA FailuresCounted ==
  ASSUME NEW code \in Code, NEW stride \in Lane, NEW offset \in Lane
  PROVE  Failures[code][stride][offset] =
           Cardinality({t \in Lane \X Lane \X Lane :
             Cardinality(Contributing(stride, offset, t[1], t[2], t[3]))
               # (IF IndexXor(t[1], t[2]) = t[3] THEN 1 ELSE 0)})
<1> DEFINE sign(a, b) == IF Negative[code][a][b] THEN -1 ELSE 1
           h(a, b, k) == Cardinality(Contributing(stride, offset, a, b, k))
<1>1. IsFiniteSet(Lane)
  <2>1. 2^Bits - 1 \in Int
    BY Widths
  <2> QED
    BY <2>1, FS_Interval DEF Lane
<1>2. \A a, b, k \in Lane : h(a, b, k) \in Nat
  BY <1>1, FS_Subset, FS_CardinalityType DEF Contributing
<1>3. \A a, b \in Lane : sign(a, b) \in {1, -1}
  OBVIOUS
<1>4. TensorFailures(code, stride, offset) =
        Cardinality({t \in Lane \X Lane \X Lane :
          h(t[1], t[2], t[3]) * sign(t[1], t[2])
            # (IF IndexXor(t[1], t[2]) = t[3] THEN sign(t[1], t[2]) ELSE 0)})
  BY Zenon DEF TensorFailures, Contributing, Target
<1> HIDE DEF sign, h
<1>5. \A a, b, k \in Lane :
        h(a, b, k) * sign(a, b) # (IF IndexXor(a, b) = k THEN sign(a, b) ELSE 0)
        <=> h(a, b, k) # (IF IndexXor(a, b) = k THEN 1 ELSE 0)
  <2> SUFFICES ASSUME NEW a \in Lane, NEW b \in Lane, NEW k \in Lane
               PROVE  h(a, b, k) * sign(a, b) # (IF IndexXor(a, b) = k THEN sign(a, b) ELSE 0)
                      <=> h(a, b, k) # (IF IndexXor(a, b) = k THEN 1 ELSE 0)
    OBVIOUS
  <2>1. h(a, b, k) \in Nat /\ sign(a, b) \in {1, -1}
    BY <1>2, <1>3
  <2>2. CASE sign(a, b) = 1
    BY <2>1, <2>2
  <2>3. CASE sign(a, b) = -1
    BY <2>1, <2>3
  <2> QED
    BY <2>1, <2>2, <2>3
<1>6. {t \in Lane \X Lane \X Lane :
          h(t[1], t[2], t[3]) * sign(t[1], t[2])
            # (IF IndexXor(t[1], t[2]) = t[3] THEN sign(t[1], t[2]) ELSE 0)}
      = {t \in Lane \X Lane \X Lane :
          h(t[1], t[2], t[3]) # (IF IndexXor(t[1], t[2]) = t[3] THEN 1 ELSE 0)}
  BY <1>5
<1>7. Failures[code][stride][offset] = TensorFailures(code, stride, offset)
  BY DEF Failures
<1> QED
  BY <1>4, <1>6, <1>7, Zenon DEF h

\* How well a lane map rebuilds the tensor does not depend on the code: the
\* sign multiplies both sides.
LEMMA FailuresAreGauge ==
  ASSUME NEW c \in Code, NEW d \in Code, NEW stride \in Lane, NEW offset \in Lane
  PROVE  Failures[c][stride][offset] = Failures[d][stride][offset]
BY FailuresCounted

\* A lane map with an odd stride rebuilds every coefficient.
LEMMA OddStrideNeverFails ==
  ASSUME NEW code \in Code, NEW stride \in Lane, NEW offset \in Lane, stride % 2 = 1
  PROVE  Failures[code][stride][offset] = 0
<1>1. \A a, b, k \in Lane : Cardinality(Contributing(stride, offset, a, b, k))
                              = IF IndexXor(a, b) = k THEN 1 ELSE 0
  <2> SUFFICES ASSUME NEW a \in Lane, NEW b \in Lane, NEW k \in Lane
               PROVE  Cardinality(Contributing(stride, offset, a, b, k))
                        = IF IndexXor(a, b) = k THEN 1 ELSE 0
    OBVIOUS
  <2>1. PICK l \in Lane : Sole(2^Bits, stride, offset, k, l)
    BY OddStridePermutes
  <2>2. Contributing(stride, offset, a, b, k) = IF IndexXor(k, b) = a THEN {l} ELSE {}
    BY <2>1 DEF Contributing, Sole, Lane
  <2>3. Cardinality({l}) = 1 /\ Cardinality({}) = 0
    BY FS_Singleton, FS_EmptySet
  <2>4. IndexXor(k, b) = a <=> IndexXor(a, b) = k
    BY XorUndoes
  <2> QED
    BY <2>2, <2>3, <2>4
<1>2. {t \in Lane \X Lane \X Lane :
         Cardinality(Contributing(stride, offset, t[1], t[2], t[3]))
           # (IF IndexXor(t[1], t[2]) = t[3] THEN 1 ELSE 0)} = {}
  BY <1>1
<1> QED
  BY <1>2, FailuresCounted, FS_EmptySet

-----------------------------------------------------------------------------
(* A code is known by its number. *)

\* The number of a code is in range, and gives the code back.
LEMMA CodeOfNumber ==
  ASSUME NEW code \in Code
  PROVE  /\ CodeNumber(code) \in 0 .. 2^(Bits * Bits) - 1
         /\ CodeNumbered[CodeNumber(code)] = code
<1> DEFINE x == CodeNumber(code)
           m == Bits * Bits
<1>1. \A k \in 0 .. 15 : Bit(x, k) = IF <<k \div Bits, k % Bits>> \in code THEN 1 ELSE 0
  BY NumberBits
<1>2. m \in 1 .. 16
  BY CellOfBit
<1>3. x \in 0 .. 2^m - 1
  BY NumberInRange
<1> HIDE DEF x, m
<1>4. CodeNumbered[x] = {c \in Position \X Position : Bit(x, c[1] * Bits + c[2]) = 1}
  BY <1>3, Zenon DEF CodeNumbered, m
<1>5. \A c \in Position \X Position : Bit(x, c[1] * Bits + c[2]) = 1 <=> c \in code
  <2> SUFFICES ASSUME NEW c \in Position \X Position
               PROVE  Bit(x, c[1] * Bits + c[2]) = 1 <=> c \in code
    OBVIOUS
  <2> DEFINE n == c[1] * Bits + c[2]
  <2>1. n \in 0 .. m - 1 /\ c = <<n \div Bits, n % Bits>>
    BY CellOfBit DEF m
  <2> HIDE DEF n
  <2>2. n \in 0 .. 15
    BY <2>1, <1>2
  <2>3. Bit(x, n) = IF c \in code THEN 1 ELSE 0
    BY <2>1, <2>2, <1>1, Zenon
  <2> QED
    BY <2>3 DEF n
<1>6. CodeNumbered[x] = code
  <2>1. code \subseteq Position \X Position
    BY DEF Code
  <2> QED
    BY <2>1, <1>4, <1>5
<1> QED
  BY <1>3, <1>6 DEF x, m

\* Every number in range is the number of the code it gives.
LEMMA NumberOfCode ==
  ASSUME NEW x \in 0 .. 2^(Bits * Bits) - 1
  PROVE  CodeNumbered[x] \in Code /\ CodeNumber(CodeNumbered[x]) = x
<1> DEFINE c == CodeNumbered[x]
           m == Bits * Bits
           z == CodeNumber(c)
<1>1. c = {d \in Position \X Position : Bit(x, d[1] * Bits + d[2]) = 1}
  BY DEF CodeNumbered
<1>2. c \in Code
  BY <1>1 DEF Code
<1>3. /\ z \in Nat /\ z \div 2^16 = 0
      /\ \A k \in 0 .. 15 : Bit(z, k) = IF <<k \div Bits, k % Bits>> \in c THEN 1 ELSE 0
  BY NumberBits
<1>4. m \in 1 .. 16 /\ m \in 0 .. 16
  BY CellOfBit
<1>5. x \in 0 .. 2^m - 1
  OBVIOUS
<1> HIDE DEF m, c, z
<1>6. 2^m \in Nat /\ 2^m > 0
  BY <1>4, PositivePowers, Zenon
<1>7. x \in Nat /\ x \div 2^m = 0
  BY <1>5, <1>6
<1>8. \A k \in 0 .. 15 : k >= m => Bit(x, k) = 0
  BY <1>4, <1>7, HighBits
<1>9. x \div 2^16 = 0
  <2>1. 16 \in 0 .. 16 /\ 16 >= m
    BY <1>4
  <2> QED
    BY <1>4, <1>7, <2>1, HighShift, Zenon
<1>10. \A k \in 0 .. 15 : Bit(x, k) = IF <<k \div Bits, k % Bits>> \in c THEN 1 ELSE 0
  <2> SUFFICES ASSUME NEW k \in 0 .. 15
               PROVE  Bit(x, k) = IF <<k \div Bits, k % Bits>> \in c THEN 1 ELSE 0
    OBVIOUS
  <2>1. Bit(x, k) \in {0, 1}
    BY <1>7, Shift
  <2>2. CASE k < m
    <3>1. <<k \div Bits, k % Bits>> \in Position \X Position /\ k = (k \div Bits) * Bits + (k % Bits)
      BY <2>2, CellOfBit DEF m
    <3>2. <<k \div Bits, k % Bits>> \in c <=> Bit(x, (k \div Bits) * Bits + (k % Bits)) = 1
      BY <3>1, <1>1
    <3>3. <<k \div Bits, k % Bits>> \in c <=> Bit(x, k) = 1
      BY <3>1, <3>2
    <3> QED
      BY <3>3, <2>1
  <2>3. CASE k >= m
    <3>1. <<k \div Bits, k % Bits>> \notin Position \X Position
      BY <2>3, CellOfBit DEF m
    <3>2. <<k \div Bits, k % Bits>> \notin c
      BY <3>1, <1>2 DEF Code
    <3> QED
      BY <3>2, <2>3, <1>8
  <2>4. k < m \/ k >= m
    BY <1>4
  <2> QED
    BY <2>2, <2>3, <2>4
<1>11. x = z
  BY <1>3, <1>7, <1>9, <1>10, SameBits
<1> QED
  BY <1>2, <1>11 DEF c, z

-----------------------------------------------------------------------------
(* What a canonical receipt says. *)

\* The canonical receipts are the claims about a code and a lane map.
LEMMA CanonicalClaims ==
  ASSUME NEW code \in Code, NEW stride \in Lane, NEW offset \in Lane
  PROVE  CanonicalReceipt[code][stride][offset] = Claims(code, stride, offset)
BY DEF CanonicalReceipt

SaysWords(r) ==
  /\ r["authority"] = <<"str", "Sounio">>
  /\ r["tensor_encoding"] = <<"str", "cd16-abk-offset1-v1">>
  /\ r["fp_parity"] = <<"str", "UNMEASURED">>
  /\ r["formal_v13_v14"] = <<"str", "OPEN">>
  /\ r["claim_ready"] = <<"bool", FALSE>>

SaysDecision(r, code) ==
  /\ r["decision"] = <<"str", IF Novel(code) THEN "ADMIT" ELSE "REFUSE">>
  /\ r["novel_relative_to_v1_grammar"] = <<"bool", Novel(code)>>

SaysIntegers(r, code, stride, offset) ==
  /\ r["schema"] = <<"int", 1>>
  /\ r["kind"] = <<"int", 2>>
  /\ r["tensor_components"] = <<"int", 2^(3 * Bits)>>
  /\ r["phase_code"] = <<"int", CodeNumber(code)>>
  /\ r["quadratic_code"] = <<"int", QuadraticId(code)>>
  /\ r["affine_class"] = <<"int", ClassOf(code)>>
  /\ r["tensor_reconstruction_failures"] = <<"int", Failures[code][stride][offset]>>
  /\ r["lane_stride"] = <<"int", stride>>
  /\ r["lane_offset"] = <<"int", offset>>

SaysInvariants(r, code) ==
  /\ r["associator_defects"] = <<"int", Invariants[code].associator_defects>>
  /\ r["commutator_defects"] = <<"int", Invariants[code].commutator_defects>>
  /\ r["anticommutator_failures"] = <<"int", Invariants[code].anticommutator_failures>>
  /\ r["basis_left_alternative_failures"] = <<"int", Invariants[code].basis_left_alternative_failures>>
  /\ r["basis_right_alternative_failures"] = <<"int", Invariants[code].basis_right_alternative_failures>>
  /\ r["basis_flexible_failures"] = <<"int", Invariants[code].basis_flexible_failures>>
  /\ r["square_negatives"] = <<"int", Invariants[code].square_negatives>>
  /\ r["unit_index"] = <<"int", Invariants[code].unit_index>>

\* A canonical receipt has the required fields and says what it says in them.
LEMMA ClaimedFields ==
  ASSUME NEW code, NEW stride, NEW offset, NEW r, r = Claims(code, stride, offset)
  PROVE  /\ DOMAIN r = RequiredFields
         /\ SaysWords(r) /\ SaysDecision(r, code)
         /\ SaysIntegers(r, code, stride, offset) /\ SaysInvariants(r, code)
<1>1. DOMAIN r = RequiredFields
  BY DEF Claims, RequiredFields, IntFields, BoolFields, InvariantFields
<1>2. SaysWords(r)
  BY Zenon DEF Claims, SaysWords
<1>3. SaysDecision(r, code)
  BY Zenon DEF Claims, SaysDecision
<1>4. SaysIntegers(r, code, stride, offset)
  BY Zenon DEF Claims, SaysIntegers
<1>5. SaysInvariants(r, code)
  BY Zenon DEF Claims, SaysInvariants
<1> QED
  BY <1>1, <1>2, <1>3, <1>4, <1>5

\* Each field is a value with the tag of its type.
LEMMA TypesOfClaims ==
  ASSUME NEW code, NEW stride, NEW offset, NEW r, r = Claims(code, stride, offset)
  PROVE  /\ \A f \in IntFields : r[f][1] = "int"
         /\ \A f \in BoolFields : r[f][1] = "bool"
<1>1. \A f \in InvariantFields : r[f][1] = "int"
  <2>1. SaysInvariants(r, code)
    BY ClaimedFields
  <2> QED
    BY <2>1 DEF SaysInvariants, InvariantFields
<1>2. \A f \in IntFields \ InvariantFields : r[f][1] = "int"
  <2>1. SaysIntegers(r, code, stride, offset)
    BY ClaimedFields
  <2> QED
    BY <2>1 DEF SaysIntegers, IntFields
<1>3. \A f \in BoolFields : r[f][1] = "bool"
  <2>1. SaysWords(r) /\ SaysDecision(r, code)
    BY ClaimedFields
  <2>2. <<"bool", FALSE>>[1] = "bool" /\ <<"bool", Novel(code)>>[1] = "bool"
    OBVIOUS
  <2>3. r["claim_ready"][1] = "bool" /\ r["novel_relative_to_v1_grammar"][1] = "bool"
    BY <2>1, <2>2, Zenon DEF SaysWords, SaysDecision
  <2> QED
    BY <2>3 DEF BoolFields
<1> QED
  BY <1>1, <1>2, <1>3

\* Lane map and number of tensor failures apart, claims depend on the code alone.
LEMMA ClaimsByCode ==
  ASSUME NEW code, NEW stride, NEW offset, NEW s, NEW o, NEW r, NEW q,
         r = Claims(code, stride, offset), q = Claims(code, s, o),
         NEW f \in RequiredFields \ {"lane_stride", "lane_offset", "tensor_reconstruction_failures"}
  PROVE  r[f] = q[f]
<1>1. /\ SaysWords(r) /\ SaysDecision(r, code)
      /\ SaysIntegers(r, code, stride, offset) /\ SaysInvariants(r, code)
      /\ SaysWords(q) /\ SaysDecision(q, code)
      /\ SaysIntegers(q, code, s, o) /\ SaysInvariants(q, code)
  BY ClaimedFields
<1>2. CASE f \in InvariantFields
  BY <1>1, <1>2, Zenon DEF SaysInvariants, InvariantFields
<1>3. CASE f \in {"schema", "kind", "phase_code", "quadratic_code", "affine_class", "tensor_components",
                  "tensor_reconstruction_failures", "lane_stride", "lane_offset"} \ {"lane_stride", "lane_offset", "tensor_reconstruction_failures"}
  BY <1>1, <1>3 DEF SaysIntegers
<1>4. CASE f \in {"authority", "tensor_encoding", "fp_parity", "formal_v13_v14", "claim_ready"}
  BY <1>1, <1>4, Zenon DEF SaysWords
<1>5. CASE f \in {"decision", "novel_relative_to_v1_grammar"}
  BY <1>1, <1>5, Zenon DEF SaysDecision
<1> QED
  BY <1>2, <1>3, <1>4, <1>5 DEF RequiredFields, IntFields, BoolFields

\* Codes with one quadratic code have one class.
LEMMA GaugeClass ==
  ASSUME NEW c \in Code, NEW d \in Code, QuadraticCode(c) = QuadraticCode(d)
  PROVE  /\ Diagonals[c] = Diagonals[d] /\ Novel(c) = Novel(d)
         /\ ClassOf(c) = ClassOf(d) /\ QuadraticId(c) = QuadraticId(d)
<1> DEFINE E == (c \ d) \cup (d \ c)
<1>1. E \in Code /\ IsAlternating(E)
  BY DifferenceIsAlternating
<1>2. \A x \in Lane : Bilinear(c, x, x) <=> Bilinear(d, x, x)
  <2> SUFFICES ASSUME NEW x \in Lane PROVE Bilinear(c, x, x) <=> Bilinear(d, x, x)
    OBVIOUS
  <2>1. Bilinear(E, x, x) <=> (Bilinear(c, x, x) # Bilinear(d, x, x))
    BY AdditiveCode
  <2>2. ~Bilinear(E, x, x)
    BY <1>1, AlternatingVanishes
  <2>3. Bilinear(c, x, x) \in BOOLEAN /\ Bilinear(d, x, x) \in BOOLEAN
    BY BilinearIsBoolean
  <2> QED
    BY <2>1, <2>2, <2>3
<1>3. Diagonal(c) = Diagonal(d)
  BY <1>2 DEF Diagonal
<1>4. Diagonals[c] = Diagonals[d]
  BY <1>3 DEF Diagonals
<1> QED
  BY <1>4, Zenon DEF Novel, ClassOf, QuadraticId

\* Receipts about codes with one quadratic code differ in the code they name only.
LEMMA ClaimsAreGauge ==
  ASSUME NEW c \in Code, NEW d \in Code, QuadraticCode(c) = QuadraticCode(d),
         NEW stride \in Lane, NEW offset \in Lane, NEW r, NEW q,
         r = Claims(c, stride, offset), q = Claims(d, stride, offset),
         NEW f \in RequiredFields \ {"phase_code"}
  PROVE  r[f] = q[f]
<1>1. Invariants[c] = Invariants[d]
  BY InvariantsAreGauge DEF Invariants
<1>2. /\ Novel(c) = Novel(d) /\ ClassOf(c) = ClassOf(d) /\ QuadraticId(c) = QuadraticId(d)
      /\ Failures[c][stride][offset] = Failures[d][stride][offset]
  BY GaugeClass, FailuresAreGauge
<1>3. /\ SaysWords(r) /\ SaysDecision(r, c)
      /\ SaysIntegers(r, c, stride, offset) /\ SaysInvariants(r, c)
      /\ SaysWords(q) /\ SaysDecision(q, d)
      /\ SaysIntegers(q, d, stride, offset) /\ SaysInvariants(q, d)
  BY ClaimedFields
<1>4. CASE f \in InvariantFields
  BY <1>1, <1>3, <1>4, Zenon DEF SaysInvariants, InvariantFields
<1>5. CASE f \in {"schema", "kind", "phase_code", "quadratic_code", "affine_class", "tensor_components",
                  "tensor_reconstruction_failures", "lane_stride", "lane_offset"} \ {"phase_code"}
  BY <1>2, <1>3, <1>5 DEF SaysIntegers
<1>6. CASE f \in {"authority", "tensor_encoding", "fp_parity", "formal_v13_v14", "claim_ready"}
  BY <1>3, <1>6, Zenon DEF SaysWords
<1>7. CASE f \in {"decision", "novel_relative_to_v1_grammar"}
  BY <1>2, <1>3, <1>7, Zenon DEF SaysDecision
<1> QED
  BY <1>4, <1>5, <1>6, <1>7 DEF RequiredFields, IntFields, BoolFields

-----------------------------------------------------------------------------
(* The layers. *)

\* Which layer finds what.
LEMMA LayerFaults ==
  ASSUME NEW r
  PROVE  /\ Faults(Layers[1], r) = ForbiddenField(r)
         /\ Faults(Layers[2], r) = MissingField(r)
         /\ Faults(Layers[3], r) = WrongType(r)
         /\ Faults(Layers[4], r) = Provenance(r)
         /\ Faults(Layers[5], r) = CodeRange(r)
         /\ Faults(Layers[6], r) = LaneMap(r)
         /\ Faults(Layers[7], r) = Obligations(r)
         /\ Len(Layers) = 7
<1>1. /\ Layers[1] = "forbidden" /\ Layers[2] = "missing" /\ Layers[3] = "types"
      /\ Layers[4] = "provenance" /\ Layers[5] = "range" /\ Layers[6] = "lanes"
      /\ Layers[7] = "obligations" /\ Len(Layers) = 7
  BY DEF Layers
<1> QED
  BY <1>1 DEF Faults

\* What it means to get past a layer.
LEMMA TypesPassed ==
  ASSUME NEW r
  PROVE  WrongType(r) = {} <=> /\ \A f \in IntFields : r[f][1] = "int"
                               /\ \A f \in BoolFields : r[f][1] = "bool"
BY DEF WrongType

\* The same, for the words and the decision.
LEMMA ProvenancePassed ==
  ASSUME NEW r
  PROVE  Provenance(r) = {} <=> /\ r["schema"] = <<"int", 1>>
                                /\ r["authority"] = <<"str", "Sounio">>
                                /\ r["kind"] = <<"int", 2>>
                                /\ r["decision"] \in {<<"str", "ADMIT">>, <<"str", "REFUSE">>}
<1>1. /\ "schema" \in Provenance(r) <=> r["schema"] # <<"int", 1>>
      /\ "authority" \in Provenance(r) <=> r["authority"] # <<"str", "Sounio">>
      /\ "kind" \in Provenance(r) <=> r["kind"] # <<"int", 2>>
      /\ "decision" \in Provenance(r) <=>
           r["decision"] \notin {<<"str", "ADMIT">>, <<"str", "REFUSE">>}
  BY DEF Provenance
<1>2. Provenance(r) \subseteq {"schema", "authority", "kind", "decision"}
  BY DEF Provenance
<1>3. Provenance(r) = {} <=> /\ "schema" \notin Provenance(r)
                             /\ "authority" \notin Provenance(r)
                             /\ "kind" \notin Provenance(r)
                             /\ "decision" \notin Provenance(r)
  BY <1>2
<1> QED
  BY <1>1, <1>3, Zenon

\* The same, for the number of the code.
LEMMA RangePassed ==
  ASSUME NEW r
  PROVE  CodeRange(r) = {} <=> Value(r, "phase_code") \in 0 .. 2^(Bits * Bits) - 1
BY Zenon DEF CodeRange

\* The same, for the lane map: an odd stride and a lane.
LEMMA LanesPassed ==
  ASSUME NEW r
  PROVE  LaneMap(r) = {} <=> /\ Value(r, "lane_stride") \in Lane
                             /\ Value(r, "lane_stride") % 2 = 1
                             /\ Value(r, "lane_offset") \in Lane
<1> DEFINE s == Value(r, "lane_stride")
           o == Value(r, "lane_offset")
<1>1. LaneMap(r) = {} <=> s \in 1 .. 2^Bits - 1 /\ s % 2 = 1 /\ o \in 0 .. 2^Bits - 1
  BY DEF LaneMap
<1> HIDE DEF s, o
<1>2. s \in 1 .. 2^Bits - 1 /\ s % 2 = 1 <=> s \in Lane /\ s % 2 = 1
  BY Widths
<1> QED
  BY <1>1, <1>2, Widths DEF s, o

\* An obligation is broken where a claim differs from the truth about the code
\* and the lane map named, or where what does not deserve it is admitted.
LEMMA ObligationBroken ==
  ASSUME NEW r, NEW code \in Code, NEW s \in Lane, NEW o \in Lane,
         code = CodeNumbered[Value(r, "phase_code")],
         s = Value(r, "lane_stride"), o = Value(r, "lane_offset"),
         NEW q, q = Claims(code, s, o), NEW f
  PROVE  f \in Obligations(r) <=>
           \/ /\ f \in RequiredFields \ {"decision", "phase_code", "lane_stride", "lane_offset"}
              /\ r[f] # q[f]
           \/ /\ f = "ADMITTED_WITH_TENSOR_FAILURES"
              /\ r["decision"] = <<"str", "ADMIT">> /\ Failures[code][s][o] # 0
           \/ /\ f = "ADMITTED_WITHOUT_NOVELTY"
              /\ r["decision"] = <<"str", "ADMIT">> /\ ~Novel(code)
<1> DEFINE truth == CanonicalReceipt[code][1][0]
           Free == RequiredFields \ {"decision", "phase_code", "lane_stride", "lane_offset",
                                     "tensor_reconstruction_failures"}
<1>1. f \in Obligations(r) <=>
        \/ f \in Free /\ r[f] # truth[f]
        \/ f = "tensor_reconstruction_failures" /\ r[f] # <<"int", Failures[code][s][o]>>
        \/ /\ f = "ADMITTED_WITH_TENSOR_FAILURES"
           /\ r["decision"] = <<"str", "ADMIT">> /\ Failures[code][s][o] # 0
        \/ /\ f = "ADMITTED_WITHOUT_NOVELTY"
           /\ r["decision"] = <<"str", "ADMIT">> /\ ~Novel(code)
  BY Zenon DEF Obligations
<1>2. truth = Claims(code, 1, 0)
  BY CanonicalClaims, Widths
<1> HIDE DEF truth
<1>3. f \in Free => truth[f] = q[f]
  <2> SUFFICES ASSUME f \in RequiredFields \ {"lane_stride", "lane_offset", "tensor_reconstruction_failures"}
               PROVE  truth[f] = q[f]
    OBVIOUS
  <2> QED
    BY <1>2, ClaimsByCode
<1>4. q["tensor_reconstruction_failures"] = <<"int", Failures[code][s][o]>>
  BY ClaimedFields DEF SaysIntegers
<1>5. "tensor_reconstruction_failures" \in
        RequiredFields \ {"decision", "phase_code", "lane_stride", "lane_offset"}
  BY DEF RequiredFields, IntFields
<1>6. f \in RequiredFields \ {"decision", "phase_code", "lane_stride", "lane_offset"} <=>
        f \in Free \/ f = "tensor_reconstruction_failures"
  BY <1>5
<1> HIDE DEF Free
<1> QED
  BY <1>1, <1>3, <1>4, <1>6, Zenon

-----------------------------------------------------------------------------
(***************************************************************************)
(* The invariant: what has been decided so far is what the layers say of   *)
(* the receipt as it is, and every layer before the last one found nothing.*)
(***************************************************************************)
Tagged(r) == \A f \in DOMAIN r : r[f] = <<r[f][1], r[f][2]>>

IInv ==
  /\ stage \in 0 .. 7
  /\ Tagged(receipt)
  /\ receipt = <<>> => stage = 0
  /\ stage = 0 => faults = {}
  /\ stage > 0 => faults = Faults(Layers[stage], receipt)
  /\ \A n \in 1 .. stage : n < stage => Faults(Layers[n], receipt) = {}

\* Whatever an engine writes is a value with a tag.
LEMMA ClaimsAreTagged ==
  ASSUME NEW code, NEW stride, NEW offset
  PROVE  Tagged(Claims(code, stride, offset))
<1> DEFINE r == Claims(code, stride, offset)
<1>1. /\ SaysWords(r) /\ SaysDecision(r, code)
      /\ SaysIntegers(r, code, stride, offset) /\ SaysInvariants(r, code)
      /\ DOMAIN r = RequiredFields
  BY ClaimedFields
<1> HIDE DEF r
<1> SUFFICES ASSUME NEW f \in RequiredFields PROVE r[f] = <<r[f][1], r[f][2]>>
  BY <1>1 DEF Tagged, r
<1>2. \E t, v : r[f] = <<t, v>>
  <2>1. CASE f \in InvariantFields
    BY <1>1, <2>1, Zenon DEF SaysInvariants, InvariantFields
  <2>2. CASE f \in {"schema", "kind", "phase_code", "quadratic_code", "affine_class", "tensor_components",
                    "tensor_reconstruction_failures", "lane_stride", "lane_offset"}
    BY <1>1, <2>2, Zenon DEF SaysIntegers
  <2>3. CASE f \in {"authority", "tensor_encoding", "fp_parity", "formal_v13_v14", "claim_ready"}
    BY <1>1, <2>3, Zenon DEF SaysWords
  <2>4. CASE f \in {"decision", "novel_relative_to_v1_grammar"}
    BY <1>1, <2>4, Zenon DEF SaysDecision
  <2> QED
    BY <2>1, <2>2, <2>3, <2>4 DEF RequiredFields, IntFields, BoolFields
<1>3. PICK t, v : r[f] = <<t, v>>
  BY <1>2
<1>4. <<t, v>>[1] = t /\ <<t, v>>[2] = v
  OBVIOUS
<1> QED
  BY <1>3, <1>4, Zenon

\* So is whatever a tamperer writes.
LEMMA ForgeriesAreTagged ==
  ASSUME NEW f, NEW v \in Forgeries(f)
  PROVE  v = <<v[1], v[2]>>
<1> DEFINE Pair(u) == \E t, w : u = <<t, w>>
<1>1. Pair(v)
  <2>1. Pair(Absent) /\ \A t, w : Pair(<<t, w>>)
    BY Zenon DEF Absent
  <2> HIDE DEF Pair
  <2>2. CASE f \in Extras
    BY <2>1, <2>2 DEF Forgeries
  <2>3. CASE f \in BoolFields
    BY <2>1, <2>3 DEF Forgeries, Extras, BoolFields
  <2>4. CASE f = "phase_code"
    <3>1. \/ v = <<"str", "forged">> \/ v = <<"int", -1>> \/ v = <<"int", 2^(Bits * Bits)>>
          \/ \E c \in Described : v = <<"int", CodeNumber(c)>>
      BY <2>4 DEF Forgeries, Extras, BoolFields
    <3> QED
      BY <2>1, <3>1, Zenon
  <2>5. CASE f \in {"lane_stride", "lane_offset"}
    BY <2>1, <2>5 DEF Forgeries, Extras, BoolFields
  <2>6. CASE f = "decision"
    BY <2>1, <2>6 DEF Forgeries, Extras, BoolFields
  <2>7. CASE f \notin Extras \cup BoolFields \cup {"phase_code", "lane_stride", "lane_offset", "decision"}
    <3>1. /\ ~(f \in Extras) /\ ~(f \in BoolFields) /\ ~(f = "phase_code")
          /\ ~(f \in {"lane_stride", "lane_offset"}) /\ ~(f = "decision")
      BY <2>7
    <3>2. v \in {<<"str", "forged">>, Absent, <<"int", 3>>}
      BY <3>1, Zenon DEF Forgeries
    <3> QED
      BY <2>1, <3>2
  <2> QED
    BY <2>2, <2>3, <2>4, <2>5, <2>6, <2>7
<1>2. PICK t, w : v = <<t, w>>
  BY <1>1 DEF Pair
<1> QED
  BY <1>2

\* The invariant holds: a receipt is judged as it is, and does not change once
\* a layer has looked at it.
LEMMA Inductive == Spec => []IInv
<1>1. Init => IInv
  <2> SUFFICES ASSUME Init PROVE IInv
    OBVIOUS
  <2>1. Tagged(<<>>)
    BY DEF Tagged
  <2> QED
    BY <2>1 DEF Init, IInv
<1>2. IInv /\ [Next]_vars => IInv'
  <2> SUFFICES ASSUME IInv, [Next]_vars PROVE IInv'
    OBVIOUS
  <2>1. CASE Write
    <3>1. PICK code \in Described, stride \in Strides, offset \in Offsets :
            receipt' = CanonicalReceipt[code][stride][offset]
      BY <2>1 DEF Write
    <3>2. receipt' = Claims(code, stride, offset)
      BY <3>1, CanonicalClaims, DescribedAssumption
    <3>3. Tagged(receipt')
      BY <3>2, ClaimsAreTagged
    <3>4. UNCHANGED <<stage, faults>>
      BY <2>1 DEF Write
    <3>5. stage = 0 /\ faults = {}
      BY <2>1 DEF Write, IInv
    <3> QED
      BY <3>3, <3>4, <3>5 DEF IInv
  <2>2. CASE Evaluate
    <3>1. /\ receipt # <<>> /\ faults = {} /\ stage < 7
          /\ faults' = Faults(Layers[stage + 1], receipt) /\ stage' = stage + 1
          /\ receipt' = receipt
      BY <2>2, LayerFaults DEF Evaluate
    <3>2. stage' \in 1 .. 7 /\ stage \in 0 .. 7
      BY <3>1 DEF IInv
    <3>3. faults' = Faults(Layers[stage'], receipt')
      BY <3>1
    <3>4. ASSUME NEW n \in 1 .. stage', n < stage' PROVE Faults(Layers[n], receipt') = {}
      <4>1. CASE n = stage
        BY <4>1, <3>1, <3>2 DEF IInv
      <4>2. CASE n < stage
        BY <4>2, <3>1, <3>2 DEF IInv
      <4> QED
        BY <4>1, <4>2, <3>1, <3>2, <3>4
    <3>5. Tagged(receipt')
      BY <3>1 DEF IInv
    <3> QED
      BY <3>1, <3>2, <3>3, <3>4, <3>5, SMTT(30) DEF IInv
  <2>3. ASSUME NEW f \in RequiredFields \cup Extras, Tamper(f) PROVE IInv'
    <3>1. receipt # <<>> /\ stage = 0 /\ stage' = 0 /\ faults' = {}
      BY <2>3 DEF Tamper, IInv
    <3>2. PICK v \in Forgeries(f) :
            receipt' = [g \in (DOMAIN receipt \cup {f}) \ {h \in {f} : v = Absent} |->
                          IF g = f THEN v ELSE receipt[g]]
      BY <2>3 DEF Tamper
    <3>3. Tagged(receipt')
      <4>1. Tagged(receipt) /\ v = <<v[1], v[2]>>
        BY ForgeriesAreTagged DEF IInv
      <4> QED
        BY <3>2, <4>1 DEF Tagged
    <3> QED
      BY <3>1, <3>3 DEF IInv
  <2>4. CASE UNCHANGED vars
    BY <2>4 DEF IInv, vars
  <2> QED
    BY <2>1, <2>2, <2>3, <2>4 DEF Next
<1> QED
  BY <1>1, <1>2, PTL DEF Spec

-----------------------------------------------------------------------------
(* Repairing a refused receipt. *)

\* Which names are which.
LEMMA FieldsApart ==
  /\ RequiredFields \cap Forbidden = {}
  /\ {"ADMITTED_WITH_TENSOR_FAILURES", "ADMITTED_WITHOUT_NOVELTY"}
       \cap (RequiredFields \cup Forbidden) = {}
  /\ IntFields \subseteq RequiredFields /\ BoolFields \subseteq RequiredFields
  /\ {"schema", "authority", "kind", "decision", "phase_code", "lane_stride", "lane_offset"}
       \subseteq RequiredFields
  /\ {"schema", "kind", "phase_code", "lane_stride", "lane_offset"} \subseteq IntFields
BY DEF RequiredFields, IntFields, BoolFields, InvariantFields, Forbidden

\* The fields of a repaired receipt.
LEMMA RepairedFields ==
  ASSUME NEW r, r = Repaired
  PROVE  /\ DOMAIN r = (DOMAIN receipt \cup (faults \cap RequiredFields)) \ (faults \cap Forbidden)
         /\ \A f \in DOMAIN r :
              r[f] = IF f \in faults THEN Repair[f]
                     ELSE IF f = "decision" /\ faults \ (RequiredFields \cup Forbidden) # {}
                          THEN <<"str", "REFUSE">>
                     ELSE receipt[f]
<1>1. r = [f \in (DOMAIN receipt \cup (faults \cap RequiredFields)) \ (faults \cap Forbidden) |->
             IF f \in faults THEN Repair[f]
             ELSE IF f = "decision" /\ faults \ (RequiredFields \cup Forbidden) # {}
                  THEN <<"str", "REFUSE">>
             ELSE receipt[f]]
  BY Zenon DEF Repaired
<1> QED
  BY <1>1

\* When all fields are there and the faults are fields, the others keep their value.
LEMMA RepairsFaultsOnly ==
  ASSUME NEW r, r = Repaired,
         ForbiddenField(receipt) = {}, MissingField(receipt) = {}, faults \subseteq RequiredFields
  PROVE  /\ ForbiddenField(r) = {} /\ MissingField(r) = {}
         /\ \A f \in RequiredFields : r[f] = IF f \in faults THEN Repair[f] ELSE receipt[f]
<1>1. DOMAIN receipt \cap Forbidden = {} /\ RequiredFields \subseteq DOMAIN receipt
  BY DEF ForbiddenField, MissingField
<1>2. faults \ (RequiredFields \cup Forbidden) = {} /\ faults \cap Forbidden = {}
  BY FieldsApart
<1>3. DOMAIN r = DOMAIN receipt
  BY <1>1, <1>2, RepairedFields
<1>4. \A f \in RequiredFields : r[f] = IF f \in faults THEN Repair[f] ELSE receipt[f]
  BY <1>1, <1>2, <1>3, RepairedFields
<1> QED
  BY <1>1, <1>3, <1>4 DEF ForbiddenField, MissingField

\* Before the last layer the repair is taken from the untwisted algebra.
LEMMA EarlyRepair ==
  ASSUME stage < 7
  PROVE  /\ \A f \in IntFields : Repair[f][1] = "int"
         /\ \A f \in BoolFields : Repair[f][1] = "bool"
         /\ Repair["schema"] = <<"int", 1>> /\ Repair["kind"] = <<"int", 2>>
         /\ Repair["authority"] = <<"str", "Sounio">>
         /\ Repair["decision"] \in {<<"str", "ADMIT">>, <<"str", "REFUSE">>}
         /\ Value(Repair, "phase_code") \in 0 .. 2^(Bits * Bits) - 1
         /\ Value(Repair, "lane_stride") = 1 /\ Value(Repair, "lane_offset") = 0
<1>1. {} \in Code /\ 1 \in Lane /\ 0 \in Lane
  BY Widths DEF Code
<1>2. Repair = Claims({}, 1, 0)
  <2>1. stage < Len(Layers)
    BY LayerFaults
  <2>2. Repair = CanonicalReceipt[{}][1][0]
    BY <2>1, Zenon DEF Repair
  <2> QED
    BY <2>2, <1>1, CanonicalClaims
<1> DEFINE r == Repair
<1>3. r = Claims({}, 1, 0)
  BY <1>2
<1> HIDE DEF r
<1>4. /\ \A f \in IntFields : r[f][1] = "int"
      /\ \A f \in BoolFields : r[f][1] = "bool"
  BY <1>3, TypesOfClaims
<1>5. SaysWords(r) /\ SaysDecision(r, {}) /\ SaysIntegers(r, {}, 1, 0)
  BY <1>3, ClaimedFields
<1>6. r["schema"] = <<"int", 1>> /\ r["kind"] = <<"int", 2>> /\ r["authority"] = <<"str", "Sounio">>
  BY <1>5, Zenon DEF SaysWords, SaysIntegers
<1>7. r["decision"] \in {<<"str", "ADMIT">>, <<"str", "REFUSE">>}
  BY <1>5 DEF SaysDecision
<1>8. /\ r["phase_code"] = <<"int", CodeNumber({})>>
      /\ r["lane_stride"] = <<"int", 1>> /\ r["lane_offset"] = <<"int", 0>>
  BY <1>5, Zenon DEF SaysIntegers
<1>9. Value(r, "phase_code") \in 0 .. 2^(Bits * Bits) - 1
  <2>1. Value(r, "phase_code") = CodeNumber({})
    BY <1>8 DEF Value
  <2> QED
    BY <2>1, <1>1, CodeOfNumber
<1>10. Value(r, "lane_stride") = 1 /\ Value(r, "lane_offset") = 0
  BY <1>8 DEF Value
<1> QED
  BY <1>4, <1>6, <1>7, <1>9, <1>10 DEF r

\* The layers of types, provenance, range and lanes, each on top of those before.
LEMMA TypesRepaired ==
  ASSUME IInv, stage = 3, NEW r, r = Repaired
  PROVE  ForbiddenField(r) = {} /\ MissingField(r) = {} /\ WrongType(r) = {}
<1>1. ForbiddenField(receipt) = {} /\ MissingField(receipt) = {} /\ faults = WrongType(receipt)
  BY LayerFaults DEF IInv
<1>2. faults \subseteq RequiredFields
  BY <1>1, FieldsApart DEF WrongType
<1>3. /\ ForbiddenField(r) = {} /\ MissingField(r) = {}
      /\ \A f \in RequiredFields : r[f] = IF f \in faults THEN Repair[f] ELSE receipt[f]
  BY <1>1, <1>2, RepairsFaultsOnly
<1>4. /\ \A f \in IntFields : f \notin faults => receipt[f][1] = "int"
      /\ \A f \in BoolFields : f \notin faults => receipt[f][1] = "bool"
  BY <1>1 DEF WrongType
<1>5. /\ \A f \in IntFields : Repair[f][1] = "int"
      /\ \A f \in BoolFields : Repair[f][1] = "bool"
  BY EarlyRepair
<1>6. /\ \A f \in IntFields : r[f][1] = "int"
      /\ \A f \in BoolFields : r[f][1] = "bool"
  BY <1>3, <1>4, <1>5, FieldsApart
<1> QED
  BY <1>3, <1>6, TypesPassed

\* The same, one layer further in.
LEMMA ProvenanceRepaired ==
  ASSUME IInv, stage = 4, NEW r, r = Repaired
  PROVE  /\ ForbiddenField(r) = {} /\ MissingField(r) = {} /\ WrongType(r) = {}
         /\ Provenance(r) = {}
<1>1. /\ ForbiddenField(receipt) = {} /\ MissingField(receipt) = {} /\ WrongType(receipt) = {}
      /\ faults = Provenance(receipt)
  BY LayerFaults DEF IInv
<1>2. faults \subseteq RequiredFields
  <2>1. Provenance(receipt) \subseteq {"schema", "authority", "kind", "decision"}
    BY DEF Provenance
  <2> QED
    BY <1>1, <2>1, FieldsApart
<1>3. /\ ForbiddenField(r) = {} /\ MissingField(r) = {}
      /\ \A f \in RequiredFields : r[f] = IF f \in faults THEN Repair[f] ELSE receipt[f]
  BY <1>1, <1>2, RepairsFaultsOnly
<1>4. /\ "schema" \notin faults => receipt["schema"] = <<"int", 1>>
      /\ "authority" \notin faults => receipt["authority"] = <<"str", "Sounio">>
      /\ "kind" \notin faults => receipt["kind"] = <<"int", 2>>
      /\ "decision" \notin faults => receipt["decision"] \in {<<"str", "ADMIT">>, <<"str", "REFUSE">>}
  BY <1>1 DEF Provenance
<1>5. /\ Repair["schema"] = <<"int", 1>> /\ Repair["kind"] = <<"int", 2>>
      /\ Repair["authority"] = <<"str", "Sounio">>
      /\ Repair["decision"] \in {<<"str", "ADMIT">>, <<"str", "REFUSE">>}
      /\ \A f \in IntFields : Repair[f][1] = "int"
      /\ \A f \in BoolFields : Repair[f][1] = "bool"
  BY EarlyRepair
<1>6. Provenance(r) = {}
  <2>1. /\ r["schema"] = <<"int", 1>> /\ r["authority"] = <<"str", "Sounio">>
        /\ r["kind"] = <<"int", 2>>
        /\ r["decision"] \in {<<"str", "ADMIT">>, <<"str", "REFUSE">>}
    BY <1>3, <1>4, <1>5, FieldsApart
  <2> QED
    BY <2>1, ProvenancePassed
<1>7. WrongType(r) = {}
  <2>1. /\ \A f \in IntFields : receipt[f][1] = "int"
        /\ \A f \in BoolFields : receipt[f][1] = "bool"
    BY <1>1, TypesPassed
  <2>2. /\ \A f \in IntFields : r[f][1] = "int"
        /\ \A f \in BoolFields : r[f][1] = "bool"
    BY <1>3, <1>5, <2>1, FieldsApart
  <2> QED
    BY <2>2, TypesPassed
<1> QED
  BY <1>3, <1>6, <1>7

\* The same, with the number of the code.
LEMMA RangeRepaired ==
  ASSUME IInv, stage = 5, NEW r, r = Repaired
  PROVE  /\ ForbiddenField(r) = {} /\ MissingField(r) = {} /\ WrongType(r) = {}
         /\ Provenance(r) = {} /\ CodeRange(r) = {}
<1>1. /\ ForbiddenField(receipt) = {} /\ MissingField(receipt) = {} /\ WrongType(receipt) = {}
      /\ Provenance(receipt) = {} /\ faults = CodeRange(receipt)
  BY LayerFaults DEF IInv
<1>2. faults \subseteq {"phase_code"}
  BY <1>1 DEF CodeRange
<1>3. /\ ForbiddenField(r) = {} /\ MissingField(r) = {}
      /\ \A f \in RequiredFields : r[f] = IF f \in faults THEN Repair[f] ELSE receipt[f]
  BY <1>1, <1>2, RepairsFaultsOnly, FieldsApart
<1>4. /\ r["schema"] = receipt["schema"] /\ r["authority"] = receipt["authority"]
      /\ r["kind"] = receipt["kind"] /\ r["decision"] = receipt["decision"]
  BY <1>2, <1>3, FieldsApart
<1>5. Provenance(r) = {}
  BY <1>1, <1>4, ProvenancePassed
<1>6. WrongType(r) = {}
  <2>1. /\ \A f \in IntFields : receipt[f][1] = "int"
        /\ \A f \in BoolFields : receipt[f][1] = "bool"
    BY <1>1, TypesPassed
  <2>2. /\ \A f \in IntFields : r[f][1] = "int"
        /\ \A f \in BoolFields : r[f][1] = "bool"
    BY <1>3, <2>1, EarlyRepair, FieldsApart
  <2> QED
    BY <2>2, TypesPassed
<1>7. CodeRange(r) = {}
  <2>1. CASE "phase_code" \in faults
    <3>1. r["phase_code"] = Repair["phase_code"]
      BY <1>3, <2>1, FieldsApart
    <3>2. Value(r, "phase_code") = Value(Repair, "phase_code")
      BY <3>1 DEF Value
    <3> QED
      BY <3>2, EarlyRepair, RangePassed
  <2>2. CASE "phase_code" \notin faults
    <3>1. r["phase_code"] = receipt["phase_code"]
      BY <1>3, <2>2, FieldsApart
    <3>2. Value(r, "phase_code") = Value(receipt, "phase_code")
      BY <3>1 DEF Value
    <3>3. Value(receipt, "phase_code") \in 0 .. 2^(Bits * Bits) - 1
      BY <1>1, <2>2, Zenon DEF CodeRange
    <3> QED
      BY <3>2, <3>3, RangePassed
  <2> QED
    BY <2>1, <2>2
<1> QED
  BY <1>3, <1>5, <1>6, <1>7

\* The same, with the lane map.
LEMMA LanesRepaired ==
  ASSUME IInv, stage = 6, NEW r, r = Repaired
  PROVE  /\ ForbiddenField(r) = {} /\ MissingField(r) = {} /\ WrongType(r) = {}
         /\ Provenance(r) = {} /\ CodeRange(r) = {} /\ LaneMap(r) = {}
<1>1. /\ ForbiddenField(receipt) = {} /\ MissingField(receipt) = {} /\ WrongType(receipt) = {}
      /\ Provenance(receipt) = {} /\ CodeRange(receipt) = {} /\ faults = LaneMap(receipt)
  BY LayerFaults DEF IInv
<1>2. faults \subseteq {"lane_stride", "lane_offset"}
  BY <1>1 DEF LaneMap
<1>3. /\ ForbiddenField(r) = {} /\ MissingField(r) = {}
      /\ \A f \in RequiredFields : r[f] = IF f \in faults THEN Repair[f] ELSE receipt[f]
  BY <1>1, <1>2, RepairsFaultsOnly, FieldsApart
<1>4. /\ r["schema"] = receipt["schema"] /\ r["authority"] = receipt["authority"]
      /\ r["kind"] = receipt["kind"] /\ r["decision"] = receipt["decision"]
      /\ r["phase_code"] = receipt["phase_code"]
  BY <1>2, <1>3, FieldsApart
<1>5. Provenance(r) = {}
  BY <1>1, <1>4, ProvenancePassed
<1>6. WrongType(r) = {}
  <2>1. /\ \A f \in IntFields : receipt[f][1] = "int"
        /\ \A f \in BoolFields : receipt[f][1] = "bool"
    BY <1>1, TypesPassed
  <2>2. /\ \A f \in IntFields : r[f][1] = "int"
        /\ \A f \in BoolFields : r[f][1] = "bool"
    BY <1>3, <2>1, EarlyRepair, FieldsApart
  <2> QED
    BY <2>2, TypesPassed
<1>7. CodeRange(r) = {}
  <2>1. Value(r, "phase_code") = Value(receipt, "phase_code")
    BY <1>4 DEF Value
  <2> QED
    BY <1>1, <2>1, RangePassed
<1>8. LaneMap(r) = {}
  <2> DEFINE s == Value(r, "lane_stride")
             o == Value(r, "lane_offset")
  <2>1. Value(Repair, "lane_stride") = 1 /\ Value(Repair, "lane_offset") = 0
    BY EarlyRepair
  <2>2. "lane_stride" \notin faults =>
          /\ Value(receipt, "lane_stride") \in 1 .. 2^Bits - 1
          /\ Value(receipt, "lane_stride") % 2 = 1
    BY <1>1 DEF LaneMap
  <2>3. "lane_offset" \notin faults => Value(receipt, "lane_offset") \in 0 .. 2^Bits - 1
    BY <1>1 DEF LaneMap
  <2>4. /\ s = IF "lane_stride" \in faults THEN 1 ELSE Value(receipt, "lane_stride")
        /\ o = IF "lane_offset" \in faults THEN 0 ELSE Value(receipt, "lane_offset")
    BY <1>3, <2>1, FieldsApart DEF Value
  <2>5. 1 \in Lane /\ 0 \in Lane /\ 1 % 2 = 1
    BY Widths
  <2>6. "lane_stride" \notin faults => Value(receipt, "lane_stride") \in Lane
    BY <2>2, Widths
  <2>7. s \in Lane /\ s % 2 = 1
    BY <2>2, <2>4, <2>5, <2>6
  <2>8. o \in Lane
    BY <2>3, <2>4, <2>5, Widths
  <2> QED
    BY <2>7, <2>8, LanesPassed
<1> QED
  BY <1>3, <1>5, <1>6, <1>7, <1>8

\* The last layer: what differs from the truth is replaced by it, and what
\* does not deserve to be admitted is refused.
LEMMA ObligationsRepaired ==
  ASSUME IInv, stage = 7, NEW r, r = Repaired
  PROVE  /\ ForbiddenField(r) = {} /\ MissingField(r) = {} /\ WrongType(r) = {}
         /\ Provenance(r) = {} /\ CodeRange(r) = {} /\ LaneMap(r) = {} /\ Obligations(r) = {}
<1> DEFINE code == CodeNumbered[Value(receipt, "phase_code")]
           s == Value(receipt, "lane_stride")
           o == Value(receipt, "lane_offset")
           q == Claims(code, s, o)
           Claimed == RequiredFields \ {"decision", "phase_code", "lane_stride", "lane_offset"}
           Undeserved == {"ADMITTED_WITH_TENSOR_FAILURES", "ADMITTED_WITHOUT_NOVELTY"}
<1>1. /\ ForbiddenField(receipt) = {} /\ MissingField(receipt) = {} /\ WrongType(receipt) = {}
      /\ Provenance(receipt) = {} /\ CodeRange(receipt) = {} /\ LaneMap(receipt) = {}
      /\ faults = Obligations(receipt)
  BY LayerFaults DEF IInv
<1>2. code \in Code /\ s \in Lane /\ o \in Lane
  BY <1>1, RangePassed, NumberOfCode, LanesPassed
<1>3. Repair = q
  <2>1. Len(Layers) = 7
    BY LayerFaults
  <2>2. ~(stage < Len(Layers))
    BY <2>1
  <2>3. Repair = CanonicalReceipt[code][s][o]
    BY <2>2, Zenon DEF Repair
  <2> QED
    BY <2>3, <1>2, CanonicalClaims
<1>4. \A f : f \in faults <=>
        \/ f \in Claimed /\ receipt[f] # q[f]
        \/ /\ f = "ADMITTED_WITH_TENSOR_FAILURES"
           /\ receipt["decision"] = <<"str", "ADMIT">> /\ Failures[code][s][o] # 0
        \/ /\ f = "ADMITTED_WITHOUT_NOVELTY"
           /\ receipt["decision"] = <<"str", "ADMIT">> /\ ~Novel(code)
  BY <1>1, <1>2, ObligationBroken
<1>5. /\ \A f \in IntFields : q[f][1] = "int"
      /\ \A f \in BoolFields : q[f][1] = "bool"
  BY TypesOfClaims
<1> HIDE DEF code, s, o, q
<1>6. /\ DOMAIN receipt \cap Forbidden = {} /\ RequiredFields \subseteq DOMAIN receipt
      /\ faults \subseteq RequiredFields \cup Undeserved
  BY <1>1, <1>4 DEF ForbiddenField, MissingField
<1>7. DOMAIN r = DOMAIN receipt
  <2>1. faults \cap RequiredFields \subseteq DOMAIN receipt /\ faults \cap Forbidden = {}
    BY <1>6, FieldsApart
  <2> QED
    BY <2>1, RepairedFields
<1>8. \A f \in Claimed : r[f] = q[f]
  <2> SUFFICES ASSUME NEW f \in Claimed PROVE r[f] = q[f]
    OBVIOUS
  <2>1. f \in DOMAIN r /\ f # "decision"
    BY <1>6, <1>7
  <2>2. f \in faults => r[f] = q[f]
    BY <2>1, <1>3, RepairedFields
  <2>3. f \notin faults => r[f] = receipt[f] /\ receipt[f] = q[f]
    BY <2>1, <1>4, RepairedFields
  <2> QED
    BY <2>2, <2>3
<1>9. \A f \in {"phase_code", "lane_stride", "lane_offset"} : r[f] = receipt[f]
  <2> SUFFICES ASSUME NEW f \in {"phase_code", "lane_stride", "lane_offset"} PROVE r[f] = receipt[f]
    OBVIOUS
  <2>1. f \in DOMAIN r /\ f # "decision" /\ f \notin faults
    BY <1>4, <1>6, <1>7, FieldsApart
  <2> QED
    BY <2>1, RepairedFields
<1>10. r["decision"] = IF faults \cap Undeserved # {} THEN <<"str", "REFUSE">> ELSE receipt["decision"]
  <2>1. "decision" \in DOMAIN r /\ "decision" \notin faults
    BY <1>4, <1>6, <1>7, FieldsApart
  <2>2. faults \ (RequiredFields \cup Forbidden) = faults \cap Undeserved
    BY <1>6, FieldsApart
  <2> QED
    BY <2>1, <2>2, RepairedFields
<1>11. ForbiddenField(r) = {} /\ MissingField(r) = {}
  BY <1>6, <1>7 DEF ForbiddenField, MissingField
<1>12. /\ receipt["schema"] = <<"int", 1>> /\ receipt["authority"] = <<"str", "Sounio">>
       /\ receipt["kind"] = <<"int", 2>>
       /\ receipt["decision"] \in {<<"str", "ADMIT">>, <<"str", "REFUSE">>}
       /\ \A f \in IntFields : receipt[f][1] = "int"
       /\ \A f \in BoolFields : receipt[f][1] = "bool"
  BY <1>1, ProvenancePassed, TypesPassed
<1>13. WrongType(r) = {}
  <2>1. "decision" \notin IntFields \cup BoolFields
    BY DEF IntFields, BoolFields, InvariantFields
  <2>2. /\ \A f \in IntFields : r[f][1] = "int"
        /\ \A f \in BoolFields : r[f][1] = "bool"
    BY <1>5, <1>8, <1>9, <1>12, <2>1, FieldsApart
  <2> QED
    BY <2>2, TypesPassed
<1>14. Provenance(r) = {}
  <2>1. {"schema", "authority", "kind"} \subseteq Claimed
    BY FieldsApart
  <2>2. q["schema"] = <<"int", 1>> /\ q["kind"] = <<"int", 2>> /\ q["authority"] = <<"str", "Sounio">>
    <3>1. q = Claims(code, s, o)
      BY DEF q
    <3>2. SaysWords(q) /\ SaysIntegers(q, code, s, o)
      BY <3>1, ClaimedFields
    <3> QED
      BY <3>2, Zenon DEF SaysWords, SaysIntegers
  <2>3. r["schema"] = <<"int", 1>> /\ r["kind"] = <<"int", 2>> /\ r["authority"] = <<"str", "Sounio">>
    BY <1>8, <2>1, <2>2
  <2>4. r["decision"] \in {<<"str", "ADMIT">>, <<"str", "REFUSE">>}
    BY <1>10, <1>12
  <2> QED
    BY <2>3, <2>4, ProvenancePassed
<1>15. /\ Value(r, "phase_code") = Value(receipt, "phase_code")
       /\ Value(r, "lane_stride") = s /\ Value(r, "lane_offset") = o
  BY <1>9 DEF Value, s, o
<1>16. CodeRange(r) = {}
  BY <1>1, <1>15, RangePassed
<1>17. LaneMap(r) = {}
  BY <1>1, <1>15, LanesPassed DEF s, o
<1>18. Obligations(r) = {}
  <2> SUFFICES ASSUME NEW f \in Obligations(r) PROVE FALSE
    OBVIOUS
  <2>1. \/ f \in Claimed /\ r[f] # q[f]
        \/ /\ f = "ADMITTED_WITH_TENSOR_FAILURES"
           /\ r["decision"] = <<"str", "ADMIT">> /\ Failures[code][s][o] # 0
        \/ /\ f = "ADMITTED_WITHOUT_NOVELTY"
           /\ r["decision"] = <<"str", "ADMIT">> /\ ~Novel(code)
    <3>1. code = CodeNumbered[Value(r, "phase_code")] /\ q = Claims(code, s, o)
      BY <1>15 DEF code, q
    <3> QED
      BY <3>1, <1>2, <1>15, ObligationBroken
  <2>2. r["decision"] = <<"str", "ADMIT">> =>
          receipt["decision"] = <<"str", "ADMIT">> /\ faults \cap Undeserved = {}
    BY <1>10
  <2> QED
    BY <2>1, <2>2, <1>4, <1>8
<1> QED
  BY <1>11, <1>13, <1>14, <1>16, <1>17, <1>18

\* Layer by layer, putting right what is named is enough.
LEMMA InvariantRepairs == IInv => RefusalIsComplete
<1> SUFFICES ASSUME IInv, Refused, NEW r, r = Repaired, NEW n \in 1 .. stage
             PROVE  Faults(Layers[n], r) = {}
  BY DEF RefusalIsComplete
<1>1. stage \in 1 .. 7 /\ faults = Faults(Layers[stage], receipt)
  BY DEF IInv, Refused
<1>2. CASE stage = 1
  <2>1. faults = DOMAIN receipt \cap Forbidden /\ n = 1
    BY <1>1, <1>2, LayerFaults DEF ForbiddenField
  <2>2. DOMAIN r \cap Forbidden = {}
    BY <2>1, RepairedFields, FieldsApart
  <2> QED
    BY <2>1, <2>2, LayerFaults DEF ForbiddenField
<1>3. CASE stage = 2
  <2>1. /\ faults = RequiredFields \ DOMAIN receipt
        /\ DOMAIN receipt \cap Forbidden = {}
    BY <1>1, <1>3, LayerFaults DEF IInv, ForbiddenField, MissingField
  <2>2. DOMAIN r \cap Forbidden = {} /\ RequiredFields \subseteq DOMAIN r
    BY <2>1, RepairedFields, FieldsApart
  <2>3. n \in {1, 2}
    BY <1>3
  <2> QED
    BY <2>2, <2>3, LayerFaults DEF ForbiddenField, MissingField
<1>4. CASE stage = 3
  <2>1. ForbiddenField(r) = {} /\ MissingField(r) = {} /\ WrongType(r) = {}
    BY <1>4, TypesRepaired
  <2>2. n \in {1, 2, 3}
    BY <1>4
  <2> QED
    BY <2>1, <2>2, LayerFaults
<1>5. CASE stage = 4
  <2>1. /\ ForbiddenField(r) = {} /\ MissingField(r) = {} /\ WrongType(r) = {}
        /\ Provenance(r) = {}
    BY <1>5, ProvenanceRepaired
  <2>2. n \in {1, 2, 3, 4}
    BY <1>5
  <2> QED
    BY <2>1, <2>2, LayerFaults
<1>6. CASE stage = 5
  <2>1. /\ ForbiddenField(r) = {} /\ MissingField(r) = {} /\ WrongType(r) = {}
        /\ Provenance(r) = {} /\ CodeRange(r) = {}
    BY <1>6, RangeRepaired
  <2>2. n \in {1, 2, 3, 4, 5}
    BY <1>6
  <2> QED
    BY <2>1, <2>2, LayerFaults
<1>7. CASE stage = 6
  <2>1. /\ ForbiddenField(r) = {} /\ MissingField(r) = {} /\ WrongType(r) = {}
        /\ Provenance(r) = {} /\ CodeRange(r) = {} /\ LaneMap(r) = {}
    BY <1>7, LanesRepaired
  <2>2. n \in {1, 2, 3, 4, 5, 6}
    BY <1>7
  <2> QED
    BY <2>1, <2>2, LayerFaults
<1>8. CASE stage = 7
  <2>1. /\ ForbiddenField(r) = {} /\ MissingField(r) = {} /\ WrongType(r) = {}
        /\ Provenance(r) = {} /\ CodeRange(r) = {} /\ LaneMap(r) = {} /\ Obligations(r) = {}
    BY <1>8, ObligationsRepaired
  <2>2. n \in {1, 2, 3, 4, 5, 6, 7}
    BY <1>8
  <2> QED
    BY <2>1, <2>2, LayerFaults
<1> QED
  BY <1>1, <1>2, <1>3, <1>4, <1>5, <1>6, <1>7, <1>8

-----------------------------------------------------------------------------
(* What is accepted. *)

\* A receipt past the first six layers names a code and a lane map.
LEMMA NamesCode ==
  ASSUME CodeRange(receipt) = {}, LaneMap(receipt) = {}, WrongType(receipt) = {},
         RequiredFields \subseteq DOMAIN receipt, Tagged(receipt)
  PROVE  \E code \in Code, s \in Lane, o \in Lane :
           /\ code = CodeNumbered[Value(receipt, "phase_code")]
           /\ s = Value(receipt, "lane_stride") /\ o = Value(receipt, "lane_offset")
           /\ s % 2 = 1
           /\ receipt["phase_code"] = <<"int", CodeNumber(code)>>
           /\ receipt["lane_stride"] = <<"int", s>> /\ receipt["lane_offset"] = <<"int", o>>
<1> DEFINE x == Value(receipt, "phase_code")
           code == CodeNumbered[x]
           s == Value(receipt, "lane_stride")
           o == Value(receipt, "lane_offset")
<1>1. code \in Code /\ CodeNumber(code) = x
  BY RangePassed, NumberOfCode
<1>2. s \in Lane /\ o \in Lane /\ s % 2 = 1
  BY LanesPassed
<1>3. /\ receipt["phase_code"] = <<"int", x>>
      /\ receipt["lane_stride"] = <<"int", s>> /\ receipt["lane_offset"] = <<"int", o>>
  <2>1. \A f \in {"phase_code", "lane_stride", "lane_offset"} :
          f \in DOMAIN receipt /\ receipt[f][1] = "int"
    BY TypesPassed, FieldsApart
  <2> QED
    BY <2>1 DEF Tagged, Value
<1> HIDE DEF x, code, s, o
<1>4. receipt["phase_code"] = <<"int", CodeNumber(code)>>
  BY <1>1, <1>3
<1> QED
  BY <1>1, <1>2, <1>3, <1>4 DEF x, code, s, o

\* What passes every layer is what an honest engine would write, or a refusal of it.
LEMMA AcceptedSaysTruth ==
  ASSUME IInv, Accepted
  PROVE  Honest /\ DOMAIN receipt \cap Forbidden = {}
<1>1. /\ ForbiddenField(receipt) = {} /\ MissingField(receipt) = {} /\ WrongType(receipt) = {}
      /\ Provenance(receipt) = {} /\ CodeRange(receipt) = {} /\ LaneMap(receipt) = {}
      /\ Obligations(receipt) = {} /\ Tagged(receipt)
  <2>1. Len(Layers) = 7
    BY LayerFaults
  <2>2. stage = 7 /\ faults = {}
    BY <2>1 DEF Accepted
  <2> QED
    BY <2>2, LayerFaults DEF IInv
<1>2. DOMAIN receipt \cap Forbidden = {} /\ RequiredFields \subseteq DOMAIN receipt
  BY <1>1 DEF ForbiddenField, MissingField
<1>3. PICK code \in Code, s \in Lane, o \in Lane :
        /\ code = CodeNumbered[Value(receipt, "phase_code")]
        /\ s = Value(receipt, "lane_stride") /\ o = Value(receipt, "lane_offset")
        /\ s % 2 = 1
        /\ receipt["phase_code"] = <<"int", CodeNumber(code)>>
        /\ receipt["lane_stride"] = <<"int", s>> /\ receipt["lane_offset"] = <<"int", o>>
  BY <1>1, <1>2, NamesCode
<1> DEFINE q == Claims(code, s, o)
<1>4. \A f : ~ \/ /\ f \in RequiredFields \ {"decision", "phase_code", "lane_stride", "lane_offset"}
                  /\ receipt[f] # q[f]
               \/ /\ f = "ADMITTED_WITHOUT_NOVELTY"
                  /\ receipt["decision"] = <<"str", "ADMIT">> /\ ~Novel(code)
  BY <1>1, <1>3, ObligationBroken
<1>5. SaysDecision(q, code) /\ SaysIntegers(q, code, s, o)
  BY ClaimedFields
<1> HIDE DEF q
<1>6. ASSUME NEW f \in RequiredFields
      PROVE  \/ receipt[f] = q[f]
             \/ f = "decision" /\ receipt[f] = <<"str", "REFUSE">>
  <2>1. CASE f \in {"phase_code", "lane_stride", "lane_offset"}
    <3>1. /\ q["phase_code"] = <<"int", CodeNumber(code)>>
          /\ q["lane_stride"] = <<"int", s>> /\ q["lane_offset"] = <<"int", o>>
      BY <1>5, Zenon DEF SaysIntegers
    <3> QED
      BY <2>1, <3>1, <1>3, Zenon
  <2>2. CASE f = "decision"
    <3>1. receipt["decision"] \in {<<"str", "ADMIT">>, <<"str", "REFUSE">>}
      BY <1>1, ProvenancePassed
    <3>2. receipt["decision"] = <<"str", "ADMIT">> => Novel(code)
      BY <1>4, Zenon
    <3>3. Novel(code) => q["decision"] = <<"str", "ADMIT">>
      BY <1>5, Zenon DEF SaysDecision
    <3>4. receipt["decision"] = <<"str", "ADMIT">> \/ receipt["decision"] = <<"str", "REFUSE">>
      BY <3>1
    <3> QED
      BY <2>2, <3>2, <3>3, <3>4, Zenon
  <2>3. CASE f \notin {"decision", "phase_code", "lane_stride", "lane_offset"}
    <3>1. f \in RequiredFields \ {"decision", "phase_code", "lane_stride", "lane_offset"}
      BY <1>6, <2>3
    <3> QED
      BY <3>1, <1>4, Zenon
  <2> QED
    BY <2>1, <2>2, <2>3
<1>7. Honest
  <2>1. q = CanonicalReceipt[code][s][o]
    BY CanonicalClaims DEF q
  <2>2. <<"int", CodeNumber(code)>> = receipt["phase_code"]
    BY <1>3
  <2>3. <<"int", s>> = receipt["lane_stride"] /\ <<"int", o>> = receipt["lane_offset"] /\ s % 2 = 1
    BY <1>3
  <2>4. /\ code \in {c \in Code : <<"int", CodeNumber(c)>> = receipt["phase_code"]}
        /\ s \in {n \in Lane : n % 2 = 1 /\ <<"int", n>> = receipt["lane_stride"]}
        /\ o \in {n \in Lane : <<"int", n>> = receipt["lane_offset"]}
    BY <2>2, <2>3
  <2>5. \A f \in RequiredFields :
           \/ receipt[f] = CanonicalReceipt[code][s][o][f]
           \/ f = "decision" /\ receipt[f] = <<"str", "REFUSE">>
    BY <2>1, <1>6
  <2> QED
    BY <2>4, <2>5, <1>2, Zenon DEF Honest
<1> QED
  BY <1>2, <1>7

\* And nothing is found wrong with that.
LEMMA TruthIsAccepted ==
  ASSUME Honest, DOMAIN receipt \cap Forbidden = {}
  PROVE  /\ ForbiddenField(receipt) = {} /\ MissingField(receipt) = {} /\ WrongType(receipt) = {}
         /\ Provenance(receipt) = {} /\ CodeRange(receipt) = {} /\ LaneMap(receipt) = {}
         /\ Obligations(receipt) = {}
<1>1. PICK code \in Code, s \in Lane, o \in Lane :
        /\ <<"int", CodeNumber(code)>> = receipt["phase_code"]
        /\ s % 2 = 1 /\ <<"int", s>> = receipt["lane_stride"]
        /\ <<"int", o>> = receipt["lane_offset"]
        /\ \A f \in RequiredFields :
             \/ receipt[f] = CanonicalReceipt[code][s][o][f]
             \/ f = "decision" /\ receipt[f] = <<"str", "REFUSE">>
  <2>1. PICK code \in {c \in Code : <<"int", CodeNumber(c)>> = receipt["phase_code"]},
             s \in {n \in Lane : n % 2 = 1 /\ <<"int", n>> = receipt["lane_stride"]},
             o \in {n \in Lane : <<"int", n>> = receipt["lane_offset"]} :
               \A f \in RequiredFields :
                 \/ receipt[f] = CanonicalReceipt[code][s][o][f]
                 \/ f = "decision" /\ receipt[f] = <<"str", "REFUSE">>
    BY Zenon DEF Honest
  <2>2. code \in Code /\ s \in Lane /\ o \in Lane
    OBVIOUS
  <2> QED
    BY <2>1, <2>2
<1> DEFINE q == Claims(code, s, o)
<1>2. \A f \in RequiredFields :
        \/ receipt[f] = q[f]
        \/ f = "decision" /\ receipt[f] = <<"str", "REFUSE">>
  BY <1>1, CanonicalClaims
<1>3. /\ SaysWords(q) /\ SaysDecision(q, code) /\ SaysIntegers(q, code, s, o)
      /\ \A f \in IntFields : q[f][1] = "int"
      /\ \A f \in BoolFields : q[f][1] = "bool"
  BY ClaimedFields, TypesOfClaims
<1> HIDE DEF q
<1>4. /\ Value(receipt, "phase_code") = CodeNumber(code)
      /\ Value(receipt, "lane_stride") = s /\ Value(receipt, "lane_offset") = o
  BY <1>1 DEF Value
<1>5. ForbiddenField(receipt) = {} /\ MissingField(receipt) = {}
  BY DEF Honest, ForbiddenField, MissingField
<1>6. WrongType(receipt) = {}
  <2>1. "decision" \notin IntFields \cup BoolFields
    BY DEF IntFields, BoolFields, InvariantFields
  <2>2. /\ \A f \in IntFields : receipt[f][1] = "int"
        /\ \A f \in BoolFields : receipt[f][1] = "bool"
    BY <1>2, <1>3, <2>1, FieldsApart
  <2> QED
    BY <2>2, TypesPassed
<1>7. Provenance(receipt) = {}
  <2>1. q["schema"] = <<"int", 1>> /\ q["kind"] = <<"int", 2>> /\ q["authority"] = <<"str", "Sounio">>
    BY <1>3, Zenon DEF SaysWords, SaysIntegers
  <2>2. q["decision"] \in {<<"str", "ADMIT">>, <<"str", "REFUSE">>}
    BY <1>3 DEF SaysDecision
  <2>3. /\ receipt["schema"] = <<"int", 1>> /\ receipt["kind"] = <<"int", 2>>
        /\ receipt["authority"] = <<"str", "Sounio">>
    BY <1>2, <2>1, FieldsApart
  <2>4. receipt["decision"] \in {<<"str", "ADMIT">>, <<"str", "REFUSE">>}
    BY <1>2, <2>2, FieldsApart
  <2> QED
    BY <2>3, <2>4, ProvenancePassed
<1>8. CodeRange(receipt) = {}
  BY <1>4, CodeOfNumber, RangePassed
<1>9. LaneMap(receipt) = {}
  BY <1>1, <1>4, LanesPassed
<1>10. Obligations(receipt) = {}
  <2> SUFFICES ASSUME NEW f \in Obligations(receipt) PROVE FALSE
    OBVIOUS
  <2>1. code = CodeNumbered[Value(receipt, "phase_code")]
    BY <1>4, CodeOfNumber
  <2>2. \/ f \in RequiredFields \ {"decision"} /\ receipt[f] # q[f]
        \/ Failures[code][s][o] # 0
        \/ receipt["decision"] = <<"str", "ADMIT">> /\ ~Novel(code)
    <3>1. q = Claims(code, s, o)
      BY DEF q
    <3> QED
      BY <2>1, <3>1, <1>4, ObligationBroken
  <2>3. Failures[code][s][o] = 0
    BY <1>1, OddStrideNeverFails
  <2>4. receipt["decision"] = <<"str", "ADMIT">> => Novel(code)
    <3>1. receipt["decision"] = q["decision"] \/ receipt["decision"] = <<"str", "REFUSE">>
      BY <1>2, FieldsApart
    <3>2. ~Novel(code) => q["decision"] = <<"str", "REFUSE">>
      BY <1>3 DEF SaysDecision
    <3>3. <<"str", "REFUSE">> # <<"str", "ADMIT">>
      OBVIOUS
    <3> QED
      BY <3>1, <3>2, <3>3
  <2> QED
    BY <2>2, <2>3, <2>4, <1>2
<1> QED
  BY <1>5, <1>6, <1>7, <1>8, <1>9, <1>10

\* Both together: the verdict is exactly the truth of the receipt.
LEMMA InvariantJudges == IInv => AcceptedIsHonest
<1> SUFFICES ASSUME IInv, Accepted \/ Refused
             PROVE  Accepted <=> Honest /\ DOMAIN receipt \cap Forbidden = {}
  BY DEF AcceptedIsHonest
<1>1. Accepted => Honest /\ DOMAIN receipt \cap Forbidden = {}
  BY AcceptedSaysTruth
<1>2. ASSUME Honest, DOMAIN receipt \cap Forbidden = {}, Refused PROVE FALSE
  <2>1. stage \in 1 .. 7 /\ faults = Faults(Layers[stage], receipt) /\ faults # {}
    BY <1>2 DEF IInv, Refused
  <2>2. \A n \in 1 .. 7 : Faults(Layers[n], receipt) = {}
    <3> SUFFICES ASSUME NEW n \in {1, 2, 3, 4, 5, 6, 7} PROVE Faults(Layers[n], receipt) = {}
      OBVIOUS
    <3>1. /\ ForbiddenField(receipt) = {} /\ MissingField(receipt) = {} /\ WrongType(receipt) = {}
          /\ Provenance(receipt) = {} /\ CodeRange(receipt) = {} /\ LaneMap(receipt) = {}
          /\ Obligations(receipt) = {}
      BY <1>2, TruthIsAccepted
    <3> QED
      BY <3>1, LayerFaults
  <2> QED
    BY <2>1, <2>2
<1> QED
  BY <1>1, <1>2

-----------------------------------------------------------------------------
(* What the verdict depends on. *)

\* Receipts that differ in their codes only, and name codes with one quadratic
\* code, break the same obligations.
LEMMA ObligationsAreGauge ==
  ASSUME NEW r, NEW t, NEW c \in Code, NEW d \in Code, QuadraticCode(c) = QuadraticCode(d),
         NEW s \in Lane, NEW o \in Lane,
         c = CodeNumbered[Value(r, "phase_code")], d = CodeNumbered[Value(t, "phase_code")],
         s = Value(r, "lane_stride"), o = Value(r, "lane_offset"),
         s = Value(t, "lane_stride"), o = Value(t, "lane_offset"),
         \A f \in RequiredFields \ {"phase_code"} : r[f] = t[f]
  PROVE  Obligations(r) = Obligations(t)
<1> DEFINE p == Claims(c, s, o)
           q == Claims(d, s, o)
<1>1. /\ Novel(c) = Novel(d) /\ Failures[c][s][o] = Failures[d][s][o]
      /\ \A f \in RequiredFields \ {"phase_code"} : p[f] = q[f]
  BY GaugeClass, FailuresAreGauge, ClaimsAreGauge
<1>2. p = Claims(c, s, o) /\ q = Claims(d, s, o)
  OBVIOUS
<1> HIDE DEF p, q
<1>3. ASSUME NEW f PROVE f \in Obligations(r) <=> f \in Obligations(t)
  <2> DEFINE Claimed == RequiredFields \ {"decision", "phase_code", "lane_stride", "lane_offset"}
  <2>1. f \in Obligations(r) <=>
           \/ f \in Claimed /\ r[f] # p[f]
           \/ /\ f = "ADMITTED_WITH_TENSOR_FAILURES"
              /\ r["decision"] = <<"str", "ADMIT">> /\ Failures[c][s][o] # 0
           \/ /\ f = "ADMITTED_WITHOUT_NOVELTY"
              /\ r["decision"] = <<"str", "ADMIT">> /\ ~Novel(c)
    BY <1>2, ObligationBroken
  <2>2. f \in Obligations(t) <=>
           \/ f \in Claimed /\ t[f] # q[f]
           \/ /\ f = "ADMITTED_WITH_TENSOR_FAILURES"
              /\ t["decision"] = <<"str", "ADMIT">> /\ Failures[d][s][o] # 0
           \/ /\ f = "ADMITTED_WITHOUT_NOVELTY"
              /\ t["decision"] = <<"str", "ADMIT">> /\ ~Novel(d)
    BY <1>2, ObligationBroken
  <2>3. f \in Claimed => r[f] = t[f] /\ p[f] = q[f]
    BY <1>1
  <2>4. r["decision"] = t["decision"]
    BY FieldsApart
  <2> HIDE DEF Claimed
  <2> QED
    BY <1>1, <2>1, <2>2, <2>3, <2>4
<1> QED
  BY <1>3

\* So the verdict does not depend on which of these codes is named.
LEMMA InvariantSeesGauge == IInv => VerdictIsGaugeInvariant
<1> DEFINE code == CodeNumbered[Value(receipt, "phase_code")]
           s == Value(receipt, "lane_stride")
           o == Value(receipt, "lane_offset")
<1> SUFFICES ASSUME IInv, stage = 7, NEW other \in Code, QuadraticCode(other) = QuadraticCode(code),
                    NEW r, r = [receipt EXCEPT !["phase_code"] = <<"int", CodeNumber(other)>>]
             PROVE  Obligations(r) = faults
  <2>1. Len(Layers) = 7
    BY LayerFaults
  <2> QED
    BY <2>1 DEF VerdictIsGaugeInvariant
<1>1. /\ MissingField(receipt) = {} /\ CodeRange(receipt) = {} /\ LaneMap(receipt) = {}
      /\ faults = Obligations(receipt)
  BY LayerFaults DEF IInv
<1>2. code \in Code /\ s \in Lane /\ o \in Lane
  BY <1>1, RangePassed, NumberOfCode, LanesPassed
<1>3. /\ \A f \in DOMAIN receipt : f # "phase_code" => r[f] = receipt[f]
      /\ "phase_code" \in DOMAIN receipt => r["phase_code"] = <<"int", CodeNumber(other)>>
  OBVIOUS
<1>4. RequiredFields \subseteq DOMAIN receipt
  BY <1>1 DEF MissingField
<1>5. /\ Value(r, "phase_code") = CodeNumber(other)
      /\ Value(r, "lane_stride") = s /\ Value(r, "lane_offset") = o
  BY <1>3, <1>4, FieldsApart DEF Value
<1>6. other = CodeNumbered[Value(r, "phase_code")]
  BY <1>5, CodeOfNumber
<1>7. \A f \in RequiredFields \ {"phase_code"} : r[f] = receipt[f]
  BY <1>3, <1>4
<1>8. Obligations(r) = Obligations(receipt)
  BY <1>2, <1>5, <1>6, <1>7, ObligationsAreGauge
<1> QED
  BY <1>1, <1>8

-----------------------------------------------------------------------------
\* Spec => []RefusalIsComplete: for every width of lane, every set of codes
\* and lane maps written about and any number of fields tampered with, a
\* refusal names all the faults of its layer and nothing else.
THEOREM RepairSuffices == Spec => []RefusalIsComplete
BY Inductive, InvariantRepairs, PTL

\* Spec => []AcceptedIsHonest: evaluate accepts a receipt iff recomputing it
\* from the code and the lane map that it names gives it back, up to keys that
\* are harmless and to a refusal of what could have been admitted.
THEOREM OnlyTheTruthPasses == Spec => []AcceptedIsHonest
BY Inductive, InvariantJudges, PTL

\* Spec => []VerdictIsGaugeInvariant: naming another code with the same
\* quadratic code changes nothing that evaluate finds.
THEOREM VerdictSeesGauge == Spec => []VerdictIsGaugeInvariant
BY Inductive, InvariantSeesGauge, PTL
=============================================================================
