-------------------------- MODULE OperatorAtlasProof --------------------------
(***************************************************************************)
(* Proofs about OperatorAtlas, for lanes of one to four bits: the reduced  *)
(* basis decides the gauge space, the union-find merges inside the orbits  *)
(* and all of each, and the numbering follows the least quadratic code.    *)
(*                                                                         *)
(* The first part is about GaugeSpace alone and serves the proofs about    *)
(* OperatorAdmission too.  A lane is the set of its ones, so that numbers, *)
(* codes and vectors are sets under symmetric difference; a form is        *)
(* additive in both operands (BilinearAdds, FormAdds).  A vector is a      *)
(* gauge iff it is a form up to a coboundary, which makes gauges a space   *)
(* (GaugeIsSpanned and its converse), makes a gauge map a permutation of   *)
(* the quadratic forms, and makes orbits classes of an equivalence.        *)
(*                                                                         *)
(* The second part follows the loops.  A basis is kept sorted by leading   *)
(* bits and spans what the generators dealt with span, so that reduction   *)
(* ends in nothing exactly for members of that span; the forest has a root *)
(* and a depth for every key, its trees lie inside orbits, and every pair  *)
(* taken so far is in one tree, so that in the end trees are closed under  *)
(* all gauge maps, as only whole orbits are.                               *)
(***************************************************************************)
EXTENDS OperatorAtlas, FiniteSetTheorems, WellFoundedInduction, TLAPS

-----------------------------------------------------------------------------
(* Bits of a lane. *)

\* The powers of two the model uses, as numerals.
LEMMA Powers ==
  /\ 2^0 = 1 /\ 2^1 = 2 /\ 2^2 = 4 /\ 2^3 = 8 /\ 2^4 = 16
BY SMT

\* The width of a lane, and the lanes it has.
LEMMA Widths ==
  /\ Bits \in {1, 2, 3, 4}
  /\ Position \subseteq 0 .. 3 /\ 0 \in Position
  /\ Lane = 0 .. 2^Bits - 1
  /\ 2^Bits \in {2, 4, 8, 16}
  /\ Lane \subseteq Index /\ Index = 0 .. 15
<1>1. Bits \in {1, 2, 3, 4}
  BY BitsAssumption DEF MaxBits
<1>2. /\ Bits = 1 => 2^Bits = 2
      /\ Bits = 2 => 2^Bits = 4
      /\ Bits = 3 => 2^Bits = 8
      /\ Bits = 4 => 2^Bits = 16
  BY Powers, Zenon
<1>3. 2^Bits \in {2, 4, 8, 16}
  BY <1>1, <1>2
<1>4. Index = 0 .. 15
  BY Powers DEF Index, MaxBits
<1> QED
  BY <1>1, <1>3, <1>4 DEF Position, Lane

\* The four bits of an index.
LEMMA BitsAre ==
  ASSUME NEW x, x \in 0 .. 15
  PROVE  /\ Bit(x, 0) = x % 2
         /\ Bit(x, 1) = (x \div 2) % 2
         /\ Bit(x, 2) = (x \div 4) % 2
         /\ Bit(x, 3) = (x \div 8) % 2
BY Powers DEF Bit

\* A bit is zero or one.
LEMMA Digit ==
  ASSUME NEW a \in Int, NEW k \in Int
  PROVE  Bit(a, k) \in {0, 1}
BY DEF Bit

\* A number made of four bits has these bits.
LEMMA FourBits ==
  ASSUME NEW d0 \in {0, 1}, NEW d1 \in {0, 1}, NEW d2 \in {0, 1}, NEW d3 \in {0, 1},
         NEW x, x = d0 + 2 * d1 + 4 * d2 + 8 * d3
  PROVE  /\ x \in 0 .. 15
         /\ Bit(x, 0) = d0 /\ Bit(x, 1) = d1 /\ Bit(x, 2) = d2 /\ Bit(x, 3) = d3
<1>1. x \in 0 .. 15
  OBVIOUS
<1>2. x \div 2 = d1 + 2 * d2 + 4 * d3 /\ x \div 4 = d2 + 2 * d3 /\ x \div 8 = d3
  OBVIOUS
<1>3. /\ x % 2 = d0 /\ (x \div 2) % 2 = d1
      /\ (x \div 4) % 2 = d2 /\ (x \div 8) % 2 = d3
  BY <1>2
<1>4. /\ Bit(x, 0) = x % 2 /\ Bit(x, 1) = (x \div 2) % 2
      /\ Bit(x, 2) = (x \div 4) % 2 /\ Bit(x, 3) = (x \div 8) % 2
  BY <1>1, BitsAre
<1> QED
  BY <1>1, <1>3, <1>4

\* The bits of an exclusive or are the exclusive or of the bits.
LEMMA XorBits ==
  ASSUME NEW a \in Index, NEW b \in Index
  PROVE  /\ IndexXor(a, b) \in Index
         /\ \A k \in 0 .. 3 : Bit(IndexXor(a, b), k) = (Bit(a, k) + Bit(b, k)) % 2
<1> DEFINE x == IndexXor(a, b)
           d0 == (Bit(a, 0) + Bit(b, 0)) % 2
           d1 == (Bit(a, 1) + Bit(b, 1)) % 2
           d2 == (Bit(a, 2) + Bit(b, 2)) % 2
           d3 == (Bit(a, 3) + Bit(b, 3)) % 2
<1>1. a \in 0 .. 15 /\ b \in 0 .. 15
  BY Widths
<1>2. d0 \in {0, 1} /\ d1 \in {0, 1} /\ d2 \in {0, 1} /\ d3 \in {0, 1}
  BY <1>1, Digit
<1>3. x = 2^0 * d0 + 2^1 * d1 + 2^2 * d2 + 2^3 * d3
  BY DEF IndexXor, XorTable
<1> HIDE DEF x, d0, d1, d2, d3
<1>4. x = d0 + 2 * d1 + 4 * d2 + 8 * d3
  BY <1>2, <1>3, Powers
<1>5. x \in 0 .. 15 /\ Bit(x, 0) = d0 /\ Bit(x, 1) = d1 /\ Bit(x, 2) = d2 /\ Bit(x, 3) = d3
  BY <1>2, <1>4, FourBits
<1> QED
  BY <1>5, Widths DEF x, d0, d1, d2, d3

\* Lanes are closed under exclusive or, which is the symmetric difference of ones.
LEMMA OnesOfXor ==
  ASSUME NEW x \in Lane, NEW y \in Lane
  PROVE  /\ IndexXor(x, y) \in Lane
         /\ Ones(IndexXor(x, y)) = (Ones(x) \ Ones(y)) \cup (Ones(y) \ Ones(x))
<1> DEFINE z == IndexXor(x, y)
<1>1. x \in Index /\ y \in Index /\ x \in 0 .. 15 /\ y \in 0 .. 15
  BY Widths
<1>2. z \in 0 .. 15 /\ \A k \in 0 .. 3 : Bit(z, k) = (Bit(x, k) + Bit(y, k)) % 2
  BY <1>1, XorBits, Widths
<1>3. \A k \in 0 .. 3 : Bit(x, k) \in {0, 1} /\ Bit(y, k) \in {0, 1}
  BY <1>1, Digit
<1>4. \A k \in 0 .. 3 : Bit(z, k) = 1 <=> ((Bit(x, k) = 1) # (Bit(y, k) = 1))
  BY <1>2, <1>3
<1>5. Ones(z) = (Ones(x) \ Ones(y)) \cup (Ones(y) \ Ones(x))
  BY <1>4, Widths DEF Ones
<1>6. z \in Lane
  <2>1. /\ x % 2 = Bit(x, 0) /\ (x \div 2) % 2 = Bit(x, 1)
        /\ (x \div 4) % 2 = Bit(x, 2) /\ (x \div 8) % 2 = Bit(x, 3)
    BY <1>1, BitsAre
  <2>2. /\ y % 2 = Bit(y, 0) /\ (y \div 2) % 2 = Bit(y, 1)
        /\ (y \div 4) % 2 = Bit(y, 2) /\ (y \div 8) % 2 = Bit(y, 3)
    BY <1>1, BitsAre
  <2>3. /\ z % 2 = Bit(z, 0) /\ (z \div 2) % 2 = Bit(z, 1)
        /\ (z \div 4) % 2 = Bit(z, 2) /\ (z \div 8) % 2 = Bit(z, 3)
    BY <1>2, BitsAre
  <2>4. /\ Bit(z, 0) = (Bit(x, 0) + Bit(y, 0)) % 2 /\ Bit(z, 1) = (Bit(x, 1) + Bit(y, 1)) % 2
        /\ Bit(z, 2) = (Bit(x, 2) + Bit(y, 2)) % 2 /\ Bit(z, 3) = (Bit(x, 3) + Bit(y, 3)) % 2
    BY <1>2
  <2> HIDE DEF z
  <2>5. CASE 2^Bits = 16
    BY <1>2, <2>5, Widths
  <2>6. CASE 2^Bits = 8
    <3>1. (x \div 8) % 2 = 0 /\ (y \div 8) % 2 = 0
      BY <2>6, Widths
    <3>2. (z \div 8) % 2 = 0
      BY <2>1, <2>2, <2>3, <2>4, <3>1
    <3> QED
      BY <1>2, <3>2, <2>6, Widths
  <2>7. CASE 2^Bits = 4
    <3>1. (x \div 8) % 2 = 0 /\ (y \div 8) % 2 = 0 /\ (x \div 4) % 2 = 0 /\ (y \div 4) % 2 = 0
      BY <2>7, Widths
    <3>2. (z \div 8) % 2 = 0 /\ (z \div 4) % 2 = 0
      BY <2>1, <2>2, <2>3, <2>4, <3>1
    <3> QED
      BY <1>2, <3>2, <2>7, Widths
  <2>8. CASE 2^Bits = 2
    <3>1. /\ (x \div 8) % 2 = 0 /\ (y \div 8) % 2 = 0 /\ (x \div 4) % 2 = 0
          /\ (y \div 4) % 2 = 0 /\ (x \div 2) % 2 = 0 /\ (y \div 2) % 2 = 0
      BY <2>8, Widths
    <3>2. (z \div 8) % 2 = 0 /\ (z \div 4) % 2 = 0 /\ (z \div 2) % 2 = 0
      BY <2>1, <2>2, <2>3, <2>4, <3>1
    <3> QED
      BY <1>2, <3>2, <2>8, Widths
  <2> QED
    BY <2>5, <2>6, <2>7, <2>8, Widths
<1> QED
  BY <1>5, <1>6

\* Lane zero has no ones.
LEMMA OnesOfZero == 0 \in Lane /\ Ones(0) = {}
<1>1. \A k \in 0 .. 3 : Bit(0, k) = 0
  <2>1. Bit(0, 0) = 0 /\ Bit(0, 1) = 0 /\ Bit(0, 2) = 0 /\ Bit(0, 3) = 0
    BY BitsAre
  <2> QED
    BY <2>1
<1>2. \A k \in Position : Bit(0, k) # 1
  BY <1>1, Widths
<1>3. Ones(0) = {}
  BY <1>2 DEF Ones
<1>4. 0 \in Lane
  BY Widths
<1> QED
  BY <1>3, <1>4

\* A lane is known by its ones.
LEMMA SameOnes ==
  ASSUME NEW x \in Lane, NEW y \in Lane, Ones(x) = Ones(y)
  PROVE  x = y
<1>1. x \in 0 .. 15 /\ y \in 0 .. 15
  BY Widths
<1>2. \A k \in Position : Bit(x, k) = Bit(y, k)
  <2>1. \A k \in Position : Bit(x, k) \in {0, 1} /\ Bit(y, k) \in {0, 1}
    BY <1>1, Widths, Digit
  <2> QED
    BY <2>1 DEF Ones
<1>3. /\ Bit(x, 0) = x % 2 /\ Bit(x, 1) = (x \div 2) % 2
      /\ Bit(x, 2) = (x \div 4) % 2 /\ Bit(x, 3) = (x \div 8) % 2
  BY <1>1, BitsAre
<1>4. /\ Bit(y, 0) = y % 2 /\ Bit(y, 1) = (y \div 2) % 2
      /\ Bit(y, 2) = (y \div 4) % 2 /\ Bit(y, 3) = (y \div 8) % 2
  BY <1>1, BitsAre
<1>5. \A k \in 0 .. 3 : k \notin Position => Bit(x, k) = 0 /\ Bit(y, k) = 0
  <2>1. CASE Bits = 4
    BY <2>1 DEF Position
  <2>2. CASE Bits = 3
    <3>1. x \in 0 .. 7 /\ y \in 0 .. 7
      BY <2>2, Powers, Widths
    <3> QED
      BY <2>2, <3>1, <1>3, <1>4 DEF Position
  <2>3. CASE Bits = 2
    <3>1. x \in 0 .. 3 /\ y \in 0 .. 3
      BY <2>3, Powers, Widths
    <3> QED
      BY <2>3, <3>1, <1>3, <1>4 DEF Position
  <2>4. CASE Bits = 1
    <3>1. x \in 0 .. 1 /\ y \in 0 .. 1
      BY <2>4, Powers, Widths
    <3> QED
      BY <2>4, <3>1, <1>3, <1>4 DEF Position
  <2> QED
    BY <2>1, <2>2, <2>3, <2>4, Widths
<1>6. Bit(x, 0) = Bit(y, 0) /\ Bit(x, 1) = Bit(y, 1) /\ Bit(x, 2) = Bit(y, 2) /\ Bit(x, 3) = Bit(y, 3)
  BY <1>2, <1>5
<1> QED
  BY <1>1, <1>3, <1>4, <1>6

\* Exclusive or by the same lane undoes itself.
LEMMA XorUndoes ==
  ASSUME NEW a \in Lane, NEW b \in Lane, NEW k \in Lane
  PROVE  IndexXor(k, b) = a <=> IndexXor(a, b) = k
<1>1. /\ Ones(IndexXor(k, b)) = (Ones(k) \ Ones(b)) \cup (Ones(b) \ Ones(k))
      /\ Ones(IndexXor(a, b)) = (Ones(a) \ Ones(b)) \cup (Ones(b) \ Ones(a))
      /\ IndexXor(k, b) \in Lane /\ IndexXor(a, b) \in Lane
  BY OnesOfXor
<1>2. ASSUME IndexXor(k, b) = a PROVE IndexXor(a, b) = k
  <2>1. Ones(IndexXor(a, b)) = Ones(k)
    BY <1>1, <1>2
  <2> QED
    BY <2>1, <1>1, SameOnes
<1>3. ASSUME IndexXor(a, b) = k PROVE IndexXor(k, b) = a
  <2>1. Ones(IndexXor(k, b)) = Ones(a)
    BY <1>1, <1>3
  <2> QED
    BY <2>1, <1>1, SameOnes
<1> QED
  BY <1>2, <1>3

-----------------------------------------------------------------------------
(* Parity, and the form a code stands for. *)

\* Codes and what is counted over their cells are finite.
LEMMA CellsAreFinite ==
  /\ IsFiniteSet(Position \X Position)
  /\ \A S : S \subseteq Position \X Position => IsFiniteSet(S) /\ Cardinality(S) \in Nat
<1>1. Bits \in Int
  BY Widths
<1>2. IsFiniteSet(Position)
  BY <1>1, FS_Interval DEF Position
<1>3. IsFiniteSet(Position \X Position)
  BY <1>2, FS_Product
<1> QED
  BY <1>3, FS_Subset, FS_CardinalityType

\* What two sets do not share has the parity of both together.
LEMMA OddOfDifference ==
  ASSUME NEW S, IsFiniteSet(S), NEW T, IsFiniteSet(T)
  PROVE  Odd((S \ T) \cup (T \ S)) <=> (Odd(S) # Odd(T))
<1> DEFINE A == S \ T
           B == T \ S
           C == S \cap T
<1>1. IsFiniteSet(A) /\ Cardinality(A) = Cardinality(S) - Cardinality(C)
  BY FS_Difference
<1>2. IsFiniteSet(B) /\ Cardinality(B) = Cardinality(T) - Cardinality(C)
  <2>1. T \cap S = C
    OBVIOUS
  <2> QED
    BY <2>1, FS_Difference, SMTT(30)
<1>3. A \cap B = {}
  OBVIOUS
<1>4. Cardinality(A \cup B) = Cardinality(A) + Cardinality(B)
  <2>1. Cardinality(A \cup B) = Cardinality(A) + Cardinality(B) - Cardinality(A \cap B)
    BY <1>1, <1>2, FS_Union
  <2>2. Cardinality(A \cap B) = 0
    BY <1>3, FS_EmptySet
  <2>3. Cardinality(A) \in Nat /\ Cardinality(B) \in Nat
    BY <1>1, <1>2, FS_CardinalityType
  <2> QED
    BY <2>1, <2>2, <2>3
<1>5. IsFiniteSet(C)
  BY FS_Intersection
<1>6. Cardinality(S) \in Nat /\ Cardinality(T) \in Nat /\ Cardinality(C) \in Nat
  BY <1>5, FS_CardinalityType
<1>7. Cardinality(A \cup B) = Cardinality(S) + Cardinality(T) - 2 * Cardinality(C)
  BY <1>1, <1>2, <1>4, <1>6
<1>8. Cardinality(A \cup B) % 2 = (Cardinality(S) + Cardinality(T)) % 2
  BY <1>6, <1>7
<1>9. Cardinality(A \cup B) % 2 = 1 <=> ((Cardinality(S) % 2 = 1) # (Cardinality(T) % 2 = 1))
  BY <1>6, <1>8
<1> QED
  BY <1>9 DEF Odd

\* The empty set has an even number of elements.
LEMMA OddOfNothing == ~Odd({})
BY FS_EmptySet DEF Odd

\* Two finite sets that are moved onto one another by a bijection.
LEMMA OddOfImage ==
  ASSUME NEW S, IsFiniteSet(S), NEW T, NEW f \in Bijection(S, T)
  PROVE  IsFiniteSet(T) /\ Cardinality(T) = Cardinality(S) /\ Odd(T) = Odd(S)
<1>1. ExistsBijection(S, T)
  BY DEF ExistsBijection
<1>2. IsFiniteSet(T) /\ Cardinality(T) = Cardinality(S)
  BY <1>1, FS_Bijection
<1> QED
  BY <1>2 DEF Odd

\* The form is additive in each operand, and in the code.
LEMMA AdditiveLeft ==
  ASSUME NEW code \in Code, NEW x \in Lane, NEW y \in Lane, NEW z \in Lane
  PROVE  Bilinear(code, IndexXor(x, y), z) <=> (Bilinear(code, x, z) # Bilinear(code, y, z))
<1> DEFINE S == code \cap (Ones(x) \X Ones(z))
           T == code \cap (Ones(y) \X Ones(z))
<1>1. IsFiniteSet(S) /\ IsFiniteSet(T)
  BY CellsAreFinite DEF Code
<1>2. code \cap (Ones(IndexXor(x, y)) \X Ones(z)) = (S \ T) \cup (T \ S)
  BY OnesOfXor
<1> QED
  BY <1>1, <1>2, OddOfDifference DEF Bilinear

\* The same, in the right operand.
LEMMA AdditiveRight ==
  ASSUME NEW code \in Code, NEW x \in Lane, NEW y \in Lane, NEW z \in Lane
  PROVE  Bilinear(code, z, IndexXor(x, y)) <=> (Bilinear(code, z, x) # Bilinear(code, z, y))
<1> DEFINE S == code \cap (Ones(z) \X Ones(x))
           T == code \cap (Ones(z) \X Ones(y))
<1>1. IsFiniteSet(S) /\ IsFiniteSet(T)
  BY CellsAreFinite DEF Code
<1>2. code \cap (Ones(z) \X Ones(IndexXor(x, y))) = (S \ T) \cup (T \ S)
  BY OnesOfXor
<1> QED
  BY <1>1, <1>2, OddOfDifference DEF Bilinear

\* The form of a symmetric difference of codes is the sum of their forms.
LEMMA AdditiveCode ==
  ASSUME NEW c \in Code, NEW d \in Code, NEW x \in Lane, NEW y \in Lane
  PROVE  Bilinear((c \ d) \cup (d \ c), x, y) <=> (Bilinear(c, x, y) # Bilinear(d, x, y))
<1> DEFINE S == c \cap (Ones(x) \X Ones(y))
           T == d \cap (Ones(x) \X Ones(y))
<1>1. IsFiniteSet(S) /\ IsFiniteSet(T)
  BY CellsAreFinite DEF Code
<1>2. ((c \ d) \cup (d \ c)) \cap (Ones(x) \X Ones(y)) = (S \ T) \cup (T \ S)
  OBVIOUS
<1> QED
  BY <1>1, <1>2, OddOfDifference DEF Bilinear

\* A form vanishes when an operand is lane zero.
LEMMA ZeroOperand ==
  ASSUME NEW code \in Code, NEW x \in Lane
  PROVE  ~Bilinear(code, 0, x) /\ ~Bilinear(code, x, 0)
<1>1. code \cap (Ones(0) \X Ones(x)) = {} /\ code \cap (Ones(x) \X Ones(0)) = {}
  BY OnesOfZero
<1> QED
  BY <1>1, OddOfNothing DEF Bilinear

\* A form is a bit.
LEMMA BilinearIsBoolean ==
  ASSUME NEW code, NEW x, NEW y
  PROVE  Bilinear(code, x, y) \in BOOLEAN
BY DEF Bilinear, Odd

-----------------------------------------------------------------------------
(* Codes with one quadratic code differ by an alternating form. *)

\* Codes with one quadratic code differ by an alternating form.
LEMMA DifferenceIsAlternating ==
  ASSUME NEW c \in Code, NEW d \in Code, QuadraticCode(c) = QuadraticCode(d)
  PROVE  /\ (c \ d) \cup (d \ c) \in Code
         /\ IsAlternating((c \ d) \cup (d \ c))
<1>1. \A i \in Position : <<i, i>> \in c <=> <<i, i>> \in d
  <2> SUFFICES ASSUME NEW i \in Position PROVE <<i, i>> \in c <=> <<i, i>> \in d
    OBVIOUS
  <2>1. i \in Int
    BY Widths
  <2>2. <<i, i>> \in QuadraticCode(c) <=> <<i, i>> \in c
    BY <2>1 DEF QuadraticCode
  <2>3. <<i, i>> \in QuadraticCode(d) <=> <<i, i>> \in d
    BY <2>1 DEF QuadraticCode
  <2> QED
    BY <2>2, <2>3
<1>2. \A i, j \in Position : i < j =>
        ((<<i, j>> \in c <=> <<j, i>> \notin c) <=> (<<i, j>> \in d <=> <<j, i>> \notin d))
  <2> SUFFICES ASSUME NEW i \in Position, NEW j \in Position, i < j
               PROVE  (<<i, j>> \in c <=> <<j, i>> \notin c) <=> (<<i, j>> \in d <=> <<j, i>> \notin d)
    OBVIOUS
  <2>1. i \in Int /\ j \in Int /\ i # j
    BY Widths
  <2>2. <<i, j>> \in QuadraticCode(c) <=> (<<i, j>> \in c <=> <<j, i>> \notin c)
    BY <2>1 DEF QuadraticCode
  <2>3. <<i, j>> \in QuadraticCode(d) <=> (<<i, j>> \in d <=> <<j, i>> \notin d)
    BY <2>1 DEF QuadraticCode
  <2> QED
    BY <2>2, <2>3
<1>3. \A i, j \in Position : i < j \/ j < i \/ i = j
  BY Widths
<1>4. \A i, j \in Position :
        /\ <<i, i>> \notin (c \ d) \cup (d \ c)
        /\ (<<i, j>> \in (c \ d) \cup (d \ c)) <=> (<<j, i>> \in (c \ d) \cup (d \ c))
  BY <1>1, <1>2, <1>3
<1> QED
  BY <1>4 DEF IsAlternating, Code

\* An alternating form is symmetric, and zero on the diagonal.
LEMMA AlternatingIsSymmetric ==
  ASSUME NEW E \in Code, IsAlternating(E), NEW x \in Lane, NEW y \in Lane
  PROVE  Bilinear(E, x, y) <=> Bilinear(E, y, x)
<1> DEFINE S == E \cap (Ones(x) \X Ones(y))
           T == E \cap (Ones(y) \X Ones(x))
           f == [c \in S |-> <<c[2], c[1]>>]
<1>1. \A i, j \in Position : <<i, j>> \in E <=> <<j, i>> \in E
  BY DEF IsAlternating
<1>2. Ones(x) \subseteq Position /\ Ones(y) \subseteq Position
  BY DEF Ones
<1>3. \A c \in S : c = <<c[1], c[2]>> /\ c[1] \in Ones(x) /\ c[2] \in Ones(y)
  OBVIOUS
<1>4. \A c \in T : c = <<c[1], c[2]>> /\ c[1] \in Ones(y) /\ c[2] \in Ones(x)
  OBVIOUS
<1>5. f \in [S -> T]
  <2> SUFFICES ASSUME NEW c \in S PROVE <<c[2], c[1]>> \in T
    OBVIOUS
  <2>1. <<c[1], c[2]>> \in E /\ c[1] \in Position /\ c[2] \in Position
    BY <1>2, <1>3
  <2> QED
    BY <2>1, <1>1, <1>3
<1>6. \A c, e \in S : f[c] = f[e] => c = e
  BY <1>3
<1>7. \A t \in T : \E c \in S : f[c] = t
  <2> SUFFICES ASSUME NEW t \in T PROVE \E c \in S : f[c] = t
    OBVIOUS
  <2>1. <<t[1], t[2]>> \in E /\ t[1] \in Position /\ t[2] \in Position
    BY <1>2, <1>4
  <2>2. <<t[2], t[1]>> \in S
    BY <2>1, <1>1, <1>4
  <2>3. f[<<t[2], t[1]>>] = t
    BY <2>2, <1>4
  <2> QED
    BY <2>2, <2>3
<1>8. f \in Bijection(S, T)
  <2>1. f \in Injection(S, T)
    BY <1>5, <1>6, Zenon DEF Injection, IsInjective
  <2>2. f \in Surjection(S, T)
    BY <1>5, <1>7, Zenon DEF Surjection
  <2> QED
    BY <2>1, <2>2, Zenon DEF Bijection
<1>9. IsFiniteSet(S)
  BY CellsAreFinite DEF Code
<1> QED
  BY <1>8, <1>9, OddOfImage DEF Bilinear

\* An alternating form vanishes where both operands are one lane.
LEMMA AlternatingVanishes ==
  ASSUME NEW E \in Code, IsAlternating(E), NEW x \in Lane
  PROVE  ~Bilinear(E, x, x)
<1> DEFINE S == {c \in E \cap (Ones(x) \X Ones(x)) : c[1] < c[2]}
           T == {c \in E \cap (Ones(x) \X Ones(x)) : c[2] < c[1]}
           f == [c \in S |-> <<c[2], c[1]>>]
<1>1. \A i, j \in Position : /\ <<i, j>> \in E <=> <<j, i>> \in E
                             /\ <<i, i>> \notin E
  BY DEF IsAlternating
<1>2. Ones(x) \subseteq Position
  BY DEF Ones
<1>3. \A c \in E \cap (Ones(x) \X Ones(x)) :
        c = <<c[1], c[2]>> /\ c[1] \in Ones(x) /\ c[2] \in Ones(x)
  OBVIOUS
<1>4. E \cap (Ones(x) \X Ones(x)) = S \cup T
  <2> SUFFICES ASSUME NEW c \in E \cap (Ones(x) \X Ones(x)) PROVE c[1] < c[2] \/ c[2] < c[1]
    OBVIOUS
  <2>1. c = <<c[1], c[2]>> /\ c[1] \in Position /\ c[2] \in Position
    BY <1>2, <1>3
  <2>2. c[1] # c[2]
    BY <2>1, <1>1
  <2>3. \A i, j \in Position : i # j => i < j \/ j < i
    BY Widths
  <2> HIDE DEF S, T
  <2> QED
    BY <2>1, <2>2, <2>3
<1>5. f \in [S -> T]
  <2> SUFFICES ASSUME NEW c \in S PROVE <<c[2], c[1]>> \in T
    OBVIOUS
  <2>1. <<c[1], c[2]>> \in E /\ c[1] \in Position /\ c[2] \in Position
    BY <1>2, <1>3
  <2>2. <<c[2], c[1]>> \in E
    BY <2>1, <1>1
  <2> QED
    BY <2>2, <1>3
<1>6. \A c, e \in S : f[c] = f[e] => c = e
  BY <1>3
<1>7. \A t \in T : \E c \in S : f[c] = t
  <2> SUFFICES ASSUME NEW t \in T PROVE \E c \in S : f[c] = t
    OBVIOUS
  <2>1. <<t[1], t[2]>> \in E /\ t[1] \in Position /\ t[2] \in Position
    BY <1>2, <1>3
  <2>2. <<t[2], t[1]>> \in E
    BY <2>1, <1>1
  <2>3. <<t[2], t[1]>> \in S
    BY <2>2, <1>3
  <2>4. f[<<t[2], t[1]>>] = t
    BY <2>3, <1>3
  <2> QED
    BY <2>3, <2>4
<1>8. f \in Bijection(S, T)
  <2>1. f \in Injection(S, T)
    BY <1>5, <1>6, Zenon DEF Injection, IsInjective
  <2>2. f \in Surjection(S, T)
    BY <1>5, <1>7, Zenon DEF Surjection
  <2> QED
    BY <2>1, <2>2, Zenon DEF Bijection
<1>9. IsFiniteSet(S) /\ S \subseteq Position \X Position /\ Cardinality(S) \in Nat
  <2>1. S \subseteq Position \X Position
    BY DEF Code
  <2> QED
    BY <2>1, CellsAreFinite
<1>10. IsFiniteSet(T) /\ Cardinality(T) = Cardinality(S)
  BY <1>8, <1>9, OddOfImage
<1>11. S \cap T = {}
  <2> SUFFICES ASSUME NEW c \in S, c \in T PROVE FALSE
    OBVIOUS
  <2>1. c[1] \in Position /\ c[2] \in Position /\ c[1] < c[2] /\ c[2] < c[1]
    BY <1>2, <1>3
  <2>2. \A a, b \in 0 .. 3 : ~(a < b /\ b < a)
    OBVIOUS
  <2>3. c[1] \in 0 .. 3 /\ c[2] \in 0 .. 3
    BY <2>1, Widths
  <2> QED
    BY <2>1, <2>2, <2>3, Zenon
<1>12. Cardinality(S \cup T) = Cardinality(S) + Cardinality(S)
  <2>1. Cardinality(S \cup T) = Cardinality(S) + Cardinality(T) - Cardinality(S \cap T)
    BY <1>9, <1>10, FS_Union
  <2>2. Cardinality(S \cap T) = 0
    BY <1>11, FS_EmptySet
  <2> QED
    BY <2>1, <2>2, <1>9, <1>10
<1>13. ~Odd(S \cup T)
  <2> HIDE DEF S, T
  <2> QED
    BY <1>9, <1>12 DEF Odd
<1> QED
  BY <1>4, <1>13 DEF Bilinear

-----------------------------------------------------------------------------
(* Induction on a set of numbers, from the well-foundedness of <. *)

Below == OpToRel(<, Nat)

\* A set of naturals that is not empty has a least element.
LEMMA LeastElement ==
  ASSUME NEW S \in SUBSET Nat, S # {}
  PROVE  \E n \in S : \A m \in S : n <= m
<1>1. \A x, y \in Nat : <<x, y>> \in Below <=> x < y
  BY DEF Below, OpToRel
<1>2. IsWellFoundedOn(Below, Nat)
  BY NatLessThanWellFounded, Zenon DEF Below
<1>3. PICK n \in S : \A m \in S : ~(<<m, n>> \in Below)
  BY <1>2, WFMin, Zenon
<1>4. \A m \in S : ~(m < n)
  BY <1>1, <1>3
<1> QED
  BY <1>4

\* Induction over the naturals, for a set: what the proofs below use in the
\* place of a recursion over bits.
LEMMA Induction ==
  ASSUME NEW S \in SUBSET Nat, 0 \in S, \A n \in S : n + 1 \in S
  PROVE  S = Nat
<1> SUFFICES ASSUME Nat \ S # {} PROVE FALSE
  OBVIOUS
<1>1. PICK n \in Nat \ S : \A m \in Nat \ S : n <= m
  BY LeastElement
<1>2. n - 1 \in S
  BY <1>1
<1> QED
  BY <1>1, <1>2

-----------------------------------------------------------------------------
(* A code is known by its number. *)

\* A power of two is twice the one before, up to the width of a code.
LEMMA Doubles ==
  /\ 2^(0 + 1) = 2 * 2^0
  /\ 2^(1 + 1) = 2 * 2^1
  /\ 2^(2 + 1) = 2 * 2^2
  /\ 2^(3 + 1) = 2 * 2^3
  /\ 2^(4 + 1) = 2 * 2^4
  /\ 2^(5 + 1) = 2 * 2^5
  /\ 2^(6 + 1) = 2 * 2^6
  /\ 2^(7 + 1) = 2 * 2^7
  /\ 2^(8 + 1) = 2 * 2^8
  /\ 2^(9 + 1) = 2 * 2^9
  /\ 2^(10 + 1) = 2 * 2^10
  /\ 2^(11 + 1) = 2 * 2^11
  /\ 2^(12 + 1) = 2 * 2^12
  /\ 2^(13 + 1) = 2 * 2^13
  /\ 2^(14 + 1) = 2 * 2^14
  /\ 2^(15 + 1) = 2 * 2^15
BY SMT

\* The same, one power at a time.
LEMMA DoublePower ==
  ASSUME NEW k \in 0 .. 15
  PROVE  2^(k + 1) = 2 * 2^k
<1>1. k \in {0, 1, 2, 3, 4, 5, 6, 7, 8, 9, 10, 11, 12, 13, 14, 15}
  OBVIOUS
<1> QED
  BY <1>1, Doubles, Zenon

\* These powers are positive numbers.
LEMMA PositivePowers == \A k \in 0 .. 16 : 2^k \in Nat /\ 2^k > 0
<1> DEFINE S == {k \in Nat : k <= 16 => 2^k \in Nat /\ 2^k > 0}
<1>1. 0 \in S
  BY Powers
<1>2. \A k \in S : k + 1 \in S
  <2> SUFFICES ASSUME NEW k \in Nat, 2^k \in Nat /\ 2^k > 0, k + 1 <= 16
               PROVE  2^(k + 1) \in Nat /\ 2^(k + 1) > 0
    OBVIOUS
  <2>1. k \in 0 .. 15
    OBVIOUS
  <2>2. 2^(k + 1) = 2 * 2^k
    BY <2>1, DoublePower, Zenon
  <2> QED
    BY <2>2
<1>3. S = Nat
  <2> HIDE DEF S
  <2>1. S \in SUBSET Nat
    BY DEF S
  <2> QED
    BY <1>1, <1>2, <2>1, Induction
<1> QED
  BY <1>3

\* Dividing by twice a number is dividing by it, and then by two.
LEMMA DivideTwice ==
  ASSUME NEW x \in Nat, NEW p \in Nat, p > 0
  PROVE  x \div p \in Nat /\ x \div (2 * p) = (x \div p) \div 2
<1> DEFINE q == x \div p
           r == x % p
           z == q \div 2
           a == q % 2
<1>1. q \in Nat /\ r \in Nat /\ r < p /\ x = p * q + r
  OBVIOUS
<1>2. z \in Nat /\ a \in {0, 1} /\ q = 2 * z + a
  BY <1>1
<1> HIDE DEF q, r, z, a
<1>3. x = (2 * p) * z + (p * a + r)
  BY <1>1, <1>2
<1>4. p * a + r \in Nat /\ p * a + r < 2 * p
  BY <1>1, <1>2
<1>5. x \div (2 * p) = z
  BY <1>1, <1>2, <1>3, <1>4
<1> QED
  BY <1>1, <1>5 DEF q, z

\* Shifting by one more bit is halving; the bit shifted out is the bit read.
LEMMA Shift ==
  ASSUME NEW x \in Nat, NEW k \in 0 .. 15
  PROVE  /\ x \div 2^k \in Nat /\ x \div 2^(k + 1) \in Nat
         /\ Bit(x, k) \in {0, 1}
         /\ x \div 2^k = Bit(x, k) + 2 * (x \div 2^(k + 1))
<1>1. 2^k \in Nat /\ 2^k > 0 /\ 2^(k + 1) = 2 * 2^k
  <2>1. k \in 0 .. 16
    OBVIOUS
  <2> QED
    BY <2>1, PositivePowers, DoublePower, Zenon
<1>2. x \div 2^k \in Nat /\ x \div 2^(k + 1) = (x \div 2^k) \div 2
  BY <1>1, DivideTwice
<1> DEFINE q == x \div 2^k
<1>3. Bit(x, k) = q % 2
  BY DEF Bit
<1> HIDE DEF q
<1>4. q \in Nat => q = (q % 2) + 2 * (q \div 2) /\ q % 2 \in {0, 1} /\ q \div 2 \in Nat
  OBVIOUS
<1> QED
  BY <1>2, <1>3, <1>4 DEF q

Digits == [0 .. 15 -> {0, 1}]

\* y[k] is what is left of a value after its first k digits.
Remainders(d, y) ==
  /\ y \in [0 .. 16 -> Nat] /\ y[16] = 0
  /\ \A k \in 0 .. 15 : y[k] = d[k] + 2 * y[k + 1]

\* What is left after k digits is the value shifted by k; the digits are its bits.
LEMMA RemaindersAreShifts ==
  ASSUME NEW d \in Digits, NEW y, Remainders(d, y)
  PROVE  /\ \A k \in 0 .. 15 : Bit(y[0], k) = d[k]
         /\ y[0] \div 2^16 = 0
<1> DEFINE x == y[0]
           S == {k \in Nat : k <= 16 => y[k] = x \div 2^k}
<1>0. \A k \in 0 .. 16 : y[k] \in Nat
  BY DEF Remainders
<1>1. \A k \in 0 .. 15 : d[k] \in {0, 1}
  BY DEF Digits
<1>2. ASSUME NEW k \in 0 .. 15, y[k] = x \div 2^k
      PROVE  y[k + 1] = x \div 2^(k + 1) /\ d[k] = Bit(x, k)
  <2>1. x \in Nat
    BY <1>0
  <2>2. y[k] = d[k] + 2 * y[k + 1] /\ y[k + 1] \in Nat /\ d[k] \in {0, 1}
    <3>1. k + 1 \in 0 .. 16
      OBVIOUS
    <3>2. y[k] = d[k] + 2 * y[k + 1]
      BY DEF Remainders
    <3> QED
      BY <1>0, <1>1, <3>1, <3>2, Zenon
  <2> HIDE DEF x
  <2>3. /\ x \div 2^(k + 1) \in Nat /\ Bit(x, k) \in {0, 1}
        /\ y[k] = Bit(x, k) + 2 * (x \div 2^(k + 1))
    BY <1>2, <2>1, Shift
  <2>4. \A a, b \in {0, 1}, m, n \in Nat : a + 2 * m = b + 2 * n => a = b /\ m = n
    OBVIOUS
  <2> QED
    BY <2>2, <2>3, <2>4
<1>3. 0 \in S
  <2>1. x \div 2^0 = x
    BY <1>0, Powers
  <2> QED
    BY <2>1
<1>4. \A k \in S : k + 1 \in S
  <2> SUFFICES ASSUME NEW k \in Nat, k <= 16 => y[k] = x \div 2^k, k + 1 <= 16
               PROVE  y[k + 1] = x \div 2^(k + 1)
    OBVIOUS
  <2>1. k \in 0 .. 15 /\ k <= 16
    OBVIOUS
  <2>2. y[k] = x \div 2^k
    BY <2>1, Zenon
  <2> QED
    BY <2>1, <2>2, <1>2, Zenon
<1>5. S = Nat
  <2> HIDE DEF S
  <2>1. S \in SUBSET Nat
    BY DEF S
  <2> QED
    BY <1>3, <1>4, <2>1, Induction
<1>6. \A k \in 0 .. 16 : y[k] = x \div 2^k
  BY <1>5
<1>7. x \div 2^16 = 0
  <2>1. y[16] = 0 /\ 16 \in 0 .. 16
    BY DEF Remainders
  <2> QED
    BY <2>1, <1>6, Zenon
<1> QED
  BY <1>2, <1>6, <1>7

\* The value of the digits, as CodeNumber adds them up.
FourDigits(d, n) == 2^n * d[n] + 2^(n + 1) * d[n + 1] + 2^(n + 2) * d[n + 2] + 2^(n + 3) * d[n + 3]
DigitsValue(d) == FourDigits(d, 0) + FourDigits(d, 4) + FourDigits(d, 8) + FourDigits(d, 12)

\* Four digits at a time.
LEMMA FourPlaces ==
  ASSUME NEW a0 \in {0, 1}, NEW a1 \in {0, 1}, NEW a2 \in {0, 1}, NEW a3 \in {0, 1},
         NEW w \in Nat, NEW y3, NEW y2, NEW y1, NEW y0,
         y3 = a3 + 2 * w, y2 = a2 + 2 * y3, y1 = a1 + 2 * y2, y0 = a0 + 2 * y1
  PROVE  y0 = a0 + 2 * a1 + 4 * a2 + 8 * a3 + 16 * w
OBVIOUS

\* What is left after no digit is the value of all the digits.
LEMMA RemaindersSum ==
  ASSUME NEW d \in Digits, NEW y, Remainders(d, y)
  PROVE  y[0] = DigitsValue(d)
<1>1. \A k \in 0 .. 15 : d[k] \in {0, 1}
  BY DEF Digits
<1>2. \A k \in 0 .. 16 : y[k] \in Nat
  BY DEF Remainders
<1>3. y[16] = 0 /\ \A k \in 0 .. 15 : y[k] = d[k] + 2 * y[k + 1]
  BY DEF Remainders
<1>4. y[12] = d[12] + 2 * d[13] + 4 * d[14] + 8 * d[15] + 16 * 0
  <2>1. y[15] = d[15] + 2 * 0 /\ y[14] = d[14] + 2 * y[15]
    BY <1>3
  <2>2. y[13] = d[13] + 2 * y[14] /\ y[12] = d[12] + 2 * y[13]
    BY <1>3
  <2> QED
    BY <1>1, <2>1, <2>2, FourPlaces
<1>5. y[8] = d[8] + 2 * d[9] + 4 * d[10] + 8 * d[11] + 16 * y[12]
  <2>1. y[11] = d[11] + 2 * y[12] /\ y[10] = d[10] + 2 * y[11]
    BY <1>3
  <2>2. y[9] = d[9] + 2 * y[10] /\ y[8] = d[8] + 2 * y[9]
    BY <1>3
  <2> QED
    BY <1>1, <1>2, <2>1, <2>2, FourPlaces
<1>6. y[4] = d[4] + 2 * d[5] + 4 * d[6] + 8 * d[7] + 16 * y[8]
  <2>1. y[7] = d[7] + 2 * y[8] /\ y[6] = d[6] + 2 * y[7]
    BY <1>3
  <2>2. y[5] = d[5] + 2 * y[6] /\ y[4] = d[4] + 2 * y[5]
    BY <1>3
  <2> QED
    BY <1>1, <1>2, <2>1, <2>2, FourPlaces
<1>7. y[0] = d[0] + 2 * d[1] + 4 * d[2] + 8 * d[3] + 16 * y[4]
  <2>1. y[3] = d[3] + 2 * y[4] /\ y[2] = d[2] + 2 * y[3]
    BY <1>3
  <2>2. y[1] = d[1] + 2 * y[2] /\ y[0] = d[0] + 2 * y[1]
    BY <1>3
  <2> QED
    BY <1>1, <1>2, <2>1, <2>2, FourPlaces
<1> DEFINE g0 == d[0] + 2 * d[1] + 4 * d[2] + 8 * d[3]
           g1 == d[4] + 2 * d[5] + 4 * d[6] + 8 * d[7]
           g2 == d[8] + 2 * d[9] + 4 * d[10] + 8 * d[11]
           g3 == d[12] + 2 * d[13] + 4 * d[14] + 8 * d[15]
<1>8. FourDigits(d, 0) = 1 * g0 /\ g0 \in Int
  <2>1. d[0] \in Int /\ d[1] \in Int /\ d[2] \in Int /\ d[3] \in Int
    BY <1>1
  <2>2. FourDigits(d, 0) = 2^0 * d[0] + 2^1 * d[1] + 2^2 * d[2] + 2^3 * d[3]
    BY DEF FourDigits
  <2> QED
    BY <2>1, <2>2
<1>9. FourDigits(d, 4) = 16 * g1 /\ g1 \in Int
  <2>1. d[4] \in Int /\ d[5] \in Int /\ d[6] \in Int /\ d[7] \in Int
    BY <1>1
  <2>2. FourDigits(d, 4) = 2^4 * d[4] + 2^5 * d[5] + 2^6 * d[6] + 2^7 * d[7]
    BY DEF FourDigits
  <2> QED
    BY <2>1, <2>2
<1>10. FourDigits(d, 8) = 256 * g2 /\ g2 \in Int
  <2>1. d[8] \in Int /\ d[9] \in Int /\ d[10] \in Int /\ d[11] \in Int
    BY <1>1
  <2>2. FourDigits(d, 8) = 2^8 * d[8] + 2^9 * d[9] + 2^10 * d[10] + 2^11 * d[11]
    BY DEF FourDigits
  <2> QED
    BY <2>1, <2>2
<1>11. FourDigits(d, 12) = 4096 * g3 /\ g3 \in Int
  <2>1. d[12] \in Int /\ d[13] \in Int /\ d[14] \in Int /\ d[15] \in Int
    BY <1>1
  <2>2. FourDigits(d, 12) = 2^12 * d[12] + 2^13 * d[13] + 2^14 * d[14] + 2^15 * d[15]
    BY DEF FourDigits
  <2> QED
    BY <2>1, <2>2
<1> HIDE DEF g0, g1, g2, g3
<1>12. y[0] = g0 + 16 * (g1 + 16 * (g2 + 16 * g3))
  <2>1. y[12] = g3 + 16 * 0
    BY <1>4 DEF g3
  <2>2. y[8] = g2 + 16 * y[12]
    BY <1>5 DEF g2
  <2>3. y[4] = g1 + 16 * y[8]
    BY <1>6 DEF g1
  <2>4. y[0] = g0 + 16 * y[4]
    BY <1>7 DEF g0
  <2> QED
    BY <2>1, <2>2, <2>3, <2>4, <1>8, <1>9, <1>10, <1>11
<1> QED
  BY <1>8, <1>9, <1>10, <1>11, <1>12 DEF DigitsValue

\* The remainders can be built from the last digit to the first.
LEMMA RemaindersExist ==
  ASSUME NEW d \in Digits
  PROVE  \E y : Remainders(d, y)
<1> DEFINE Rest(n, y) == /\ y \in [16 - n .. 16 -> Nat] /\ y[16] = 0
                         /\ \A k \in 16 - n .. 15 : y[k] = d[k] + 2 * y[k + 1]
           S == {n \in Nat : n <= 16 => \E y : Rest(n, y)}
<1>0. \A k \in 0 .. 15 : d[k] \in {0, 1}
  BY DEF Digits
<1>1. 0 \in S
  <2>1. Rest(0, [k \in 16 - 0 .. 16 |-> 0])
    OBVIOUS
  <2> QED
    BY <2>1
<1>2. ASSUME NEW n \in Nat, n + 1 <= 16, NEW y, Rest(n, y)
      PROVE  \E z : Rest(n + 1, z)
  <2> USE <1>2
  <2> DEFINE z == [k \in 16 - (n + 1) .. 16 |->
                     IF k = 16 - (n + 1) THEN d[k] + 2 * y[k + 1] ELSE y[k]]
  <2>1. \A k \in 0 .. 15 : d[k] \in Nat
    <3>1. {0, 1} \subseteq Nat
      OBVIOUS
    <3> QED
      BY <1>0, <3>1, Zenon
  <2>2. \A k \in 16 - n .. 16 : y[k] \in Nat
    OBVIOUS
  <2>3. \A k \in 16 - (n + 1) .. 16 : k = 16 - (n + 1) \/ k \in 16 - n .. 16
    OBVIOUS
  <2>4. 16 - (n + 1) \in 0 .. 15 /\ (16 - (n + 1)) + 1 \in 16 - n .. 16
    OBVIOUS
  <2>5. d[16 - (n + 1)] + 2 * y[(16 - (n + 1)) + 1] \in Nat
    <3>1. d[16 - (n + 1)] \in Nat /\ y[(16 - (n + 1)) + 1] \in Nat
      BY <2>1, <2>2, <2>4, Zenon
    <3> QED
      BY <3>1
  <2>6. z \in [16 - (n + 1) .. 16 -> Nat]
    BY <2>2, <2>3, <2>5
  <2>7. z[16] = 0
    OBVIOUS
  <2>8. \A k \in 16 - (n + 1) .. 15 : z[k] = d[k] + 2 * z[k + 1]
    <3> SUFFICES ASSUME NEW k \in 16 - (n + 1) .. 15 PROVE z[k] = d[k] + 2 * z[k + 1]
      OBVIOUS
    <3>1. k + 1 \in 16 - n .. 16 /\ k + 1 # 16 - (n + 1)
      OBVIOUS
    <3>2. z[k + 1] = y[k + 1]
      BY <3>1
    <3>3. CASE k = 16 - (n + 1)
      BY <3>2, <3>3
    <3>4. CASE k # 16 - (n + 1)
      <4>1. k \in 16 - n .. 15 /\ z[k] = y[k]
        BY <3>4
      <4> QED
        BY <4>1, <3>2
    <3> QED
      BY <3>3, <3>4
  <2> QED
    BY <2>6, <2>7, <2>8
<1>3. S = Nat
  <2>1. S \in SUBSET Nat
    OBVIOUS
  <2>2. \A n \in S : n + 1 \in S
    <3> HIDE DEF Rest
    <3> QED
      BY <1>2
  <2> HIDE DEF S
  <2> QED
    BY <1>1, <2>1, <2>2, Induction
<1>4. PICK y : Rest(16, y)
  <2>1. 16 \in S
    BY <1>3
  <2> QED
    BY <2>1
<1>5. 16 - 16 = 0
  OBVIOUS
<1> QED
  BY <1>4, <1>5 DEF Remainders

\* The bits of a code, in the order of its number.
BitsOfCode(code) == [n \in 0 .. 15 |-> IF Place(n) \in code THEN 1 ELSE 0]

\* The number of a code is the value of its bits.
LEMMA NumberIsValue ==
  ASSUME NEW code
  PROVE  BitsOfCode(code) \in Digits /\ CodeNumber(code) = DigitsValue(BitsOfCode(code))
<1> DEFINE d == BitsOfCode(code)
           bit(n) == IF <<n \div Bits, n % Bits>> \in code THEN 2^n ELSE 0
<1>1. d \in Digits
  BY DEF BitsOfCode, Digits
<1>2. \A n \in 0 .. 15 : bit(n) = 2^n * d[n]
  <2> SUFFICES ASSUME NEW n \in 0 .. 15 PROVE bit(n) = 2^n * d[n]
    OBVIOUS
  <2>1. d[n] = IF Place(n) \in code THEN 1 ELSE 0
    BY DEF BitsOfCode
  <2>2. 2^n \in Nat
    <3>1. n \in 0 .. 16
      OBVIOUS
    <3> QED
      BY <3>1, PositivePowers, Zenon
  <2>3. CASE Place(n) \in code
    <3>1. d[n] = 1 /\ bit(n) = 2^n
      BY <2>1, <2>3 DEF Place
    <3> HIDE DEF d, bit
    <3> QED
      BY <3>1, <2>2
  <2>4. CASE Place(n) \notin code
    <3>1. d[n] = 0 /\ bit(n) = 0
      BY <2>1, <2>4 DEF Place
    <3> HIDE DEF d, bit
    <3> QED
      BY <3>1, <2>2
  <2> QED
    BY <2>3, <2>4
<1>3. CodeNumber(code) =
        (bit(0) + bit(0 + 1) + bit(0 + 2) + bit(0 + 3)) + (bit(4) + bit(4 + 1) + bit(4 + 2) + bit(4 + 3))
          + (bit(8) + bit(8 + 1) + bit(8 + 2) + bit(8 + 3))
          + (bit(12) + bit(12 + 1) + bit(12 + 2) + bit(12 + 3))
  BY Zenon DEF CodeNumber
<1>4. \A n \in {0, 4, 8, 12} :
        bit(n) + bit(n + 1) + bit(n + 2) + bit(n + 3) = FourDigits(d, n)
  <2> SUFFICES ASSUME NEW n \in {0, 4, 8, 12}
               PROVE  bit(n) + bit(n + 1) + bit(n + 2) + bit(n + 3) = FourDigits(d, n)
    OBVIOUS
  <2>1. n \in 0 .. 15 /\ n + 1 \in 0 .. 15 /\ n + 2 \in 0 .. 15 /\ n + 3 \in 0 .. 15
    OBVIOUS
  <2> HIDE DEF bit, d
  <2> QED
    BY <2>1, <1>2, Zenon DEF FourDigits
<1> HIDE DEF bit
<1>5. /\ bit(0) + bit(0 + 1) + bit(0 + 2) + bit(0 + 3) = FourDigits(d, 0)
      /\ bit(4) + bit(4 + 1) + bit(4 + 2) + bit(4 + 3) = FourDigits(d, 4)
      /\ bit(8) + bit(8 + 1) + bit(8 + 2) + bit(8 + 3) = FourDigits(d, 8)
      /\ bit(12) + bit(12 + 1) + bit(12 + 2) + bit(12 + 3) = FourDigits(d, 12)
  BY <1>4, Zenon
<1>6. CodeNumber(code) = DigitsValue(d)
  BY <1>3, <1>5, Zenon DEF DigitsValue
<1> QED
  BY <1>1, <1>6

\* Quotient and remainder.
LEMMA DivMod ==
  ASSUME NEW x \in Nat, NEW p \in Nat, p > 0
  PROVE  x = (x \div p) * p + (x % p)
OBVIOUS

\* Which of sixteen bits are digits of base b, twice over.
Splits(b) ==
  \A n \in 0 .. 15 : /\ n < b * b => n \div b \in 0 .. b - 1
                     /\ n >= b * b => n \div b \notin 0 .. b - 1
                     /\ n % b \in 0 .. b - 1

\* Cells and the bits below Bits * Bits are the same thing.
LEMMA CellOfBit ==
  /\ Bits * Bits \in 1 .. 16
  /\ \A c \in Position \X Position :
       LET n == c[1] * Bits + c[2]
       IN  n \in 0 .. Bits * Bits - 1 /\ c = <<n \div Bits, n % Bits>>
  /\ \A n \in 0 .. 15 :
       /\ n < Bits * Bits => <<n \div Bits, n % Bits>> \in Position \X Position
       /\ n >= Bits * Bits => <<n \div Bits, n % Bits>> \notin Position \X Position
       /\ n = (n \div Bits) * Bits + (n % Bits)
<1>1. Bits * Bits \in 1 .. 16
  BY Widths
<1>2. \A i, j \in Position :
        /\ i * Bits + j \in 0 .. Bits * Bits - 1
        /\ (i * Bits + j) \div Bits = i /\ (i * Bits + j) % Bits = j
  <2>1. CASE Bits = 1
    BY <2>1 DEF Position
  <2>2. CASE Bits = 2
    BY <2>2 DEF Position
  <2>3. CASE Bits = 3
    BY <2>3 DEF Position
  <2>4. CASE Bits = 4
    BY <2>4 DEF Position
  <2> QED
    BY <2>1, <2>2, <2>3, <2>4, Widths
<1>3. \A n \in 0 .. 15 :
        /\ n < Bits * Bits => n \div Bits \in Position
        /\ n >= Bits * Bits => n \div Bits \notin Position
        /\ n % Bits \in Position
        /\ n = (n \div Bits) * Bits + (n % Bits)
  <2>1. Splits(1) /\ Splits(2) /\ Splits(3) /\ Splits(4)
    BY DEF Splits
  <2>2. \A n \in 0 .. 15 : n = (n \div Bits) * Bits + (n % Bits)
    <3>1. Bits \in Nat /\ Bits > 0
      BY Widths
    <3>2. 0 .. 15 \subseteq Nat
      OBVIOUS
    <3> QED
      BY <3>1, <3>2, DivMod, Zenon
  <2>3. Splits(Bits)
    BY <2>1, Widths, Zenon
  <2>4. \A n \in 0 .. 15 : /\ n < Bits * Bits => n \div Bits \in Position
                           /\ n >= Bits * Bits => n \div Bits \notin Position
                           /\ n % Bits \in Position
    BY <2>3 DEF Splits, Position
  <2> QED
    BY <2>2, <2>4, Zenon
<1> QED
  BY <1>1, <1>2, <1>3

\* Below 2^m, no bit from m on is set.
LEMMA HighShift ==
  ASSUME NEW x \in Nat, NEW m \in 0 .. 16, NEW k \in 0 .. 16, x \div 2^m = 0, k >= m
  PROVE  x \div 2^k = 0
<1> DEFINE S == {n \in Nat : m + n <= 16 => x \div 2^(m + n) = 0}
<1>1. 0 \in S
  <2>1. m + 0 = m
    OBVIOUS
  <2> QED
    BY <2>1, Zenon
<1>2. \A n \in S : n + 1 \in S
  <2> SUFFICES ASSUME NEW n \in Nat, x \div 2^(m + n) = 0, m + n + 1 <= 16
               PROVE  x \div 2^(m + (n + 1)) = 0
    OBVIOUS
  <2>1. m + n \in 0 .. 15 /\ (m + n) + 1 = m + (n + 1)
    OBVIOUS
  <2>2. /\ x \div 2^((m + n) + 1) \in Nat /\ Bit(x, m + n) \in {0, 1}
        /\ x \div 2^(m + n) = Bit(x, m + n) + 2 * (x \div 2^((m + n) + 1))
    BY <2>1, Shift
  <2> QED
    BY <2>1, <2>2
<1>3. S = Nat
  <2> HIDE DEF S
  <2>1. S \in SUBSET Nat
    BY DEF S
  <2> QED
    BY <1>1, <1>2, <2>1, Induction
<1>4. k - m \in Nat /\ m + (k - m) = k /\ k <= 16
  OBVIOUS
<1>5. k - m \in S
  BY <1>3, <1>4, Zenon
<1>6. m + (k - m) <= 16 => x \div 2^(m + (k - m)) = 0
  BY <1>5
<1> QED
  BY <1>4, <1>6, Zenon

\* The same, for each bit.
LEMMA HighBits ==
  ASSUME NEW x \in Nat, NEW m \in 0 .. 16, NEW k \in 0 .. 15, x \div 2^m = 0, k >= m
  PROVE  Bit(x, k) = 0
<1>1. x \div 2^k = 0
  <2>1. k \in 0 .. 16
    OBVIOUS
  <2> QED
    BY <2>1, HighShift, Zenon
<1>2. 0 % 2 = 0
  OBVIOUS
<1> QED
  BY <1>1, <1>2, Zenon DEF Bit

\* Conversely, a number without bits from m on is below 2^m.
LEMMA LowBits ==
  ASSUME NEW x \in Nat, x \div 2^16 = 0, NEW m \in 1 .. 16,
         \A k \in 0 .. 15 : k >= m => Bit(x, k) = 0
  PROVE  x < 2^m
<1> DEFINE S == {n \in Nat : n <= 16 - m => x \div 2^(16 - n) = 0}
<1>1. 0 \in S
  <2>1. 16 - 0 = 16
    OBVIOUS
  <2> QED
    BY <2>1, Zenon
<1>2. \A n \in S : n + 1 \in S
  <2> SUFFICES ASSUME NEW n \in Nat, n <= 16 - m => x \div 2^(16 - n) = 0, n + 1 <= 16 - m
               PROVE  x \div 2^(16 - (n + 1)) = 0
    OBVIOUS
  <2> DEFINE k == 16 - (n + 1)
  <2>1. n <= 16 - m /\ k \in 0 .. 15 /\ k + 1 = 16 - n /\ k >= m
    OBVIOUS
  <2> HIDE DEF k
  <2>2. x \div 2^(k + 1) = 0 /\ Bit(x, k) = 0
    BY <2>1, Zenon
  <2>3. x \div 2^k = Bit(x, k) + 2 * (x \div 2^(k + 1))
    BY <2>1, Shift, Zenon
  <2>4. 0 + 2 * 0 = 0
    OBVIOUS
  <2> QED
    BY <2>2, <2>3, <2>4, Zenon DEF k
<1>3. S = Nat
  <2> HIDE DEF S
  <2>1. S \in SUBSET Nat
    BY DEF S
  <2> QED
    BY <1>1, <1>2, <2>1, Induction
<1>4. 16 - m \in Nat /\ 16 - m <= 16 - m /\ 16 - (16 - m) = m /\ m \in 0 .. 16
  OBVIOUS
<1>5. 16 - m \in S
  BY <1>3, <1>4, Zenon
<1>6. 16 - m <= 16 - m => x \div 2^(16 - (16 - m)) = 0
  BY <1>5
<1>7. x \div 2^m = 0
  BY <1>4, <1>6, Zenon
<1>8. 2^m \in Nat /\ 2^m > 0
  BY <1>4, PositivePowers, ZenonT(60)
<1> QED
  BY <1>7, <1>8

\* Numbers of sixteen bits are known by their bits.
LEMMA ValueOfBits ==
  ASSUME NEW x \in Nat, x \div 2^16 = 0
  PROVE  /\ [k \in 0 .. 15 |-> Bit(x, k)] \in Digits
         /\ x = DigitsValue([k \in 0 .. 15 |-> Bit(x, k)])
<1> DEFINE d == [k \in 0 .. 15 |-> Bit(x, k)]
           y == [k \in 0 .. 16 |-> x \div 2^k]
<1>1. d \in Digits
  BY Shift DEF Digits
<1>2. Remainders(d, y)
  <2>1. \A k \in 0 .. 15 : y[k] = d[k] + 2 * y[k + 1]
    <3> SUFFICES ASSUME NEW k \in 0 .. 15 PROVE y[k] = d[k] + 2 * y[k + 1]
      OBVIOUS
    <3>1. y[k] = x \div 2^k /\ y[k + 1] = x \div 2^(k + 1) /\ d[k] = Bit(x, k)
      OBVIOUS
    <3> QED
      BY <3>1, Shift
  <2>2. \A k \in 0 .. 16 : x \div 2^k \in Nat
    <3> SUFFICES ASSUME NEW k \in 0 .. 16 PROVE x \div 2^k \in Nat
      OBVIOUS
    <3>1. 2^k \in Nat /\ 2^k > 0
      BY PositivePowers
    <3> QED
      BY <3>1, DivideTwice
  <2> QED
    BY <2>1, <2>2 DEF Remainders
<1>3. y[0] = x
  BY Powers
<1> HIDE DEF d, y
<1>4. x = DigitsValue(d)
  BY <1>1, <1>2, <1>3, RemaindersSum
<1> QED
  BY <1>1, <1>4 DEF d

\* The bits of the number of a code are the cells of the code.
LEMMA NumberBits ==
  ASSUME NEW code
  PROVE  /\ CodeNumber(code) \in Nat /\ CodeNumber(code) \div 2^16 = 0
         /\ \A k \in 0 .. 15 :
              Bit(CodeNumber(code), k) = IF <<k \div Bits, k % Bits>> \in code THEN 1 ELSE 0
<1> DEFINE d == BitsOfCode(code)
           x == CodeNumber(code)
<1>1. d \in Digits /\ x = DigitsValue(d)
  BY NumberIsValue
<1> HIDE DEF d, x
<1>2. PICK y : Remainders(d, y)
  BY <1>1, RemaindersExist
<1>3. x = y[0]
  BY <1>1, <1>2, RemaindersSum
<1>4. y[0] \in Nat /\ y[16] = 0
  BY <1>2 DEF Remainders
<1>5. \A k \in 0 .. 15 : Bit(x, k) = d[k]
  BY <1>1, <1>2, <1>3, RemaindersAreShifts
<1>6. x \div 2^16 = 0
  BY <1>1, <1>2, <1>3, RemaindersAreShifts
<1> QED
  BY <1>3, <1>4, <1>5, <1>6 DEF d, x, BitsOfCode, Place

\* Numbers of sixteen bits with the same bits are the same.
LEMMA SameBits ==
  ASSUME NEW x \in Nat, x \div 2^16 = 0, NEW z \in Nat, z \div 2^16 = 0,
         \A k \in 0 .. 15 : Bit(x, k) = Bit(z, k)
  PROVE  x = z
<1>1. [k \in 0 .. 15 |-> Bit(x, k)] = [k \in 0 .. 15 |-> Bit(z, k)]
  OBVIOUS
<1>2. x = DigitsValue([k \in 0 .. 15 |-> Bit(x, k)]) /\ z = DigitsValue([k \in 0 .. 15 |-> Bit(z, k)])
  BY ValueOfBits
<1> QED
  BY <1>1, <1>2, Zenon

\* The number of a code is in range; only the empty code has number zero.
LEMMA NumberInRange ==
  ASSUME NEW code \in Code
  PROVE  /\ CodeNumber(code) \in 0 .. 2^(Bits * Bits) - 1
         /\ CodeNumber(code) = 0 <=> code = {}
<1> DEFINE x == CodeNumber(code)
           m == Bits * Bits
<1>1. /\ x \in Nat /\ x \div 2^16 = 0
      /\ \A k \in 0 .. 15 : Bit(x, k) = IF <<k \div Bits, k % Bits>> \in code THEN 1 ELSE 0
  BY NumberBits
<1>2. m \in 1 .. 16
  BY CellOfBit
<1>3. code \subseteq Position \X Position
  BY DEF Code
<1>4. \A k \in 0 .. 15 : k >= m => Bit(x, k) = 0
  <2>1. \A k \in 0 .. 15 : k >= m => <<k \div Bits, k % Bits>> \notin Position \X Position
    BY CellOfBit
  <2> QED
    BY <2>1, <1>1, <1>3
<1>5. ASSUME NEW c \in code
      PROVE  \E k \in 0 .. 15 : Bit(x, k) = 1
  <2> DEFINE n == c[1] * Bits + c[2]
  <2>1. c \in Position \X Position
    BY <1>3
  <2>2. n \in 0 .. m - 1 /\ c = <<n \div Bits, n % Bits>>
    BY <2>1, CellOfBit
  <2> HIDE DEF n, m, x
  <2>3. n \in 0 .. 15
    BY <2>2, <1>2
  <2>4. Bit(x, n) = 1
    BY <2>2, <2>3, <1>1, <1>5, Zenon
  <2> QED
    BY <2>3, <2>4
<1> HIDE DEF x, m
<1>6. x < 2^m
  BY <1>1, <1>2, <1>4, LowBits
<1>7. x \in 0 .. 2^m - 1
  <2>1. m \in 0 .. 16
    BY <1>2
  <2>2. 2^m \in Nat
    BY <2>1, PositivePowers, Zenon
  <2> QED
    BY <1>1, <1>6, <2>2
<1>8. \A k \in 0 .. 15 : Bit(0, k) = 0
  <2>1. ASSUME NEW k \in 0 .. 15 PROVE Bit(0, k) = 0
    <3>1. k \in 0 .. 16
      OBVIOUS
    <3>2. 2^k \in Nat /\ 2^k > 0
      BY <3>1, PositivePowers, Zenon
    <3>3. 0 \div 2^k = 0
      BY <3>2, SMTT(30)
    <3>4. 0 % 2 = 0
      OBVIOUS
    <3> QED
      BY <3>3, <3>4, Zenon DEF Bit
  <2> QED
    BY <2>1
<1>9. x = 0 => code = {}
  BY <1>5, <1>8
<1>10. code = {} => x = 0
  <2> SUFFICES ASSUME code = {} PROVE x = 0
    OBVIOUS
  <2>1. \A k \in 0 .. 15 : Bit(x, k) = Bit(0, k)
    BY <1>1, <1>8
  <2>2. 0 \div 2^16 = 0
    BY SMT
  <2> QED
    BY <1>1, <2>1, <2>2, SameBits
<1> QED
  BY <1>7, <1>9, <1>10 DEF x, m

-----------------------------------------------------------------------------
(* Lane maps with an odd stride are permutations. *)

\* The lane that a lane map of m lanes sends a lane to.
Target(m, stride, offset, lane) == (lane * stride + offset) % m

\* Lane l, and it alone, is sent to k.
Sole(m, s, o, k, l) == \A lane \in 0 .. m - 1 : Target(m, s, o, lane) = k <=> lane = l

\* Multiplying by an odd number permutes the residues of every lane width.
LEMMA OddStrideOf16 ==
  ASSUME NEW s \in 0 .. 15, s % 2 = 1, NEW o \in 0 .. 15, NEW k \in 0 .. 15
  PROVE  \E l \in 0 .. 15 : Sole(16, s, o, k, l)
<1> DEFINE back(u) == (u * (k + 16 - o)) % 16
<1>1. s \in {1, 3, 5, 7, 9, 11, 13, 15}
  OBVIOUS
<1>2. \A u \in 0 .. 15 : back(u) \in 0 .. 15
  OBVIOUS
<1>3. Sole(16, 1, o, k, back(1))
  BY DEF Target, Sole
<1>4. Sole(16, 3, o, k, back(11))
  BY DEF Target, Sole
<1>5. Sole(16, 5, o, k, back(13))
  BY DEF Target, Sole
<1>6. Sole(16, 7, o, k, back(7))
  BY DEF Target, Sole
<1>7. Sole(16, 9, o, k, back(9))
  BY DEF Target, Sole
<1>8. Sole(16, 11, o, k, back(3))
  BY DEF Target, Sole
<1>9. Sole(16, 13, o, k, back(5))
  BY DEF Target, Sole
<1>10. Sole(16, 15, o, k, back(15))
  BY DEF Target, Sole
<1> HIDE DEF back
<1> QED
  BY <1>1, <1>2, <1>3, <1>4, <1>5, <1>6, <1>7, <1>8, <1>9, <1>10

\* Every lane is the image of exactly one lane.
LEMMA OddStridePermutes ==
  ASSUME NEW s \in Lane, s % 2 = 1, NEW o \in Lane, NEW k \in Lane
  PROVE  \E l \in Lane : Sole(2^Bits, s, o, k, l)
<1>1. CASE 2^Bits = 16
  <2>1. Lane = 0 .. 15
    BY <1>1, Widths, SMTT(30)
  <2>2. s \in 0 .. 15 /\ o \in 0 .. 15 /\ k \in 0 .. 15
    BY <2>1
  <2>3. \E l \in 0 .. 15 : Sole(16, s, o, k, l)
    BY <2>2, OddStrideOf16
  <2> QED
    BY <2>1, <2>3, <1>1, Zenon
<1>2. CASE 2^Bits = 8
  <2> DEFINE l == (s * (k + 8 - o)) % 8
  <2>1. Lane = 0 .. 7
    BY <1>2, Widths
  <2>2. Sole(8, s, o, k, l)
    BY <2>1 DEF Target, Sole
  <2>3. l \in 0 .. 7
    <3>1. s * (k + 8 - o) \in Int
      BY <2>1
    <3> QED
      BY <3>1
  <2> HIDE DEF l
  <2> QED
    BY <2>1, <2>2, <2>3, <1>2
<1>3. CASE 2^Bits = 4
  <2> DEFINE l == (s * (k + 4 - o)) % 4
  <2>1. Lane = 0 .. 3
    BY <1>3, Widths
  <2>2. Sole(4, s, o, k, l)
    BY <2>1 DEF Target, Sole
  <2>3. l \in 0 .. 3
    <3>1. s * (k + 4 - o) \in Int
      BY <2>1
    <3> QED
      BY <3>1
  <2> HIDE DEF l
  <2> QED
    BY <2>1, <2>2, <2>3, <1>3
<1>4. CASE 2^Bits = 2
  <2> DEFINE l == (s * (k + 2 - o)) % 2
  <2>1. Lane = 0 .. 1
    BY <1>4, Widths
  <2>2. Sole(2, s, o, k, l)
    BY <2>1 DEF Target, Sole
  <2>3. l \in 0 .. 1
    <3>1. s * (k + 2 - o) \in Int
      BY <2>1
    <3> QED
      BY <3>1
  <2> HIDE DEF l
  <2> QED
    BY <2>1, <2>2, <2>3, <1>4
<1> QED
  BY <1>1, <1>2, <1>3, <1>4, Widths

-----------------------------------------------------------------------------
(* Vectors: sets of cells of the sign table. *)

VectorOf(D) == {Idx(c[1], c[2]) : c \in D}
Vectors == SUBSET VectorOf(Lane \X Lane)

\* A cell has one index.
LEMMA IdxApart ==
  ASSUME NEW x \in Lane, NEW y \in Lane, NEW i \in Lane, NEW j \in Lane, Idx(x, y) = Idx(i, j)
  PROVE  x = i /\ y = j
<1> DEFINE w == 2^Bits
<1>1. w \in {2, 4, 8, 16} /\ Lane = 0 .. w - 1
  BY Widths
<1>2. x * w + y = i * w + j
  BY DEF Idx
<1> HIDE DEF w
<1>3. CASE w = 2
  BY <1>1, <1>2, <1>3
<1>4. CASE w = 4
  BY <1>1, <1>2, <1>4
<1>5. CASE w = 8
  BY <1>1, <1>2, <1>5
<1>6. CASE w = 16
  BY <1>1, <1>2, <1>6
<1> QED BY <1>1, <1>3, <1>4, <1>5, <1>6

LEMMA InVector ==
  ASSUME NEW D \in SUBSET (Lane \X Lane), NEW x \in Lane, NEW y \in Lane
  PROVE  Idx(x, y) \in VectorOf(D) <=> <<x, y>> \in D
<1>1. ASSUME <<x, y>> \in D PROVE Idx(x, y) \in VectorOf(D)
  BY <1>1 DEF VectorOf
<1>2. ASSUME Idx(x, y) \in VectorOf(D) PROVE <<x, y>> \in D
  <2>1. PICK c \in D : Idx(x, y) = Idx(c[1], c[2])
    BY <1>2 DEF VectorOf
  <2>2. c[1] \in Lane /\ c[2] \in Lane /\ c = <<c[1], c[2]>>
    OBVIOUS
  <2>3. x = c[1] /\ y = c[2]
    BY <2>1, <2>2, IdxApart
  <2> QED BY <2>2, <2>3
<1> QED BY <1>1, <1>2

LEMMA VectorOfIn ==
  ASSUME NEW D \in SUBSET (Lane \X Lane)
  PROVE  VectorOf(D) \in Vectors
BY DEF Vectors, VectorOf

\* Vectors with the same cells are the same.
LEMMA SameVector ==
  ASSUME NEW u \in Vectors, NEW v \in Vectors,
         \A x, y \in Lane : Idx(x, y) \in u <=> Idx(x, y) \in v
  PROVE  u = v
<1>1. \A n \in VectorOf(Lane \X Lane) : \E x, y \in Lane : n = Idx(x, y)
  <2> SUFFICES ASSUME NEW n \in VectorOf(Lane \X Lane) PROVE \E x, y \in Lane : n = Idx(x, y)
    OBVIOUS
  <2>1. PICK c \in Lane \X Lane : n = Idx(c[1], c[2])
    BY DEF VectorOf
  <2> QED BY <2>1
<1>2. u \subseteq VectorOf(Lane \X Lane) /\ v \subseteq VectorOf(Lane \X Lane)
  BY DEF Vectors
<1>3. \A n \in VectorOf(Lane \X Lane) : n \in u <=> n \in v
  BY <1>1
<1> QED BY <1>2, <1>3

LEMMA DifferenceIsVector ==
  ASSUME NEW u \in Vectors, NEW v \in Vectors
  PROVE  SymDiff(u, v) \in Vectors
BY DEF Vectors, SymDiff

\* The form of a code, as a vector.
Form(code) == VectorOf({c \in Lane \X Lane : Bilinear(code, c[1], c[2])})

LEMMA FormAt ==
  ASSUME NEW code
  PROVE  /\ Form(code) \in Vectors
         /\ \A x, y \in Lane : Idx(x, y) \in Form(code) <=> Bilinear(code, x, y)
<1> DEFINE D == {c \in Lane \X Lane : Bilinear(code, c[1], c[2])}
<1>1. D \in SUBSET (Lane \X Lane) /\ \A x, y \in Lane : <<x, y>> \in D <=> Bilinear(code, x, y)
  OBVIOUS
<1> HIDE DEF D
<1>2. VectorOf(D) \in Vectors /\ \A x, y \in Lane : Idx(x, y) \in VectorOf(D) <=> <<x, y>> \in D
  BY <1>1, InVector, VectorOfIn
<1> QED BY <1>1, <1>2 DEF Form, D

CoboundarySign(f, i, j) == ((i \in f) # (j \in f)) # (IndexXor(i, j) \in f)

LEMMA CoboundaryAt ==
  ASSUME NEW f
  PROVE  /\ CoboundaryOf(f) \in Vectors
         /\ \A x, y \in Lane : Idx(x, y) \in CoboundaryOf(f) <=> CoboundarySign(f, x, y)
<1> DEFINE D == {c \in Lane \X Lane : CoboundarySign(f, c[1], c[2])}
<1>1. D \in SUBSET (Lane \X Lane)
  OBVIOUS
<1>2. ASSUME NEW x \in Lane, NEW y \in Lane
      PROVE <<x, y>> \in D <=> CoboundarySign(f, x, y)
  <2>1. <<x, y>> \in Lane \X Lane /\ <<x, y>>[1] = x /\ <<x, y>>[2] = y
    OBVIOUS
  <2> QED BY <2>1, Zenon
<1>3. CoboundaryOf(f) = VectorOf(D)
  BY DEF CoboundaryOf, Vector, VectorOf, CoboundarySign
<1> HIDE DEF D
<1>4. VectorOf(D) \in Vectors /\ \A x, y \in Lane : Idx(x, y) \in VectorOf(D) <=> <<x, y>> \in D
  BY <1>1, InVector, VectorOfIn
<1> QED BY <1>2, <1>3, <1>4

LEMMA UnitAt ==
  ASSUME NEW p, NEW q
  PROVE  /\ BilinearUnit(p, q) \in Vectors
         /\ \A x, y \in Lane :
              Idx(x, y) \in BilinearUnit(p, q) <=> (Bit(x, p) = 1 /\ Bit(y, q) = 1)
<1> DEFINE D == {c \in Lane \X Lane : Bit(c[1], p) = 1 /\ Bit(c[2], q) = 1}
<1>1. D \in SUBSET (Lane \X Lane)
  OBVIOUS
<1>2. ASSUME NEW x \in Lane, NEW y \in Lane
      PROVE <<x, y>> \in D <=> (Bit(x, p) = 1 /\ Bit(y, q) = 1)
  <2>1. <<x, y>> \in Lane \X Lane /\ <<x, y>>[1] = x /\ <<x, y>>[2] = y
    OBVIOUS
  <2> QED BY <2>1, Zenon
<1>3. BilinearUnit(p, q) = VectorOf(D)
  BY DEF BilinearUnit, Vector, VectorOf
<1> HIDE DEF D
<1>4. VectorOf(D) \in Vectors /\ \A x, y \in Lane : Idx(x, y) \in VectorOf(D) <=> <<x, y>> \in D
  BY <1>1, InVector, VectorOfIn
<1> QED BY <1>2, <1>3, <1>4

ChangeSign(m, exchange, i, j) ==
  (IF exchange THEN Tau[Image[m][j]][Image[m][i]] ELSE Tau[Image[m][i]][Image[m][j]]) # Tau[i][j]

LEMMA ChangeAt ==
  ASSUME NEW m, NEW exchange
  PROVE  /\ Change(m, exchange) \in Vectors
         /\ \A x, y \in Lane : Idx(x, y) \in Change(m, exchange) <=> ChangeSign(m, exchange, x, y)
<1> DEFINE D == {c \in Lane \X Lane : ChangeSign(m, exchange, c[1], c[2])}
<1>1. D \in SUBSET (Lane \X Lane)
  OBVIOUS
<1>2. ASSUME NEW x \in Lane, NEW y \in Lane
      PROVE <<x, y>> \in D <=> ChangeSign(m, exchange, x, y)
  <2>1. <<x, y>> \in Lane \X Lane /\ <<x, y>>[1] = x /\ <<x, y>>[2] = y
    OBVIOUS
  <2> QED BY <2>1, Zenon
<1>3. Change(m, exchange) = VectorOf(D)
  BY DEF Change, Vector, VectorOf, ChangeSign
<1> HIDE DEF D
<1>4. VectorOf(D) \in Vectors /\ \A x, y \in Lane : Idx(x, y) \in VectorOf(D) <=> <<x, y>> \in D
  BY <1>1, InVector, VectorOfIn
<1> QED BY <1>2, <1>3, <1>4

-----------------------------------------------------------------------------
(* The lanes of the unit vectors generate all lanes.                       *)

\* Every set of positions is the ones of a lane.
LEMMA LaneOfOnes ==
  ASSUME NEW S \in SUBSET Position
  PROVE  LaneOf(S) \in Lane /\ Ones(LaneOf(S)) = S
<1> DEFINE d(k) == IF k \in S THEN 1 ELSE 0
           x == d(0) + 2 * d(1) + 4 * d(2) + 8 * d(3)
<1>1. d(0) \in {0, 1} /\ d(1) \in {0, 1} /\ d(2) \in {0, 1} /\ d(3) \in {0, 1}
  OBVIOUS
<1>2. /\ x \in 0 .. 15
      /\ Bit(x, 0) = d(0) /\ Bit(x, 1) = d(1) /\ Bit(x, 2) = d(2) /\ Bit(x, 3) = d(3)
  <2> HIDE DEF d
  <2> QED BY <1>1, FourBits
<1>3. \A k \in Position : Bit(x, k) = 1 <=> k \in S
  <2> HIDE DEF x
  <2>1. Position \subseteq {0, 1, 2, 3}
    BY Widths
  <2> QED BY <1>2, <2>1
<1>4. Ones(x) = S
  <2> HIDE DEF x
  <2> QED BY <1>3 DEF Ones
<1>5. \A k \in 0 .. 3 : k >= Bits => d(k) = 0
  <2>1. \A k \in 0 .. 3 : k >= Bits => k \notin Position
    BY Widths DEF Position
  <2> QED BY <2>1
<1>6. x \in Lane
  <2> HIDE DEF d
  <2>1. CASE Bits = 1
    <3>1. Lane = 0 .. 1
      BY <2>1, Powers DEF Lane
    <3> QED BY <1>1, <1>5, <2>1, <3>1
  <2>2. CASE Bits = 2
    <3>1. Lane = 0 .. 3
      BY <2>2, Powers DEF Lane
    <3> QED BY <1>1, <1>5, <2>2, <3>1
  <2>3. CASE Bits = 3
    <3>1. Lane = 0 .. 7
      BY <2>3, Powers DEF Lane
    <3> QED BY <1>1, <1>5, <2>3, <3>1
  <2>4. CASE Bits = 4
    <3>1. Lane = 0 .. 15
      BY <2>4, Powers DEF Lane
    <3> QED BY <1>2, <3>1
  <2> QED BY <2>1, <2>2, <2>3, <2>4, Widths
<1> HIDE DEF x
<1> QED BY <1>4, <1>6 DEF LaneOf

LEMMA LaneOfItsOnes ==
  ASSUME NEW x \in Lane
  PROVE  LaneOf(Ones(x)) = x
<1>1. Ones(x) \in SUBSET Position
  BY DEF Ones
<1> QED BY <1>1, LaneOfOnes, SameOnes

Unit(k) == LaneOf({k})

LEMMA UnitOnes ==
  ASSUME NEW k \in Position
  PROVE  Unit(k) \in Lane /\ Ones(Unit(k)) = {k}
BY LaneOfOnes DEF Unit

\* A set of lanes that holds zero, the units and every exclusive or holds all lanes.
LEMMA UnitsGenerate ==
  ASSUME NEW T, 0 \in T, \A k \in Position : Unit(k) \in T,
         \A x, y \in Lane : x \in T /\ y \in T => IndexXor(x, y) \in T
  PROVE  Lane \subseteq T
<1>1. ASSUME NEW S \in SUBSET Position, NEW n \in Position, n \notin S, LaneOf(S) \in T
      PROVE  LaneOf(S \cup {n}) \in T
  <2> DEFINE x == LaneOf(S)  z == IndexXor(x, Unit(n))
  <2>1. x \in Lane /\ Ones(x) = S /\ Unit(n) \in Lane /\ Ones(Unit(n)) = {n}
    BY LaneOfOnes, UnitOnes
  <2>2. z \in Lane /\ Ones(z) = (S \ {n}) \cup ({n} \ S)
    BY <2>1, OnesOfXor
  <2>3. Ones(z) = S \cup {n}
    BY <1>1, <2>2
  <2>4. z = LaneOf(S \cup {n})
    BY <2>2, <2>3, LaneOfItsOnes
  <2>5. z \in T
    BY <1>1, <2>1
  <2> QED BY <2>4, <2>5
<1>2. ASSUME NEW x \in Lane PROVE x \in T
  <2> DEFINE low(n) == {k \in Ones(x) : k < n}
  <2>1. Ones(x) \subseteq Position /\ \A n \in 0 .. 4 : low(n) \in SUBSET Position
    BY DEF Ones
  <2>o. \A k \in Ones(x) : k \in 0 .. 3 /\ k \in Position
    BY <2>1, Widths
  <2>2. LaneOf(low(0)) \in T
    <3>1. low(0) = {}
      BY <2>o
    <3>2. LaneOf({}) = 0
      BY LaneOfItsOnes, OnesOfZero
    <3> QED BY <3>1, <3>2
  <2>3. ASSUME NEW n \in 0 .. 3, LaneOf(low(n)) \in T PROVE LaneOf(low(n + 1)) \in T
    <3>1. CASE n \in Ones(x)
      <4>a. \A k \in Ones(x) : k < n + 1 <=> k < n \/ k = n
        BY <2>o
      <4>b. ~(n < n)
        OBVIOUS
      <4>1. low(n + 1) = low(n) \cup {n} /\ n \notin low(n) /\ n \in Position
        BY <2>o, <3>1, <4>a, <4>b, Zenon
      <4> HIDE DEF low
      <4> QED BY <1>1, <2>1, <2>3, <4>1
    <3>2. CASE n \notin Ones(x)
      <4>1. low(n + 1) = low(n)
        BY <2>o, <3>2
      <4> QED BY <2>3, <4>1
    <3> QED BY <3>1, <3>2
  <2>4. low(4) = Ones(x)
    BY <2>o
  <2>5. LaneOf(low(4)) \in T
    <3> HIDE DEF low
    <3>1. LaneOf(low(0 + 1)) \in T
      BY <2>2, <2>3
    <3>2. LaneOf(low(1 + 1)) \in T
      BY <2>3, <3>1
    <3>3. LaneOf(low(2 + 1)) \in T
      BY <2>3, <3>2
    <3>4. LaneOf(low(3 + 1)) \in T
      BY <2>3, <3>3
    <3> QED BY <3>4
  <2> QED BY <2>4, <2>5, LaneOfItsOnes
<1> QED BY <1>2

-----------------------------------------------------------------------------
\* The form is additive, in the code and in both operands.
LEMMA FormAdds ==
  ASSUME NEW c \in Code, NEW d \in Code, NEW x \in Lane, NEW y \in Lane, NEW z \in Lane
  PROVE  /\ Bilinear(c, IndexXor(x, y), z) <=> ~(Bilinear(c, x, z) <=> Bilinear(c, y, z))
         /\ Bilinear(c, z, IndexXor(x, y)) <=> ~(Bilinear(c, z, x) <=> Bilinear(c, z, y))
         /\ Bilinear(SymDiff(c, d), x, y) <=> ~(Bilinear(c, x, y) <=> Bilinear(d, x, y))
<1>1. \A e, a, b : Bilinear(e, a, b) \in BOOLEAN
  BY BilinearIsBoolean
<1>2. /\ Bilinear(c, IndexXor(x, y), z) <=> (Bilinear(c, x, z) # Bilinear(c, y, z))
      /\ Bilinear(c, z, IndexXor(x, y)) <=> (Bilinear(c, z, x) # Bilinear(c, z, y))
  BY AdditiveLeft, AdditiveRight
<1>3. Bilinear(SymDiff(c, d), x, y) <=> (Bilinear(c, x, y) # Bilinear(d, x, y))
  BY AdditiveCode DEF SymDiff
<1> QED BY <1>1, <1>2, <1>3

-----------------------------------------------------------------------------
(* Bilinear vectors are the forms of codes.                                *)

\* A cell of the code is the form at two units.
LEMMA FormAtUnits ==
  ASSUME NEW code \in Code, NEW p \in Position, NEW q \in Position
  PROVE  Bilinear(code, Unit(p), Unit(q)) <=> <<p, q>> \in code
<1> DEFINE S == code \cap ({p} \X {q})
<1>1. Bilinear(code, Unit(p), Unit(q)) = Odd(S)
  BY UnitOnes DEF Bilinear
<1>2. ASSUME <<p, q>> \in code PROVE Odd(S)
  <2>1. S = {<<p, q>>}
    BY <1>2
  <2>2. Cardinality(S) = 1
    BY <2>1, FS_Singleton
  <2> QED BY <2>2 DEF Odd
<1>3. ASSUME <<p, q>> \notin code PROVE ~Odd(S)
  <2>1. S = {}
    BY <1>3
  <2> QED BY <2>1, OddOfNothing
<1> HIDE DEF S
<1> QED BY <1>1, <1>2, <1>3

\* The cells of a vector at the units.
CodeOfVector(v) == {c \in Position \X Position : Idx(Unit(c[1]), Unit(c[2])) \in v}

LEMMA BilinearIsForm ==
  ASSUME NEW v, IsBilinear(v)
  PROVE  /\ CodeOfVector(v) \in Code
         /\ \A x, y \in Lane : Idx(x, y) \in v <=> Bilinear(CodeOfVector(v), x, y)
<1> DEFINE code == CodeOfVector(v)
           at(x, y) == Idx(x, y) \in v
<1>1. code \in Code
  BY DEF CodeOfVector, Code
<1>2. \A x, y, z \in Lane : /\ at(IndexXor(x, y), z) <=> ~(at(x, z) <=> at(y, z))
                            /\ at(z, IndexXor(x, y)) <=> ~(at(z, x) <=> at(z, y))
  BY DEF IsBilinear
<1>3. \A x, y, z \in Lane : /\ IndexXor(x, y) \in Lane
                            /\ Bilinear(code, IndexXor(x, y), z) <=> ~(Bilinear(code, x, z) <=> Bilinear(code, y, z))
                            /\ Bilinear(code, z, IndexXor(x, y)) <=> ~(Bilinear(code, z, x) <=> Bilinear(code, z, y))
  BY <1>1, FormAdds, OnesOfXor
<1>4. 0 \in Lane /\ IndexXor(0, 0) = 0
  <2>1. 0 \in Lane /\ IndexXor(0, 0) \in Lane /\ Ones(IndexXor(0, 0)) = (Ones(0) \ Ones(0)) \cup (Ones(0) \ Ones(0))
    BY OnesOfZero, OnesOfXor
  <2>2. Ones(IndexXor(0, 0)) = Ones(0)
    BY <2>1, OnesOfZero
  <2> QED BY <2>1, <2>2, SameOnes
<1>5. \A z \in Lane : ~at(0, z) /\ ~at(z, 0)
  <2> HIDE DEF at
  <2> SUFFICES ASSUME NEW z \in Lane PROVE ~at(0, z) /\ ~at(z, 0)
    OBVIOUS
  <2>1. at(IndexXor(0, 0), z) <=> ~(at(0, z) <=> at(0, z))
    BY <1>2, <1>4
  <2>2. at(z, IndexXor(0, 0)) <=> ~(at(z, 0) <=> at(z, 0))
    BY <1>2, <1>4
  <2> QED BY <1>4, <2>1, <2>2
<1>6. \A z \in Lane : ~Bilinear(code, 0, z) /\ ~Bilinear(code, z, 0)
  BY <1>1, ZeroOperand
<1>7. \A p, q \in Position : at(Unit(p), Unit(q)) <=> Bilinear(code, Unit(p), Unit(q))
  <2> SUFFICES ASSUME NEW p \in Position, NEW q \in Position
               PROVE  at(Unit(p), Unit(q)) <=> Bilinear(code, Unit(p), Unit(q))
    OBVIOUS
  <2>1. <<p, q>> \in code <=> at(Unit(p), Unit(q))
    BY DEF CodeOfVector
  <2>2. Bilinear(code, Unit(p), Unit(q)) <=> <<p, q>> \in code
    BY <1>1, FormAtUnits
  <2> QED BY <2>1, <2>2
<1>8. \A k \in Position : Unit(k) \in Lane
  BY UnitOnes
<1> HIDE DEF at, code
<1>9. ASSUME NEW q \in Position, NEW x \in Lane
      PROVE  at(x, Unit(q)) <=> Bilinear(code, x, Unit(q))
  <2> DEFINE T == {z \in Lane : at(z, Unit(q)) <=> Bilinear(code, z, Unit(q))}
  <2>1. 0 \in T
    BY <1>4, <1>5, <1>6, <1>8
  <2>2. \A k \in Position : Unit(k) \in T
    BY <1>7, <1>8
  <2>3. \A a, b \in Lane : a \in T /\ b \in T => IndexXor(a, b) \in T
    BY <1>2, <1>3, <1>8, ZenonT(60)
  <2>4. Lane \subseteq T
    <3> HIDE DEF T
    <3> QED BY <2>1, <2>2, <2>3, UnitsGenerate
  <2> QED BY <2>4
<1>10. ASSUME NEW x \in Lane, NEW y \in Lane PROVE at(x, y) <=> Bilinear(code, x, y)
  <2> DEFINE T == {z \in Lane : at(x, z) <=> Bilinear(code, x, z)}
  <2>1. 0 \in T
    BY <1>4, <1>5, <1>6
  <2>2. \A k \in Position : Unit(k) \in T
    BY <1>8, <1>9
  <2>3. \A a, b \in Lane : a \in T /\ b \in T => IndexXor(a, b) \in T
    BY <1>2, <1>3, ZenonT(60)
  <2>4. Lane \subseteq T
    <3> HIDE DEF T
    <3> QED BY <2>1, <2>2, <2>3, UnitsGenerate
  <2> QED BY <2>4
<1> QED BY <1>1, <1>10 DEF at, code

LEMMA FormIsBilinear ==
  ASSUME NEW code \in Code
  PROVE  IsBilinear(Form(code))
<1> SUFFICES ASSUME NEW x \in Lane, NEW y \in Lane, NEW z \in Lane
             PROVE  /\ (Idx(IndexXor(x, y), z) \in Form(code)) = ((Idx(x, z) \in Form(code)) # (Idx(y, z) \in Form(code)))
                    /\ (Idx(z, IndexXor(x, y)) \in Form(code)) = ((Idx(z, x) \in Form(code)) # (Idx(z, y) \in Form(code)))
  BY DEF IsBilinear
<1>1. IndexXor(x, y) \in Lane
  BY OnesOfXor
<1>2. /\ Bilinear(code, IndexXor(x, y), z) <=> ~(Bilinear(code, x, z) <=> Bilinear(code, y, z))
      /\ Bilinear(code, z, IndexXor(x, y)) <=> ~(Bilinear(code, z, x) <=> Bilinear(code, z, y))
  BY FormAdds
<1>3. \A i, j \in Lane : Idx(i, j) \in Form(code) <=> Bilinear(code, i, j)
  BY FormAt
<1> QED BY <1>1, <1>2, <1>3

LEMMA BilinearVector ==
  ASSUME NEW v \in Vectors, IsBilinear(v)
  PROVE  CodeOfVector(v) \in Code /\ v = Form(CodeOfVector(v))
BY BilinearIsForm, FormAt, SameVector

\* Forms add as their codes do.
LEMMA FormsAdd ==
  ASSUME NEW c \in Code, NEW d \in Code
  PROVE  SymDiff(c, d) \in Code /\ Form(SymDiff(c, d)) = SymDiff(Form(c), Form(d))
<1>1. SymDiff(c, d) \in Code
  BY DEF SymDiff, Code
<1>2. \A x, y \in Lane : Bilinear(SymDiff(c, d), x, y) <=> ~(Bilinear(c, x, y) <=> Bilinear(d, x, y))
  BY FormAdds
<1>3. \A x, y \in Lane : Idx(x, y) \in Form(SymDiff(c, d)) <=> Idx(x, y) \in SymDiff(Form(c), Form(d))
  BY <1>2, FormAt DEF SymDiff
<1>4. Form(SymDiff(c, d)) \in Vectors /\ SymDiff(Form(c), Form(d)) \in Vectors
  BY FormAt, DifferenceIsVector
<1> QED BY <1>1, <1>3, <1>4, SameVector

LEMMA CoboundariesAdd ==
  ASSUME NEW f, NEW g
  PROVE  CoboundaryOf(SymDiff(f, g)) = SymDiff(CoboundaryOf(f), CoboundaryOf(g))
<1>1. \A x, y \in Lane : CoboundarySign(SymDiff(f, g), x, y)
                           <=> ~(CoboundarySign(f, x, y) <=> CoboundarySign(g, x, y))
  BY DEF CoboundarySign, SymDiff
<1>2. \A x, y \in Lane : Idx(x, y) \in CoboundaryOf(SymDiff(f, g))
                           <=> Idx(x, y) \in SymDiff(CoboundaryOf(f), CoboundaryOf(g))
  BY <1>1, CoboundaryAt DEF SymDiff
<1>3. /\ CoboundaryOf(SymDiff(f, g)) \in Vectors
      /\ SymDiff(CoboundaryOf(f), CoboundaryOf(g)) \in Vectors
  BY CoboundaryAt, DifferenceIsVector
<1> QED BY <1>2, <1>3, SameVector

-----------------------------------------------------------------------------
(* Quadratic functions have bilinear coboundaries, and there is one with   *)
(* any given values on the lanes of one or two ones.                       *)

LEMMA DiagonalAt ==
  ASSUME NEW code, NEW x \in Lane
  PROVE  x \in Diagonal(code) <=> Bilinear(code, x, x)
BY DEF Diagonal

LEMMA BilinearsAdd ==
  ASSUME NEW u, NEW v, IsBilinear(u), IsBilinear(v)
  PROVE  IsBilinear(SymDiff(u, v))
<1>1. \A n : n \in SymDiff(u, v) <=> ~(n \in u <=> n \in v)
  BY DEF SymDiff
<1>2. ASSUME NEW w, IsBilinear(w), NEW x \in Lane, NEW y \in Lane, NEW z \in Lane
      PROVE  /\ Idx(IndexXor(x, y), z) \in w <=> ~(Idx(x, z) \in w <=> Idx(y, z) \in w)
             /\ Idx(z, IndexXor(x, y)) \in w <=> ~(Idx(z, x) \in w <=> Idx(z, y) \in w)
  BY <1>2 DEF IsBilinear
<1> SUFFICES ASSUME NEW x \in Lane, NEW y \in Lane, NEW z \in Lane
             PROVE  LET w == SymDiff(u, v)
                    IN  /\ (Idx(IndexXor(x, y), z) \in w) = ((Idx(x, z) \in w) # (Idx(y, z) \in w))
                        /\ (Idx(z, IndexXor(x, y)) \in w) = ((Idx(z, x) \in w) # (Idx(z, y) \in w))
  BY DEF IsBilinear
<1> QED BY <1>1, <1>2

LEMMA DiagonalCoboundary ==
  ASSUME NEW code \in Code
  PROVE  IsBilinear(CoboundaryOf(Diagonal(code)))
<1> DEFINE B(x, y) == Bilinear(code, x, y)
           v == CoboundaryOf(Diagonal(code))
<1>1. \A x, y, z \in Lane : /\ IndexXor(x, y) \in Lane
                            /\ B(IndexXor(x, y), z) <=> ~(B(x, z) <=> B(y, z))
                            /\ B(z, IndexXor(x, y)) <=> ~(B(z, x) <=> B(z, y))
  BY FormAdds, OnesOfXor
<1>2. \A x, y \in Lane : Idx(x, y) \in v <=> CoboundarySign(Diagonal(code), x, y)
  BY CoboundaryAt
<1>3. ASSUME NEW x \in Lane, NEW y \in Lane
      PROVE  Idx(x, y) \in v <=> ~(B(x, y) <=> B(y, x))
  <2>1. CoboundarySign(Diagonal(code), x, y)
          <=> ~(~(B(x, x) <=> B(y, y)) <=> B(IndexXor(x, y), IndexXor(x, y)))
    BY <1>1, DiagonalAt DEF CoboundarySign
  <2>2. /\ B(IndexXor(x, y), IndexXor(x, y)) <=> ~(B(x, IndexXor(x, y)) <=> B(y, IndexXor(x, y)))
        /\ B(x, IndexXor(x, y)) <=> ~(B(x, x) <=> B(x, y))
        /\ B(y, IndexXor(x, y)) <=> ~(B(y, x) <=> B(y, y))
    BY <1>1
  <2>3. CoboundarySign(Diagonal(code), x, y) <=> ~(B(x, y) <=> B(y, x))
    <3> HIDE DEF B
    <3> QED BY <2>1, <2>2
  <2> HIDE DEF B, v
  <2> QED BY <1>2, <2>3
<1> HIDE DEF B, v
<1>4. \A x, y, z \in Lane :
        /\ Idx(IndexXor(x, y), z) \in v <=> ~(Idx(x, z) \in v <=> Idx(y, z) \in v)
        /\ Idx(z, IndexXor(x, y)) \in v <=> ~(Idx(z, x) \in v <=> Idx(z, y) \in v)
  BY <1>1, <1>3
<1> QED BY <1>4 DEF IsBilinear, v

TwoOnes(p, q) == LaneOf({p, q})

LEMMA PairIsXor ==
  ASSUME NEW p \in Position, NEW q \in Position, p # q
  PROVE  TwoOnes(p, q) \in Lane /\ TwoOnes(p, q) = IndexXor(Unit(p), Unit(q))
<1>1. Unit(p) \in Lane /\ Unit(q) \in Lane /\ Ones(Unit(p)) = {p} /\ Ones(Unit(q)) = {q}
  BY UnitOnes
<1>2. /\ IndexXor(Unit(p), Unit(q)) \in Lane
      /\ Ones(IndexXor(Unit(p), Unit(q))) = ({p} \ {q}) \cup ({q} \ {p})
  BY <1>1, OnesOfXor
<1>3. Ones(IndexXor(Unit(p), Unit(q))) = {p, q}
  BY <1>2
<1>4. TwoOnes(p, q) \in Lane /\ Ones(TwoOnes(p, q)) = {p, q}
  BY LaneOfOnes DEF TwoOnes
<1> QED BY <1>2, <1>3, <1>4, SameOnes

\* A lane of fewer than three ones, other than zero, is a unit or a pair.
LEMMA LightLane ==
  ASSUME NEW x \in Lane, x # 0, ~(Cardinality(Ones(x)) >= 3)
  PROVE  \/ \E p \in Position : x = Unit(p)
         \/ \E p, q \in Position : p < q /\ x = TwoOnes(p, q)
<1>1. Ones(x) \subseteq Position /\ Position \subseteq 0 .. 3
  BY Widths DEF Ones
<1>2. IsFiniteSet(Position)
  BY Widths, FS_Interval DEF Position
<1>3. IsFiniteSet(Ones(x)) /\ Cardinality(Ones(x)) \in Nat
  BY <1>1, <1>2, FS_Subset, FS_CardinalityType
<1>4. Ones(x) # {}
  BY OnesOfZero, SameOnes
<1>5. PICK p : p \in Ones(x)
  BY <1>4
<1>6. IsFiniteSet(Ones(x) \ {p}) /\ Cardinality(Ones(x) \ {p}) = Cardinality(Ones(x)) - 1
  BY <1>3, <1>5, FS_RemoveElement
<1>7. x = LaneOf(Ones(x))
  BY LaneOfItsOnes
<1>8. CASE Ones(x) \ {p} = {}
  <2>1. Ones(x) = {p}
    BY <1>5, <1>8
  <2> QED BY <1>1, <1>5, <1>7, <2>1 DEF Unit
<1>9. CASE Ones(x) \ {p} # {}
  <2>1. PICK q : q \in Ones(x) \ {p}
    BY <1>9
  <2> DEFINE rest == (Ones(x) \ {p}) \ {q}
  <2>2. IsFiniteSet(rest) /\ Cardinality(rest) = Cardinality(Ones(x)) - 2 /\ Cardinality(rest) \in Nat
    <3>1. IsFiniteSet(rest) /\ Cardinality(rest) = Cardinality(Ones(x) \ {p}) - 1
      BY <1>6, <2>1, FS_RemoveElement
    <3>2. Cardinality(rest) \in Nat
      BY <3>1, FS_CardinalityType
    <3> HIDE DEF rest
    <3> QED BY <1>3, <1>6, <3>1, <3>2
  <2>3. Cardinality(rest) = 0
    <3> HIDE DEF rest
    <3> QED BY <1>3, <2>2
  <2>4. rest = {}
    BY <2>2, <2>3, FS_EmptySet
  <2>5. Ones(x) = {p, q} /\ Ones(x) = {q, p}
    BY <1>5, <2>1, <2>4
  <2>6. p \in Position /\ q \in Position /\ (p < q \/ q < p)
    <3>1. p \in 0 .. 3 /\ q \in 0 .. 3 /\ p # q
      BY <1>1, <1>5, <2>1, Zenon
    <3> QED BY <1>1, <1>5, <2>1, <3>1
  <2> QED BY <1>7, <2>5, <2>6 DEF TwoOnes
<1> QED BY <1>8, <1>9

\* The quadratic function with the values of f on the units and the pairs.
Interpolated(f) ==
  {c \in Position \X Position :
     \/ c[1] = c[2] /\ Unit(c[1]) \in f
     \/ c[1] < c[2] /\ ~(TwoOnes(c[1], c[2]) \in f <=> ~(Unit(c[1]) \in f <=> Unit(c[2]) \in f))}

LEMMA LightValues ==
  ASSUME NEW f, NEW x \in Lane, x # 0, ~(Cardinality(Ones(x)) >= 3)
  PROVE  x \in Diagonal(Interpolated(f)) <=> x \in f
<1> DEFINE code == Interpolated(f)
           B(i, j) == Bilinear(code, i, j)
<1>1. code \in Code
  BY DEF Interpolated, Code
<1>2. \A p, q \in Position : B(Unit(p), Unit(q)) <=> <<p, q>> \in code
  BY <1>1, FormAtUnits
<1>3. /\ \A p \in Position : <<p, p>> \in code <=> Unit(p) \in f
      /\ \A p, q \in Position : p < q =>
           /\ <<q, p>> \notin code
           /\ <<p, q>> \in code <=> ~(TwoOnes(p, q) \in f <=> ~(Unit(p) \in f <=> Unit(q) \in f))
  <2>1. \A p \in Position : p \in Int
    BY Widths
  <2>2. \A p, q \in Position : <<p, q>> \in Position \X Position /\ <<p, q>>[1] = p /\ <<p, q>>[2] = q
    OBVIOUS
  <2>3. \A p, q \in Position :
          <<p, q>> \in code <=>
            \/ p = q /\ Unit(p) \in f
            \/ p < q /\ ~(TwoOnes(p, q) \in f <=> ~(Unit(p) \in f <=> Unit(q) \in f))
    BY <2>2 DEF Interpolated
  <2> HIDE DEF code
  <2> QED BY <2>1, <2>3
<1>4. x \in Diagonal(code) <=> B(x, x)
  BY DiagonalAt
<1>5. CASE \E p \in Position : x = Unit(p)
  <2>1. PICK p \in Position : x = Unit(p)
    BY <1>5
  <2> HIDE DEF code, B
  <2>2. B(Unit(p), Unit(p)) <=> Unit(p) \in f
    BY <1>2, <1>3
  <2> QED BY <1>4, <2>1, <2>2 DEF code
<1>6. CASE \E p, q \in Position : p < q /\ x = TwoOnes(p, q)
  <2>1. PICK p \in Position, q \in Position : p < q /\ x = TwoOnes(p, q)
    BY <1>6
  <2>2. p # q
    BY <2>1, Widths
  <2>3. x = IndexXor(Unit(p), Unit(q)) /\ Unit(p) \in Lane /\ Unit(q) \in Lane
    BY <2>1, <2>2, PairIsXor, UnitOnes
  <2> DEFINE a == Unit(p)  b == Unit(q)
  <2>4. /\ B(IndexXor(a, b), x) <=> ~(B(a, x) <=> B(b, x))
        /\ B(a, IndexXor(a, b)) <=> ~(B(a, a) <=> B(a, b))
        /\ B(b, IndexXor(a, b)) <=> ~(B(b, a) <=> B(b, b))
    BY <1>1, <2>3, FormAdds
  <2>5. B(x, x) <=> ~(~(B(a, a) <=> B(a, b)) <=> ~(B(b, a) <=> B(b, b)))
    <3> HIDE DEF a, b, B
    <3> QED BY <2>3, <2>4 DEF a, b
  <2>6. /\ B(a, a) <=> Unit(p) \in f
        /\ B(b, b) <=> Unit(q) \in f
        /\ ~B(b, a)
        /\ B(a, b) <=> ~(TwoOnes(p, q) \in f <=> ~(Unit(p) \in f <=> Unit(q) \in f))
    <3> HIDE DEF code, B
    <3> QED BY <1>2, <1>3, <2>1
  <2>7. B(x, x) <=> TwoOnes(p, q) \in f
    <3> HIDE DEF a, b, B
    <3> QED BY <2>5, <2>6
  <2> HIDE DEF code, B
  <2> QED BY <1>4, <2>1, <2>7 DEF code
<1> QED BY <1>5, <1>6, LightLane

-----------------------------------------------------------------------------
(* A gauge is a form up to a coboundary.                                   *)

GaugeVector(code, f) == SymDiff(Form(code), CoboundaryOf(f))

LEMMA GaugeIsSpanned ==
  ASSUME NEW v \in Vectors, IsGauge(v)
  PROVE  \E code \in Code, f \in SUBSET (Lane \ {0}) : v = GaugeVector(code, f)
<1>1. PICK f \in SUBSET {x \in Lane : Cardinality(Ones(x)) >= 3} :
        IsBilinear(SymDiff(v, CoboundaryOf(f)))
  BY DEF IsGauge
<1>2. SymDiff(v, CoboundaryOf(f)) \in Vectors
  BY CoboundaryAt, DifferenceIsVector
<1>3. PICK code \in Code : SymDiff(v, CoboundaryOf(f)) = Form(code)
  BY <1>1, <1>2, BilinearVector
<1>4. v = SymDiff(Form(code), CoboundaryOf(f))
  BY <1>3, Zenon DEF SymDiff
<1>5. 0 \notin f
  <2>1. Cardinality(Ones(0)) = 0
    BY OnesOfZero, FS_EmptySet
  <2> QED BY <2>1
<1> QED BY <1>4, <1>5 DEF GaugeVector

LEMMA SpannedIsGauge ==
  ASSUME NEW code \in Code, NEW f \in SUBSET (Lane \ {0})
  PROVE  /\ GaugeVector(code, f) \in Vectors
         /\ IsGauge(GaugeVector(code, f))
<1> DEFINE q == Interpolated(f)
           g == Diagonal(q)
           h == SymDiff(f, g)
<1>1. q \in Code
  BY DEF Interpolated, Code
<1>2. g \subseteq Lane /\ 0 \notin g
  BY <1>1, ZeroOperand, OnesOfZero DEF Diagonal
<1>3. \A x \in Lane : x # 0 /\ ~(Cardinality(Ones(x)) >= 3) => (x \in g <=> x \in f)
  BY LightValues
<1> HIDE DEF q, g
<1>4. h \in SUBSET {x \in Lane : Cardinality(Ones(x)) >= 3}
  BY <1>2, <1>3 DEF SymDiff
<1>5. CoboundaryOf(h) = SymDiff(CoboundaryOf(f), CoboundaryOf(g))
  BY CoboundariesAdd
<1>6. SymDiff(GaugeVector(code, f), CoboundaryOf(h)) = SymDiff(Form(code), CoboundaryOf(g))
  BY <1>5, Zenon DEF GaugeVector, SymDiff
<1>7. IsBilinear(SymDiff(Form(code), CoboundaryOf(g)))
  BY <1>1, FormIsBilinear, DiagonalCoboundary, BilinearsAdd DEF g
<1>8. GaugeVector(code, f) \in Vectors
  BY FormAt, CoboundaryAt, DifferenceIsVector DEF GaugeVector
<1> QED BY <1>4, <1>6, <1>7, <1>8 DEF IsGauge

\* On its diagonal a gauge is a quadratic function.
LEMMA GaugeDiagonal ==
  ASSUME NEW v \in Vectors, IsGauge(v)
  PROVE  \E code \in Code : {x \in Lane : Idx(x, x) \in v} = Diagonal(code)
<1>1. PICK code \in Code, f \in SUBSET (Lane \ {0}) : v = GaugeVector(code, f)
  BY GaugeIsSpanned
<1>2. ASSUME NEW x \in Lane PROVE Idx(x, x) \in v <=> x \in Diagonal(code)
  <2>1. Idx(x, x) \in Form(code) <=> Bilinear(code, x, x)
    BY FormAt
  <2>2. Idx(x, x) \in CoboundaryOf(f) <=> CoboundarySign(f, x, x)
    BY CoboundaryAt
  <2>3. IndexXor(x, x) = 0
    <3>1. IndexXor(x, x) \in Lane /\ Ones(IndexXor(x, x)) = (Ones(x) \ Ones(x)) \cup (Ones(x) \ Ones(x))
      BY OnesOfXor
    <3>2. Ones(IndexXor(x, x)) = Ones(0)
      BY <3>1, OnesOfZero
    <3> QED BY <3>1, <3>2, OnesOfZero, SameOnes
  <2>4. ~CoboundarySign(f, x, x)
    BY <2>3 DEF CoboundarySign
  <2> QED BY <1>1, <2>1, <2>2, <2>4, DiagonalAt DEF GaugeVector, SymDiff
<1>3. Diagonal(code) \subseteq Lane
  BY DEF Diagonal
<1> QED BY <1>2, <1>3

LEMMA DiagonalsAdd ==
  ASSUME NEW c \in Code, NEW d \in Code
  PROVE  SymDiff(c, d) \in Code /\ Diagonal(SymDiff(c, d)) = SymDiff(Diagonal(c), Diagonal(d))
<1>1. SymDiff(c, d) \in Code
  BY DEF SymDiff, Code
<1>2. \A x \in Lane : Bilinear(SymDiff(c, d), x, x) <=> ~(Bilinear(c, x, x) <=> Bilinear(d, x, x))
  BY FormAdds
<1> QED BY <1>1, <1>2 DEF Diagonal, SymDiff

-----------------------------------------------------------------------------
(* Matrices act linearly, and an invertible one permutes the lanes.        *)

LEMMA ApplyOnes ==
  ASSUME NEW m \in Matrix, NEW x \in Lane
  PROVE  /\ ApplyMatrix(m, x) \in Lane
         /\ Ones(ApplyMatrix(m, x)) = {i \in Position : Odd(Ones(Row(m, i)) \cap Ones(x))}
BY LaneOfOnes DEF ApplyMatrix

LEMMA PositionsAreFinite ==
  /\ IsFiniteSet(Position)
  /\ \A S \in SUBSET Position : IsFiniteSet(S)
<1>1. IsFiniteSet(Position)
  BY Widths, FS_Interval DEF Position
<1> QED BY <1>1, FS_Subset

LEMMA ApplyIsLinear ==
  ASSUME NEW m \in Matrix, NEW x \in Lane, NEW y \in Lane
  PROVE  ApplyMatrix(m, IndexXor(x, y)) = IndexXor(ApplyMatrix(m, x), ApplyMatrix(m, y))
<1> DEFINE a == ApplyMatrix(m, x)
           b == ApplyMatrix(m, y)
           z == IndexXor(x, y)
<1>1. /\ z \in Lane /\ Ones(z) = (Ones(x) \ Ones(y)) \cup (Ones(y) \ Ones(x))
      /\ a \in Lane /\ b \in Lane /\ ApplyMatrix(m, z) \in Lane
  BY OnesOfXor, ApplyOnes
<1>2. ASSUME NEW i \in Position
      PROVE  Odd(Ones(Row(m, i)) \cap Ones(z))
               <=> ~(Odd(Ones(Row(m, i)) \cap Ones(x)) <=> Odd(Ones(Row(m, i)) \cap Ones(y)))
  <2> DEFINE r == Ones(Row(m, i))
             S == r \cap Ones(x)
             T == r \cap Ones(y)
  <2>1. IsFiniteSet(S) /\ IsFiniteSet(T)
    BY PositionsAreFinite DEF Ones
  <2>2. r \cap Ones(z) = (S \ T) \cup (T \ S)
    BY <1>1
  <2>3. Odd((S \ T) \cup (T \ S)) <=> (Odd(S) # Odd(T))
    BY <2>1, OddOfDifference
  <2>4. Odd(S) \in BOOLEAN /\ Odd(T) \in BOOLEAN
    BY DEF Odd
  <2> HIDE DEF S, T
  <2> QED BY <2>2, <2>3, <2>4 DEF S, T
<1>3. Ones(ApplyMatrix(m, z)) = (Ones(a) \ Ones(b)) \cup (Ones(b) \ Ones(a))
  <2>1. /\ Ones(ApplyMatrix(m, z)) = {i \in Position : Odd(Ones(Row(m, i)) \cap Ones(z))}
        /\ Ones(a) = {i \in Position : Odd(Ones(Row(m, i)) \cap Ones(x))}
        /\ Ones(b) = {i \in Position : Odd(Ones(Row(m, i)) \cap Ones(y))}
    BY <1>1, ApplyOnes
  <2> HIDE DEF a, b, z
  <2> QED BY <1>2, <2>1
<1>4. IndexXor(a, b) \in Lane /\ Ones(IndexXor(a, b)) = (Ones(a) \ Ones(b)) \cup (Ones(b) \ Ones(a))
  BY <1>1, OnesOfXor
<1> QED BY <1>1, <1>3, <1>4, SameOnes

LEMMA LanesAreFinite == IsFiniteSet(Lane) /\ Cardinality(Lane) \in Nat
<1>1. IsFiniteSet(Lane)
  BY Widths, FS_Interval DEF Lane
<1> QED BY <1>1, FS_CardinalityType

LEMMA ImageOf ==
  ASSUME NEW m \in GeneralLinear
  PROVE  /\ m \in Matrix
         /\ \A x \in Lane : Image[m][x] = ApplyMatrix(m, x) /\ Image[m][x] \in Lane
         /\ \A z \in Lane : \E x \in Lane : Image[m][x] = z
<1>1. m \in Matrix /\ Invertible(m)
  BY DEF GeneralLinear
<1>2. \A x \in Lane : Image[m][x] = ApplyMatrix(m, x)
  BY DEF Image
<1>3. \A x \in Lane : ApplyMatrix(m, x) \in Lane
  BY <1>1, ApplyOnes
<1> DEFINE range == {ApplyMatrix(m, v) : v \in Lane}
<1>4. Cardinality(range) = Cardinality(Lane)
  BY <1>1 DEF Invertible
<1>5. range \subseteq Lane
  BY <1>3
<1>6. range = Lane
  <2> HIDE DEF range
  <2> QED BY <1>4, <1>5, LanesAreFinite, FS_Subset
<1> QED BY <1>1, <1>2, <1>3, <1>6

-----------------------------------------------------------------------------
(* A gauge map permutes the keys.                                          *)

LEMMA KeysAreFinite ==
  /\ IsFiniteSet(Key) /\ Cardinality(Key) \in Nat
  /\ \A key \in Key : key \subseteq Lane
  /\ Key = {Diagonal(code) : code \in Code}
<1>1. IsFiniteSet(Code)
  BY CellsAreFinite, FS_SUBSET DEF Code
<1>2. \A code \in Code : Diagonals[code] = Diagonal(code)
  BY DEF Diagonals
<1>3. Key = {Diagonal(code) : code \in Code}
  BY <1>2 DEF Key
<1>4. \A key \in Key : key \subseteq Lane
  BY <1>3 DEF Diagonal
<1>5. IsFiniteSet(SUBSET Lane)
  BY LanesAreFinite, FS_SUBSET
<1>6. IsFiniteSet(Key)
  BY <1>4, <1>5, FS_Subset
<1> QED BY <1>3, <1>4, <1>6, FS_CardinalityType

LEMMA MapParts ==
  ASSUME NEW map \in GaugeMaps
  PROVE  /\ map.matrix \in GeneralLinear /\ map.exchange \in BOOLEAN
         /\ IsGauge(Change(map.matrix, map.exchange))
BY DEF GaugeMaps

\* The key moved by a map, with its correction spelt out.
LEMMA MovedIs ==
  ASSUME NEW map \in GaugeMaps, NEW key
  PROVE  Moved(map, key) =
           SymDiff({x \in Lane : Image[map.matrix][x] \in key},
                   {x \in Lane : Idx(x, x) \in Change(map.matrix, map.exchange)})
<1>1. map.matrix \in GeneralLinear /\ map.exchange \in BOOLEAN
  BY MapParts
<1>2. Correction[map.matrix][map.exchange] = {x \in Lane : Idx(x, x) \in Change(map.matrix, map.exchange)}
  BY <1>1 DEF Correction
<1> DEFINE C == {x \in Lane : Idx(x, x) \in Change(map.matrix, map.exchange)}
<1>3. Moved(map, key) = {x \in Lane : (Image[map.matrix][x] \in key) # (x \in C)}
  BY <1>2 DEF Moved
<1> HIDE DEF C
<1>4. C \subseteq Lane
  BY DEF C
<1>5. {x \in Lane : (Image[map.matrix][x] \in key) # (x \in C)}
        = SymDiff({x \in Lane : Image[map.matrix][x] \in key}, C)
  BY <1>4 DEF SymDiff
<1> QED BY <1>3, <1>5 DEF C

LEMMA MovedIsKey ==
  ASSUME NEW map \in GaugeMaps, NEW key \in Key
  PROVE  Moved(map, key) \in Key
<1> DEFINE g == Image[map.matrix]
           C == {x \in Lane : Idx(x, x) \in Change(map.matrix, map.exchange)}
<1>1. PICK code \in Code : key = Diagonal(code)
  BY KeysAreFinite
<1>2. map.matrix \in GeneralLinear /\ map.matrix \in Matrix
  BY MapParts, ImageOf
<1>3. \A x \in Lane : g[x] = ApplyMatrix(map.matrix, x) /\ g[x] \in Lane
  BY <1>2, ImageOf
<1>4. \A x, y \in Lane : IndexXor(x, y) \in Lane /\ g[IndexXor(x, y)] = IndexXor(g[x], g[y])
  BY <1>2, <1>3, OnesOfXor, ApplyIsLinear
<1> DEFINE E == {c \in Lane \X Lane : Bilinear(code, g[c[1]], g[c[2]])}
           v == VectorOf(E)
<1>5. v \in Vectors /\ \A x, y \in Lane : Idx(x, y) \in v <=> Bilinear(code, g[x], g[y])
  <2>1. E \in SUBSET (Lane \X Lane) /\ \A x, y \in Lane : <<x, y>> \in E <=> Bilinear(code, g[x], g[y])
    OBVIOUS
  <2> HIDE DEF E, g
  <2> QED BY <2>1, InVector, VectorOfIn
<1> HIDE DEF g, E, v
<1>6. ASSUME NEW x \in Lane, NEW y \in Lane, NEW z \in Lane
      PROVE  /\ Idx(IndexXor(x, y), z) \in v <=> ~(Idx(x, z) \in v <=> Idx(y, z) \in v)
             /\ Idx(z, IndexXor(x, y)) \in v <=> ~(Idx(z, x) \in v <=> Idx(z, y) \in v)
  <2>1. /\ Bilinear(code, IndexXor(g[x], g[y]), g[z])
             <=> ~(Bilinear(code, g[x], g[z]) <=> Bilinear(code, g[y], g[z]))
        /\ Bilinear(code, g[z], IndexXor(g[x], g[y]))
             <=> ~(Bilinear(code, g[z], g[x]) <=> Bilinear(code, g[z], g[y]))
    BY <1>3, FormAdds
  <2>2. IndexXor(x, y) \in Lane /\ g[IndexXor(x, y)] = IndexXor(g[x], g[y])
    BY <1>4
  <2> QED BY <1>5, <2>1, <2>2
<1>7. IsBilinear(v)
  BY <1>6 DEF IsBilinear
<1>8. PICK d \in Code : v = Form(d)
  BY <1>5, <1>7, BilinearVector
<1>9. {x \in Lane : g[x] \in key} = Diagonal(d)
  <2>1. \A x \in Lane : g[x] \in key <=> Bilinear(code, g[x], g[x])
    BY <1>1, <1>3, DiagonalAt
  <2>2. \A x \in Lane : Idx(x, x) \in v <=> Bilinear(d, x, x)
    BY <1>8, FormAt
  <2>3. \A x \in Lane : g[x] \in key <=> Bilinear(d, x, x)
    BY <1>5, <2>1, <2>2
  <2> QED BY <2>3 DEF Diagonal
<1>10. PICK e \in Code : C = Diagonal(e)
  <2>1. IsGauge(Change(map.matrix, map.exchange)) /\ Change(map.matrix, map.exchange) \in Vectors
    BY MapParts, ChangeAt
  <2> QED BY <2>1, GaugeDiagonal
<1>11. Moved(map, key) = SymDiff(Diagonal(d), Diagonal(e))
  BY <1>9, <1>10, MovedIs DEF g
<1>12. SymDiff(d, e) \in Code /\ Diagonal(SymDiff(d, e)) = SymDiff(Diagonal(d), Diagonal(e))
  BY DiagonalsAdd
<1> QED BY <1>11, <1>12, KeysAreFinite

LEMMA MovedApart ==
  ASSUME NEW map \in GaugeMaps, NEW k \in Key, NEW l \in Key, Moved(map, k) = Moved(map, l)
  PROVE  k = l
<1> DEFINE g == Image[map.matrix]
           C == {x \in Lane : Idx(x, x) \in Change(map.matrix, map.exchange)}
<1>1. \A z \in Lane : \E x \in Lane : g[x] = z
  BY MapParts, ImageOf
<1>2. SymDiff({x \in Lane : g[x] \in k}, C) = SymDiff({x \in Lane : g[x] \in l}, C)
  BY MovedIs
<1> HIDE DEF g, C
<1>3. {x \in Lane : g[x] \in k} = {x \in Lane : g[x] \in l}
  BY <1>2, Zenon DEF SymDiff
<1>4. \A x \in Lane : g[x] \in k <=> g[x] \in l
  BY <1>3
<1>5. k \subseteq Lane /\ l \subseteq Lane
  BY KeysAreFinite
<1> QED BY <1>1, <1>4, <1>5

-----------------------------------------------------------------------------
(* Functions defined from the number before: there are some.               *)

\* From base, N steps lead somewhere.
Stepwise(V, N, base, step) ==
  \E r \in [0 .. N -> V] : r[0] = base /\ \A n \in 1 .. N : r[n] = step[n][r[n - 1]]

LEMMA Recursion ==
  ASSUME NEW V, NEW N \in Nat, NEW base \in V, NEW step \in [1 .. N -> [V -> V]]
  PROVE  Stepwise(V, N, base, step)
<1> SUFFICES \E r \in [0 .. N -> V] : r[0] = base /\ \A n \in 1 .. N : r[n] = step[n][r[n - 1]]
  BY DEF Stepwise
<1> DEFINE Upto(m, r) == r[0] = base /\ \A n \in 1 .. m : r[n] = step[n][r[n - 1]]
           S == {m \in Nat : m <= N => \E r \in [0 .. m -> V] : Upto(m, r)}
<1>1. 0 \in S
  <2> DEFINE r == [n \in 0 .. 0 |-> base]
  <2>1. r \in [0 .. 0 -> V] /\ Upto(0, r)
    OBVIOUS
  <2> QED BY <2>1
<1>2. ASSUME NEW m \in Nat, m + 1 <= N, NEW r \in [0 .. m -> V], Upto(m, r)
      PROVE  \E q \in [0 .. m + 1 -> V] : Upto(m + 1, q)
  <2> DEFINE q == [n \in 0 .. m + 1 |-> IF n = m + 1 THEN step[m + 1][r[m]] ELSE r[n]]
  <2>1. m + 1 \in 1 .. N /\ m \in 0 .. m /\ r[m] \in V
    BY <1>2
  <2>2. step[m + 1][r[m]] \in V
    BY <2>1
  <2>3. q \in [0 .. m + 1 -> V]
    <3>1. ASSUME NEW n \in 0 .. m + 1, n # m + 1 PROVE r[n] \in V
      BY <3>1
    <3> QED BY <2>2, <3>1
  <2>4. \A n \in 0 .. m : q[n] = r[n]
    OBVIOUS
  <2>5. q[m + 1] = step[m + 1][r[m]]
    OBVIOUS
  <2> HIDE DEF q
  <2>6. q[0] = base
    BY <1>2, <2>4
  <2>7. ASSUME NEW n \in 1 .. m + 1 PROVE q[n] = step[n][q[n - 1]]
    <3>1. CASE n = m + 1
      <4>1. n - 1 = m /\ q[m] = r[m]
        BY <2>4, <3>1
      <4> QED BY <2>5, <3>1, <4>1
    <3>2. CASE n # m + 1
      <4>1. n \in 1 .. m /\ n \in 0 .. m /\ n - 1 \in 0 .. m
        BY <3>2
      <4>2. q[n] = r[n] /\ q[n - 1] = r[n - 1]
        BY <2>4, <4>1
      <4>3. r[n] = step[n][r[n - 1]]
        BY <1>2, <4>1
      <4> QED BY <4>2, <4>3
    <3> QED BY <3>1, <3>2
  <2> QED BY <2>3, <2>6, <2>7
<1>3. \A m \in S : m + 1 \in S
  <2> SUFFICES ASSUME NEW m \in Nat, m + 1 <= N, \E r \in [0 .. m -> V] : Upto(m, r)
               PROVE  \E q \in [0 .. m + 1 -> V] : Upto(m + 1, q)
    <3> HIDE DEF Upto
    <3> QED OBVIOUS
  <2> HIDE DEF Upto
  <2> QED BY <1>2
<1>4. S \in SUBSET Nat
  OBVIOUS
<1>5. S = Nat
  <2> HIDE DEF S
  <2> QED BY <1>1, <1>3, <1>4, Induction
<1>6. \E r \in [0 .. N -> V] : Upto(N, r)
  <2> HIDE DEF Upto
  <2>1. N \in S
    BY <1>5
  <2> QED BY <2>1
<1> QED BY <1>6

-----------------------------------------------------------------------------
(* An orbit is the least set with its key that the gauge maps never leave, *)
(* and orbits are the classes of an equivalence.                           *)

LEMMA NeighboursAre ==
  ASSUME NEW key \in Key
  PROVE  /\ \A l : l \in Neighbours[key] <=> \E map \in GaugeMaps : l = Moved(map, key)
         /\ Neighbours[key] \subseteq Key
<1>1. Neighbours[key] = {m[2] : m \in {n \in Moves : n[1] = key}}
  BY DEF Neighbours
<1>2. ASSUME NEW l, l \in Neighbours[key] PROVE \E map \in GaugeMaps : l = Moved(map, key)
  <2>1. PICK m \in Moves : m[1] = key /\ l = m[2]
    BY <1>1, <1>2
  <2>2. PICK k \in Key, map \in GaugeMaps : m = <<k, Moved(map, k)>>
    BY <2>1 DEF Moves
  <2> QED BY <2>1, <2>2
<1>3. ASSUME NEW map \in GaugeMaps PROVE Moved(map, key) \in Neighbours[key]
  <2> DEFINE m == <<key, Moved(map, key)>>
  <2>1. m \in Moves /\ m[1] = key /\ m[2] = Moved(map, key)
    BY DEF Moves
  <2> HIDE DEF m
  <2> QED BY <1>1, <2>1
<1> QED BY <1>2, <1>3, MovedIsKey

Closed(C) == \A map \in GaugeMaps, k \in C : Moved(map, k) \in C

Grown(R) == R \cup UNION {Neighbours[k] : k \in R}

LEMMA GrownIs ==
  ASSUME NEW R \in SUBSET Key
  PROVE  /\ R \subseteq Grown(R) /\ Grown(R) \in SUBSET Key
         /\ Grown(R) = R => Closed(R)
         /\ \A C \in SUBSET Key : Closed(C) /\ R \subseteq C => Grown(R) \subseteq C
BY NeighboursAre DEF Grown, Closed

LEMMA OrbitRecursion ==
  ASSUME NEW key \in Key
  PROVE  \E r \in [0 .. Cardinality(Key) -> SUBSET Key] :
           /\ r[0] = {key}
           /\ \A n \in 1 .. Cardinality(Key) : r[n] = Grown(r[n - 1])
           /\ OrbitOf[key] = r[Cardinality(Key)]
<1> DEFINE N == Cardinality(Key)
           Body(g) == [n \in 0 .. N |->
                         IF n = 0 THEN {key}
                         ELSE g[n - 1] \cup UNION {Neighbours[k] : k \in g[n - 1]}]
           grow == CHOOSE g : g = Body(g)
           step == [n \in 1 .. N |-> [R \in SUBSET Key |-> Grown(R)]]
<1>1. N \in Nat /\ {key} \in SUBSET Key
  BY KeysAreFinite
<1>2. step \in [1 .. N -> [SUBSET Key -> SUBSET Key]]
  BY GrownIs
<1>3. PICK r \in [0 .. N -> SUBSET Key] : r[0] = {key} /\ \A n \in 1 .. N : r[n] = step[n][r[n - 1]]
  <2> DEFINE V == SUBSET Key
             base == {key}
  <2>1. N \in Nat /\ base \in V /\ step \in [1 .. N -> [V -> V]]
    BY <1>1, <1>2
  <2> HIDE DEF step, N, V, base
  <2>2. Stepwise(V, N, base, step)
    BY <2>1, Recursion
  <2> QED BY <2>2, Zenon DEF Stepwise, V, base
<1>4. \A n \in 1 .. N : n - 1 \in 0 .. N /\ n \in 0 .. N /\ n # 0
  BY <1>1
<1>5. \A n \in 1 .. N : r[n] = Grown(r[n - 1])
  BY <1>3, <1>4
<1>6. r = Body(r)
  <2>1. \A n \in 0 .. N : n = 0 \/ n \in 1 .. N
    BY <1>1
  <2>2. \A n \in 0 .. N : r[n] = IF n = 0 THEN {key} ELSE r[n - 1] \cup UNION {Neighbours[k] : k \in r[n - 1]}
    BY <1>3, <1>5, <2>1 DEF Grown
  <2> HIDE DEF N
  <2> QED BY <2>2
<1>7. grow = Body(grow)
  <2> HIDE DEF Body
  <2> QED BY <1>6
<1>8. OrbitOf[key] = grow[N]
  BY DEF OrbitOf
<1> HIDE DEF grow
<1>9. grow = r
  <2> DEFINE S == {n \in Nat : n <= N => grow[n] = r[n]}
  <2>1. \A n \in 0 .. N : grow[n] = IF n = 0 THEN {key} ELSE Grown(grow[n - 1])
    BY <1>7 DEF Grown
  <2>2. 0 \in S
    <3>1. 0 \in 0 .. N
      BY <1>1
    <3> HIDE DEF N
    <3>2. grow[0] = r[0]
      BY <1>3, <2>1, <3>1
    <3> QED BY <3>2
  <2>3. \A n \in S : n + 1 \in S
    <3> SUFFICES ASSUME NEW n \in Nat, n + 1 <= N, grow[n] = r[n] PROVE grow[n + 1] = r[n + 1]
      BY <1>1
    <3>1. n + 1 \in 0 .. N /\ n + 1 \in 1 .. N /\ n + 1 # 0 /\ n + 1 - 1 = n
      BY <1>1
    <3> HIDE DEF N
    <3>2. grow[n + 1] = Grown(grow[n])
      BY <2>1, <3>1
    <3>3. r[n + 1] = Grown(r[n])
      BY <1>5, <3>1
    <3> QED BY <3>2, <3>3
  <2>4. S = Nat
    <3>1. S \in SUBSET Nat
      OBVIOUS
    <3> HIDE DEF S
    <3> QED BY <2>2, <2>3, <3>1, Induction
  <2>5. \A n \in 0 .. N : grow[n] = r[n]
    BY <1>1, <2>4
  <2>6. grow = [n \in 0 .. N |-> grow[n]]
    BY <1>7
  <2> HIDE DEF N
  <2> QED BY <2>5, <2>6
<1> QED BY <1>3, <1>5, <1>8, <1>9

LEMMA OrbitIsClosed ==
  ASSUME NEW key \in Key
  PROVE  /\ OrbitOf[key] \in SUBSET Key
         /\ key \in OrbitOf[key]
         /\ Closed(OrbitOf[key])
<1> DEFINE N == Cardinality(Key)
<1>1. PICK r \in [0 .. N -> SUBSET Key] :
        /\ r[0] = {key}
        /\ \A n \in 1 .. N : r[n] = Grown(r[n - 1])
        /\ OrbitOf[key] = r[N]
  BY OrbitRecursion
<1>2. N \in Nat /\ IsFiniteSet(Key)
  BY KeysAreFinite
<1>3. \A R \in SUBSET Key : IsFiniteSet(R) /\ Cardinality(R) \in Nat /\ Cardinality(R) <= N
  BY <1>2, FS_Subset, FS_CardinalityType
<1> DEFINE Wide(n) == Closed(r[n]) \/ Cardinality(r[n]) >= n + 1
           S == {n \in Nat : n <= N => key \in r[n] /\ Wide(n)}
<1> HIDE DEF N
<1>4. 0 \in S
  <2>1. Cardinality({key}) = 1
    BY FS_Singleton
  <2>2. key \in r[0] /\ Cardinality(r[0]) >= 0 + 1
    BY <1>1, <2>1
  <2>3. key \in r[0] /\ Wide(0)
    BY <2>2
  <2> HIDE DEF Wide
  <2> QED BY <2>3
<1>5. ASSUME NEW n \in Nat, n + 1 <= N, key \in r[n], Wide(n) PROVE key \in r[n + 1] /\ Wide(n + 1)
  <2>1. n + 1 \in 1 .. N /\ n + 1 - 1 = n /\ n \in 0 .. N
    BY <1>2, <1>5
  <2>2. r[n + 1] = Grown(r[n]) /\ r[n] \in SUBSET Key
    BY <1>1, <2>1
  <2>3. r[n] \subseteq r[n + 1] /\ r[n + 1] \in SUBSET Key
    BY <2>2, GrownIs
  <2>4. CASE r[n + 1] = r[n]
    BY <1>5, <2>2, <2>4, GrownIs
  <2>5. CASE r[n + 1] # r[n]
    <3>1. ~Closed(r[n])
      BY <2>2, <2>3, <2>5, GrownIs
    <3>2. Cardinality(r[n]) <= Cardinality(r[n + 1]) /\ Cardinality(r[n]) # Cardinality(r[n + 1])
      BY <1>3, <2>3, <2>5, FS_Subset
    <3>3. Cardinality(r[n]) \in Nat /\ Cardinality(r[n + 1]) \in Nat
      BY <1>3, <2>2, <2>3
    <3>4. Cardinality(r[n]) >= n + 1
      BY <1>5, <3>1
    <3> QED BY <1>5, <2>3, <3>2, <3>3, <3>4
  <2> QED BY <2>4, <2>5
<1>6. \A n \in S : n + 1 \in S
  <2> SUFFICES ASSUME NEW n \in S, n + 1 <= N PROVE key \in r[n + 1] /\ Wide(n + 1)
    OBVIOUS
  <2>1. n \in Nat /\ n <= N
    BY <1>2
  <2> HIDE DEF Wide
  <2> QED BY <1>5, <2>1
<1>7. S = Nat
  <2>1. S \in SUBSET Nat
    OBVIOUS
  <2> HIDE DEF S
  <2> QED BY <1>4, <1>6, <2>1, Induction
<1>8. key \in r[N] /\ (Closed(r[N]) \/ Cardinality(r[N]) >= N + 1)
  BY <1>2, <1>7
<1>9. r[N] \in SUBSET Key
  BY <1>1, <1>2
<1> QED BY <1>1, <1>2, <1>3, <1>8, <1>9

LEMMA OrbitIsLeast ==
  ASSUME NEW key \in Key, NEW C \in SUBSET Key, Closed(C), key \in C
  PROVE  OrbitOf[key] \subseteq C
<1> DEFINE N == Cardinality(Key)
<1>1. PICK r \in [0 .. N -> SUBSET Key] :
        /\ r[0] = {key}
        /\ \A n \in 1 .. N : r[n] = Grown(r[n - 1])
        /\ OrbitOf[key] = r[N]
  BY OrbitRecursion
<1>2. N \in Nat
  BY KeysAreFinite
<1> DEFINE S == {n \in Nat : n <= N => r[n] \subseteq C}
<1> HIDE DEF N
<1>3. 0 \in S
  BY <1>1
<1>4. ASSUME NEW n \in Nat, n + 1 <= N, r[n] \subseteq C PROVE r[n + 1] \subseteq C
  <2>1. n + 1 \in 1 .. N /\ n + 1 - 1 = n /\ n \in 0 .. N
    BY <1>2, <1>4
  <2>2. r[n + 1] = Grown(r[n]) /\ r[n] \in SUBSET Key
    BY <1>1, <2>1
  <2> QED BY <1>4, <2>2, GrownIs
<1>5. \A n \in S : n + 1 \in S
  BY <1>2, <1>4
<1>6. S = Nat
  <2>1. S \in SUBSET Nat
    OBVIOUS
  <2> HIDE DEF S
  <2> QED BY <1>3, <1>5, <2>1, Induction
<1> QED BY <1>1, <1>2, <1>6

\* A gauge map permutes a finite set it does not leave: it comes from inside.
LEMMA ClosedBackward ==
  ASSUME NEW C \in SUBSET Key, Closed(C), NEW map \in GaugeMaps, NEW k \in Key, Moved(map, k) \in C
  PROVE  k \in C
<1> DEFINE f == [x \in C |-> Moved(map, x)]
<1>1. IsFiniteSet(C)
  BY KeysAreFinite, FS_Subset
<1>2. f \in Injection(C, C)
  <2>1. f \in [C -> C]
    BY DEF Closed
  <2>2. \A x, y \in C : f[x] = f[y] => x = y
    BY MovedApart
  <2> HIDE DEF f
  <2> QED BY <2>1, <2>2 DEF Injection, IsInjective
<1>3. f \in Surjection(C, C)
  BY <1>1, <1>2, FS_Injection
<1>4. PICK x \in C : f[x] = Moved(map, k)
  <2> HIDE DEF f
  <2> QED BY <1>3 DEF Surjection
<1>5. Moved(map, x) = Moved(map, k) /\ x \in Key
  BY <1>4
<1> QED BY <1>5, MovedApart

LEMMA OrbitIsSymmetric ==
  ASSUME NEW k \in Key, NEW l \in Key, l \in OrbitOf[k]
  PROVE  k \in OrbitOf[l]
<1> SUFFICES ASSUME k \notin OrbitOf[l] PROVE FALSE
  OBVIOUS
<1> DEFINE C == Key \ OrbitOf[l]
<1>1. Closed(C)
  <2> SUFFICES ASSUME NEW map \in GaugeMaps, NEW x \in C PROVE Moved(map, x) \in C
    BY DEF Closed
  <2>1. Moved(map, x) \in Key
    BY MovedIsKey
  <2>2. OrbitOf[l] \in SUBSET Key /\ Closed(OrbitOf[l])
    BY OrbitIsClosed
  <2> QED BY <2>1, <2>2, ClosedBackward
<1>2. OrbitOf[k] \subseteq C
  BY <1>1, OrbitIsLeast
<1> QED BY <1>2, OrbitIsClosed

LEMMA OrbitIsTransitive ==
  ASSUME NEW k \in Key, NEW l \in Key, l \in OrbitOf[k]
  PROVE  OrbitOf[l] \subseteq OrbitOf[k]
BY OrbitIsClosed, OrbitIsLeast

LEMMA OrbitsAreClasses ==
  ASSUME NEW k \in Key, NEW l \in Key
  PROVE  /\ l \in OrbitOf[k] <=> k \in OrbitOf[l]
         /\ l \in OrbitOf[k] <=> OrbitOf[k] = OrbitOf[l]
BY OrbitIsSymmetric, OrbitIsTransitive, OrbitIsClosed

LEMMA MovedStays ==
  ASSUME NEW key \in Key, NEW map \in GaugeMaps
  PROVE  Moved(map, key) \in OrbitOf[key]
BY OrbitIsClosed DEF Closed

-----------------------------------------------------------------------------
(* The leading bit of a vector.                                            *)

LEMMA GreatestElement ==
  ASSUME NEW S \in SUBSET Nat, S # {}, NEW bound \in Nat, \A n \in S : n <= bound
  PROVE  Max(S) \in S /\ \A n \in S : n <= Max(S)
<1> DEFINE B == {n \in Nat : \A m \in S : m <= n}
<1>1. PICK top \in B : \A n \in B : top <= n
  <2>1. B \in SUBSET Nat /\ bound \in B
    OBVIOUS
  <2> HIDE DEF B
  <2> QED BY <2>1, LeastElement
<1>2. top \in Nat /\ \A m \in S : m <= top
  OBVIOUS
<1>3. top \in S
  <2> SUFFICES ASSUME top \notin S PROVE FALSE
    OBVIOUS
  <2>1. \A m \in S : m <= top - 1 /\ m \in Nat
    BY <1>2
  <2>2. PICK m \in S : m \in Nat /\ m <= top - 1
    BY <2>1
  <2>3. top - 1 \in B
    BY <1>2, <2>1, <2>2
  <2> HIDE DEF B
  <2> QED BY <1>1, <1>2, <2>3
<1>4. \E x \in S : \A y \in S : x >= y
  BY <1>2, <1>3
<1>5. Max(S) \in S /\ \A y \in S : Max(S) >= y
  BY <1>4 DEF Max
<1> QED BY <1>5

LEMMA VectorsAreBounded ==
  ASSUME NEW v \in Vectors
  PROVE  \A n \in v : n \in Nat /\ n <= 256
<1> DEFINE w == 2^Bits
<1>1. w \in {2, 4, 8, 16} /\ Lane = 0 .. w - 1
  BY Widths
<1>2. \A n \in v : \E x, y \in Lane : n = x * w + y
  <2> SUFFICES ASSUME NEW n \in v PROVE \E x, y \in Lane : n = x * w + y
    OBVIOUS
  <2>1. PICK c \in Lane \X Lane : n = Idx(c[1], c[2])
    BY DEF Vectors, VectorOf
  <2>2. n = c[1] * w + c[2] /\ c[1] \in Lane /\ c[2] \in Lane
    BY <2>1 DEF Idx
  <2> QED BY <2>2
<1> HIDE DEF w
<1> SUFFICES ASSUME NEW n \in v PROVE n \in Nat /\ n <= 256
  OBVIOUS
<1>3. PICK x \in Lane, y \in Lane : n = x * w + y
  BY <1>2
<1>4. CASE w = 2
  BY <1>1, <1>3, <1>4
<1>5. CASE w = 4
  BY <1>1, <1>3, <1>5
<1>6. CASE w = 8
  BY <1>1, <1>3, <1>6
<1>7. CASE w = 16
  BY <1>1, <1>3, <1>7
<1> QED BY <1>1, <1>4, <1>5, <1>6, <1>7

LEMMA Leading ==
  ASSUME NEW v \in Vectors, v # {}
  PROVE  Max(v) \in v /\ Max(v) \in Nat /\ \A n \in v : n \in Nat /\ n <= Max(v)
<1>1. v \in SUBSET Nat /\ \A n \in v : n <= 256
  BY VectorsAreBounded
<1>2. 256 \in Nat
  OBVIOUS
<1> QED BY <1>1, <1>2, GreatestElement

-----------------------------------------------------------------------------
(* Spaces of vectors and their reduced bases.                              *)

Space(U) == U \subseteq Vectors /\ {} \in U /\ \A u, v \in U : SymDiff(u, v) \in U

IsBasis(list, U) ==
  /\ list \in Seq(U \ {{}})
  /\ \A m, n \in 1 .. Len(list) : m < n => Max(list[n]) < Max(list[m])
  /\ \A u \in U \ {{}} : \E n \in 1 .. Len(list) : Max(u) = Max(list[n])

LEMMA Differences ==
  /\ \A u : SymDiff(u, u) = {}
  /\ \A u : SymDiff(u, {}) = u /\ SymDiff({}, u) = u
  /\ \A u, v : SymDiff(SymDiff(u, v), v) = u
  /\ \A u, v : SymDiff(u, v) = SymDiff(v, u)
  /\ \A u, v, w : SymDiff(SymDiff(u, v), w) = SymDiff(SymDiff(u, w), v)
  /\ \A u, v, w : SymDiff(SymDiff(u, v), w) = SymDiff(u, SymDiff(v, w))
  /\ \A u, v, w : SymDiff(SymDiff(u, w), SymDiff(v, w)) = SymDiff(u, v)
BY DEF SymDiff

LEMMA ReductionRecursion ==
  ASSUME NEW v \in Vectors, NEW list \in Seq(Vectors)
  PROVE  \E r \in [0 .. Len(list) -> Vectors] :
           /\ r[0] = v
           /\ \A n \in 1 .. Len(list) : r[n] = ReduceBy(r[n - 1], list[n])
           /\ Reduced(v, list) = r[Len(list)]
<1> DEFINE N == Len(list)
           Body(g) == [n \in 0 .. N |-> IF n = 0 THEN v ELSE ReduceBy(g[n - 1], list[n])]
           f == CHOOSE g : g = Body(g)
           step == [n \in 1 .. N |-> [u \in Vectors |-> ReduceBy(u, list[n])]]
<1>1. N \in Nat /\ \A n \in 1 .. N : list[n] \in Vectors
  OBVIOUS
<1>2. step \in [1 .. N -> [Vectors -> Vectors]]
  <2>1. \A n \in 1 .. N, u \in Vectors : ReduceBy(u, list[n]) \in Vectors
    BY <1>1, DifferenceIsVector DEF ReduceBy
  <2> HIDE DEF N
  <2> QED BY <2>1
<1>3. PICK r \in [0 .. N -> Vectors] : r[0] = v /\ \A n \in 1 .. N : r[n] = step[n][r[n - 1]]
  <2> DEFINE V == Vectors
             base == v
  <2>1. N \in Nat /\ base \in V /\ step \in [1 .. N -> [V -> V]]
    BY <1>1, <1>2
  <2> HIDE DEF step, N, V, base
  <2>2. Stepwise(V, N, base, step)
    BY <2>1, Recursion
  <2> QED BY <2>2, Zenon DEF Stepwise, V, base
<1>4. \A n \in 1 .. N : n - 1 \in 0 .. N /\ n \in 0 .. N /\ n # 0
  BY <1>1
<1>5. \A n \in 1 .. N : r[n] = ReduceBy(r[n - 1], list[n])
  <2> HIDE DEF N
  <2> QED BY <1>3, <1>4
<1>6. r = Body(r)
  <2>1. \A n \in 0 .. N : n = 0 \/ n \in 1 .. N
    BY <1>1
  <2> HIDE DEF N
  <2>2. \A n \in 0 .. N : r[n] = IF n = 0 THEN v ELSE ReduceBy(r[n - 1], list[n])
    BY <1>3, <1>5, <2>1
  <2> QED BY <2>2
<1>7. f = Body(f)
  <2> HIDE DEF Body
  <2> QED BY <1>6
<1>8. Reduced(v, list) = f[N]
  BY DEF Reduced
<1> HIDE DEF f
<1>9. f = r
  <2> DEFINE S == {n \in Nat : n <= N => f[n] = r[n]}
  <2>1. \A n \in 0 .. N : f[n] = IF n = 0 THEN v ELSE ReduceBy(f[n - 1], list[n])
    BY <1>7
  <2>2. 0 \in S
    <3>1. 0 \in 0 .. N
      BY <1>1
    <3> HIDE DEF N
    <3>2. f[0] = r[0]
      BY <1>3, <2>1, <3>1
    <3> QED BY <3>2
  <2>3. \A n \in S : n + 1 \in S
    <3> SUFFICES ASSUME NEW n \in Nat, n + 1 <= N, f[n] = r[n] PROVE f[n + 1] = r[n + 1]
      <4> HIDE DEF N
      <4> QED BY <1>1
    <3>1. n + 1 \in 0 .. N /\ n + 1 \in 1 .. N /\ n + 1 # 0 /\ n + 1 - 1 = n
      BY <1>1
    <3> HIDE DEF N
    <3>2. f[n + 1] = ReduceBy(f[n], list[n + 1])
      BY <2>1, <3>1
    <3>3. r[n + 1] = ReduceBy(r[n], list[n + 1])
      BY <1>5, <3>1
    <3> QED BY <3>2, <3>3
  <2>4. S = Nat
    <3>1. S \in SUBSET Nat
      OBVIOUS
    <3> HIDE DEF S
    <3> QED BY <2>2, <2>3, <3>1, Induction
  <2>5. \A n \in 0 .. N : f[n] = r[n]
    BY <1>1, <2>4
  <2>6. f = [n \in 0 .. N |-> f[n]]
    BY <1>7
  <2> HIDE DEF N
  <2> QED BY <2>5, <2>6
<1> QED BY <1>3, <1>5, <1>8, <1>9

\* What a reduction leaves differs by a vector of the space, and has none of
\* the leading bits.
LEMMA Reduces ==
  ASSUME NEW U, Space(U), NEW list, IsBasis(list, U), NEW v \in Vectors
  PROVE  /\ Reduced(v, list) \in Vectors
         /\ SymDiff(Reduced(v, list), v) \in U
         /\ \A n \in 1 .. Len(list) : Max(list[n]) \notin Reduced(v, list)
<1> DEFINE N == Len(list)
<1>1. list \in Seq(Vectors) /\ N \in Nat /\ \A n \in 1 .. N : list[n] \in U /\ list[n] # {} /\ list[n] \in Vectors
  BY DEF IsBasis, Space
<1>2. PICK r \in [0 .. N -> Vectors] :
        /\ r[0] = v
        /\ \A n \in 1 .. N : r[n] = ReduceBy(r[n - 1], list[n])
        /\ Reduced(v, list) = r[N]
  BY <1>1, ReductionRecursion
<1> DEFINE Good(n) == SymDiff(r[n], v) \in U /\ \A m \in 1 .. n : Max(list[m]) \notin r[n]
           S == {n \in Nat : n <= N => Good(n)}
<1>3. 0 \in S
  <2>1. SymDiff(v, v) \in U
    BY Differences DEF Space
  <2>2. Good(0)
    BY <1>2, <2>1
  <2> HIDE DEF Good
  <2> QED BY <2>2
<1>4. ASSUME NEW n \in Nat, n + 1 <= N, Good(n) PROVE Good(n + 1)
  <2> DEFINE b == list[n + 1]
  <2>1. n + 1 \in 1 .. N /\ n + 1 - 1 = n /\ n \in 0 .. N
    BY <1>1, <1>4
  <2>2. r[n + 1] = ReduceBy(r[n], b)
    BY <1>2, <2>1
  <2>3. b \in U /\ b \in Vectors /\ b # {}
    BY <1>1, <2>1
  <2>4. Max(b) \in b /\ Max(b) \in Nat /\ \A x \in b : x \in Nat /\ x <= Max(b)
    BY <2>3, Leading
  <2>5. \A m \in 1 .. n : Max(list[m]) \notin b
    <3> SUFFICES ASSUME NEW m \in 1 .. n PROVE Max(list[m]) \notin b
      OBVIOUS
    <3>1. m \in 1 .. N /\ m < n + 1
      BY <1>1, <2>1
    <3>2. Max(b) < Max(list[m])
      BY <2>1, <3>1 DEF IsBasis
    <3>3. Max(list[m]) \in Nat
      BY <1>1, <3>1, Leading
    <3> HIDE DEF b
    <3> QED BY <2>4, <3>2, <3>3
  <2>6. \A m \in 1 .. n : Max(list[m]) \notin r[n + 1]
    <3> HIDE DEF b, N
    <3> QED BY <1>4, <2>2, <2>5 DEF ReduceBy, SymDiff
  <2>7. Max(b) \notin r[n + 1]
    <3> HIDE DEF b, N
    <3> QED BY <2>2, <2>4 DEF ReduceBy, SymDiff
  <2>8. SymDiff(r[n + 1], v) \in U
    <3>1. SymDiff(SymDiff(r[n], b), v) = SymDiff(SymDiff(r[n], v), b)
      BY Differences
    <3> HIDE DEF b, N
    <3> QED BY <1>4, <2>2, <2>3, <3>1 DEF ReduceBy, Space
  <2>9. \A m \in 1 .. n + 1 : m \in 1 .. n \/ m = n + 1
    BY <1>4
  <2> QED BY <2>6, <2>7, <2>8, <2>9
<1>5. \A n \in S : n + 1 \in S
  <2> SUFFICES ASSUME NEW n \in S, n + 1 <= N PROVE Good(n + 1)
    OBVIOUS
  <2>1. n \in Nat /\ n <= N
    BY <1>1
  <2> HIDE DEF Good, N
  <2> QED BY <1>4, <2>1
<1>6. S = Nat
  <2>1. S \in SUBSET Nat
    OBVIOUS
  <2> HIDE DEF S
  <2> QED BY <1>3, <1>5, <2>1, Induction
<1>7. Good(N)
  BY <1>1, <1>6
<1>8. r[N] \in Vectors
  BY <1>1, <1>2
<1> QED BY <1>2, <1>7, <1>8

LEMMA ReducesToNothing ==
  ASSUME NEW U, Space(U), NEW list, IsBasis(list, U), NEW v \in Vectors
  PROVE  InSpan(v, list) <=> v \in U
<1> DEFINE w == Reduced(v, list)
<1>1. w \in Vectors /\ SymDiff(w, v) \in U /\ \A n \in 1 .. Len(list) : Max(list[n]) \notin w
  BY Reduces
<1>2. ASSUME w = {} PROVE v \in U
  BY <1>1, <1>2, Differences
<1>3. ASSUME v \in U, w # {} PROVE FALSE
  <2> HIDE DEF w
  <2>1. SymDiff(SymDiff(w, v), v) \in U
    BY <1>1, <1>3 DEF Space
  <2>2. w \in U
    BY <2>1, Differences
  <2>3. PICK n \in 1 .. Len(list) : Max(w) = Max(list[n])
    BY <1>3, <2>2 DEF IsBasis
  <2>4. Max(w) \in w
    BY <1>1, <1>3, Leading
  <2> QED BY <1>1, <2>3, <2>4
<1> QED BY <1>2, <1>3 DEF InSpan

-----------------------------------------------------------------------------
(* Insertion keeps the basis sorted, of a space larger by one vector.      *)

LEMMA Joined ==
  ASSUME NEW V, NEW s \in Seq(V), NEW t \in Seq(V)
  PROVE  /\ s \o t \in Seq(V)
         /\ Len(s \o t) = Len(s) + Len(t)
         /\ \A n \in 1 .. Len(s) + Len(t) : (s \o t)[n] = IF n <= Len(s) THEN s[n] ELSE t[n - Len(s)]
OBVIOUS

LEMMA Inserted ==
  ASSUME NEW V, NEW list \in Seq(V), NEW i \in 1 .. Len(list) + 1, NEW e \in V
  PROVE  /\ InsertAt(list, i, e) \in Seq(V)
         /\ Len(InsertAt(list, i, e)) = Len(list) + 1
         /\ \A n \in 1 .. Len(list) + 1 :
              InsertAt(list, i, e)[n] = IF n < i THEN list[n] ELSE IF n = i THEN e ELSE list[n - 1]
<1> DEFINE a == SubSeq(list, 1, i - 1)
           b == <<e>>
           c == SubSeq(list, i, Len(list))
<1>0. Len(list) \in Nat /\ i \in Nat
  OBVIOUS
<1>1. a \in Seq(V) /\ Len(a) = i - 1 /\ \A n \in 1 .. i - 1 : a[n] = list[n]
  OBVIOUS
<1>2. b \in Seq(V) /\ Len(b) = 1 /\ b[1] = e
  OBVIOUS
<1>3. c \in Seq(V) /\ Len(c) = Len(list) - i + 1 /\ \A n \in 1 .. Len(list) - i + 1 : c[n] = list[n + i - 1]
  OBVIOUS
<1> HIDE DEF a, b, c
<1> DEFINE d == a \o b
<1>4. /\ d \in Seq(V) /\ Len(d) = Len(a) + Len(b)
      /\ \A n \in 1 .. Len(a) + Len(b) : d[n] = IF n <= Len(a) THEN a[n] ELSE b[n - Len(a)]
  BY <1>1, <1>2, Joined
<1> HIDE DEF d
<1>5. d \in Seq(V) /\ Len(d) = i /\ \A n \in 1 .. i : d[n] = IF n < i THEN list[n] ELSE e
  <2>1. Len(a) + Len(b) = i
    BY <1>0, <1>1, <1>2
  <2>2. ASSUME NEW n \in 1 .. i PROVE d[n] = IF n < i THEN list[n] ELSE e
    <3>1. d[n] = IF n <= i - 1 THEN a[n] ELSE b[n - (i - 1)]
      BY <1>1, <1>4, <2>1
    <3>2. n < i => n <= i - 1 /\ n \in 1 .. i - 1
      BY <1>0
    <3>3. ~(n < i) => n = i /\ ~(n <= i - 1) /\ n - (i - 1) = 1
      BY <1>0
    <3> QED BY <1>1, <1>2, <3>1, <3>2, <3>3
  <2> QED BY <1>4, <2>1, <2>2
<1>6. /\ d \o c \in Seq(V) /\ Len(d \o c) = Len(list) + 1
      /\ \A n \in 1 .. Len(list) + 1 : (d \o c)[n] = IF n <= i THEN d[n] ELSE c[n - i]
  <2>1. Len(d) + Len(c) = Len(list) + 1 /\ Len(d) = i /\ d \in Seq(V) /\ c \in Seq(V)
    BY <1>0, <1>3, <1>5
  <2>2. /\ d \o c \in Seq(V)
        /\ Len(d \o c) = Len(d) + Len(c)
        /\ \A n \in 1 .. Len(d) + Len(c) : (d \o c)[n] = IF n <= Len(d) THEN d[n] ELSE c[n - Len(d)]
    BY <2>1, Joined
  <2> QED BY <2>1, <2>2, Zenon
<1>7. InsertAt(list, i, e) = d \o c
  BY DEF InsertAt, a, b, c, d
<1>8. \A n \in 1 .. Len(list) + 1 :
        (d \o c)[n] = IF n < i THEN list[n] ELSE IF n = i THEN e ELSE list[n - 1]
  <2> SUFFICES ASSUME NEW n \in 1 .. Len(list) + 1
               PROVE (d \o c)[n] = IF n < i THEN list[n] ELSE IF n = i THEN e ELSE list[n - 1]
    OBVIOUS
  <2>1. CASE n <= i
    <3>1. n \in 1 .. i /\ (d \o c)[n] = d[n]
      BY <1>6, <2>1
    <3> QED BY <1>5, <2>1, <3>1
  <2>2. CASE n > i
    <3>1. n - i \in 1 .. Len(list) - i + 1 /\ (n - i) + i - 1 = n - 1
      BY <2>2
    <3>2. c[n - i] = list[n - 1]
      BY <1>3, <3>1
    <3>3. (d \o c)[n] = c[n - i]
      BY <1>6, <2>2
    <3> QED BY <1>0, <2>2, <3>2, <3>3
  <2>3. n \in Nat
    BY <1>0
  <2>4. n <= i \/ n > i
    BY <1>0, <2>3
  <2> QED BY <2>1, <2>2, <2>4
<1> QED BY <1>6, <1>7, <1>8

\* A set of numbers up to N with all below each of them is an interval.
LEMMA InitialSegment ==
  ASSUME NEW N \in Nat, NEW D \in SUBSET (1 .. N), \A n \in D, m \in 1 .. N : m < n => m \in D
  PROVE  Cardinality(D) \in 0 .. N /\ D = 1 .. Cardinality(D)
<1>1. CASE D = {}
  <2>1. Cardinality(D) = 0
    BY <1>1, FS_EmptySet
  <2> QED BY <1>1, <2>1
<1>2. CASE D # {}
  <2>1. D \in SUBSET Nat /\ \A n \in D : n <= N
    OBVIOUS
  <2>2. Max(D) \in D /\ \A n \in D : n <= Max(D)
    BY <1>2, <2>1, GreatestElement
  <2> DEFINE t == Max(D)
  <2> HIDE DEF t
  <2>3. t \in D /\ \A n \in D : n <= t
    BY <2>2, Zenon DEF t
  <2>4. D = 1 .. t /\ t \in 1 .. N
    <3>1. t \in 1 .. N
      BY <2>3
    <3>2. \A n \in 1 .. t : n \in D
      BY <2>3, <3>1
    <3>3. \A n \in D : n \in 1 .. t
      BY <2>3, <3>1
    <3> QED BY <3>1, <3>2, <3>3
  <2>5. Cardinality(1 .. t) = t
    BY <2>4, FS_Interval
  <2> QED BY <2>4, <2>5
<1> QED BY <1>1, <1>2

\* The greater vector is that with the greater leading bit.
LEMMA ExceedsIs ==
  ASSUME NEW u \in Vectors, u # {}, NEW v \in Vectors, v # {}, Max(u) # Max(v)
  PROVE  Exceeds(u, v) <=> Max(v) < Max(u)
<1> DEFINE d == SymDiff(u, v)
           x == Max(u)
           y == Max(v)
<1>1. x \in u /\ x \in Nat /\ \A n \in u : n \in Nat /\ n <= x
  BY Leading
<1>2. y \in v /\ y \in Nat /\ \A n \in v : n \in Nat /\ n <= y
  BY Leading
<1>3. u # v /\ x # y
  OBVIOUS
<1> HIDE DEF x, y
<1>4. d \in Vectors /\ d # {}
  BY <1>3, DifferenceIsVector DEF SymDiff
<1> DEFINE z == Max(d)
<1>6. z \in d /\ z \in Nat /\ \A n \in d : n \in Nat /\ n <= z
  BY <1>4, Leading
<1> HIDE DEF z
<1>7. CASE y < x
  <2>1. x \notin v
    BY <1>1, <1>2, <1>7
  <2>2. x \in d
    BY <1>1, <2>1 DEF SymDiff
  <2>3. z \in u
    <3>1. x <= z
      BY <1>6, <2>2
    <3>2. z \notin v
      BY <1>1, <1>2, <1>6, <1>7, <3>1
    <3> QED BY <1>6, <3>2 DEF SymDiff
  <2> QED BY <1>3, <1>7, <2>3 DEF Exceeds, x, y, z
<1>8. CASE x < y
  <2>1. y \notin u
    BY <1>1, <1>2, <1>8
  <2>2. y \in d
    BY <1>2, <2>1 DEF SymDiff
  <2>3. z \notin u
    <3>1. y <= z
      BY <1>6, <2>2
    <3> QED BY <1>1, <1>2, <1>6, <1>8, <3>1
  <2>4. ~(y < x)
    BY <1>1, <1>2, <1>8
  <2> QED BY <1>3, <2>3, <2>4 DEF Exceeds, x, y, z
<1> QED BY <1>1, <1>2, <1>3, <1>7, <1>8

-----------------------------------------------------------------------------
Adjoin(U, v) == U \cup {SymDiff(u, v) : u \in U}

LEMMA AdjoinIsSpace ==
  ASSUME NEW U, Space(U), NEW v \in Vectors
  PROVE  Space(Adjoin(U, v)) /\ U \subseteq Adjoin(U, v) /\ v \in Adjoin(U, v)
<1> DEFINE W == Adjoin(U, v)
<1>1. U \subseteq W
  BY DEF Adjoin
<1>2. W \subseteq Vectors
  BY DifferenceIsVector DEF Adjoin, Space
<1>3. v \in W
  <2>1. SymDiff({}, v) \in W
    BY DEF Adjoin, Space
  <2> QED BY <2>1, Differences
<1>4. \A u \in U : SymDiff(u, v) \in W
  BY DEF Adjoin
<1>5. ASSUME NEW x \in W, NEW y \in W PROVE SymDiff(x, y) \in W
  <2>1. x \in U \/ \E u \in U : x = SymDiff(u, v)
    BY DEF Adjoin
  <2>2. y \in U \/ \E u \in U : y = SymDiff(u, v)
    BY DEF Adjoin
  <2> HIDE DEF W
  <2>3. \A a, b \in U : SymDiff(a, b) \in U
    BY DEF Space
  <2>4. CASE x \in U /\ y \in U
    BY <1>1, <2>3, <2>4
  <2>5. ASSUME x \in U, NEW u \in U, y = SymDiff(u, v) PROVE SymDiff(x, y) \in W
    <3>1. SymDiff(x, y) = SymDiff(SymDiff(x, u), v)
      BY <2>5, Differences
    <3> QED BY <1>4, <2>3, <2>5, <3>1
  <2>6. ASSUME y \in U, NEW u \in U, x = SymDiff(u, v) PROVE SymDiff(x, y) \in W
    <3>1. SymDiff(x, y) = SymDiff(SymDiff(u, y), v)
      BY <2>6, Differences
    <3> QED BY <1>4, <2>3, <2>6, <3>1
  <2>7. ASSUME NEW t \in U, NEW u \in U, x = SymDiff(t, v), y = SymDiff(u, v) PROVE SymDiff(x, y) \in W
    <3>1. SymDiff(x, y) = SymDiff(t, u)
      BY <2>7, Differences
    <3> QED BY <1>1, <2>3, <2>7, <3>1
  <2> QED BY <2>1, <2>2, <2>4, <2>5, <2>6, <2>7
<1>6. {} \in W
  BY <1>1 DEF Space
<1> HIDE DEF W
<1>7. Space(W)
  BY <1>2, <1>5, <1>6 DEF Space
<1> QED BY <1>1, <1>3, <1>7 DEF W

LEMMA InsertKeepsBasis ==
  ASSUME NEW U, Space(U), NEW list, IsBasis(list, U), NEW v \in Vectors, Reduced(v, list) # {}
  PROVE  IsBasis(Insert(Reduced(v, list), list), Adjoin(U, v))
<1> DEFINE w == Reduced(v, list)
           N == Len(list)
           D == {n \in DOMAIN list : Exceeds(list[n], w)}
           p == 1 + Cardinality(D)
           new == InsertAt(list, p, w)
           W == Adjoin(U, v)
           lead(n) == Max(list[n])
<1>1. w \in Vectors /\ w # {} /\ SymDiff(w, v) \in U /\ \A n \in 1 .. N : lead(n) \notin w
  BY Reduces
<1>2. list \in Seq(U \ {{}}) /\ N \in Nat /\ DOMAIN list = 1 .. N
  BY DEF IsBasis
<1>3. \A n \in 1 .. N : list[n] \in U /\ list[n] # {} /\ list[n] \in Vectors
  BY <1>2 DEF Space
<1>4. \A m, n \in 1 .. N : m < n => lead(n) < lead(m)
  BY DEF IsBasis
<1>5. \A u \in U \ {{}} : \E n \in 1 .. N : Max(u) = lead(n)
  BY DEF IsBasis
<1>6. Max(w) \in w /\ Max(w) \in Nat /\ \A x \in w : x \in Nat /\ x <= Max(w)
  BY <1>1, Leading
<1>7. \A n \in 1 .. N : lead(n) \in Nat /\ lead(n) \in list[n] /\ lead(n) # Max(w)
  BY <1>1, <1>3, <1>6, Leading
<1>8. \A n \in 1 .. N : Exceeds(list[n], w) <=> Max(w) < lead(n)
  BY <1>1, <1>3, <1>7, ExceedsIs
<1>9. Insert(w, list) = new
  BY DEF Insert
<1>10. D \in SUBSET (1 .. N) /\ \A n \in 1 .. N : n \in D <=> Max(w) < lead(n)
  BY <1>2, <1>8
<1> HIDE DEF w, N, D, W, lead
<1>11. \A n \in D, m \in 1 .. N : m < n => m \in D
  BY <1>4, <1>6, <1>7, <1>10
<1>12. Cardinality(D) \in 0 .. N /\ D = 1 .. Cardinality(D)
  BY <1>2, <1>10, <1>11, InitialSegment
<1>13. p \in 1 .. N + 1 /\ D = 1 .. p - 1
  BY <1>2, <1>12
<1> HIDE DEF p
<1>14. Space(W) /\ U \subseteq W /\ v \in W
  BY AdjoinIsSpace DEF W
<1>15. w \in W
  <2>1. SymDiff(SymDiff(w, v), v) \in W
    BY <1>1, <1>14 DEF Space
  <2> QED BY <2>1, Differences
<1>16. /\ new \in Seq(W \ {{}})
       /\ Len(new) = N + 1
       /\ \A n \in 1 .. N + 1 : new[n] = IF n < p THEN list[n] ELSE IF n = p THEN w ELSE list[n - 1]
  <2> DEFINE V == W \ {{}}
  <2>1. list \in Seq(V) /\ w \in V
    BY <1>1, <1>2, <1>14, <1>15
  <2> HIDE DEF V
  <2>2. /\ new \in Seq(V)
        /\ Len(new) = N + 1
        /\ \A n \in 1 .. N + 1 : new[n] = IF n < p THEN list[n] ELSE IF n = p THEN w ELSE list[n - 1]
    BY <1>13, <2>1, Inserted DEF N
  <2> QED BY <2>2 DEF V
<1> HIDE DEF new
<1>17. \A n \in 1 .. N + 1 :
         Max(new[n]) = IF n < p THEN lead(n) ELSE IF n = p THEN Max(w) ELSE lead(n - 1)
  BY <1>13, <1>16 DEF lead
<1>18. \A m, n \in 1 .. N + 1 : m < n => Max(new[n]) < Max(new[m])
  <2> SUFFICES ASSUME NEW m \in 1 .. N + 1, NEW n \in 1 .. N + 1, m < n PROVE Max(new[n]) < Max(new[m])
    OBVIOUS
  <2>1. \A k \in 1 .. N : k < p => Max(w) < lead(k)
    BY <1>10, <1>13
  <2>2. \A k \in 1 .. N : k >= p => lead(k) < Max(w)
    BY <1>6, <1>7, <1>10, <1>13
  <2>3. CASE n < p
    BY <1>2, <1>4, <1>13, <1>17, <2>3
  <2>4. CASE n = p
    <3>1. m \in 1 .. N /\ m < p
      BY <1>2, <1>13, <2>4
    <3> QED BY <1>17, <2>1, <2>4, <3>1
  <2>5. CASE n > p
    <3>1. n - 1 \in 1 .. N /\ n - 1 >= p /\ Max(new[n]) = lead(n - 1)
      BY <1>2, <1>13, <1>17, <2>5
    <3>2. CASE m < p
      BY <1>2, <1>4, <1>13, <1>17, <3>1, <3>2
    <3>3. CASE m = p
      BY <1>17, <2>2, <3>1, <3>3
    <3>4. CASE m > p
      <4>1. m - 1 \in 1 .. N /\ m - 1 < n - 1 /\ Max(new[m]) = lead(m - 1)
        BY <1>2, <1>13, <1>17, <3>4
      <4> QED BY <1>4, <3>1, <4>1
    <3> QED BY <1>13, <3>2, <3>3, <3>4
  <2> QED BY <1>13, <2>3, <2>4, <2>5
<1>19. ASSUME NEW n \in 1 .. N PROVE \E m \in 1 .. N + 1 : Max(new[m]) = lead(n)
  <2>1. CASE n < p
    <3>1. n \in 1 .. N + 1
      BY <1>2
    <3> QED BY <1>17, <2>1, <3>1
  <2>2. CASE n >= p
    <3>1. n + 1 \in 1 .. N + 1 /\ ~(n + 1 < p) /\ n + 1 # p /\ (n + 1) - 1 = n
      BY <1>2, <1>13, <2>2
    <3> QED BY <1>17, <3>1
  <2> QED BY <1>13, <2>1, <2>2
<1>20. Max(new[p]) = Max(w)
  BY <1>13, <1>17
<1>21. ASSUME NEW u \in W, u # {} PROVE \E m \in 1 .. N + 1 : Max(u) = Max(new[m])
  <2>1. CASE u \in U
    BY <1>5, <1>19, <1>21, <2>1
  <2>2. CASE \E n \in 1 .. N : Max(u) = lead(n)
    BY <1>19, <2>2
  <2>3. CASE u \notin U /\ ~\E n \in 1 .. N : Max(u) = lead(n)
    <3>1. PICK t \in U : u = SymDiff(t, v)
      BY <2>3 DEF W, Adjoin
    <3> DEFINE d == SymDiff(u, w)
    <3>2. d \in U
      <4>1. SymDiff(t, SymDiff(w, v)) \in U
        BY <1>1 DEF Space
      <4>2. SymDiff(t, SymDiff(w, v)) = SymDiff(SymDiff(t, v), w)
        BY Differences
      <4> QED BY <3>1, <4>1, <4>2
    <3>3. u \in Vectors
      BY <1>14, <1>21 DEF Space
    <3>4. Max(u) \in u /\ Max(u) \in Nat /\ \A x \in u : x \in Nat /\ x <= Max(u)
      BY <1>21, <3>3, Leading
    <3>5. Max(u) = Max(w)
      <4>1. CASE d = {}
        <5>1. u = w
          BY <4>1 DEF SymDiff
        <5> QED BY <5>1
      <4>2. CASE d # {}
        <5>1. PICK n \in 1 .. N : Max(d) = lead(n)
          BY <1>5, <3>2, <4>2
        <5>2. d \in Vectors
          BY <3>2 DEF Space
        <5>3. lead(n) \in d /\ lead(n) \in Nat /\ \A x \in d : x \in Nat /\ x <= lead(n)
          BY <4>2, <5>1, <5>2, Leading
        <5>4. lead(n) \notin w
          BY <1>1
        <5>5. lead(n) \in u /\ lead(n) # Max(u)
          BY <2>3, <5>3, <5>4 DEF SymDiff
        <5>6. Max(u) \notin d
          BY <3>4, <5>3, <5>5
        <5>7. Max(u) \in w
          BY <3>4, <5>6 DEF SymDiff
        <5>8. Max(u) <= Max(w)
          BY <1>6, <5>7
        <5>9. ASSUME Max(w) \notin u PROVE FALSE
          <6>1. Max(w) \in d
            BY <1>6, <5>9 DEF SymDiff
          <6> QED BY <1>6, <3>4, <5>3, <5>5, <5>8, <6>1
        <5> QED BY <1>6, <3>4, <5>8, <5>9
      <4> QED BY <4>1, <4>2
    <3> QED BY <1>13, <1>20, <3>5
  <2> QED BY <2>1, <2>2, <2>3
<1>22. IsBasis(new, W)
  BY <1>16, <1>18, <1>21 DEF IsBasis
<1> QED BY <1>9, <1>22 DEF W, w

-----------------------------------------------------------------------------
(* The generators (lines 109-117) span the gauge vectors.                  *)

GaugeVectors == {GaugeVector(code, f) : code \in Code, f \in SUBSET (Lane \ {0})}
Total == Bits * Bits + 2^Bits - 1

LEMMA GaugeIsMember ==
  ASSUME NEW v \in Vectors
  PROVE  IsGauge(v) <=> v \in GaugeVectors
<1>1. ASSUME IsGauge(v) PROVE v \in GaugeVectors
  BY <1>1, GaugeIsSpanned DEF GaugeVectors
<1>2. ASSUME v \in GaugeVectors PROVE IsGauge(v)
  <2>1. PICK code \in Code, f \in SUBSET (Lane \ {0}) : v = GaugeVector(code, f)
    BY <1>2 DEF GaugeVectors
  <2> QED BY <2>1, SpannedIsGauge
<1> QED BY <1>1, <1>2

LEMMA NothingIsZero == Form({}) = {} /\ CoboundaryOf({}) = {}
<1>1. {} \in Vectors
  BY DEF Vectors
<1>2. Form({}) = {}
  <2>1. \A x, y \in Lane : ~Bilinear({}, x, y)
    BY OddOfNothing DEF Bilinear
  <2>2. Form({}) \in Vectors /\ \A x, y \in Lane : Idx(x, y) \notin Form({})
    BY <2>1, FormAt
  <2> QED BY <1>1, <2>2, SameVector
<1>3. CoboundaryOf({}) = {}
  <2>1. \A x, y \in Lane : ~CoboundarySign({}, x, y)
    BY DEF CoboundarySign
  <2>2. CoboundaryOf({}) \in Vectors /\ \A x, y \in Lane : Idx(x, y) \notin CoboundaryOf({})
    BY <2>1, CoboundaryAt
  <2> QED BY <1>1, <2>2, SameVector
<1> QED BY <1>2, <1>3

LEMMA UnitForm ==
  ASSUME NEW p \in Position, NEW q \in Position
  PROVE  BilinearUnit(p, q) = Form({<<p, q>>})
<1> DEFINE c == <<p, q>>
<1>1. ASSUME NEW x \in Lane, NEW y \in Lane
      PROVE Bilinear({c}, x, y) <=> (Bit(x, p) = 1 /\ Bit(y, q) = 1)
  <2>1. c \in Ones(x) \X Ones(y) <=> (Bit(x, p) = 1 /\ Bit(y, q) = 1)
    BY DEF Ones
  <2>2. CASE c \in Ones(x) \X Ones(y)
    <3>1. {c} \cap (Ones(x) \X Ones(y)) = {c}
      BY <2>2
    <3>2. Odd({c})
      <4>1. Cardinality({c}) = 1
        BY FS_Singleton
      <4> QED BY <4>1 DEF Odd
    <3> QED BY <2>1, <2>2, <3>1, <3>2 DEF Bilinear
  <2>3. CASE c \notin Ones(x) \X Ones(y)
    <3>1. {c} \cap (Ones(x) \X Ones(y)) = {}
      BY <2>3
    <3> QED BY <2>1, <2>3, <3>1, OddOfNothing DEF Bilinear
  <2> QED BY <2>2, <2>3
<1> HIDE DEF c
<1>2. \A x, y \in Lane : Idx(x, y) \in BilinearUnit(p, q) <=> Idx(x, y) \in Form({c})
  BY <1>1, UnitAt, FormAt
<1>3. BilinearUnit(p, q) = Form({c})
  BY <1>2, UnitAt, FormAt, SameVector
<1> QED BY <1>3 DEF c

LEMMA GeneratorsAre ==
  /\ Total \in Nat /\ Total > 0 /\ DOMAIN Generators = 1 .. Total /\ Len(Generators) = Total
  /\ \A p, q \in Position : p * Bits + q + 1 \in 1 .. Total /\ Generators[p * Bits + q + 1] = Form({<<p, q>>})
  /\ \A z \in Lane \ {0} : Bits * Bits + z \in 1 .. Total /\ Generators[Bits * Bits + z] = CoboundaryOf({z})
  /\ \A g \in 1 .. Total : \/ \E p, q \in Position : g = p * Bits + q + 1
                           \/ \E z \in Lane \ {0} : g = Bits * Bits + z
<1> DEFINE b == Bits * Bits
           w == 2^Bits
<1>1. b \in 1 .. 16 /\ w \in {2, 4, 8, 16} /\ Lane = 0 .. w - 1 /\ Total = b + w - 1
  BY CellOfBit, Widths DEF Total
<1>2. Total \in Nat /\ Total > 0
  <2> HIDE DEF b, w
  <2> QED BY <1>1
<1>3. /\ DOMAIN Generators = 1 .. Total
      /\ \A g \in 1 .. Total :
           Generators[g] = IF g <= b THEN BilinearUnit((g - 1) \div Bits, (g - 1) % Bits) ELSE Coboundary(g - b)
  BY DEF Generators, Total
<1>4. Generators \in Seq({Generators[g] : g \in 1 .. Total}) /\ Len(Generators) = Total
  <2> DEFINE V == {Generators[g] : g \in 1 .. Total}
  <2>1. Generators = [g \in 1 .. Total |-> Generators[g]]
    BY DEF Generators, Total
  <2>2. \A g \in 1 .. Total : Generators[g] \in V
    OBVIOUS
  <2> HIDE DEF V
  <2>3. Generators \in [1 .. Total -> V]
    BY <2>1, <2>2
  <2>4. Generators \in Seq(V) /\ Len(Generators) = Total
    BY <1>2, <2>3
  <2> QED BY <2>4 DEF V
<1>5. ASSUME NEW p \in Position, NEW q \in Position
      PROVE  p * Bits + q + 1 \in 1 .. Total /\ Generators[p * Bits + q + 1] = Form({<<p, q>>})
  <2> DEFINE n == p * Bits + q
  <2>1. n \in 0 .. b - 1 /\ <<p, q>> = <<n \div Bits, n % Bits>>
    <3>1. <<p, q>> \in Position \X Position /\ <<p, q>>[1] = p /\ <<p, q>>[2] = q
      OBVIOUS
    <3> QED BY <3>1, CellOfBit
  <2>2. p = n \div Bits /\ q = n % Bits
    BY <2>1
  <2> HIDE DEF n, b, w
  <2>3. n + 1 \in 1 .. Total /\ n + 1 <= b /\ (n + 1) - 1 = n
    BY <1>1, <2>1
  <2>4. Generators[n + 1] = BilinearUnit(p, q)
    BY <1>3, <2>2, <2>3
  <2> QED BY <2>3, <2>4, UnitForm DEF n
<1>6. ASSUME NEW z \in Lane \ {0}
      PROVE  b + z \in 1 .. Total /\ Generators[b + z] = CoboundaryOf({z})
  <2> HIDE DEF b, w
  <2>1. b + z \in 1 .. Total /\ ~(b + z <= b) /\ (b + z) - b = z
    BY <1>1
  <2> QED BY <1>3, <2>1 DEF Coboundary
<1>7. ASSUME NEW g \in 1 .. Total
      PROVE  \/ \E p, q \in Position : g = p * Bits + q + 1
             \/ \E z \in Lane \ {0} : g = b + z
  <2>1. CASE g <= b
    <3> DEFINE n == g - 1
               p == n \div Bits
               q == n % Bits
    <3>1. n \in 0 .. 15 /\ n < Bits * Bits
      BY <1>1, <1>2, <2>1, SMTT(30)
    <3> HIDE DEF n
    <3>2. <<p, q>> \in Position \X Position /\ n = p * Bits + q
      BY <3>1, CellOfBit
    <3> HIDE DEF p, q
    <3>3. p \in Position /\ q \in Position
      BY <3>2
    <3>4. g = n + 1
      BY DEF n
    <3> QED BY <3>2, <3>3, <3>4
  <2>2. CASE g > b
    <3> HIDE DEF b, w
    <3>1. g - b \in Lane \ {0} /\ g = b + (g - b)
      BY <1>1, <2>2
    <3> QED BY <3>1
  <2> QED BY <1>1, <2>1, <2>2, SMTT(30)
<1> QED BY <1>2, <1>3, <1>4, <1>5, <1>6, <1>7

LEMMA GaugeVectorsAreSpace ==
  /\ Space(GaugeVectors)
  /\ \A g \in 1 .. Total : Generators[g] \in GaugeVectors
<1>1. GaugeVectors \subseteq Vectors
  BY SpannedIsGauge DEF GaugeVectors
<1>2. \A code \in Code, f \in SUBSET (Lane \ {0}) : GaugeVector(code, f) \in GaugeVectors
  BY DEF GaugeVectors
<1>3. {} \in Code /\ {} \in SUBSET (Lane \ {0})
  BY DEF Code
<1>4. {} \in GaugeVectors
  <2>1. GaugeVector({}, {}) = {}
    BY NothingIsZero, Differences DEF GaugeVector
  <2> QED BY <1>2, <1>3, <2>1
<1>5. ASSUME NEW u \in GaugeVectors, NEW v \in GaugeVectors PROVE SymDiff(u, v) \in GaugeVectors
  <2>1. PICK c \in Code, f \in SUBSET (Lane \ {0}) : u = GaugeVector(c, f)
    BY DEF GaugeVectors
  <2>2. PICK d \in Code, h \in SUBSET (Lane \ {0}) : v = GaugeVector(d, h)
    BY DEF GaugeVectors
  <2>3. SymDiff(u, v) = SymDiff(SymDiff(Form(c), Form(d)), SymDiff(CoboundaryOf(f), CoboundaryOf(h)))
    BY <2>1, <2>2, Zenon DEF GaugeVector, SymDiff
  <2>4. SymDiff(u, v) = GaugeVector(SymDiff(c, d), SymDiff(f, h))
    BY <2>3, FormsAdd, CoboundariesAdd DEF GaugeVector
  <2>5. SymDiff(c, d) \in Code
    BY FormsAdd
  <2>6. SymDiff(f, h) \in SUBSET (Lane \ {0})
    BY DEF SymDiff
  <2> QED BY <1>2, <2>4, <2>5, <2>6
<1>6. ASSUME NEW g \in 1 .. Total PROVE Generators[g] \in GaugeVectors
  <2>1. ASSUME NEW p \in Position, NEW q \in Position, g = p * Bits + q + 1
        PROVE Generators[g] \in GaugeVectors
    <3> DEFINE c == {<<p, q>>}
    <3>1. c \in Code
      BY DEF Code
    <3>2. Generators[g] = Form(c)
      BY <2>1, GeneratorsAre
    <3> HIDE DEF c
    <3>3. GaugeVector(c, {}) = Form(c)
      BY NothingIsZero, Differences DEF GaugeVector
    <3> QED BY <1>2, <1>3, <3>1, <3>2, <3>3
  <2>2. ASSUME NEW z \in Lane \ {0}, g = Bits * Bits + z PROVE Generators[g] \in GaugeVectors
    <3>1. Generators[g] = CoboundaryOf({z})
      BY <2>2, GeneratorsAre
    <3>2. GaugeVector({}, {z}) = CoboundaryOf({z})
      BY NothingIsZero, Differences DEF GaugeVector
    <3>3. {z} \in SUBSET (Lane \ {0})
      OBVIOUS
    <3> QED BY <1>2, <1>3, <3>1, <3>2, <3>3
  <2> QED BY <2>1, <2>2, GeneratorsAre
<1> QED BY <1>1, <1>4, <1>5, <1>6 DEF Space

LEMMA GeneratorsSpan ==
  ASSUME NEW U, Space(U), \A g \in 1 .. Total : Generators[g] \in U
  PROVE  GaugeVectors \subseteq U
<1>1. \A u, v \in U : SymDiff(u, v) \in U
  BY DEF Space
<1>2. {} \in U
  BY DEF Space
<1>3. \A code \in Code : Form(code) \in U
  <2> DEFINE number(c) == c[1] * Bits + c[2]
             S == {n \in Nat : \A code \in Code : (\A c \in code : number(c) < n) => Form(code) \in U}
  <2>1. \A c \in Position \X Position : number(c) \in 0 .. Bits * Bits - 1 /\ c = <<number(c) \div Bits, number(c) % Bits>>
    BY CellOfBit
  <2>2. Bits * Bits \in Nat
    BY CellOfBit
  <2>3. \A c \in Position \X Position : Form({c}) \in U
    <3> SUFFICES ASSUME NEW c \in Position \X Position PROVE Form({c}) \in U
      OBVIOUS
    <3>1. c[1] \in Position /\ c[2] \in Position /\ c = <<c[1], c[2]>>
      OBVIOUS
    <3> QED BY <3>1, GeneratorsAre
  <2> HIDE DEF number
  <2>4. 0 \in S
    <3> SUFFICES ASSUME NEW code \in Code, \A c \in code : number(c) < 0 PROVE Form(code) \in U
      OBVIOUS
    <3>1. code = {}
      BY <2>1, <2>2 DEF Code
    <3> QED BY <1>2, <3>1, NothingIsZero
  <2>5. ASSUME NEW n \in S, NEW code \in Code, \A c \in code : number(c) < n + 1 PROVE Form(code) \in U
    <3>1. \A c \in code : number(c) \in Nat /\ c \in Position \X Position
      BY <2>1, <2>2 DEF Code
    <3>2. CASE \A c \in code : number(c) # n
      <4>1. \A c \in code : number(c) < n
        BY <2>5, <3>1, <3>2
      <4> QED BY <4>1
    <3>3. ASSUME NEW c \in code, number(c) = n PROVE Form(code) \in U
      <4> DEFINE rest == code \ {c}
      <4>1. \A e \in rest : number(e) < n
        <5> SUFFICES ASSUME NEW e \in rest PROVE number(e) < n
          OBVIOUS
        <5>1. number(e) # n
          BY <2>1, <3>1, <3>3
        <5> QED BY <2>5, <3>1, <5>1
      <4>2. rest \in Code /\ {c} \in Code /\ code = SymDiff(rest, {c})
        BY DEF Code, SymDiff
      <4>3. Form(rest) \in U
        BY <4>1, <4>2
      <4>4. Form({c}) \in U
        BY <2>3, <3>1
      <4>5. Form(code) = SymDiff(Form(rest), Form({c}))
        BY <4>2, FormsAdd
      <4> QED BY <1>1, <4>3, <4>4, <4>5
    <3> QED BY <3>2, <3>3
  <2>6. \A n \in S : n + 1 \in S
    <3>1. \A n \in S : n \in Nat
      OBVIOUS
    <3> QED BY <2>5, <3>1
  <2>7. S = Nat
    <3>1. S \in SUBSET Nat
      OBVIOUS
    <3> HIDE DEF S
    <3> QED BY <2>4, <2>6, <3>1, Induction
  <2>8. \A code \in Code : \A c \in code : number(c) < Bits * Bits
    BY <2>1, <2>2 DEF Code
  <2> QED BY <2>2, <2>7, <2>8
<1>4. \A f \in SUBSET (Lane \ {0}) : CoboundaryOf(f) \in U
  <2> DEFINE S == {n \in Nat : \A f \in SUBSET (Lane \ {0}) : (\A z \in f : z < n) => CoboundaryOf(f) \in U}
  <2>1. Lane \subseteq Nat /\ 16 \in Nat /\ \A z \in Lane : z < 16
    BY Widths
  <2>2. \A z \in Lane \ {0} : CoboundaryOf({z}) \in U
    BY GeneratorsAre
  <2>3. 0 \in S
    <3> SUFFICES ASSUME NEW f \in SUBSET (Lane \ {0}), \A z \in f : z < 0 PROVE CoboundaryOf(f) \in U
      OBVIOUS
    <3>1. f = {}
      BY <2>1
    <3> QED BY <1>2, <3>1, NothingIsZero
  <2>4. ASSUME NEW n \in S, NEW f \in SUBSET (Lane \ {0}), \A z \in f : z < n + 1 PROVE CoboundaryOf(f) \in U
    <3>1. \A z \in f : z \in Nat
      BY <2>1
    <3>2. CASE n \notin f
      <4>1. \A z \in f : z < n
        BY <2>4, <3>1, <3>2
      <4> QED BY <4>1
    <3>3. CASE n \in f
      <4> DEFINE rest == f \ {n}
      <4>1. \A z \in rest : z < n
        BY <2>4, <3>1
      <4>2. rest \in SUBSET (Lane \ {0}) /\ f = SymDiff(rest, {n})
        BY <3>3 DEF SymDiff
      <4>3. CoboundaryOf(rest) \in U
        BY <4>1, <4>2
      <4>4. CoboundaryOf({n}) \in U
        BY <2>2, <3>3
      <4>5. CoboundaryOf(f) = SymDiff(CoboundaryOf(rest), CoboundaryOf({n}))
        BY <4>2, CoboundariesAdd
      <4> QED BY <1>1, <4>3, <4>4, <4>5
    <3> QED BY <3>2, <3>3
  <2>5. \A n \in S : n + 1 \in S
    <3>1. \A n \in S : n \in Nat
      OBVIOUS
    <3> QED BY <2>4, <3>1
  <2>6. S = Nat
    <3>1. S \in SUBSET Nat
      OBVIOUS
    <3> HIDE DEF S
    <3> QED BY <2>3, <2>5, <3>1, Induction
  <2>7. \A f \in SUBSET (Lane \ {0}) : \A z \in f : z < 16
    BY <2>1
  <2> QED BY <2>1, <2>6, <2>7
<1>5. ASSUME NEW v \in GaugeVectors PROVE v \in U
  <2>1. PICK code \in Code, f \in SUBSET (Lane \ {0}) : v = SymDiff(Form(code), CoboundaryOf(f))
    BY DEF GaugeVectors, GaugeVector
  <2> QED BY <1>1, <1>3, <1>4, <2>1
<1> QED BY <1>5

-----------------------------------------------------------------------------
(* The first two loops: the basis and the maps.                            *)

Phase == {"span", "actions", "merge", "last", "done"}

\* The basis is of a space that holds the generators dealt with.
Spanning ==
  IF phase = "span"
  THEN /\ count \in 0 .. Total - 1 /\ maps = <<>>
       /\ \E U : /\ Space(U) /\ U \subseteq GaugeVectors /\ IsBasis(basis, U)
                 /\ \A g \in 1 .. count : Generators[g] \in U
  ELSE IsBasis(basis, GaugeVectors)

\* The maps are the gauge maps of the matrices dealt with.
Admitting ==
  /\ maps \in Seq(GaugeMaps)
  /\ phase = "actions" =>
       count \in Matrix /\ ToSet(maps) = {map \in GaugeMaps : map.matrix < count}
  /\ phase \in {"merge", "last", "done"} => ToSet(maps) = GaugeMaps

Loops == phase \in Phase /\ Spanning /\ Admitting

LEMMA MatricesAre ==
  /\ 2^(Bits * Bits) \in Nat /\ 2^(Bits * Bits) > 0
  /\ Matrix = 0 .. 2^(Bits * Bits) - 1
  /\ \A map \in GaugeMaps : map.matrix \in Matrix
<1>1. Bits * Bits \in 0 .. 16
  BY CellOfBit
<1>2. 2^(Bits * Bits) \in Nat /\ 2^(Bits * Bits) > 0
  BY <1>1, PositivePowers
<1>3. \A map \in GaugeMaps : map.matrix \in Matrix
  BY MapParts DEF GeneralLinear
<1> QED BY <1>2, <1>3 DEF Matrix

LEMMA SetOf ==
  /\ ToSet(<<>>) = {}
  /\ \A e : ToSet(<<e>>) = {e}
  /\ \A V : \A s, t \in Seq(V) : ToSet(s \o t) = ToSet(s) \cup ToSet(t)
<1>1. ASSUME NEW V, NEW s \in Seq(V), NEW t \in Seq(V)
      PROVE  ToSet(s \o t) = ToSet(s) \cup ToSet(t)
  <2>1. \A u \in Seq(V) : \A x : x \in ToSet(u) <=> \E n \in 1 .. Len(u) : x = u[n]
    BY DEF ToSet
  <2>2. s \o t \in Seq(V) /\ Len(s \o t) = Len(s) + Len(t) /\ Len(s) \in Nat /\ Len(t) \in Nat
    OBVIOUS
  <2>3. \A n \in 1 .. Len(s) + Len(t) : (s \o t)[n] = IF n <= Len(s) THEN s[n] ELSE t[n - Len(s)]
    BY Joined
  <2>4. ASSUME NEW x, x \in ToSet(s \o t) PROVE x \in ToSet(s) \cup ToSet(t)
    <3>1. PICK n \in 1 .. Len(s) + Len(t) : x = (s \o t)[n]
      BY <2>1, <2>2, <2>4
    <3>2. CASE n <= Len(s)
      <4>1. n \in 1 .. Len(s) /\ x = s[n]
        BY <2>2, <2>3, <3>1, <3>2
      <4> QED BY <2>1, <4>1
    <3>3. CASE ~(n <= Len(s))
      <4>1. n - Len(s) \in 1 .. Len(t) /\ x = t[n - Len(s)]
        BY <2>2, <2>3, <3>1, <3>3
      <4> QED BY <2>1, <4>1
    <3> QED BY <3>2, <3>3
  <2>5. ASSUME NEW x, x \in ToSet(s) PROVE x \in ToSet(s \o t)
    <3>1. PICK n \in 1 .. Len(s) : x = s[n]
      BY <2>1, <2>5
    <3>2. n \in 1 .. Len(s) + Len(t) /\ x = (s \o t)[n]
      BY <2>2, <2>3, <3>1
    <3> QED BY <2>1, <2>2, <3>2
  <2>6. ASSUME NEW x, x \in ToSet(t) PROVE x \in ToSet(s \o t)
    <3>1. PICK n \in 1 .. Len(t) : x = t[n]
      BY <2>1, <2>6
    <3> DEFINE k == n + Len(s)
    <3>2. k \in 1 .. Len(s) + Len(t) /\ ~(k <= Len(s)) /\ k - Len(s) = n
      BY <2>2, <3>1
    <3>3. x = (s \o t)[k]
      BY <2>3, <3>1, <3>2
    <3> QED BY <2>1, <2>2, <3>2, <3>3
  <2> QED BY <2>4, <2>5, <2>6
<1>2. ToSet(<<>>) = {}
  BY DEF ToSet
<1>3. \A e : ToSet(<<e>>) = {e}
  BY DEF ToSet
<1> QED BY <1>1, <1>2, <1>3

LEMMA InitLoops == AtlasInit => Loops
<1> SUFFICES ASSUME AtlasInit PROVE Loops
  OBVIOUS
<1>1. phase = "span" /\ basis = <<>> /\ count = 0 /\ maps = <<>>
  BY DEF AtlasInit
<1> DEFINE U == {{}}
<1>2. Space(U) /\ U \subseteq GaugeVectors
  <2>1. {} \in GaugeVectors /\ GaugeVectors \subseteq Vectors
    BY GaugeVectorsAreSpace DEF Space
  <2>2. SymDiff({}, {}) = {}
    BY Differences
  <2> QED BY <2>1, <2>2 DEF Space
<1>3. IsBasis(basis, U)
  BY <1>1 DEF IsBasis
<1>4. \A g \in 1 .. count : Generators[g] \in U
  BY <1>1
<1>5. count \in 0 .. Total - 1
  BY <1>1, GeneratorsAre
<1> HIDE DEF U
<1>6. Spanning
  BY <1>1, <1>2, <1>3, <1>4, <1>5 DEF Spanning
<1>7. Admitting
  BY <1>1 DEF Admitting
<1> QED BY <1>1, <1>6, <1>7 DEF Loops, Phase

LEMMA SpanKeepsLoops ==
  ASSUME Loops, SpanStep
  PROVE  Loops'
<1> DEFINE gen == Generators[count + 1]
           v == Reduced(gen, basis)
<1>1. phase = "span" /\ maps' = maps /\ maps = <<>> /\ count \in 0 .. Total - 1
  BY DEF SpanStep, Loops, Spanning
<1>2. basis' = IF v = {} THEN basis ELSE Insert(v, basis)
  BY DEF SpanStep
<1>3. /\ count' = IF count + 1 = Total THEN 0 ELSE count + 1
      /\ phase' = IF count + 1 = Total THEN "actions" ELSE phase
  BY GeneratorsAre DEF SpanStep, Count
<1>4. PICK U : /\ Space(U) /\ U \subseteq GaugeVectors /\ IsBasis(basis, U)
               /\ \A g \in 1 .. count : Generators[g] \in U
  BY <1>1 DEF Loops, Spanning
<1>5. Total \in Nat /\ count \in Nat /\ count + 1 \in 1 .. Total
  BY <1>1, GeneratorsAre
<1>6. gen \in GaugeVectors /\ gen \in Vectors
  BY <1>5, GaugeVectorsAreSpace DEF Space
<1> HIDE DEF gen
<1>7. \E W : /\ Space(W) /\ W \subseteq GaugeVectors /\ IsBasis(basis', W)
             /\ U \subseteq W /\ gen \in W
  <2>1. CASE v = {}
    <3>1. gen \in U
      BY <1>4, <1>6, <2>1, ReducesToNothing DEF InSpan
    <3> QED BY <1>2, <1>4, <2>1, <3>1
  <2>2. CASE v # {}
    <3>1. IsBasis(basis', Adjoin(U, gen))
      BY <1>2, <1>4, <1>6, <2>2, InsertKeepsBasis
    <3>2. Space(Adjoin(U, gen)) /\ U \subseteq Adjoin(U, gen) /\ gen \in Adjoin(U, gen)
      BY <1>4, <1>6, AdjoinIsSpace
    <3>3. Adjoin(U, gen) \subseteq GaugeVectors
      BY <1>4, <1>6, GaugeVectorsAreSpace DEF Adjoin, Space
    <3> QED BY <3>1, <3>2, <3>3
  <2> QED BY <2>1, <2>2
<1>8. PICK W : /\ Space(W) /\ W \subseteq GaugeVectors /\ IsBasis(basis', W)
               /\ U \subseteq W /\ gen \in W
  BY <1>7
<1>9. \A g \in 1 .. count + 1 : Generators[g] \in W
  <2> SUFFICES ASSUME NEW g \in 1 .. count + 1 PROVE Generators[g] \in W
    OBVIOUS
  <2>1. g \in 1 .. count \/ g = count + 1
    BY <1>5
  <2> QED BY <1>4, <1>8, <2>1 DEF gen
<1>10. CASE count + 1 = Total
  <2>1. phase' = "actions" /\ count' = 0 /\ maps' = <<>>
    BY <1>1, <1>3, <1>10
  <2>2. W = GaugeVectors
    BY <1>8, <1>9, <1>10, GeneratorsSpan
  <2>3. Spanning'
    BY <1>8, <2>1, <2>2 DEF Spanning
  <2>4. Admitting'
    <3>1. {map \in GaugeMaps : map.matrix < 0} = {}
      <4>1. \A map \in GaugeMaps : map.matrix \in Nat
        BY MatricesAre
      <4> QED BY <4>1
    <3>2. 0 \in Matrix
      BY MatricesAre
    <3>3. <<>> \in Seq(GaugeMaps) /\ ToSet(<<>>) = {}
      BY SetOf
    <3> QED BY <2>1, <3>1, <3>2, <3>3 DEF Admitting
  <2> QED BY <2>1, <2>3, <2>4 DEF Loops, Phase
<1>11. CASE count + 1 # Total
  <2>1. phase' = "span" /\ count' = count + 1 /\ maps' = <<>>
    BY <1>1, <1>3, <1>11
  <2>2. count' \in 0 .. Total - 1
    BY <1>5, <1>11, <2>1
  <2>3. Spanning'
    BY <1>8, <1>9, <2>1, <2>2 DEF Spanning
  <2>4. Admitting'
    BY <2>1 DEF Admitting
  <2> QED BY <2>1, <2>3, <2>4 DEF Loops, Phase
<1> QED BY <1>10, <1>11

LEMMA ActionsKeepLoops ==
  ASSUME Loops, ActionStep
  PROVE  Loops'
<1> DEFINE map(exchange) == [matrix |-> count, exchange |-> exchange]
           admitted(exchange) ==
             IF count \in GeneralLinear /\ InSpan(Change(count, exchange), basis)
             THEN <<map(exchange)>> ELSE <<>>
           total == 2^(Bits * Bits)
<1>1. phase = "actions" /\ basis' = basis /\ IsBasis(basis, GaugeVectors)
  BY DEF ActionStep, Loops, Spanning
<1>2. count \in Matrix /\ maps \in Seq(GaugeMaps) /\ ToSet(maps) = {m \in GaugeMaps : m.matrix < count}
  BY <1>1 DEF Loops, Admitting
<1>3. maps' = maps \o admitted(FALSE) \o admitted(TRUE)
  BY DEF ActionStep
<1>4. /\ count' = IF count + 1 = total THEN 0 ELSE count + 1
      /\ phase' = IF count + 1 = total THEN "merge" ELSE phase
  BY DEF ActionStep, Count
<1>5. ASSUME NEW exchange \in BOOLEAN
      PROVE  /\ admitted(exchange) \in Seq(GaugeMaps)
             /\ ToSet(admitted(exchange)) = {m \in GaugeMaps : m = map(exchange)}
  <2>1. count \in GeneralLinear =>
          (InSpan(Change(count, exchange), basis) <=> IsGauge(Change(count, exchange)))
    BY <1>1, ChangeAt, GaugeVectorsAreSpace, ReducesToNothing, GaugeIsMember
  <2>2. map(exchange) \in GaugeMaps <=> count \in GeneralLinear /\ IsGauge(Change(count, exchange))
    <3> DEFINE m == map(exchange)
    <3>1. m.matrix = count /\ m.exchange = exchange
      OBVIOUS
    <3>2. m \in [matrix : GeneralLinear, exchange : BOOLEAN] <=> count \in GeneralLinear
      OBVIOUS
    <3> HIDE DEF m
    <3>3. m \in GaugeMaps <=> count \in GeneralLinear /\ IsGauge(Change(count, exchange))
      BY <3>1, <3>2 DEF GaugeMaps
    <3> QED BY <3>3 DEF m
  <2>3. CASE map(exchange) \in GaugeMaps
    <3>1. admitted(exchange) = <<map(exchange)>>
      BY <2>1, <2>2, <2>3
    <3> HIDE DEF map, admitted
    <3>2. ToSet(<<map(exchange)>>) = {map(exchange)}
      BY SetOf
    <3> QED BY <2>3, <3>1, <3>2
  <2>4. CASE map(exchange) \notin GaugeMaps
    <3>1. admitted(exchange) = <<>>
      BY <2>1, <2>2, <2>4
    <3> HIDE DEF map, admitted
    <3>2. ToSet(<<>>) = {}
      BY SetOf
    <3> QED BY <2>4, <3>1, <3>2
  <2> QED BY <2>3, <2>4
<1>6. /\ maps' \in Seq(GaugeMaps)
      /\ ToSet(maps') = ToSet(maps) \cup ToSet(admitted(FALSE)) \cup ToSet(admitted(TRUE))
  <2> DEFINE a == admitted(FALSE)
             b == admitted(TRUE)
             V == GaugeMaps
  <2>1. a \in Seq(V) /\ b \in Seq(V) /\ maps \in Seq(V) /\ maps' = (maps \o a) \o b
    BY <1>2, <1>3, <1>5
  <2> HIDE DEF a, b, V
  <2>2. maps \o a \in Seq(V) /\ ToSet(maps \o a) = ToSet(maps) \cup ToSet(a)
    BY <2>1, SetOf, Joined
  <2> DEFINE c == maps \o a
  <2> HIDE DEF c
  <2>3. c \in Seq(V) /\ ToSet(c) = ToSet(maps) \cup ToSet(a) /\ maps' = c \o b
    BY <2>1, <2>2 DEF c
  <2>4. c \o b \in Seq(V) /\ ToSet(c \o b) = ToSet(c) \cup ToSet(b)
    BY <2>1, <2>3, SetOf, Joined
  <2>5. maps' \in Seq(V) /\ ToSet(maps') = ToSet(maps) \cup ToSet(a) \cup ToSet(b)
    BY <2>3, <2>4
  <2> QED BY <2>5 DEF a, b, V
<1>7. \A m \in GaugeMaps : m.matrix = count <=> m = map(FALSE) \/ m = map(TRUE)
  <2> SUFFICES ASSUME NEW m \in GaugeMaps PROVE m.matrix = count <=> m = map(FALSE) \/ m = map(TRUE)
    OBVIOUS
  <2>1. m \in [matrix : GeneralLinear, exchange : BOOLEAN]
    BY DEF GaugeMaps
  <2>2. m = [matrix |-> m.matrix, exchange |-> m.exchange] /\ m.exchange \in BOOLEAN
    BY <2>1
  <2> QED BY <2>2
<1>8. ToSet(maps') = {m \in GaugeMaps : m.matrix < count \/ m.matrix = count}
  <2> HIDE DEF map, admitted
  <2>1. /\ ToSet(admitted(FALSE)) = {m \in GaugeMaps : m = map(FALSE)}
        /\ ToSet(admitted(TRUE)) = {m \in GaugeMaps : m = map(TRUE)}
    BY <1>5
  <2> QED BY <1>2, <1>6, <1>7, <2>1
<1>9. count \in Nat /\ count < total /\ total \in Nat /\ \A m \in GaugeMaps : m.matrix \in Nat /\ m.matrix < total
  BY <1>2, MatricesAre
<1> HIDE DEF total
<1>10. CASE count + 1 = total
  <2>1. phase' = "merge"
    BY <1>4, <1>10
  <2>2. ToSet(maps') = GaugeMaps
    BY <1>8, <1>9, <1>10
  <2>3. Admitting'
    BY <1>6, <2>1, <2>2 DEF Admitting
  <2> QED BY <1>1, <2>1, <2>3 DEF Loops, Phase, Spanning
<1>11. CASE count + 1 # total
  <2>1. phase' = "actions" /\ count' = count + 1
    BY <1>1, <1>4, <1>11
  <2>2. ToSet(maps') = {m \in GaugeMaps : m.matrix < count + 1}
    BY <1>8, <1>9
  <2>3. count' \in Matrix
    BY <1>9, <1>11, <2>1, MatricesAre DEF total
  <2>4. Admitting'
    BY <1>6, <2>1, <2>2, <2>3 DEF Admitting
  <2> QED BY <1>1, <2>1, <2>4 DEF Loops, Phase, Spanning
<1> QED BY <1>10, <1>11

LEMMA MergeKeepsLoops ==
  ASSUME Loops, Merge
  PROVE  Loops'
<1>1. phase \in {"merge", "last"} /\ phase' \in {"merge", "last", "done"} /\ basis' = basis /\ maps' = maps
  <2>1. CASE Take
    BY <2>1 DEF Take, Count
  <2>2. CASE HalveLeft
    BY <2>2 DEF HalveLeft
  <2>3. CASE HalveRight
    BY <2>3 DEF HalveRight
  <2>4. CASE Link
    BY <2>4 DEF Link
  <2>5. CASE Number
    BY <2>5 DEF Number
  <2> QED BY <2>1, <2>2, <2>3, <2>4, <2>5 DEF Merge
<1> QED BY <1>1 DEF Loops, Phase, Spanning, Admitting

LEMMA StepLoops == Loops /\ [AtlasNext]_atlasVars => Loops'
<1> SUFFICES ASSUME Loops, [AtlasNext]_atlasVars PROVE Loops'
  OBVIOUS
<1>1. CASE SpanStep
  BY <1>1, SpanKeepsLoops
<1>2. CASE ActionStep
  BY <1>2, ActionsKeepLoops
<1>3. CASE Merge
  BY <1>3, MergeKeepsLoops
<1>4. CASE UNCHANGED atlasVars
  BY <1>4 DEF atlasVars, Loops, Phase, Spanning, Admitting
<1> QED BY <1>1, <1>2, <1>3, <1>4 DEF AtlasNext

LEMMA AlwaysLoops == AtlasSpec => []Loops
<1> QED BY InitLoops, StepLoops, PTL DEF AtlasSpec

(***************************************************************************)
(* The greedy reduction (lines 120-136) decides the gauge space: for one   *)
(* to four bits, the maps admitted when the second loop ends are those     *)
(* whose change of signs is a gauge.                                       *)
(***************************************************************************)
THEOREM AdmittedIsGauge == AtlasSpec => []AdmittedAreGauge
<1>1. Loops => AdmittedAreGauge
  BY DEF Loops, Admitting, AdmittedAreGauge
<1> QED BY <1>1, AlwaysLoops, PTL

-----------------------------------------------------------------------------
(* The keys in order (line 176): each comes once.                          *)

Before(k, l) == \E p \in Lane : p \in l /\ p \notin k /\ \A x \in Lane : x < p => (x \in k <=> x \in l)

LEMMA PrecedesIs ==
  ASSUME NEW k \in Key, NEW l \in Key
  PROVE  Precedes(k, l) <=> Before(k, l)
<1> DEFINE d == SymDiff(k, l)
<1>1. k \subseteq Lane /\ l \subseteq Lane /\ Lane \subseteq Nat
  BY KeysAreFinite, Widths
<1>2. d \subseteq Lane /\ \A x \in Lane : x \in d <=> ~(x \in k <=> x \in l)
  BY <1>1 DEF SymDiff
<1>3. ASSUME k # l PROVE Min(d) \in d /\ \A x \in d : Min(d) <= x
  <2>1. d \in SUBSET Nat /\ d # {}
    BY <1>1, <1>3 DEF SymDiff
  <2> HIDE DEF d
  <2>2. \E n \in d : \A m \in d : n <= m
    BY <2>1, LeastElement
  <2> QED BY <2>2 DEF Min
<1> HIDE DEF d
<1>4. ASSUME k # l, Min(d) \in l PROVE Before(k, l)
  <2> DEFINE p == Min(d)
  <2>1. p \in d /\ p \in l /\ \A x \in d : p <= x
    BY <1>3, <1>4
  <2> HIDE DEF p
  <2>2. p \in Lane /\ p \notin k
    BY <1>1, <1>2, <2>1
  <2>3. ASSUME NEW x \in Lane, x < p PROVE x \in k <=> x \in l
    <3>1. x \notin d
      BY <1>1, <2>1, <2>2, <2>3
    <3> QED BY <1>2, <3>1
  <2> QED BY <2>1, <2>2, <2>3 DEF Before
<1>5. ASSUME Before(k, l) PROVE k # l /\ Min(d) \in l
  <2>1. PICK p \in Lane : p \in l /\ p \notin k /\ \A x \in Lane : x < p => (x \in k <=> x \in l)
    BY <1>5 DEF Before
  <2>2. k # l /\ p \in d
    BY <1>2, <2>1
  <2>3. Min(d) \in d /\ \A x \in d : Min(d) <= x
    BY <1>3, <2>2
  <2> DEFINE q == Min(d)
  <2> HIDE DEF q
  <2>4. q \in d /\ \A x \in d : q <= x
    BY <2>3, Zenon DEF q
  <2>5. q = p
    <3>1. q \in Lane /\ q <= p
      BY <1>2, <2>2, <2>4
    <3>2. ~(q < p)
      BY <1>2, <2>1, <2>4, <3>1
    <3> QED BY <1>1, <3>1, <3>2
  <2> QED BY <2>1, <2>2, <2>5 DEF q
<1> QED BY <1>4, <1>5 DEF Precedes, d

LEMMA PrecedesOrders ==
  /\ \A k \in Key : ~Precedes(k, k)
  /\ \A k, l \in Key : k # l => Precedes(k, l) \/ Precedes(l, k)
  /\ \A k, l, m \in Key : Precedes(k, l) /\ Precedes(l, m) => Precedes(k, m)
<1>1. \A k \in Key : ~Precedes(k, k)
  BY DEF Precedes
<1>2. ASSUME NEW k \in Key, NEW l \in Key, k # l PROVE Precedes(k, l) \/ Precedes(l, k)
  <2> DEFINE d == SymDiff(k, l)
  <2>1. k \subseteq Lane /\ l \subseteq Lane /\ Lane \subseteq Nat
    BY KeysAreFinite, Widths
  <2>2. d \in SUBSET Nat /\ d # {}
    BY <1>2, <2>1 DEF SymDiff
  <2>3. SymDiff(l, k) = d
    BY DEF SymDiff
  <2>4. d \subseteq k \cup l
    BY DEF SymDiff
  <2> HIDE DEF d
  <2>5. \E n \in d : \A m \in d : n <= m
    BY <2>2, LeastElement
  <2>6. Min(d) \in d
    BY <2>5 DEF Min
  <2> QED BY <1>2, <2>3, <2>4, <2>6 DEF Precedes, d
<1>3. ASSUME NEW k \in Key, NEW l \in Key, NEW m \in Key, Before(k, l), Before(l, m) PROVE Before(k, m)
  <2>1. PICK p \in Lane : p \in l /\ p \notin k /\ \A x \in Lane : x < p => (x \in k <=> x \in l)
    BY <1>3 DEF Before
  <2>2. PICK q \in Lane : q \in m /\ q \notin l /\ \A x \in Lane : x < q => (x \in l <=> x \in m)
    BY <1>3 DEF Before
  <2>3. p \in Nat /\ q \in Nat /\ \A x \in Lane : x \in Nat
    BY Widths
  <2>4. CASE p < q
    <3>1. p \in m
      BY <2>1, <2>2, <2>4
    <3>2. \A x \in Lane : x < p => x < q
      BY <2>3, <2>4
    <3> QED BY <2>1, <2>2, <3>1, <3>2 DEF Before
  <2>5. CASE q < p
    <3>1. q \notin k
      BY <2>1, <2>2, <2>5
    <3>2. \A x \in Lane : x < q => x < p
      BY <2>3, <2>5
    <3> QED BY <2>1, <2>2, <3>1, <3>2 DEF Before
  <2> QED BY <2>1, <2>2, <2>3, <2>4, <2>5
<1>4. \A k, l, m \in Key : Precedes(k, l) /\ Precedes(l, m) => Precedes(k, m)
  BY <1>3, PrecedesIs
<1> QED BY <1>1, <1>2, <1>4

Preceding(key) == {k \in Key : Precedes(k, key)}

LEMMA RankIs ==
  /\ Rank \in Bijection(Key, 0 .. Cardinality(Key) - 1)
  /\ Cardinality(Key) > 0
<1> DEFINE N == Cardinality(Key)
<1>1. IsFiniteSet(Key) /\ N \in Nat
  BY KeysAreFinite
<1>2. Key # {}
  BY KeysAreFinite DEF Code
<1>3. N > 0
  BY <1>1, <1>2, FS_EmptySet
<1>4. \A key \in Key : Rank[key] = Cardinality(Preceding(key))
  BY DEF Rank, Preceding
<1>5. ASSUME NEW key \in Key
      PROVE  /\ IsFiniteSet(Preceding(key)) /\ Cardinality(Preceding(key)) \in 0 .. N - 1
  <2>1. Preceding(key) \in SUBSET Key /\ key \notin Preceding(key)
    BY PrecedesOrders DEF Preceding
  <2>2. IsFiniteSet(Preceding(key)) /\ Cardinality(Preceding(key)) <= N /\ N # Cardinality(Preceding(key))
    BY <1>1, <2>1, FS_Subset
  <2>3. Cardinality(Preceding(key)) \in Nat
    BY <2>2, FS_CardinalityType
  <2> HIDE DEF N
  <2> QED BY <1>1, <2>2, <2>3
<1>6. ASSUME NEW k \in Key, NEW l \in Key, Precedes(k, l) PROVE Rank[k] < Rank[l]
  <2>1. Preceding(k) \in SUBSET Preceding(l)
    BY <1>6, PrecedesOrders DEF Preceding
  <2>2. k \in Preceding(l) /\ k \notin Preceding(k)
    BY <1>6, PrecedesOrders DEF Preceding
  <2>3. Cardinality(Preceding(k)) <= Cardinality(Preceding(l)) /\ Cardinality(Preceding(l)) # Cardinality(Preceding(k))
    BY <1>5, <2>1, <2>2, FS_Subset
  <2> QED BY <1>4, <1>5, <2>3
<1>7. Rank \in Injection(Key, 0 .. N - 1)
  <2>1. Rank \in [Key -> 0 .. N - 1]
    <3>1. Rank = [key \in Key |-> Rank[key]]
      BY DEF Rank
    <3> HIDE DEF N
    <3> QED BY <1>4, <1>5, <3>1
  <2>2. ASSUME NEW k \in Key, NEW l \in Key, k # l PROVE Rank[k] # Rank[l]
    <3>1. Rank[k] \in Int /\ Rank[l] \in Int
      BY <1>4, <1>5
    <3> QED BY <1>6, <2>2, <3>1, PrecedesOrders
  <2> HIDE DEF N
  <2> QED BY <2>1, <2>2, Zenon DEF Injection, IsInjective
<1>8. Rank \in Surjection(Key, 0 .. N - 1)
  <2>1. IsFiniteSet(0 .. N - 1) /\ Cardinality(0 .. N - 1) = N
    BY <1>1, <1>3, FS_Interval, SMTT(30)
  <2> QED BY <1>7, <2>1, FS_Injection
<1> QED BY <1>3, <1>7, <1>8 DEF Bijection

LEMMA KeysInOrder ==
  /\ Len(KeySeq) = Cardinality(Key) /\ Len(KeySeq) \in Nat /\ Len(KeySeq) > 0
  /\ \A n \in 1 .. Len(KeySeq) : KeySeq[n] \in Key
  /\ \A key \in Key : \E n \in 1 .. Len(KeySeq) : KeySeq[n] = key
  /\ Head(KeySeq) \in Key
<1> DEFINE N == Cardinality(Key)
<1>1. N \in Nat /\ N > 0
  BY KeysAreFinite, RankIs
<1>2. /\ Rank \in [Key -> 0 .. N - 1]
      /\ \A k, l \in Key : Rank[k] = Rank[l] => k = l
      /\ \A n \in 0 .. N - 1 : \E key \in Key : Rank[key] = n
  <2>1. Rank \in Injection(Key, 0 .. N - 1) /\ Rank \in Surjection(Key, 0 .. N - 1)
    BY RankIs DEF Bijection
  <2> HIDE DEF N
  <2> QED BY <2>1 DEF Injection, Surjection, IsInjective
<1>3. KeySeq = [n \in 1 .. N |-> CHOOSE key \in Key : Rank[key] = n - 1]
  BY DEF KeySeq
<1> HIDE DEF N
<1>4. \A n \in 1 .. N : KeySeq[n] \in Key /\ Rank[KeySeq[n]] = n - 1
  <2> SUFFICES ASSUME NEW n \in 1 .. N PROVE KeySeq[n] \in Key /\ Rank[KeySeq[n]] = n - 1
    OBVIOUS
  <2>1. n - 1 \in 0 .. N - 1
    BY <1>1
  <2>2. \E key \in Key : Rank[key] = n - 1
    BY <1>2, <2>1
  <2> QED BY <1>3, <2>2
<1>5. KeySeq \in Seq(Key) /\ Len(KeySeq) = N
  <2>1. KeySeq = [n \in 1 .. N |-> KeySeq[n]]
    BY <1>3
  <2>2. KeySeq \in [1 .. N -> Key]
    BY <1>4, <2>1
  <2> QED BY <1>1, <2>2
<1>6. ASSUME NEW key \in Key PROVE \E n \in 1 .. N : KeySeq[n] = key
  <2>1. Rank[key] \in 0 .. N - 1
    BY <1>2
  <2>2. Rank[key] + 1 \in 1 .. N /\ (Rank[key] + 1) - 1 = Rank[key]
    BY <1>1, <2>1
  <2> QED BY <1>2, <1>4, <2>2
<1>7. Head(KeySeq) \in Key
  BY <1>1, <1>5
<1> QED BY <1>1, <1>4, <1>5, <1>6, <1>7 DEF N

-----------------------------------------------------------------------------
(* The matrix that changes nothing is admitted: there are maps.            *)

Identity == CASE Bits = 1 -> 1 [] Bits = 2 -> 9 [] Bits = 3 -> 273 [] Bits = 4 -> 33825

LEMMA MorePowers ==
  /\ 2^5 = 32 /\ 2^6 = 64 /\ 2^8 = 256 /\ 2^9 = 512 /\ 2^12 = 4096 /\ 2^16 = 65536
BY SMT

LEMMA IdentityRows ==
  /\ Identity \in Matrix
  /\ \A i \in Position : Row(Identity, i) \in 0 .. 15 /\ Ones(Row(Identity, i)) = {i}
<1>1. Bits \in {1, 2, 3, 4} /\ Position = 0 .. Bits - 1
  BY Widths DEF Position
<1>2. /\ Ones(1) = {0}
      /\ Bits > 1 => Ones(2) = {1}
      /\ Bits > 2 => Ones(4) = {2}
      /\ Bits > 3 => Ones(8) = {3}
  <2>1. /\ Bit(1, 0) = 1 /\ Bit(1, 1) = 0 /\ Bit(1, 2) = 0 /\ Bit(1, 3) = 0
        /\ Bit(2, 0) = 0 /\ Bit(2, 1) = 1 /\ Bit(2, 2) = 0 /\ Bit(2, 3) = 0
        /\ Bit(4, 0) = 0 /\ Bit(4, 1) = 0 /\ Bit(4, 2) = 1 /\ Bit(4, 3) = 0
        /\ Bit(8, 0) = 0 /\ Bit(8, 1) = 0 /\ Bit(8, 2) = 0 /\ Bit(8, 3) = 1
    BY BitsAre
  <2>2. \A k \in Position : k \in {0, 1, 2, 3}
    BY <1>1
  <2>3. Ones(1) = {0}
    BY <1>1, <2>1, <2>2 DEF Ones
  <2>4. Bits > 1 => Ones(2) = {1}
    BY <1>1, <2>1, <2>2 DEF Ones
  <2>5. Bits > 2 => Ones(4) = {2}
    BY <1>1, <2>1, <2>2 DEF Ones
  <2>6. Bits > 3 => Ones(8) = {3}
    BY <1>1, <2>1, <2>2 DEF Ones
  <2> QED BY <2>3, <2>4, <2>5, <2>6
<1>3. CASE Bits = 1
  <2>1. Identity = 1 /\ Position = {0} /\ Matrix = 0 .. 1
    BY <1>1, <1>3, Powers DEF Identity, Matrix
  <2>2. Row(1, 0) = 1
    BY <1>3, Powers DEF Row
  <2> QED BY <1>2, <2>1, <2>2
<1>4. CASE Bits = 2
  <2>1. Identity = 9 /\ Position = {0, 1} /\ Matrix = 0 .. 15
    BY <1>1, <1>4, Powers DEF Identity, Matrix
  <2>2. Row(9, 0) = 1 /\ Row(9, 1) = 2
    BY <1>4, Powers DEF Row
  <2> QED BY <1>2, <1>4, <2>1, <2>2
<1>5. CASE Bits = 3
  <2>1. Identity = 273 /\ Position = {0, 1, 2} /\ Matrix = 0 .. 511
    BY <1>1, <1>5, MorePowers DEF Identity, Matrix
  <2>2. Row(273, 0) = 1 /\ Row(273, 1) = 2 /\ Row(273, 2) = 4
    BY <1>5, Powers, MorePowers DEF Row
  <2> QED BY <1>2, <1>5, <2>1, <2>2
<1>6. CASE Bits = 4
  <2>1. Identity = 33825 /\ Position = {0, 1, 2, 3} /\ Matrix = 0 .. 65535
    BY <1>1, <1>6, MorePowers DEF Identity, Matrix
  <2>2. Row(33825, 0) = 1 /\ Row(33825, 1) = 2 /\ Row(33825, 2) = 4 /\ Row(33825, 3) = 8
    BY <1>6, Powers, MorePowers DEF Row
  <2>3. Ones(1) = {0} /\ Ones(2) = {1} /\ Ones(4) = {2} /\ Ones(8) = {3}
    BY <1>2, <1>6, SMTT(30)
  <2>4. \A i \in Position : i = 0 \/ i = 1 \/ i = 2 \/ i = 3
    BY <2>1, SMTT(30)
  <2>5. \A i \in Position : Row(Identity, i) \in 0 .. 15 /\ Ones(Row(Identity, i)) = {i}
    <3>1. /\ Row(Identity, 0) = 1 /\ Row(Identity, 1) = 2
          /\ Row(Identity, 2) = 4 /\ Row(Identity, 3) = 8
      BY <2>1, <2>2, SMTT(30)
    <3>2. 1 \in 0 .. 15 /\ 2 \in 0 .. 15 /\ 4 \in 0 .. 15 /\ 8 \in 0 .. 15
      OBVIOUS
    <3> QED BY <2>3, <2>4, <3>1, <3>2, ZenonT(60)
  <2>6. Identity \in Matrix
    <3>1. 33825 \in 0 .. 65535
      OBVIOUS
    <3>2. Identity = 33825 /\ Matrix = 0 .. 65535
      BY <2>1, SMTT(30)
    <3> QED BY <3>1, <3>2, SMTT(30)
  <2> QED BY <2>5, <2>6
<1> QED BY <1>1, <1>3, <1>4, <1>5, <1>6

LEMMA IdentityImage ==
  /\ Identity \in GeneralLinear
  /\ \A x \in Lane : Image[Identity][x] = x
<1>1. ASSUME NEW x \in Lane PROVE ApplyMatrix(Identity, x) = x
  <2>1. ASSUME NEW i \in Position PROVE Odd(Ones(Row(Identity, i)) \cap Ones(x)) <=> i \in Ones(x)
    <3>1. Ones(Row(Identity, i)) = {i}
      BY IdentityRows
    <3>2. CASE i \in Ones(x)
      <4>1. {i} \cap Ones(x) = {i} /\ Cardinality({i}) = 1
        BY <3>2, FS_Singleton
      <4>2. Odd({i})
        BY <4>1 DEF Odd
      <4> QED BY <3>1, <3>2, <4>1, <4>2
    <3>3. CASE i \notin Ones(x)
      <4>1. {i} \cap Ones(x) = {}
        BY <3>3
      <4> QED BY <3>1, <3>3, <4>1, OddOfNothing
    <3> QED BY <3>2, <3>3
  <2>2. {i \in Position : Odd(Ones(Row(Identity, i)) \cap Ones(x))} = Ones(x)
    BY <2>1 DEF Ones
  <2> QED BY <2>2, LaneOfItsOnes DEF ApplyMatrix
<1>2. {ApplyMatrix(Identity, x) : x \in Lane} = Lane
  BY <1>1
<1>3. Identity \in GeneralLinear
  BY <1>2, IdentityRows DEF GeneralLinear, Invertible
<1> QED BY <1>1, <1>3, ImageOf

LEMMA MapsExist == [matrix |-> Identity, exchange |-> FALSE] \in GaugeMaps
<1> DEFINE m == [matrix |-> Identity, exchange |-> FALSE]
<1>1. \A x, y \in Lane : ~ChangeSign(Identity, FALSE, x, y)
  BY IdentityImage DEF ChangeSign
<1>2. Change(Identity, FALSE) = {}
  <2>1. {} \in Vectors
    BY DEF Vectors
  <2> QED BY <1>1, <2>1, ChangeAt, SameVector
<1>3. IsGauge({})
  <2>1. {} \in Vectors /\ {} \in GaugeVectors
    BY GaugeVectorsAreSpace DEF Vectors, Space
  <2> QED BY <2>1, GaugeIsMember
<1>4. m \in [matrix : GeneralLinear, exchange : BOOLEAN] /\ m.matrix = Identity /\ m.exchange = FALSE
  BY IdentityImage
<1> HIDE DEF m
<1>5. m \in GaugeMaps
  BY <1>2, <1>3, <1>4 DEF GaugeMaps
<1> QED BY <1>5 DEF m

-----------------------------------------------------------------------------
(* The merging of the atlas is that of UnionFind, and stays in the orbits. *)

Typed ==
  /\ parent \in [Key -> Key] /\ left \in Key /\ right \in Key
  /\ phase = "merge" => count \in 0 .. Len(maps) * Len(KeySeq) - 1

LEMMA MapsAreMany ==
  ASSUME Loops, phase \in {"merge", "last", "done"}
  PROVE  Len(maps) \in Nat /\ Len(maps) > 0 /\ Len(maps) * Len(KeySeq) \in Nat /\ Len(maps) * Len(KeySeq) > 0
<1>1. maps \in Seq(GaugeMaps) /\ ToSet(maps) = GaugeMaps
  BY DEF Loops, Admitting
<1>2. ToSet(maps) # {}
  BY <1>1, MapsExist
<1>3. Len(maps) \in Nat /\ Len(maps) # 0
  BY <1>1, <1>2, SetOf
<1> DEFINE L == Len(KeySeq)
           M == Len(maps)
<1>4. L \in Nat /\ L > 0 /\ M \in Nat /\ M > 0
  BY <1>3, KeysInOrder
<1> HIDE DEF L, M
<1>5. M * L \in Nat /\ M * L > 0
  BY <1>4
<1> QED BY <1>4, <1>5 DEF L, M

\* Quotient and remainder of a count below a product.
LEMMA Quotient ==
  ASSUME NEW M \in Nat, NEW L \in Nat, L > 0, NEW c \in 0 .. M * L - 1
  PROVE  c \div L \in 0 .. M - 1 /\ c % L \in 0 .. L - 1 /\ c = (c \div L) * L + (c % L)
<1>0. M * L \in Nat
  OBVIOUS
<1>1. c \in Nat /\ c < M * L
  BY <1>0
<1> DEFINE q == c \div L
           r == c % L
<1>2. c = q * L + r
  BY <1>1, DivMod
<1>3. q \in Nat /\ r \in 0 .. L - 1
  BY <1>1
<1> HIDE DEF q, r
<1>4. q < M
  <2> SUFFICES ASSUME q >= M PROVE FALSE
    BY <1>3
  <2>1. q * L >= M * L
    <3>1. q - M \in Nat
      BY <1>3
    <3>2. (q - M) * L \in Nat
      BY <3>1
    <3>3. q * L = M * L + (q - M) * L
      BY <1>3
    <3> QED BY <1>0, <3>2, <3>3
  <2> QED BY <1>0, <1>1, <1>2, <1>3, <2>1
<1>5. q \in 0 .. M - 1
  BY <1>3, <1>4
<1> QED BY <1>2, <1>3, <1>5 DEF q, r

LEMMA CurrentIs ==
  ASSUME Loops, Typed, phase = "merge"
  PROVE  /\ CurrentMap \in GaugeMaps /\ CurrentKey \in Key
         /\ Moved(CurrentMap, CurrentKey) \in Key
         /\ Moved(CurrentMap, CurrentKey) \in OrbitOf[CurrentKey]
         /\ <<CurrentKey, Moved(CurrentMap, CurrentKey)>> \in Moves
<1> DEFINE L == Len(KeySeq)
           M == Len(maps)
           q == count \div L
           r == count % L
<1>1. M \in Nat /\ L \in Nat /\ L > 0 /\ count \in 0 .. M * L - 1 /\ maps \in Seq(GaugeMaps)
  BY MapsAreMany, KeysInOrder DEF Typed, Loops, Admitting
<1>2. q \in 0 .. M - 1 /\ r \in 0 .. L - 1
  BY <1>1, Quotient
<1>3. CurrentMap = maps[q + 1] /\ CurrentKey = KeySeq[r + 1]
  BY DEF CurrentMap, CurrentKey
<1> HIDE DEF q, r
<1>4. q + 1 \in 1 .. M /\ r + 1 \in 1 .. L
  BY <1>1, <1>2
<1>5. CurrentMap \in GaugeMaps
  BY <1>1, <1>3, <1>4
<1>6. CurrentKey \in Key
  BY <1>3, <1>4, KeysInOrder
<1> QED BY <1>5, <1>6, MovedIsKey, MovedStays DEF Moves

LEMMA MergeKeepsTyped ==
  ASSUME Loops, Typed, Merge
  PROVE  Typed'
<1>t. parent \in [Key -> Key] /\ left \in Key /\ right \in Key
  BY DEF Typed
<1>m. phase = "merge" => count \in 0 .. Len(maps) * Len(KeySeq) - 1
  BY DEF Typed
<1>1. CASE Take
  <2>1. phase = "merge" /\ left' = CurrentKey /\ right' = Moved(CurrentMap, CurrentKey) /\ parent' = parent
    BY <1>1 DEF Take
  <2>2. left' \in Key /\ right' \in Key
    BY <2>1, CurrentIs
  <2> DEFINE T == Len(maps) * Len(KeySeq)
  <2>3. count \in 0 .. T - 1
    BY <1>m, <2>1
  <2>4. /\ count' = IF count + 1 = T THEN 0 ELSE count + 1
        /\ phase' = IF count + 1 = T THEN "last" ELSE phase
        /\ maps' = maps
    BY <1>1 DEF Take, Count
  <2>5. T \in Nat
    BY <2>1, MapsAreMany
  <2> HIDE DEF T
  <2>6. phase' = "merge" => count' \in 0 .. T - 1
    BY <2>1, <2>3, <2>4, <2>5
  <2> QED BY <1>t, <2>1, <2>2, <2>4, <2>6 DEF Typed, T
<1>2. CASE HalveLeft
  <2>1. parent[left] \in Key /\ parent[parent[left]] \in Key
    BY <1>t
  <2>2. /\ parent' = [parent EXCEPT ![left] = parent[parent[left]]] /\ left' = parent'[left]
        /\ UNCHANGED <<phase, count, maps, right>>
    BY <1>2 DEF HalveLeft
  <2>3. parent' \in [Key -> Key] /\ left' \in Key
    BY <1>t, <2>1, <2>2
  <2> QED BY <1>t, <1>m, <2>2, <2>3 DEF Typed
<1>3. CASE HalveRight
  <2>1. parent[right] \in Key /\ parent[parent[right]] \in Key
    BY <1>t
  <2>2. /\ parent' = [parent EXCEPT ![right] = parent[parent[right]]] /\ right' = parent'[right]
        /\ UNCHANGED <<phase, count, maps, left>>
    BY <1>3 DEF HalveRight
  <2>3. parent' \in [Key -> Key] /\ right' \in Key
    BY <1>t, <2>1, <2>2
  <2> QED BY <1>t, <1>m, <2>2, <2>3 DEF Typed
<1>4. CASE Link
  <2>1. parent' = [parent EXCEPT ![left] = right] /\ left' = right /\ UNCHANGED <<phase, count, maps, right>>
    BY <1>4 DEF Link
  <2>2. parent' \in [Key -> Key] /\ left' \in Key
    BY <1>t, <2>1
  <2> QED BY <1>t, <1>m, <2>1, <2>2 DEF Typed
<1>5. CASE Number
  <2>1. phase' = "done" /\ UNCHANGED <<parent, left, right>>
    BY <1>5 DEF Number, forest
  <2> QED BY <1>t, <2>1 DEF Typed
<1> QED BY <1>1, <1>2, <1>3, <1>4, <1>5 DEF Merge

LEMMA InitTyped == AtlasInit => Typed
BY KeysInOrder DEF AtlasInit, Typed

LEMMA StepTyped == Loops /\ Typed /\ [AtlasNext]_atlasVars /\ Loops' => Typed'
<1> SUFFICES ASSUME Loops, Typed, [AtlasNext]_atlasVars, Loops' PROVE Typed'
  OBVIOUS
<1>1. CASE SpanStep
  <2>1. phase' # "merge" /\ UNCHANGED <<parent, left, right>>
    BY <1>1 DEF SpanStep, Count, forest
  <2> QED BY <2>1 DEF Typed
<1>2. CASE ActionStep
  <2>1. UNCHANGED <<parent, left, right>> /\ (phase' = "merge" => count' = 0)
    BY <1>2 DEF ActionStep, Count, forest
  <2>2. ASSUME phase' = "merge" PROVE 0 \in 0 .. Len(maps') * Len(KeySeq) - 1
    <3>1. maps' \in Seq(GaugeMaps) /\ ToSet(maps') = GaugeMaps
      BY <2>2 DEF Loops, Admitting
    <3> DEFINE M == Len(maps')
               L == Len(KeySeq)
    <3>2. ToSet(maps') # {}
      BY <3>1, MapsExist
    <3>3. M \in Nat /\ M > 0 /\ L \in Nat /\ L > 0
      BY <3>1, <3>2, SetOf, KeysInOrder
    <3> HIDE DEF M, L
    <3>4. M * L \in Nat /\ M * L > 0
      BY <3>3
    <3> QED BY <3>4 DEF M, L
  <2> QED BY <2>1, <2>2 DEF Typed
<1>3. CASE Merge
  BY <1>3, MergeKeepsTyped
<1>4. CASE UNCHANGED atlasVars
  BY <1>4 DEF atlasVars, forest, Typed
<1> QED BY <1>1, <1>2, <1>3, <1>4 DEF AtlasNext

LEMMA AlwaysTyped == AtlasSpec => []Typed
<1> QED BY AlwaysLoops, InitTyped, StepTyped, PTL DEF AtlasSpec

-----------------------------------------------------------------------------
\* Every step of the atlas is one of the merging, or leaves the forest alone.
LEMMA StepMerges ==
  ASSUME Loops, Typed, [AtlasNext]_atlasVars
  PROVE  [Merging!Next]_Merging!vars
<1>1. CASE SpanStep
  BY <1>1 DEF SpanStep, forest, Merging!vars
<1>2. CASE ActionStep
  BY <1>2 DEF ActionStep, forest, Merging!vars
<1>3. CASE Take
  <2>1. /\ phase = "merge" /\ left = right /\ parent[left] = left /\ UNCHANGED parent
        /\ left' = CurrentKey /\ right' = Moved(CurrentMap, CurrentKey)
    BY <1>3 DEF Take
  <2> DEFINE move == <<CurrentKey, Moved(CurrentMap, CurrentKey)>>
  <2>2. move \in Moves /\ left' = move[1] /\ right' = move[2]
    BY <2>1, CurrentIs
  <2> HIDE DEF move
  <2> QED BY <2>1, <2>2 DEF Merging!Next, Merging!Take
<1>4. CASE HalveLeft
  BY <1>4 DEF HalveLeft, Merging!Next, Merging!HalveLeft
<1>5. CASE HalveRight
  BY <1>5 DEF HalveRight, Merging!Next, Merging!HalveRight
<1>6. CASE Link
  BY <1>6 DEF Link, Merging!Next, Merging!Link
<1>7. CASE Number
  BY <1>7 DEF Number, forest, Merging!vars
<1>8. CASE UNCHANGED atlasVars
  BY <1>8 DEF atlasVars, forest, Merging!vars
<1> QED BY <1>1, <1>2, <1>3, <1>4, <1>5, <1>6, <1>7, <1>8 DEF AtlasNext, Merge

LEMMA AlwaysMerges == AtlasSpec => Merging!Spec
<1>1. AtlasInit => Merging!Init
  BY KeysInOrder DEF AtlasInit, Merging!Init
<1>2. Loops /\ Typed /\ [AtlasNext]_atlasVars => [Merging!Next]_Merging!vars
  BY StepMerges
<1> QED BY <1>1, <1>2, AlwaysLoops, AlwaysTyped, PTL DEF AtlasSpec, Merging!Spec

-----------------------------------------------------------------------------
(* Whatever pairs are merged, in whatever order, stays inside orbits.      *)

\* The orbits are what UnionFind asks of an equivalence.
LEMMA OrbitsAreSame == Merging!SameIsClosed
<1>1. \A x, y \in Key : <<x, y>> \in SameOrbit <=> y \in OrbitOf[x]
  BY DEF SameOrbit
<1>2. SameOrbit \subseteq Key \X Key
  BY DEF SameOrbit
<1>3. \A x \in Key : <<x, x>> \in SameOrbit
  BY <1>1, OrbitIsClosed
<1>4. \A x, y \in Key : <<x, y>> \in SameOrbit => <<y, x>> \in SameOrbit
  BY <1>1, OrbitsAreClasses
<1>5. \A x, y, z \in Key : <<x, y>> \in SameOrbit /\ <<y, z>> \in SameOrbit => <<x, z>> \in SameOrbit
  BY <1>1, OrbitsAreClasses
<1>6. Moves \subseteq SameOrbit
  <2> SUFFICES ASSUME NEW key \in Key, NEW map \in GaugeMaps
               PROVE  <<key, Moved(map, key)>> \in SameOrbit
    BY DEF Moves
  <2>1. Moved(map, key) \in Key /\ Moved(map, key) \in OrbitOf[key]
    BY MovedIsKey, MovedStays
  <2> QED BY <1>1, <2>1
<1> QED BY <1>2, <1>3, <1>4, <1>5, <1>6 DEF Merging!SameIsClosed

\* What the forest links is in one orbit, and so is what is searched for.
Inside ==
  /\ \A x \in Key : parent[x] \in OrbitOf[x]
  /\ right \in OrbitOf[left]

Forest == Merging!TypeOK /\ Inside

LEMMA InsideIsSame ==
  ASSUME Merging!TypeOK
  PROVE  Inside <=> Merging!LinksStayInside
<1>1. \A x, y \in Key : <<x, y>> \in SameOrbit <=> y \in OrbitOf[x]
  BY DEF SameOrbit
<1> QED BY <1>1 DEF Merging!TypeOK, Inside, Merging!LinksStayInside

LEMMA InitForest == Merging!Init => Forest
BY OrbitIsClosed DEF Merging!Init, Merging!TypeOK, Forest, Inside

\* A link inside an orbit in the place of another one keeps the forest inside.
LEMMA Linked ==
  ASSUME Forest, NEW x \in Key, NEW y \in Key, y \in OrbitOf[x],
         parent' = [parent EXCEPT ![x] = y]
  PROVE  /\ parent' \in [Key -> Key]
         /\ \A z \in Key : parent'[z] \in OrbitOf[z]
         /\ parent'[x] = y
BY DEF Forest, Merging!TypeOK, Inside

\* A pair of links that follow one another is a link.
LEMMA GrandParent ==
  ASSUME Forest, NEW x \in Key
  PROVE  parent[parent[x]] \in Key /\ parent[parent[x]] \in OrbitOf[x]
<1>1. parent[x] \in Key /\ parent[parent[x]] \in Key
  BY DEF Forest, Merging!TypeOK
<1>2. parent[x] \in OrbitOf[x] /\ parent[parent[x]] \in OrbitOf[parent[x]]
  BY <1>1 DEF Forest, Inside
<1> QED BY <1>1, <1>2, OrbitIsTransitive

LEMMA StepForest == Forest /\ [Merging!Next]_Merging!vars => Forest'
<1> SUFFICES ASSUME Forest, [Merging!Next]_Merging!vars PROVE Forest'
  OBVIOUS
<1>t. parent \in [Key -> Key] /\ left \in Key /\ right \in Key /\ right \in OrbitOf[left]
  BY DEF Forest, Merging!TypeOK, Inside
<1>1. CASE Merging!Take
  <2>1. PICK move \in Moves : left' = move[1] /\ right' = move[2]
    BY <1>1 DEF Merging!Take
  <2>2. PICK key \in Key, map \in GaugeMaps : move = <<key, Moved(map, key)>>
    BY DEF Moves
  <2>3. left' = key /\ right' = Moved(map, key)
    BY <2>1, <2>2
  <2>4. left' \in Key /\ right' \in Key /\ right' \in OrbitOf[left']
    BY <2>3, MovedIsKey, MovedStays
  <2> QED BY <1>1, <2>4 DEF Merging!Take, Forest, Merging!TypeOK, Inside
<1>2. CASE Merging!HalveLeft
  <2> DEFINE up == parent[parent[left]]
  <2>1. up \in Key /\ up \in OrbitOf[left]
    BY <1>t, GrandParent
  <2>2. parent' = [parent EXCEPT ![left] = up] /\ left' = parent'[left] /\ right' = right
    BY <1>2 DEF Merging!HalveLeft
  <2> HIDE DEF up
  <2>3. parent' \in [Key -> Key] /\ (\A z \in Key : parent'[z] \in OrbitOf[z]) /\ left' = up
    BY <1>t, <2>1, <2>2, Linked
  <2>4. right \in OrbitOf[up]
    BY <1>t, <2>1, OrbitsAreClasses
  <2> QED BY <1>t, <2>1, <2>2, <2>3, <2>4 DEF Forest, Merging!TypeOK, Inside
<1>3. CASE Merging!HalveRight
  <2> DEFINE up == parent[parent[right]]
  <2>1. up \in Key /\ up \in OrbitOf[right]
    BY <1>t, GrandParent
  <2>2. parent' = [parent EXCEPT ![right] = up] /\ right' = parent'[right] /\ left' = left
    BY <1>3 DEF Merging!HalveRight
  <2> HIDE DEF up
  <2>3. parent' \in [Key -> Key] /\ (\A z \in Key : parent'[z] \in OrbitOf[z]) /\ right' = up
    BY <1>t, <2>1, <2>2, Linked
  <2>4. up \in OrbitOf[left]
    BY <1>t, <2>1, OrbitsAreClasses
  <2> QED BY <1>t, <2>1, <2>2, <2>3, <2>4 DEF Forest, Merging!TypeOK, Inside
<1>4. CASE Merging!Link
  <2>1. parent' = [parent EXCEPT ![left] = right] /\ left' = right /\ right' = right
    BY <1>4 DEF Merging!Link
  <2>2. parent' \in [Key -> Key] /\ \A z \in Key : parent'[z] \in OrbitOf[z]
    BY <1>t, <2>1, Linked
  <2> QED BY <1>t, <2>1, <2>2, OrbitIsClosed DEF Forest, Merging!TypeOK, Inside
<1>5. CASE UNCHANGED Merging!vars
  BY <1>5 DEF Merging!vars, Forest, Merging!TypeOK, Inside
<1> QED BY <1>1, <1>2, <1>3, <1>4, <1>5 DEF Merging!Next

LEMMA AlwaysForest == Merging!Spec => []Forest
<1> QED BY InitForest, StepForest, PTL DEF Merging!Spec

(***************************************************************************)
(* Whatever the order in which find and union (lines 188-202) are given    *)
(* the pairs that gauge maps make of forms, no parent pointer leaves an    *)
(* orbit, path halving included: classes are never too large.  The orbits  *)
(* are such an equivalence as the abstract merging asks for.               *)
(***************************************************************************)
THEOREM ClassesStayInside == Merging!SameIsClosed /\ (Merging!Spec => []Merging!LinksStayInside)
<1>1. Forest => Merging!LinksStayInside
  BY InsideIsSame DEF Forest
<1> QED BY OrbitsAreSame, AlwaysForest, <1>1, PTL

(***************************************************************************)
(* The union-find (lines 188-202) looks up and links only keys that exist  *)
(* and does nothing but merge pairs that gauge maps make; hence the forest *)
(* and every search stay inside the orbits.                                *)
(***************************************************************************)
THEOREM MergingIsInOrbits == AtlasSpec => MergesOrbits
BY AlwaysMerges, ClassesStayInside, PTL DEF MergesOrbits

LEMMA AlwaysInside == AtlasSpec => []Inside
<1>1. Forest => Inside
  BY DEF Forest
<1> QED BY AlwaysMerges, AlwaysForest, <1>1, PTL

-----------------------------------------------------------------------------
(* The quadratic code, as an integer, tells the keys apart.                *)

Upper == {c \in Position \X Position : c[1] < c[2]}
CellNumber(c) == c[1] * Bits + c[2]

LEMMA CellNumbers ==
  /\ \A c \in Position \X Position : CellNumber(c) \in 0 .. Bits * Bits - 1
  /\ \A c, d \in Position \X Position : CellNumber(c) = CellNumber(d) => c = d
  /\ \A c \in Upper : CellNumber(c) + Bits < Bits * Bits
<1>1. \A c \in Position \X Position :
        CellNumber(c) \in 0 .. Bits * Bits - 1 /\ c = <<CellNumber(c) \div Bits, CellNumber(c) % Bits>>
  BY CellOfBit DEF CellNumber
<1>2. ASSUME NEW c \in Upper PROVE CellNumber(c) + Bits < Bits * Bits
  <2>1. PICK i \in Position, j \in Position : CellNumber(c) = i * Bits + j /\ i < j
    BY DEF Upper, CellNumber
  <2>2. Bits \in {1, 2, 3, 4} /\ Position = 0 .. Bits - 1
    BY Widths DEF Position
  <2> QED BY <2>1, <2>2
<1> QED BY <1>1, <1>2

\* Where a bit of the quadratic code goes is a place of its own.
LEMMA BitsApart ==
  LET Triangle == {c \in Position \X Position : c[1] <= c[2]}
  IN  /\ \A c \in Triangle : QuadraticBit(c) \in 0 .. 15
      /\ \A c, d \in Triangle : QuadraticBit(c) = QuadraticBit(d) => c = d
<1> DEFINE Triangle == {c \in Position \X Position : c[1] <= c[2]}
           less(c) == {d \in Upper : CellNumber(d) < CellNumber(c)}
<1>1. Position \subseteq 0 .. 3 /\ Bits \in {1, 2, 3, 4} /\ Position = 0 .. Bits - 1
  BY Widths DEF Position
<1>2. ASSUME NEW c \in Position \X Position
      PROVE  /\ IsFiniteSet(less(c)) /\ Cardinality(less(c)) \in Nat
             /\ Cardinality(less(c)) <= CellNumber(c)
  <2> DEFINE n == CellNumber(c)
             f == [d \in less(c) |-> CellNumber(d)]
  <2>1. n \in Nat
    BY CellNumbers
  <2>2. IsFiniteSet(0 .. n - 1) /\ Cardinality(0 .. n - 1) = n
    BY <2>1, FS_Interval, SMTT(30)
  <2>3. f \in [less(c) -> 0 .. n - 1]
    <3>1. \A d \in less(c) : CellNumber(d) \in Nat /\ CellNumber(d) < n
      BY CellNumbers DEF Upper
    <3> HIDE DEF n
    <3> QED BY <2>1, <3>1
  <2>4. \A d, e \in less(c) : f[d] = f[e] => d = e
    BY CellNumbers DEF Upper
  <2> HIDE DEF f, n, less
  <2>5. f \in Injection(less(c), 0 .. n - 1)
    BY <2>3, <2>4, Zenon DEF Injection, IsInjective
  <2>6. IsFiniteSet(less(c)) /\ Cardinality(less(c)) <= Cardinality(0 .. n - 1)
    BY <2>2, <2>5, FS_Injection
  <2> QED BY <2>2, <2>6, FS_CardinalityType DEF n
<1>3. \A c : QuadraticBit(c) = IF c[1] = c[2] THEN c[1] ELSE Bits + Cardinality(less(c))
  <2>1. \A c : less(c) = {d \in Position \X Position : d[1] < d[2] /\ d[1] * Bits + d[2] < c[1] * Bits + c[2]}
    BY DEF Upper, CellNumber
  <2> HIDE DEF less
  <2> QED BY <2>1 DEF QuadraticBit
<1>4. ASSUME NEW c \in Triangle, c[1] = c[2] PROVE QuadraticBit(c) = c[1] /\ QuadraticBit(c) \in 0 .. Bits - 1
  BY <1>1, <1>3, <1>4
<1>5. ASSUME NEW c \in Triangle, c[1] # c[2]
      PROVE  c \in Upper /\ QuadraticBit(c) = Bits + Cardinality(less(c)) /\ QuadraticBit(c) \in Bits .. 15
  <2>1. c \in Upper /\ c \in Position \X Position
    BY <1>1, <1>5 DEF Upper
  <2>2. QuadraticBit(c) = Bits + Cardinality(less(c))
    BY <1>3, <1>5
  <2>3. Cardinality(less(c)) \in Nat /\ Cardinality(less(c)) <= CellNumber(c)
    BY <1>2, <2>1
  <2>4. CellNumber(c) \in Nat /\ CellNumber(c) + Bits < Bits * Bits /\ Bits * Bits \in 1 .. 16
    BY <2>1, CellNumbers, CellOfBit
  <2> HIDE DEF less
  <2> QED BY <1>1, <2>1, <2>2, <2>3, <2>4
<1>6. \A c \in Triangle : QuadraticBit(c) \in 0 .. 15
  <2> SUFFICES ASSUME NEW c \in Triangle PROVE QuadraticBit(c) \in 0 .. 15
    OBVIOUS
  <2>1. CASE c[1] = c[2]
    <3>1. QuadraticBit(c) \in 0 .. Bits - 1
      BY <1>4, <2>1
    <3> QED BY <1>1, <3>1, SMTT(30)
  <2>2. CASE c[1] # c[2]
    <3>1. QuadraticBit(c) \in Bits .. 15
      BY <1>5, <2>2
    <3> QED BY <1>1, <3>1, SMTT(30)
  <2> QED BY <2>1, <2>2
<1>7. ASSUME NEW c \in Upper, NEW d \in Upper, CellNumber(c) < CellNumber(d)
      PROVE  Cardinality(less(c)) # Cardinality(less(d))
  <2>1. c \in Position \X Position /\ d \in Position \X Position
    BY DEF Upper
  <2>2. IsFiniteSet(less(d))
    BY <1>2, <2>1
  <2>3. \A e \in Upper : CellNumber(e) \in Int
    BY CellNumbers DEF Upper
  <2>4. less(c) \in SUBSET less(d)
    BY <1>7, <2>3
  <2>5. c \in less(d) /\ c \notin less(c)
    BY <1>7, <2>3
  <2>6. less(d) # less(c)
    BY <2>5
  <2> HIDE DEF less
  <2> QED BY <2>2, <2>4, <2>6, FS_Subset
<1>8. ASSUME NEW c \in Triangle, NEW d \in Triangle, QuadraticBit(c) = QuadraticBit(d) PROVE c = d
  <2>1. CASE c[1] = c[2] /\ d[1] = d[2]
    <3>1. c[1] = d[1]
      BY <1>4, <1>8, <2>1
    <3>2. c = <<c[1], c[2]>> /\ d = <<d[1], d[2]>>
      OBVIOUS
    <3>3. c[2] = d[2]
      BY <2>1, <3>1
    <3> QED BY <3>1, <3>2, <3>3, Zenon
  <2>2. CASE c[1] # c[2] /\ d[1] # d[2]
    <3>1. c \in Upper /\ d \in Upper /\ Bits + Cardinality(less(c)) = Bits + Cardinality(less(d))
      BY <1>5, <1>8, <2>2
    <3>2. Cardinality(less(c)) \in Nat /\ Cardinality(less(d)) \in Nat
      BY <1>2
    <3> HIDE DEF less
    <3>3. Cardinality(less(c)) = Cardinality(less(d))
      BY <1>1, <3>1, <3>2
    <3>4. CellNumber(c) \in Int /\ CellNumber(d) \in Int
      BY CellNumbers
    <3>5. CellNumber(c) = CellNumber(d)
      BY <1>7, <3>1, <3>3, <3>4
    <3> QED BY <3>5, CellNumbers
  <2>3. CASE c[1] = c[2] /\ d[1] # d[2]
    <3>1. QuadraticBit(c) \in 0 .. Bits - 1 /\ QuadraticBit(d) \in Bits .. 15
      BY <1>4, <1>5, <2>3
    <3> QED BY <1>1, <1>8, <3>1
  <2>4. CASE c[1] # c[2] /\ d[1] = d[2]
    <3>1. QuadraticBit(d) \in 0 .. Bits - 1 /\ QuadraticBit(c) \in Bits .. 15
      BY <1>4, <1>5, <2>4
    <3> QED BY <1>1, <1>8, <3>1
  <2> QED BY <2>1, <2>2, <2>3, <2>4
<1> QED BY <1>6, <1>8

\* Sets of places with one number are the same.
LEMMA PlacesOfNumber ==
  ASSUME NEW A, NEW B, CodeNumber(A) = CodeNumber(B), NEW n \in 0 .. 15
  PROVE  Place(n) \in A <=> Place(n) \in B
<1>1. Bit(CodeNumber(A), n) = IF Place(n) \in A THEN 1 ELSE 0
  BY NumberBits DEF Place
<1>2. Bit(CodeNumber(B), n) = IF Place(n) \in B THEN 1 ELSE 0
  BY NumberBits DEF Place
<1> QED BY <1>1, <1>2

LEMMA PlacesApart ==
  ASSUME NEW m \in 0 .. 15, NEW n \in 0 .. 15, Place(m) = Place(n)
  PROVE  m = n
<1>1. m = (m \div Bits) * Bits + (m % Bits) /\ n = (n \div Bits) * Bits + (n % Bits)
  BY CellOfBit
<1>2. m \div Bits = n \div Bits /\ m % Bits = n % Bits
  BY DEF Place
<1> QED BY <1>1, <1>2

LEMMA NumberTellsQuadratic ==
  ASSUME NEW c \in Code, NEW d \in Code, QuadraticNumber(c) = QuadraticNumber(d)
  PROVE  QuadraticCode(c) = QuadraticCode(d)
<1> DEFINE Triangle == {x \in Position \X Position : x[1] <= x[2]}
           A(e) == {Place(QuadraticBit(x)) : x \in QuadraticCode(e)}
<1>1. \A e : QuadraticCode(e) \subseteq Triangle
  <2>1. Position \subseteq 0 .. 3
    BY Widths
  <2> QED BY <2>1 DEF QuadraticCode
<1>2. /\ \A x \in Triangle : QuadraticBit(x) \in 0 .. 15
      /\ \A x, y \in Triangle : QuadraticBit(x) = QuadraticBit(y) => x = y
  BY BitsApart
<1> HIDE DEF Triangle
<1>3. ASSUME NEW x \in Triangle, NEW e PROVE Place(QuadraticBit(x)) \in A(e) <=> x \in QuadraticCode(e)
  <2>1. ASSUME NEW y \in QuadraticCode(e), Place(QuadraticBit(x)) = Place(QuadraticBit(y)) PROVE x = y
    <3>1. y \in Triangle
      BY <1>1
    <3>2. QuadraticBit(x) \in 0 .. 15 /\ QuadraticBit(y) \in 0 .. 15
      BY <1>2, <3>1
    <3>3. QuadraticBit(x) = QuadraticBit(y)
      BY <2>1, <3>2, PlacesApart
    <3> QED BY <1>2, <3>1, <3>3
  <2> QED BY <2>1
<1>4. CodeNumber(A(c)) = CodeNumber(A(d))
  BY DEF QuadraticNumber
<1> HIDE DEF A
<1>5. \A x \in Triangle : Place(QuadraticBit(x)) \in A(c) <=> Place(QuadraticBit(x)) \in A(d)
  BY <1>2, <1>4, PlacesOfNumber
<1> QED BY <1>1, <1>3, <1>5

LEMMA QuadraticTellsKey ==
  ASSUME NEW c \in Code, NEW d \in Code, QuadraticCode(c) = QuadraticCode(d)
  PROVE  Diagonal(c) = Diagonal(d)
<1> DEFINE E == SymDiff(c, d)
<1>1. E \in Code /\ IsAlternating(E)
  BY DifferenceIsAlternating DEF SymDiff
<1>2. Diagonal(E) = {}
  BY <1>1, AlternatingVanishes DEF Diagonal
<1>3. Diagonal(E) = SymDiff(Diagonal(c), Diagonal(d))
  BY DiagonalsAdd
<1> QED BY <1>2, <1>3 DEF SymDiff

LEMMA QuadraticOfKey ==
  /\ \A key \in Key : QuadraticOf[key] \in Nat
  /\ \A k, l \in Key : QuadraticOf[k] = QuadraticOf[l] => k = l
<1>1. ASSUME NEW key \in Key
      PROVE  Representative[key] \in Code /\ Diagonal(Representative[key]) = key
  <2> DEFINE codes == {code \in Code : Diagonals[code] = key}
             S == {CodeNumber(code) : code \in codes}
  <2>1. Representative[key] = CHOOSE code \in codes : \A other \in codes : CodeNumber(code) <= CodeNumber(other)
    BY DEF Representative
  <2>2. codes # {}
    BY DEF Key
  <2>3. S \in SUBSET Nat /\ S # {}
    BY <2>2, NumberBits
  <2>4. PICK n \in S : \A m \in S : n <= m
    <3> HIDE DEF S
    <3> QED BY <2>3, LeastElement
  <2>5. \E code \in codes : \A other \in codes : CodeNumber(code) <= CodeNumber(other)
    BY <2>4
  <2> HIDE DEF codes
  <2>6. Representative[key] \in codes
    BY <2>1, <2>5
  <2> QED BY <2>6 DEF codes, Diagonals
<1>2. \A key \in Key : QuadraticOf[key] = QuadraticNumber(Representative[key])
  BY DEF QuadraticOf
<1>3. \A code : QuadraticNumber(code) \in Nat
  BY NumberBits DEF QuadraticNumber
<1>4. ASSUME NEW k \in Key, NEW l \in Key, QuadraticOf[k] = QuadraticOf[l] PROVE k = l
  <2>1. QuadraticCode(Representative[k]) = QuadraticCode(Representative[l])
    BY <1>1, <1>2, <1>4, NumberTellsQuadratic
  <2>2. Diagonal(Representative[k]) = Diagonal(Representative[l])
    BY <1>1, <2>1, QuadraticTellsKey
  <2> QED BY <1>1, <2>2
<1> QED BY <1>2, <1>3, <1>4

-----------------------------------------------------------------------------
(* Every key has a root, and the pairs merged so far have theirs in common. *)

PairKey(n) == KeySeq[(n % Len(KeySeq)) + 1]
PairMoved(n) == Moved(maps[(n \div Len(KeySeq)) + 1], PairKey(n))

\* The pairs taken so far.
TakenPairs ==
  IF phase = "merge" THEN count
  ELSE IF phase \in {"last", "done"} THEN Len(maps) * Len(KeySeq)
  ELSE 0

\* root leads every key to the root of its tree, depth decreases on the way.
Trees(root, depth) ==
  \A x \in Key :
    /\ root[parent[x]] = root[x]
    /\ parent[root[x]] = root[x]
    /\ parent[x] = x => root[x] = x
    /\ parent[x] # x => depth[parent[x]] < depth[x]
    /\ root[x] \in OrbitOf[x]

\* The last pair taken is on its way: left and right stand for its keys.
Together(root) ==
  \A n \in 0 .. TakenPairs - 1 :
    IF n = TakenPairs - 1
    THEN root[PairKey(n)] = root[left] /\ root[PairMoved(n)] = root[right]
    ELSE root[PairKey(n)] = root[PairMoved(n)]

Grouped ==
  \E root \in [Key -> Key], depth \in [Key -> Nat] : Trees(root, depth) /\ Together(root)

LEMMA InitGrouped == AtlasInit => Grouped
<1> SUFFICES ASSUME AtlasInit PROVE Grouped
  OBVIOUS
<1> DEFINE root == [key \in Key |-> key]
           depth == [key \in Key |-> 0]
<1>1. parent = root /\ TakenPairs = 0
  BY DEF AtlasInit, TakenPairs
<1>2. Trees(root, depth)
  BY <1>1, OrbitIsClosed DEF Trees
<1>3. Together(root)
  BY <1>1 DEF Together
<1>4. root \in [Key -> Key] /\ depth \in [Key -> Nat]
  OBVIOUS
<1> HIDE DEF root, depth
<1> QED BY <1>2, <1>3, <1>4 DEF Grouped

\* A key hung under its grandparent stays in its tree.
LEMMA HalvedTrees ==
  ASSUME Typed, NEW root \in [Key -> Key], NEW depth \in [Key -> Nat], Trees(root, depth),
         NEW x \in Key, parent[x] # x, parent' = [parent EXCEPT ![x] = parent[parent[x]]]
  PROVE  /\ Trees(root, depth)'
         /\ parent'[x] \in Key /\ root[parent'[x]] = root[x]
<1> DEFINE y == parent[x]
           z == parent[parent[x]]
<1>1. parent \in [Key -> Key] /\ y \in Key /\ z \in Key
  BY DEF Typed
<1>2. \A k \in Key : /\ root[parent[k]] = root[k]
                     /\ parent[root[k]] = root[k]
                     /\ parent[k] = k => root[k] = k
                     /\ parent[k] # k => depth[parent[k]] < depth[k]
                     /\ root[k] \in OrbitOf[k]
  BY DEF Trees
<1>3. root[z] = root[x]
  BY <1>1, <1>2
<1>4. depth[z] < depth[x]
  <2>1. depth[y] < depth[x] /\ (z = y \/ depth[z] < depth[y])
    BY <1>1, <1>2
  <2>2. depth[x] \in Nat /\ depth[y] \in Nat /\ depth[z] \in Nat
    BY <1>1
  <2> QED BY <2>1, <2>2
<1>5. z # x
  <2>1. depth[x] \in Nat /\ depth[z] \in Nat
    BY <1>1
  <2> QED BY <1>4, <2>1
<1> HIDE DEF y, z
<1>6. /\ parent'[x] = z
      /\ \A k \in Key : k # x => parent'[k] = parent[k]
  BY <1>1 DEF z
<1>7. ASSUME NEW k \in Key
      PROVE  /\ root[parent'[k]] = root[k]
             /\ parent'[root[k]] = root[k]
             /\ parent'[k] = k => root[k] = k
             /\ parent'[k] # k => depth[parent'[k]] < depth[k]
             /\ root[k] \in OrbitOf[k]
  <2>1. root[k] # x
    BY <1>2
  <2>2. root[k] \in Key
    OBVIOUS
  <2>3. parent'[root[k]] = root[k]
    BY <1>2, <1>6, <2>1, <2>2
  <2>4. CASE k = x
    BY <1>2, <1>3, <1>4, <1>5, <1>6, <2>3, <2>4
  <2>5. CASE k # x
    BY <1>2, <1>6, <2>3, <2>5
  <2> QED BY <2>4, <2>5
<1> QED BY <1>1, <1>3, <1>6, <1>7 DEF Trees

\* A root hung under another takes its tree along.
LEMMA LinkedTrees ==
  ASSUME Typed, Inside, NEW root \in [Key -> Key], NEW depth \in [Key -> Nat], Trees(root, depth),
         parent[left] = left, parent[right] = right, left # right,
         parent' = [parent EXCEPT ![left] = right],
         NEW root2, root2 = [x \in Key |-> IF root[x] = left THEN right ELSE root[x]],
         NEW depth2, depth2 = [x \in Key |-> IF root[x] = left THEN depth[x] + depth[right] + 1 ELSE depth[x]]
  PROVE  /\ root2 \in [Key -> Key] /\ depth2 \in [Key -> Nat]
         /\ Trees(root2, depth2)'
<1>1. parent \in [Key -> Key] /\ left \in Key /\ right \in Key /\ right \in OrbitOf[left]
  BY DEF Typed, Inside
<1>2. \A k \in Key : /\ root[parent[k]] = root[k]
                     /\ parent[root[k]] = root[k]
                     /\ parent[k] = k => root[k] = k
                     /\ parent[k] # k => depth[parent[k]] < depth[k]
                     /\ root[k] \in OrbitOf[k]
  BY DEF Trees
<1>3. root[left] = left /\ root[right] = right
  BY <1>1, <1>2
<1>4. \A k \in Key : depth[k] \in Nat /\ root[k] \in Key /\ parent[k] \in Key
  BY <1>1
<1>5. root2 \in [Key -> Key] /\ depth2 \in [Key -> Nat]
  BY <1>1, <1>4
<1>6. \A k \in Key : /\ root2[k] = IF root[k] = left THEN right ELSE root[k]
                     /\ depth2[k] = IF root[k] = left THEN depth[k] + depth[right] + 1 ELSE depth[k]
  OBVIOUS
<1>7. /\ parent'[left] = right
      /\ \A k \in Key : k # left => parent'[k] = parent[k]
  BY <1>1
<1>8. ASSUME NEW k \in Key
      PROVE  /\ root2[parent'[k]] = root2[k]
             /\ parent'[root2[k]] = root2[k]
             /\ parent'[k] = k => root2[k] = k
             /\ parent'[k] # k => depth2[parent'[k]] < depth2[k]
             /\ root2[k] \in OrbitOf[k]
  <2>1. root2[k] \in OrbitOf[k]
    <3>1. CASE root[k] = left
      <4>1. left \in OrbitOf[k]
        BY <1>2, <3>1
      <4> QED BY <1>1, <1>6, <3>1, <4>1, OrbitIsTransitive
    <3>2. CASE root[k] # left
      BY <1>2, <1>6, <3>2
    <3> QED BY <3>1, <3>2
  <2>2. parent'[root2[k]] = root2[k]
    BY <1>1, <1>2, <1>4, <1>6, <1>7
  <2>3. CASE k = left
    <3>1. root2[right] = right /\ root2[left] = right
      BY <1>1, <1>3, <1>6
    <3>2. depth2[right] < depth2[left]
      BY <1>1, <1>3, <1>4, <1>6
    <3> QED BY <1>7, <2>1, <2>2, <2>3, <3>1, <3>2
  <2>4. CASE k # left
    <3>1. parent'[k] = parent[k] /\ parent[k] \in Key /\ root[parent[k]] = root[k]
      BY <1>2, <1>4, <1>7, <2>4
    <3>2. root2[parent[k]] = root2[k]
      BY <1>6, <3>1
    <3>3. parent[k] = k => root2[k] = k
      BY <1>2, <1>6, <2>4
    <3>4. parent[k] # k => depth2[parent[k]] < depth2[k]
      <4>1. parent[k] # k => depth[parent[k]] < depth[k]
        BY <1>2
      <4>2. depth[k] \in Nat /\ depth[parent[k]] \in Nat /\ depth[right] \in Nat
        BY <1>1, <1>4
      <4>3. CASE root[k] = left
        BY <1>6, <3>1, <4>1, <4>2, <4>3
      <4>4. CASE root[k] # left
        BY <1>6, <3>1, <4>1, <4>2, <4>4
      <4> QED BY <4>3, <4>4
    <3> QED BY <2>1, <2>2, <3>1, <3>2, <3>3, <3>4
  <2> QED BY <2>3, <2>4
<1>9. Trees(root2, depth2)'
  BY <1>8 DEF Trees
<1> QED BY <1>5, <1>9

\* Before the next pair is taken, the last one is merged.
LEMMA LastIsTogether ==
  ASSUME NEW root, Together(root), left = right
  PROVE  \A n \in 0 .. TakenPairs - 1 : root[PairKey(n)] = root[PairMoved(n)]
BY DEF Together

LEMMA TakenIsNatural ==
  ASSUME Loops, Typed
  PROVE  TakenPairs \in Nat
BY MapsAreMany DEF Loops, Phase, Typed, TakenPairs

LEMMA TakeGroups ==
  ASSUME Loops, Typed, Take, NEW root, Together(root)
  PROVE  Together(root)'
<1> DEFINE T == Len(maps) * Len(KeySeq)
           t == TakenPairs
<1>1. /\ phase = "merge" /\ left = right /\ left' = CurrentKey /\ right' = Moved(CurrentMap, CurrentKey)
      /\ maps' = maps
      /\ count' = IF count + 1 = T THEN 0 ELSE count + 1
      /\ phase' = IF count + 1 = T THEN "last" ELSE phase
  BY DEF Take, Count
<1>2. t = count /\ t \in 0 .. T - 1 /\ T \in Nat
  BY <1>1, MapsAreMany DEF Typed, TakenPairs
<1>3. TakenPairs' = t + 1
  <2>1. CASE count + 1 = T
    <3>1. TakenPairs' = Len(maps') * Len(KeySeq)
      BY <1>1, <2>1 DEF TakenPairs
    <3> QED BY <1>1, <1>2, <2>1, <3>1
  <2>2. CASE count + 1 # T
    <3>1. phase' = "merge" /\ count' = count + 1
      BY <1>1, <2>2
    <3>2. TakenPairs' = count'
      BY <3>1 DEF TakenPairs
    <3> QED BY <1>2, <3>1, <3>2
  <2> QED BY <2>1, <2>2
<1>4. \A n : PairKey(n)' = PairKey(n) /\ PairMoved(n)' = PairMoved(n)
  BY <1>1 DEF PairKey, PairMoved
<1>5. PairKey(t) = left' /\ PairMoved(t) = right'
  BY <1>1, <1>2 DEF PairKey, PairMoved, CurrentKey, CurrentMap
<1>6. \A n \in 0 .. t - 1 : root[PairKey(n)] = root[PairMoved(n)]
  BY <1>1, LastIsTogether
<1> HIDE DEF t, T
<1>7. ASSUME NEW n \in 0 .. TakenPairs' - 1
      PROVE  IF n = TakenPairs' - 1
             THEN root[PairKey(n)'] = root[left'] /\ root[PairMoved(n)'] = root[right']
             ELSE root[PairKey(n)'] = root[PairMoved(n)']
  <2>1. TakenPairs' - 1 = t /\ n \in 0 .. t
    BY <1>2, <1>3
  <2>2. PairKey(n)' = PairKey(n) /\ PairMoved(n)' = PairMoved(n)
    BY <1>4
  <2>3. CASE n = t
    BY <1>5, <2>1, <2>2, <2>3
  <2>4. CASE n # t
    <3>1. n \in 0 .. t - 1
      BY <1>2, <2>1, <2>4
    <3> QED BY <1>6, <2>1, <2>2, <2>4, <3>1
  <2> QED BY <2>3, <2>4
<1> QED BY <1>7 DEF Together

\* As long as the pairs taken are the same, only the ends of the last one move.
LEMMA SamePairs ==
  ASSUME UNCHANGED <<phase, count, maps>>, NEW root, Together(root), NEW root2,
         \A k, l : root[k] = root[l] => root2[k] = root2[l],
         \A k : root[k] = root[left] => root2[k] = root2[left'],
         \A k : root[k] = root[right] => root2[k] = root2[right']
  PROVE  Together(root2)'
<1>1. TakenPairs' = TakenPairs
  BY DEF TakenPairs
<1>2. \A n : PairKey(n)' = PairKey(n) /\ PairMoved(n)' = PairMoved(n)
  BY DEF PairKey, PairMoved
<1>3. ASSUME NEW n \in 0 .. TakenPairs' - 1
      PROVE  IF n = TakenPairs' - 1
             THEN root2[PairKey(n)'] = root2[left'] /\ root2[PairMoved(n)'] = root2[right']
             ELSE root2[PairKey(n)'] = root2[PairMoved(n)']
  <2>1. IF n = TakenPairs - 1
        THEN root[PairKey(n)] = root[left] /\ root[PairMoved(n)] = root[right]
        ELSE root[PairKey(n)] = root[PairMoved(n)]
    BY <1>1, <1>3 DEF Together
  <2>2. PairKey(n)' = PairKey(n) /\ PairMoved(n)' = PairMoved(n)
    BY <1>2
  <2> QED BY <1>1, <2>1, <2>2
<1> QED BY <1>3 DEF Together

LEMMA PairsInKeys ==
  ASSUME Loops, Typed, NEW n \in 0 .. TakenPairs - 1
  PROVE  PairKey(n) \in Key /\ PairMoved(n) \in Key
<1> DEFINE L == Len(KeySeq)
           M == Len(maps)
<1>1. phase \in {"merge", "last", "done"}
  BY DEF TakenPairs
<1>2. M \in Nat /\ L \in Nat /\ L > 0 /\ M * L \in Nat /\ maps \in Seq(GaugeMaps)
  BY <1>1, MapsAreMany, KeysInOrder DEF Loops, Admitting
<1>3. n \in 0 .. M * L - 1
  <2>1. TakenPairs \in Nat /\ TakenPairs <= M * L
    <3>1. CASE phase = "merge"
      <4>1. TakenPairs = count /\ count \in 0 .. M * L - 1
        BY <3>1 DEF TakenPairs, Typed
      <4> HIDE DEF M, L
      <4> QED BY <1>2, <4>1
    <3>2. CASE phase # "merge"
      BY <1>1, <1>2, <3>2 DEF TakenPairs
    <3> QED BY <3>1, <3>2
  <2> HIDE DEF M, L
  <2> QED BY <1>2, <2>1
<1>4. n \div L \in 0 .. M - 1 /\ n % L \in 0 .. L - 1
  BY <1>2, <1>3, Quotient
<1>5. (n \div L) + 1 \in 1 .. M /\ (n % L) + 1 \in 1 .. L
  <2> DEFINE q == n \div L
             r == n % L
  <2> HIDE DEF q, r, L, M
  <2>1. q \in 0 .. M - 1 /\ r \in 0 .. L - 1
    BY <1>4 DEF q, r
  <2>2. q + 1 \in 1 .. M /\ r + 1 \in 1 .. L
    BY <1>2, <2>1
  <2> QED BY <2>2 DEF q, r
<1>6. PairKey(n) \in Key
  BY <1>5, KeysInOrder DEF PairKey
<1>7. maps[n \div L + 1] \in GaugeMaps
  BY <1>2, <1>5
<1> QED BY <1>6, <1>7, MovedIsKey DEF PairMoved

LEMMA StepGrouped == Loops /\ Typed /\ Inside /\ Grouped /\ [AtlasNext]_atlasVars => Grouped'
<1> SUFFICES ASSUME Loops, Typed, Inside, Grouped, [AtlasNext]_atlasVars PROVE Grouped'
  OBVIOUS
<1>t. parent \in [Key -> Key] /\ left \in Key /\ right \in Key
  BY DEF Typed
<1>g. PICK root \in [Key -> Key], depth \in [Key -> Nat] : Trees(root, depth) /\ Together(root)
  BY DEF Grouped
<1>r. \A x \in Key : root[parent[x]] = root[x] /\ (parent[x] = x => root[x] = x)
  BY <1>g DEF Trees
<1>1. CASE SpanStep
  <2>1. parent' = parent /\ TakenPairs' = 0
    BY <1>1 DEF SpanStep, Count, forest, TakenPairs
  <2>2. Trees(root, depth)' /\ Together(root)'
    BY <1>g, <2>1 DEF Trees, Together
  <2> QED BY <1>g, <2>2 DEF Grouped
<1>2. CASE ActionStep
  <2>1. parent' = parent /\ TakenPairs' = 0
    BY <1>2 DEF ActionStep, Count, forest, TakenPairs
  <2>2. Trees(root, depth)' /\ Together(root)'
    BY <1>g, <2>1 DEF Trees, Together
  <2> QED BY <1>g, <2>2 DEF Grouped
<1>3. CASE Take
  <2>1. parent' = parent
    BY <1>3 DEF Take
  <2>2. Trees(root, depth)'
    BY <1>g, <2>1 DEF Trees
  <2>3. Together(root)'
    BY <1>3, <1>g, TakeGroups
  <2> QED BY <1>g, <2>2, <2>3 DEF Grouped
<1>4. CASE HalveLeft
  <2>1. /\ parent[left] # left /\ parent' = [parent EXCEPT ![left] = parent[parent[left]]]
        /\ left' = parent'[left] /\ right' = right /\ UNCHANGED <<phase, count, maps>>
    BY <1>4 DEF HalveLeft
  <2>2. Trees(root, depth)' /\ left' \in Key /\ root[left'] = root[left]
    BY <1>t, <1>g, <2>1, HalvedTrees
  <2>3. Together(root)'
    BY <1>g, <2>1, <2>2, SamePairs
  <2> QED BY <1>g, <2>2, <2>3 DEF Grouped
<1>5. CASE HalveRight
  <2>1. /\ parent[right] # right /\ parent' = [parent EXCEPT ![right] = parent[parent[right]]]
        /\ right' = parent'[right] /\ left' = left /\ UNCHANGED <<phase, count, maps>>
    BY <1>5 DEF HalveRight
  <2>2. Trees(root, depth)' /\ right' \in Key /\ root[right'] = root[right]
    BY <1>t, <1>g, <2>1, HalvedTrees
  <2>3. Together(root)'
    BY <1>g, <2>1, <2>2, SamePairs
  <2> QED BY <1>g, <2>2, <2>3 DEF Grouped
<1>6. CASE Link
  <2>1. /\ parent[left] = left /\ parent[right] = right /\ left # right
        /\ parent' = [parent EXCEPT ![left] = right]
        /\ left' = right /\ right' = right /\ UNCHANGED <<phase, count, maps>>
    BY <1>6 DEF Link
  <2>2. PICK root2 : root2 = [x \in Key |-> IF root[x] = left THEN right ELSE root[x]]
    OBVIOUS
  <2>3. PICK depth2 : depth2 = [x \in Key |-> IF root[x] = left THEN depth[x] + depth[right] + 1 ELSE depth[x]]
    OBVIOUS
  <2>4. root2 \in [Key -> Key] /\ depth2 \in [Key -> Nat] /\ Trees(root2, depth2)'
    BY <1>g, <2>1, <2>2, <2>3, LinkedTrees
  <2>5. \A k \in Key : root2[k] = IF root[k] = left THEN right ELSE root[k]
    BY <2>2
  <2>6. root[left] = left /\ root[right] = right /\ root2[right] = right
    BY <1>t, <1>r, <2>1, <2>5
  <2>7. Together(root2)'
    <3>1. TakenPairs' = TakenPairs
      BY <2>1 DEF TakenPairs
    <3>2. \A n : PairKey(n)' = PairKey(n) /\ PairMoved(n)' = PairMoved(n)
      BY <2>1 DEF PairKey, PairMoved
    <3>3. ASSUME NEW n \in 0 .. TakenPairs' - 1
          PROVE  IF n = TakenPairs' - 1
                 THEN root2[PairKey(n)'] = root2[left'] /\ root2[PairMoved(n)'] = root2[right']
                 ELSE root2[PairKey(n)'] = root2[PairMoved(n)']
      <4>1. IF n = TakenPairs - 1
            THEN root[PairKey(n)] = root[left] /\ root[PairMoved(n)] = root[right]
            ELSE root[PairKey(n)] = root[PairMoved(n)]
        BY <1>g, <3>1, <3>3 DEF Together
      <4>2. PairKey(n)' = PairKey(n) /\ PairMoved(n)' = PairMoved(n)
        BY <3>2
      <4>3. PairKey(n) \in Key /\ PairMoved(n) \in Key
        BY <3>1, <3>3, PairsInKeys
      <4> QED BY <2>1, <2>5, <2>6, <3>1, <4>1, <4>2, <4>3
    <3> QED BY <3>3 DEF Together
  <2> QED BY <2>4, <2>7 DEF Grouped
<1>7. CASE Number
  <2>1. UNCHANGED <<parent, left, right, maps>> /\ TakenPairs' = TakenPairs
    BY <1>7 DEF Number, forest, TakenPairs
  <2>2. \A n : PairKey(n)' = PairKey(n) /\ PairMoved(n)' = PairMoved(n)
    BY <2>1 DEF PairKey, PairMoved
  <2>3. Trees(root, depth)'
    BY <1>g, <2>1 DEF Trees
  <2>4. Together(root)'
    BY <1>g, <2>1, <2>2 DEF Together
  <2> QED BY <1>g, <2>3, <2>4 DEF Grouped
<1>8. CASE UNCHANGED atlasVars
  <2>1. UNCHANGED <<parent, left, right, maps, phase, count>>
    BY <1>8 DEF atlasVars, forest
  <2>2. TakenPairs' = TakenPairs
    BY <2>1 DEF TakenPairs
  <2>3. \A n : PairKey(n)' = PairKey(n) /\ PairMoved(n)' = PairMoved(n)
    BY <2>1 DEF PairKey, PairMoved
  <2>4. Trees(root, depth)'
    BY <1>g, <2>1 DEF Trees
  <2>5. Together(root)'
    BY <1>g, <2>1, <2>2, <2>3 DEF Together
  <2> QED BY <1>g, <2>4, <2>5 DEF Grouped
<1> QED BY <1>1, <1>2, <1>3, <1>4, <1>5, <1>6, <1>7, <1>8 DEF AtlasNext, Merge

LEMMA AlwaysGrouped == AtlasSpec => []Grouped
<1> QED BY AlwaysLoops, AlwaysTyped, AlwaysInside, InitGrouped, StepGrouped, PTL DEF AtlasSpec

-----------------------------------------------------------------------------
(* The roots are the classes, and their numbers follow the least quadratic *)
(* code.                                                                   *)

LEMMA RootIs ==
  ASSUME Typed, NEW root \in [Key -> Key], NEW depth \in [Key -> Nat], Trees(root, depth)
  PROVE  \A key \in Key : Root[key] = root[key]
<1> DEFINE Body(g) == [key \in Key |-> IF parent[key] = key THEN key ELSE g[parent[key]]]
<1>1. \A k \in Key : /\ root[parent[k]] = root[k]
                     /\ parent[k] = k => root[k] = k
                     /\ parent[k] # k => depth[parent[k]] < depth[k]
                     /\ parent[k] \in Key
  BY DEF Trees, Typed
<1>2. root = Body(root)
  <2>1. \A k \in Key : root[k] = IF parent[k] = k THEN k ELSE root[parent[k]]
    BY <1>1
  <2> QED BY <2>1
<1>3. Root = CHOOSE g : g = Body(g)
  BY DEF Root
<1>4. Root = Body(Root)
  <2> HIDE DEF Body
  <2> QED BY <1>2, <1>3
<1> DEFINE f == Root
<1>5. f = Body(f)
  BY <1>4
<1> HIDE DEF f
<1>6. \A k \in Key : f[k] = IF parent[k] = k THEN k ELSE f[parent[k]]
  BY <1>5
<1> DEFINE S == {n \in Nat : \A k \in Key : depth[k] < n => f[k] = root[k]}
<1>7. 0 \in S
  <2>1. \A k \in Key : ~(depth[k] < 0)
    OBVIOUS
  <2> QED BY <2>1
<1>8. ASSUME NEW n \in S, NEW k \in Key, depth[k] < n + 1 PROVE f[k] = root[k]
  <2>1. CASE parent[k] = k
    BY <1>1, <1>6, <2>1
  <2>2. CASE parent[k] # k
    <3>1. parent[k] \in Key /\ depth[parent[k]] < depth[k]
      BY <1>1, <2>2
    <3>2. depth[k] \in Nat /\ depth[parent[k]] \in Nat /\ n \in Nat
      BY <3>1
    <3>3. depth[parent[k]] < n
      BY <1>8, <3>1, <3>2
    <3>4. f[parent[k]] = root[parent[k]]
      BY <3>1, <3>3
    <3> QED BY <1>1, <1>6, <2>2, <3>4
  <2> QED BY <2>1, <2>2
<1>9. \A n \in S : n + 1 \in S
  <2>1. \A n \in S : n \in Nat
    OBVIOUS
  <2> QED BY <1>8, <2>1
<1>10. S = Nat
  <2>1. S \in SUBSET Nat
    OBVIOUS
  <2> HIDE DEF S
  <2> QED BY <1>7, <1>9, <2>1, Induction
<1>11. ASSUME NEW k \in Key PROVE f[k] = root[k]
  <2>1. depth[k] \in Nat /\ depth[k] + 1 \in S /\ depth[k] < depth[k] + 1
    BY <1>10
  <2> QED BY <2>1
<1> QED BY <1>11 DEF f

LEMMA DigitsOf ==
  ASSUME NEW M \in Nat, NEW L \in Nat, L > 0, NEW a \in 0 .. M - 1, NEW b \in 0 .. L - 1
  PROVE  /\ a * L + b \in 0 .. M * L - 1
         /\ (a * L + b) \div L = a /\ (a * L + b) % L = b
<1> DEFINE c == a * L + b
           q == c \div L
           r == c % L
<1>0. a \in Nat /\ b \in Nat /\ b < L /\ a * L \in Nat /\ M * L \in Nat
  OBVIOUS
<1>1. c \in Nat
  BY <1>0
<1>2. c = q * L + r
  BY <1>1, DivMod
<1>3. q \in Nat /\ r \in Nat /\ r < L
  BY <1>1
<1>4. q * L + r = a * L + b
  BY <1>2
<1> HIDE DEF q, r
<1>5. q = a
  <2>1. CASE q < a
    <3> DEFINE e == a - q - 1
    <3>1. e \in Nat /\ e * L \in Nat
      BY <1>0, <1>3, <2>1
    <3>2. a * L = q * L + L + e * L
      BY <1>0, <1>3
    <3> HIDE DEF e
    <3>3. q * L \in Nat
      BY <1>3
    <3> QED BY <1>0, <1>3, <1>4, <3>1, <3>2, <3>3
  <2>2. CASE a < q
    <3> DEFINE e == q - a - 1
    <3>1. e \in Nat /\ e * L \in Nat
      BY <1>0, <1>3, <2>2
    <3>2. q * L = a * L + L + e * L
      BY <1>0, <1>3
    <3> HIDE DEF e
    <3> QED BY <1>0, <1>3, <1>4, <3>1, <3>2
  <2> QED BY <1>0, <1>3, <2>1, <2>2
<1>6. r = b
  BY <1>0, <1>3, <1>4, <1>5
<1>7. c <= M * L - 1
  <2> DEFINE e == M - a - 1
  <2>1. e \in Nat /\ e * L \in Nat
    BY <1>0
  <2>2. M * L = a * L + L + e * L
    BY <1>0
  <2> HIDE DEF e
  <2> QED BY <1>0, <2>1, <2>2
<1>8. c \in 0 .. M * L - 1
  BY <1>0, <1>1, <1>7
<1> QED BY <1>5, <1>6, <1>8 DEF q, r

\* Every map is applied to every key.
LEMMA EveryPair ==
  ASSUME Loops, phase \in {"last", "done"}, NEW map \in GaugeMaps, NEW key \in Key
  PROVE  \E n \in 0 .. TakenPairs - 1 : PairKey(n) = key /\ PairMoved(n) = Moved(map, key)
<1> DEFINE L == Len(KeySeq)
           M == Len(maps)
<1>1. maps \in Seq(GaugeMaps) /\ ToSet(maps) = GaugeMaps
  BY DEF Loops, Admitting
<1>2. M \in Nat /\ L \in Nat /\ L > 0
  BY <1>1, KeysInOrder
<1>3. PICK i \in 1 .. M : maps[i] = map
  BY <1>1 DEF ToSet
<1>4. PICK j \in 1 .. L : KeySeq[j] = key
  BY KeysInOrder
<1>5. TakenPairs = M * L
  BY DEF TakenPairs
<1> DEFINE a == i - 1
           b == j - 1
           n == a * L + b
<1>6. a \in 0 .. M - 1 /\ b \in 0 .. L - 1 /\ a + 1 = i /\ b + 1 = j
  BY <1>2
<1> HIDE DEF a, b
<1>7. n \in 0 .. M * L - 1 /\ n \div L = a /\ n % L = b
  BY <1>2, <1>6, DigitsOf
<1> HIDE DEF n
<1>8. PairKey(n) = key
  BY <1>4, <1>6, <1>7 DEF PairKey
<1>9. PairMoved(n) = Moved(map, key)
  BY <1>3, <1>6, <1>7, <1>8 DEF PairMoved
<1> QED BY <1>5, <1>7, <1>8, <1>9

LEMMA RootsAreOrbits ==
  ASSUME Loops, Typed, phase = "last", left = right,
         NEW root \in [Key -> Key], NEW depth \in [Key -> Nat], Trees(root, depth), Together(root),
         NEW k \in Key, NEW l \in Key
  PROVE  root[l] = root[k] <=> l \in OrbitOf[k]
<1>1. ASSUME root[l] = root[k] PROVE l \in OrbitOf[k]
  <2>1. root[k] \in OrbitOf[k] /\ root[l] \in OrbitOf[l] /\ root[k] \in Key
    BY DEF Trees
  <2>2. OrbitOf[k] = OrbitOf[root[k]] /\ OrbitOf[l] = OrbitOf[root[k]]
    BY <1>1, <2>1, OrbitsAreClasses
  <2> QED BY <2>2, OrbitIsClosed
<1>2. ASSUME l \in OrbitOf[k] PROVE root[l] = root[k]
  <2> DEFINE C == {x \in Key : root[x] = root[k]}
  <2>1. ASSUME NEW map \in GaugeMaps, NEW x \in C PROVE Moved(map, x) \in C
    <3>1. PICK n \in 0 .. TakenPairs - 1 : PairKey(n) = x /\ PairMoved(n) = Moved(map, x)
      BY EveryPair
    <3>2. root[PairKey(n)] = root[PairMoved(n)]
      BY LastIsTogether
    <3> QED BY <3>1, <3>2, MovedIsKey
  <2>2. Closed(C)
    BY <2>1 DEF Closed
  <2>3. C \in SUBSET Key /\ k \in C
    OBVIOUS
  <2>4. OrbitOf[k] \subseteq C
    BY <2>2, <2>3, OrbitIsLeast
  <2> QED BY <1>2, <2>4
<1> QED BY <1>1, <1>2

-----------------------------------------------------------------------------
LeastOf(key) == Min({QuadraticOf[o] : o \in OrbitOf[key]})

LEMMA LeastOfOrbit ==
  /\ \A key \in Key : LeastOf(key) \in Nat
  /\ \A k, l \in Key : LeastOf(k) = LeastOf(l) <=> k \in OrbitOf[l]
<1>1. ASSUME NEW key \in Key
      PROVE  LeastOf(key) \in Nat /\ \E o \in OrbitOf[key] : LeastOf(key) = QuadraticOf[o]
  <2> DEFINE S == {QuadraticOf[o] : o \in OrbitOf[key]}
  <2>1. S \in SUBSET Nat /\ S # {}
    BY OrbitIsClosed, QuadraticOfKey
  <2>2. LeastOf(key) = Min(S)
    BY DEF LeastOf
  <2>3. LeastOf(key) \in S
    <3> HIDE DEF S
    <3>1. \E n \in S : \A m \in S : n <= m
      BY <2>1, LeastElement
    <3> QED BY <2>2, <3>1 DEF Min
  <2> QED BY <2>1, <2>3
<1>2. ASSUME NEW k \in Key, NEW l \in Key, LeastOf(k) = LeastOf(l) PROVE k \in OrbitOf[l]
  <2>1. PICK a \in OrbitOf[k] : LeastOf(k) = QuadraticOf[a]
    BY <1>1
  <2>2. PICK b \in OrbitOf[l] : LeastOf(l) = QuadraticOf[b]
    BY <1>1
  <2>3. a \in Key /\ b \in Key
    BY OrbitIsClosed
  <2>4. a = b
    BY <1>2, <2>1, <2>2, <2>3, QuadraticOfKey
  <2>5. OrbitOf[k] = OrbitOf[a] /\ OrbitOf[l] = OrbitOf[a]
    BY <2>3, <2>4, OrbitsAreClasses
  <2> QED BY <2>5, OrbitIsClosed
<1>3. ASSUME NEW k \in Key, NEW l \in Key, k \in OrbitOf[l] PROVE LeastOf(k) = LeastOf(l)
  BY <1>3, OrbitsAreClasses DEF LeastOf
<1> QED BY <1>1, <1>2, <1>3

LEMMA NumbersFollow ==
  /\ \A key \in Key : AffineClass[key] = Cardinality({n \in {LeastOf(k) : k \in Key} : n < LeastOf(key)})
  /\ \A k, l \in Key : AffineClass[k] = AffineClass[l] <=> k \in OrbitOf[l]
<1> DEFINE All == {LeastOf(k) : k \in Key}
           B(m) == {n \in All : n < m}
<1>1. ASSUME NEW key \in Key PROVE AffineClass[key] = Cardinality(B(LeastOf(key)))
  <2> DEFINE least == [k \in Key |-> Min({QuadraticOf[o] : o \in OrbitOf[k]})]
  <2>1. AffineClass[key] = Cardinality({n \in {least[k] : k \in Key} : n < least[key]})
    BY DEF AffineClass
  <2>2. \A k \in Key : least[k] = LeastOf(k)
    BY DEF LeastOf
  <2> HIDE DEF least
  <2>3. {least[k] : k \in Key} = All
    BY <2>2
  <2> QED BY <2>1, <2>2, <2>3
<1>2. All \in SUBSET Nat /\ IsFiniteSet(All)
  <2>1. All \in SUBSET Nat
    BY LeastOfOrbit
  <2>2. IsFiniteSet(All)
    <3> DEFINE f == [k \in Key |-> LeastOf(k)]
    <3>1. f \in [Key -> All] /\ \A n \in All : \E k \in Key : f[k] = n
      OBVIOUS
    <3> HIDE DEF f, All
    <3>2. f \in Surjection(Key, All)
      BY <3>1, Zenon DEF Surjection
    <3> QED BY <3>2, KeysAreFinite, FS_Surjection
  <2> QED BY <2>1, <2>2
<1>3. ASSUME NEW k \in Key, NEW l \in Key, LeastOf(k) < LeastOf(l)
      PROVE  Cardinality(B(LeastOf(k))) # Cardinality(B(LeastOf(l)))
  <2>1. LeastOf(k) \in All /\ LeastOf(l) \in All
    OBVIOUS
  <2> DEFINE a == LeastOf(k)
             b == LeastOf(l)
  <2> HIDE DEF All
  <2>2. a \in All /\ b \in All /\ a \in Nat /\ b \in Nat /\ a < b
    BY <1>3, <2>1, LeastOfOrbit
  <2> HIDE DEF a, b
  <2>3. B(b) \in SUBSET All /\ IsFiniteSet(B(b))
    BY <1>2, FS_Subset
  <2>4. B(a) \in SUBSET B(b)
    <3>1. \A n \in All : n \in Int
      BY <1>2
    <3>2. \A n \in All : n < a => n < b
      BY <2>2, <3>1
    <3> QED BY <3>2
  <2>5. a \in B(b) /\ a \notin B(a)
    BY <2>2
  <2> HIDE DEF B
  <2>6. Cardinality(B(a)) # Cardinality(B(b))
    BY <2>3, <2>4, <2>5, FS_Subset
  <2> QED BY <2>6 DEF a, b
<1> HIDE DEF B, All
<1>4. ASSUME NEW k \in Key, NEW l \in Key PROVE AffineClass[k] = AffineClass[l] <=> k \in OrbitOf[l]
  <2>1. LeastOf(k) \in Int /\ LeastOf(l) \in Int
    BY LeastOfOrbit
  <2>2. AffineClass[k] = AffineClass[l] <=> LeastOf(k) = LeastOf(l)
    BY <1>1, <1>3, <2>1
  <2> QED BY <2>2, LeastOfOrbit
<1> QED BY <1>1, <1>4 DEF B, All

LEMMA NumberIsRight ==
  ASSUME Loops, Typed, Grouped, Number
  PROVE  \A key \in Key : classOf'[key] = AffineClass[key]
<1>1. PICK top \in [Key -> Key], depth \in [Key -> Nat] : Trees(top, depth) /\ Together(top)
  BY DEF Grouped
<1> DEFINE root == [key \in Key |-> Root[key]]
           roots == {root[key] : key \in Key}
           least == [r \in roots |-> Min({QuadraticOf[key] : key \in {k \in Key : root[k] = r}})]
<1>2. /\ phase = "last" /\ left = right
      /\ classOf' = [key \in Key |-> Cardinality({r \in roots : least[r] < least[root[key]]})]
  BY DEF Number
<1>3. \A key \in Key : root[key] = top[key] /\ root[key] \in roots
  BY <1>1, RootIs
<1>4. roots \in SUBSET Key /\ IsFiniteSet(roots)
  <2>1. roots \in SUBSET Key
    BY <1>3
  <2> HIDE DEF roots
  <2> QED BY <2>1, KeysAreFinite, FS_Subset
<1>5. \A r \in roots : \E k \in Key : r = root[k]
  OBVIOUS
<1>6. \A r \in roots : least[r] = Min({QuadraticOf[key] : key \in {k \in Key : root[k] = r}})
  OBVIOUS
<1> HIDE DEF root, roots, least
<1>7. ASSUME NEW key \in Key PROVE least[root[key]] = LeastOf(key)
  <2>1. {k \in Key : root[k] = root[key]} = OrbitOf[key]
    <3>1. \A k \in Key : root[k] = root[key] <=> k \in OrbitOf[key]
      BY <1>1, <1>2, <1>3, RootsAreOrbits
    <3> QED BY <3>1, OrbitIsClosed
  <2>2. least[root[key]] = Min({QuadraticOf[o] : o \in {k \in Key : root[k] = root[key]}})
    BY <1>3, <1>6
  <2> QED BY <2>1, <2>2 DEF LeastOf
<1>8. ASSUME NEW key \in Key
      PROVE  Cardinality({r \in roots : least[r] < least[root[key]]})
               = Cardinality({n \in {LeastOf(k) : k \in Key} : n < LeastOf(key)})
  <2> DEFINE m == LeastOf(key)
             A == {r \in roots : least[r] < m}
             B == {n \in {LeastOf(k) : k \in Key} : n < m}
             f == [r \in A |-> least[r]]
  <2>1. f \in [A -> B]
    <3> SUFFICES ASSUME NEW r \in A PROVE least[r] \in B
      OBVIOUS
    <3>1. PICK k \in Key : r = root[k]
      BY <1>5
    <3> QED BY <1>7, <3>1
  <2>2. ASSUME NEW r \in A, NEW s \in A, f[r] = f[s] PROVE r = s
    <3>1. PICK k \in Key : r = root[k]
      BY <1>5
    <3>2. PICK l \in Key : s = root[l]
      BY <1>5
    <3>3. LeastOf(k) = LeastOf(l)
      BY <1>7, <2>2, <3>1, <3>2
    <3>4. k \in OrbitOf[l]
      BY <3>3, LeastOfOrbit
    <3>5. top[k] = top[l]
      BY <1>1, <1>2, <3>4, RootsAreOrbits
    <3> QED BY <1>3, <3>1, <3>2, <3>5
  <2>3. ASSUME NEW n \in B PROVE \E r \in A : f[r] = n
    <3>1. PICK k \in Key : n = LeastOf(k) /\ n < m
      OBVIOUS
    <3>2. root[k] \in A
      BY <1>3, <1>7, <3>1
    <3> QED BY <1>7, <3>1, <3>2
  <2>4. IsFiniteSet(A)
    BY <1>4, FS_Subset
  <2>5. A = {r \in roots : least[r] < least[root[key]]}
    BY <1>7
  <2> HIDE DEF f, A, B
  <2>6. f \in Bijection(A, B)
    BY <2>1, <2>2, <2>3, Zenon DEF Bijection, Injection, Surjection, IsInjective
  <2>7. Cardinality(A) = Cardinality(B)
    BY <2>4, <2>6, FS_Bijection DEF ExistsBijection
  <2> QED BY <2>5, <2>7 DEF B
<1> QED BY <1>2, <1>8, NumbersFollow

LEMMA StepClasses == Loops /\ Typed /\ Grouped /\ ClassesAreOrbits /\ [AtlasNext]_atlasVars => ClassesAreOrbits'
<1> SUFFICES ASSUME Loops, Typed, Grouped, ClassesAreOrbits, [AtlasNext]_atlasVars, phase' = "done"
             PROVE  \A k, l \in Key : /\ (classOf'[k] = classOf'[l]) = (k \in OrbitOf[l])
                                      /\ classOf'[k] = AffineClass[k]
  BY DEF ClassesAreOrbits
<1>1. CASE SpanStep
  BY <1>1 DEF SpanStep, Count
<1>2. CASE ActionStep
  BY <1>2 DEF ActionStep, Count
<1>3. CASE Take
  BY <1>3 DEF Take, Count
<1>4. CASE HalveLeft
  BY <1>4 DEF HalveLeft
<1>5. CASE HalveRight
  BY <1>5 DEF HalveRight
<1>6. CASE Link
  BY <1>6 DEF Link
<1>7. CASE Number
  BY <1>7, NumberIsRight, NumbersFollow
<1>8. CASE UNCHANGED atlasVars
  BY <1>8 DEF atlasVars, ClassesAreOrbits
<1> QED BY <1>1, <1>2, <1>3, <1>4, <1>5, <1>6, <1>7, <1>8 DEF AtlasNext, Merge

(***************************************************************************)
(* The class numbers (lines 203-207) tell orbits apart: when the merging   *)
(* has ended two forms have one number iff a gauge map chain leads from    *)
(* one to the other, and the numbers follow the least quadratic code.      *)
(***************************************************************************)
THEOREM ClassesAreRight == AtlasSpec => []ClassesAreOrbits
<1>1. AtlasInit => ClassesAreOrbits
  BY DEF AtlasInit, ClassesAreOrbits
<1> QED BY <1>1, AlwaysLoops, AlwaysTyped, AlwaysGrouped, StepClasses, PTL DEF AtlasSpec

=============================================================================
