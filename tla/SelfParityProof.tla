-------------------------- MODULE SelfParityProof --------------------------
(***************************************************************************)
(* Proofs about SelfParity, for every operator, every odd stride that main *)
(* takes, every int as an offset, and any set of these measured.           *)
(*                                                                         *)
(* A store with the inverse of the load permutation puts a lane where it   *)
(* came from, so that the two paths agree on all terms (LoweredIs).  Of    *)
(* the controls, the flipped sign shows in one lane, the shifted store in  *)
(* every lane, and the dropped twist exactly in the cells of the code: so  *)
(* a sound probe passes (SoundIsPassed) and one with a defect measures a   *)
(* failure (DefectsFail), wherever the lane map is defined; where it is    *)
(* not, the oracle sees an offset that is no lane (AcceptedOffset).  Whatever a probe measures, the oracle derives   *)
(* the same result from the other fields (FailureShows), so that altering  *)
(* the result alone does not help; and the result of a failure has to be   *)
(* altered.                                                                *)
(***************************************************************************)
EXTENDS SelfParity, OperatorAtlasProof

-----------------------------------------------------------------------------
(* The permutations. *)

\* An offset counts modulo the number of lanes.
LEMMA OffsetWraps ==
  ASSUME NEW N \in {2, 4, 8, 16}, NEW x \in Nat, NEW u \in Nat
  PROVE  /\ u % N \in 0 .. N - 1
         /\ (x + (u % N)) % N = (x + u) % N
<1>1. CASE N = 2
  BY <1>1, SMTT(30)
<1>2. CASE N = 4
  BY <1>2, SMTT(30)
<1>3. CASE N = 8
  BY <1>3, SMTT(30)
<1>4. CASE N = 16
  BY <1>4, SMTT(30)
<1> QED
  BY <1>1, <1>2, <1>3, <1>4

\* A lane that is stored in lane k.
LEMMA StorePermutes ==
  ASSUME NEW s \in Lane, s % 2 = 1, NEW u \in Nat, NEW k \in Lane
  PROVE  InverseOf(LoadPerm(s, u))[k] \in Lane /\ LoadPerm(s, u)[InverseOf(LoadPerm(s, u))[k]] = k
<1> DEFINE N == 2^Bits
           v == u % N
<1>1. N \in {2, 4, 8, 16} /\ Lane = 0 .. N - 1
  BY Widths
<1> HIDE DEF N
<1>2. v \in Lane
  BY <1>1, OffsetWraps
<1>3. PICK l \in Lane : Sole(N, s, v, k, l)
  BY <1>2, OddStridePermutes DEF N
<1>4. l \in 0 .. N - 1
  BY <1>1
<1>5. (l * s + v) % N = k
  BY <1>3, <1>4 DEF Sole, Target
<1>6. (l * s + u) % N = k
  <2>1. l * s \in Nat
    BY <1>1
  <2>2. (l * s + (u % N)) % N = (l * s + u) % N
    BY <2>1, <1>1, OffsetWraps
  <2> QED
    BY <2>2, <1>5
<1>7. LoadPerm(s, u)[l] = k
  BY <1>6 DEF LoadPerm, N
<1>8. InverseOf(LoadPerm(s, u))[k] = CHOOSE lane \in Lane : LoadPerm(s, u)[lane] = k
  BY DEF InverseOf
<1> QED
  BY <1>7, <1>8, Zenon

\* Loading what is stored gives the lane itself, or with the store map ahead the one before.
LEMMA StoreUndoes ==
  ASSUME NEW s \in Lane, s % 2 = 1, NEW o \in Nat, NEW k \in Lane
  PROVE  /\ LoadPerm(s, o)[InverseOf(LoadPerm(s, o))[k]] = k
         /\ LoadPerm(s, o)[InverseOf(LoadPerm(s, (o + 1) % 2^Bits))[k]] # k
<1>1. LoadPerm(s, o)[InverseOf(LoadPerm(s, o))[k]] = k
  BY StorePermutes
<1> DEFINE N == 2^Bits
           u == (o + 1) % N
           l == InverseOf(LoadPerm(s, u))[k]
<1>2. N \in {2, 4, 8, 16} /\ Lane = 0 .. N - 1
  BY Widths
<1> HIDE DEF N
<1>3. u \in Nat
  <2>1. u \in 0 .. N - 1
    BY <1>2, OffsetWraps
  <2> QED
    BY <2>1, <1>2
<1> HIDE DEF u
<1>4. l \in Lane /\ LoadPerm(s, u)[l] = k
  BY <1>3, StorePermutes
<1> HIDE DEF l
<1>5. (l * s + u) % N = k /\ LoadPerm(s, o)[l] = (l * s + o) % N
  BY <1>4 DEF LoadPerm, N
<1>6. l * s \in Nat /\ l * s + o \in Nat /\ l * s + (o + 1) = (l * s + o) + 1
  BY <1>2, <1>4
<1>7. (l * s + u) % N = (l * s + (o + 1)) % N
  <2>1. l * s \in Nat /\ o + 1 \in Nat
    BY <1>6
  <2> QED
    BY <2>1, <1>2, OffsetWraps DEF u
<1>8. ASSUME NEW x \in Nat PROVE (x + 1) % N # x % N
  BY <1>2
<1>9. (l * s + (o + 1)) % N # (l * s + o) % N
  BY <1>6, <1>8
<1> QED
  BY <1>1, <1>5, <1>7, <1>9 DEF l, u, N

-----------------------------------------------------------------------------
(* What the two paths compute. *)

Mutations == [flip : BOOLEAN, shift : BOOLEAN, drop : BOOLEAN]

\* Where the signs of a code are negative.
Twisted(code, a, b) == Tau[a][b] # Bilinear(code, a, b)

LEMMA ReferenceIs ==
  ASSUME NEW code, NEW k \in Lane, NEW b \in Lane
  PROVE  Reference(code)[k][b] = <<Twisted(code, IndexXor(k, b), b), IndexXor(k, b), b>>
<1>1. IndexXor(k, b) \in Lane
  BY OnesOfXor
<1> QED
  BY <1>1 DEF Reference, Negative, Twisted

\* The code that a mutation leaves.
Left(code, m) == IF m.drop THEN {} ELSE code

LEMMA LoweredIs ==
  ASSUME NEW code, NEW s \in Lane, s % 2 = 1, NEW o \in Nat, NEW m \in Mutations,
         NEW k \in Lane, NEW b \in Lane
  PROVE  /\ ~m.shift => Lowered(code, s, o, m)[k][b] =
              <<Twisted(Left(code, m), IndexXor(k, b), b)
                  # (m.flip /\ <<IndexXor(k, b), b>> = Flipped), IndexXor(k, b), b>>
         /\ m.shift => Lowered(code, s, o, m)[k][b][3] # b
<1> DEFINE a == IndexXor(k, b)
           u == IF m.shift THEN (o + 1) % 2^Bits ELSE o
           load == LoadPerm(s, o)
           store == InverseOf(LoadPerm(s, u))
           negative == Twisted(Left(code, m), a, b) # (m.flip /\ <<a, b>> = Flipped)
<1>1. a \in Lane
  BY OnesOfXor
<1>2. Lowered(code, s, o, m)[k][b] = <<negative, load[store[a]], load[store[b]]>>
  <2> DEFINE sign == Negative(Left(code, m))
             table == [c \in Lane \X Lane |-> sign[c[1]][c[2]] # (m.flip /\ c = Flipped)]
  <2>1. Lowered(code, s, o, m)[k][b] = <<table[<<a, b>>], load[store[a]], load[store[b]]>>
    BY Zenon DEF Lowered, Left
  <2>2. sign[a][b] = Twisted(Left(code, m), a, b)
    BY <1>1 DEF Negative, Twisted
  <2> HIDE DEF sign, a
  <2>3. table[<<a, b>>] = negative
    BY <1>1, <2>2
  <2> QED
    BY <2>1, <2>3
<1>3. m.shift \in BOOLEAN
  BY DEF Mutations
<1> HIDE DEF negative, a
<1>4. ASSUME ~m.shift PROVE load[store[a]] = a /\ load[store[b]] = b
  BY <1>1, <1>4, StoreUndoes
<1>5. ASSUME m.shift PROVE load[store[b]] # b
  BY <1>5, StoreUndoes
<1> HIDE DEF load, store
<1>6. ASSUME ~m.shift PROVE Lowered(code, s, o, m)[k][b] = <<negative, a, b>>
  BY <1>2, <1>4, <1>6
<1>7. ASSUME m.shift PROVE Lowered(code, s, o, m)[k][b][3] # b
  BY <1>2, <1>5, <1>7
<1> QED
  BY <1>6, <1>7 DEF negative, a

-----------------------------------------------------------------------------
(* Where they disagree. *)

\* The lanes where the reference of one code and the lowering of another differ.
Differing(c, d, s, o, m) == Disagree(<<Reference(c), Lowered(d, s, o, m)>>)

LEMMA DifferingIs ==
  ASSUME NEW c, NEW d, NEW s \in Lane, s % 2 = 1, NEW o \in Nat, NEW m \in Mutations
  PROVE  /\ Differing(c, d, s, o, m) \subseteq Lane
         /\ ~m.shift => \A k \in Lane : k \in Differing(c, d, s, o, m) <=>
              \E b \in Lane : Twisted(c, IndexXor(k, b), b)
                                # (Twisted(Left(d, m), IndexXor(k, b), b)
                                     # (m.flip /\ <<IndexXor(k, b), b>> = Flipped))
         /\ m.shift => Differing(c, d, s, o, m) = Lane
<1> DEFINE R == Reference(c)
           L == Lowered(d, s, o, m)
           new(k, b) == Twisted(Left(d, m), IndexXor(k, b), b)
                          # (m.flip /\ <<IndexXor(k, b), b>> = Flipped)
<1>1. Differing(c, d, s, o, m) = {k \in Lane : R[k] # L[k]}
  BY DEF Differing, Disagree
<1>2. ASSUME NEW k \in Lane
      PROVE  /\ R[k] = [b \in Lane |-> R[k][b]] /\ L[k] = [b \in Lane |-> L[k][b]]
             /\ R[k] # L[k] <=> \E b \in Lane : R[k][b] # L[k][b]
  <2>1. R[k] = [b \in Lane |-> R[k][b]]
    BY DEF Reference
  <2>2. L[k] = [b \in Lane |-> L[k][b]]
    BY DEF Lowered
  <2> HIDE DEF R, L
  <2> QED
    BY <2>1, <2>2
<1>3. ASSUME NEW k \in Lane, NEW b \in Lane
      PROVE  /\ R[k][b] = <<Twisted(c, IndexXor(k, b), b), IndexXor(k, b), b>>
             /\ ~m.shift => L[k][b] = <<new(k, b), IndexXor(k, b), b>>
             /\ m.shift => L[k][b][3] # b
  BY ReferenceIs, LoweredIs
<1> HIDE DEF R, L, new
<1>4. ASSUME NEW k \in Lane, ~m.shift
      PROVE  R[k] # L[k] <=> \E b \in Lane : Twisted(c, IndexXor(k, b), b) # new(k, b)
  <2>1. ASSUME NEW b \in Lane
        PROVE  R[k][b] # L[k][b] <=> Twisted(c, IndexXor(k, b), b) # new(k, b)
    BY <1>3, <1>4
  <2> QED
    BY <1>2, <2>1
<1>5. ASSUME NEW k \in Lane, m.shift
      PROVE  R[k] # L[k]
  <2>1. 0 \in Lane
    BY OnesOfZero
  <2>2. R[k][0] # L[k][0]
    BY <1>3, <1>5, <2>1
  <2> QED
    BY <1>2, <2>1, <2>2
<1>6. m.shift => Differing(c, d, s, o, m) = Lane
  BY <1>1, <1>5
<1>7. ~m.shift => \A k \in Lane : k \in Differing(c, d, s, o, m) <=>
                    \E b \in Lane : Twisted(c, IndexXor(k, b), b) # new(k, b)
  BY <1>1, <1>4
<1> QED
  BY <1>1, <1>6, <1>7 DEF new

\* The same code and no mutation of it: the paths agree on every term.
LEMMA SameAgrees ==
  ASSUME NEW c, NEW d, NEW s \in Lane, s % 2 = 1, NEW o \in Nat, NEW m \in Mutations,
         Left(d, m) = c, ~m.flip, ~m.shift
  PROVE  Differing(c, d, s, o, m) = {}
<1>1. \A k \in Lane, b \in Lane : Twisted(c, IndexXor(k, b), b) \in BOOLEAN
  BY DEF Twisted
<1> QED
  BY <1>1, DifferingIs

\* A flipped sign shows in the lane of its cell.
LEMMA FlipShows ==
  ASSUME NEW c, NEW d, NEW s \in Lane, s % 2 = 1, NEW o \in Nat, NEW m \in Mutations,
         Left(d, m) = c, m.flip, ~m.shift
  PROVE  Differing(c, d, s, o, m) # {}
<1>1. 3 \in Lane /\ 5 \in Lane
  BY ConfigsAssumption DEF Flipped
<1> DEFINE k == IndexXor(3, 5)
<1>2. k \in Lane
  BY <1>1, OnesOfXor
<1>3. IndexXor(k, 5) = 3
  BY <1>1, <1>2, XorUndoes
<1>4. Twisted(c, IndexXor(k, 5), 5) \in BOOLEAN
  BY DEF Twisted
<1>5. m.flip /\ <<IndexXor(k, 5), 5>> = Flipped
  BY <1>3 DEF Flipped
<1> HIDE DEF k
<1>6. Twisted(c, IndexXor(k, 5), 5)
        # (Twisted(Left(d, m), IndexXor(k, 5), 5) # (m.flip /\ <<IndexXor(k, 5), 5>> = Flipped))
  BY <1>4, <1>5
<1>7. k \in Differing(c, d, s, o, m)
  BY <1>1, <1>2, <1>6, DifferingIs
<1> QED
  BY <1>7

\* A dropped twist shows in the cells of the code.
LEMMA DropShows ==
  ASSUME NEW c \in Code, c # {}, NEW d, NEW s \in Lane, s % 2 = 1, NEW o \in Nat,
         NEW m \in Mutations, Left(d, m) = {}, ~m.flip, ~m.shift
  PROVE  Differing(c, d, s, o, m) # {}
<1>1. PICK p \in Position, q \in Position : <<p, q>> \in c
  BY DEF Code
<1> DEFINE a == Unit(p)
           b == Unit(q)
           k == IndexXor(a, b)
<1>2. a \in Lane /\ b \in Lane
  BY UnitOnes
<1>3. k \in Lane
  BY <1>2, OnesOfXor
<1>4. IndexXor(k, b) = a
  BY <1>2, <1>3, XorUndoes
<1>5. Bilinear(c, a, b) /\ ~Bilinear({}, a, b)
  <2>1. {} \in Code
    BY DEF Code
  <2> QED
    BY <1>1, <2>1, FormAtUnits
<1>6. Tau[a][b] \in BOOLEAN
  BY <1>2 DEF Tau
<1> HIDE DEF a, b, k
<1>7. Twisted(c, a, b) # Twisted({}, a, b) /\ Twisted({}, a, b) \in BOOLEAN
  <2>1. Bilinear(c, a, b) = TRUE /\ Bilinear({}, a, b) = FALSE
    BY <1>5, BilinearIsBoolean
  <2>2. Twisted(c, a, b) = (Tau[a][b] # TRUE) /\ Twisted({}, a, b) = (Tau[a][b] # FALSE)
    BY <2>1, Zenon DEF Twisted
  <2> QED
    BY <1>6, <2>2
<1>8. Twisted(c, IndexXor(k, b), b)
        # (Twisted(Left(d, m), IndexXor(k, b), b) # (m.flip /\ <<IndexXor(k, b), b>> = Flipped))
  BY <1>4, <1>7
<1>9. k \in Differing(c, d, s, o, m)
  BY <1>2, <1>3, <1>8, DifferingIs
<1> QED
  BY <1>9

\* The counts of lanes.
LEMMA LanesCounted ==
  ASSUME NEW D \in SUBSET Lane
  PROVE  Cardinality(D) \in 0 .. 2^Bits /\ (Cardinality(D) = 0 <=> D = {})
<1>1. Lane = 0 .. 2^Bits - 1 /\ 2^Bits \in {2, 4, 8, 16}
  BY Widths
<1>2. Cardinality(Lane) = 2^Bits
  <2>1. Cardinality(0 .. 2^Bits - 1) = 2^Bits - 1 - 0 + 1
    <3>1. 0 <= 2^Bits - 1 /\ 2^Bits - 1 \in Int
      BY <1>1
    <3> QED
      BY <3>1, FS_Interval
  <2> QED
    BY <2>1, <1>1
<1>3. IsFiniteSet(D) /\ Cardinality(D) \in Nat /\ Cardinality(D) <= Cardinality(Lane)
  BY LanesAreFinite, FS_Subset, FS_CardinalityType
<1>4. Cardinality(D) = 0 <=> D = {}
  BY <1>3, FS_EmptySet, Zenon
<1> QED
  BY <1>1, <1>2, <1>3, <1>4

-----------------------------------------------------------------------------
(* What a probe measures. *)

Flip == Mutation(TRUE, FALSE, FALSE)
Shifted == Mutation(FALSE, TRUE, FALSE)
Drop == Mutation(FALSE, FALSE, TRUE)

\* The lanes where the paths of a probe disagree under a mutation.
Seen(d, c, m) == Disagree(Paths(d, c.code, c.stride, c.offset, m))

LEMMA MutationsAre ==
  NoMutation \in Mutations /\ Flip \in Mutations /\ Shifted \in Mutations /\ Drop \in Mutations
BY DEF Mutations, Mutation, NoMutation, Flip, Shifted, Drop

LEMMA SeenIs ==
  ASSUME NEW c, NEW m \in Mutations
  PROVE  LET differing(a, b, n) == Differing(a, b, c.stride, c.offset, n)
         IN  /\ Seen("none", c, m) = differing(c.code, c.code, m)
             /\ Seen("same path twice", c, m) = {}
             /\ Seen("base in both paths", c, m) = differing({}, {}, m)
             /\ Seen("base in the lowering", c, m) = differing(c.code, {}, m)
             /\ Seen("sign poisoned", c, m)
                  = differing(c.code, c.code, Mutation(TRUE, m.shift, m.drop))
             /\ Seen("writes reordered", c, m)
                  = differing(c.code, c.code, Mutation(m.flip, FALSE, m.drop))
<1> DEFINE low(b, n) == Lowered(b, c.stride, c.offset, n)
<1>1. Paths("none", c.code, c.stride, c.offset, m) = <<Reference(c.code), low(c.code, m)>>
  BY DEF Paths
<1>2. Paths("same path twice", c.code, c.stride, c.offset, m)
        = <<Reference(c.code), Reference(c.code)>>
  BY DEF Paths
<1>3. Paths("base in both paths", c.code, c.stride, c.offset, m) = <<Reference({}), low({}, m)>>
  BY DEF Paths
<1>4. Paths("base in the lowering", c.code, c.stride, c.offset, m)
        = <<Reference(c.code), low({}, m)>>
  BY DEF Paths
<1>5. Paths("sign poisoned", c.code, c.stride, c.offset, m)
        = <<Reference(c.code), low(c.code, Mutation(TRUE, m.shift, m.drop))>>
  BY DEF Paths
<1>6. Paths("writes reordered", c.code, c.stride, c.offset, m)
        = <<Reference(c.code), low(c.code, Mutation(m.flip, FALSE, m.drop))>>
  BY DEF Paths
<1>7. Disagree(<<Reference(c.code), Reference(c.code)>>) = {}
  BY DEF Disagree
<1> QED
  BY <1>1, <1>2, <1>3, <1>4, <1>5, <1>6, <1>7, Zenon DEF Seen, Differing

\* What main counts, and what it takes for a pass.
Counted(d, c, m) == Cardinality(Seen(d, c, m))
Passing(d, c) ==
  /\ Seen(d, c, NoMutation) = {}
  /\ Counted(d, c, Flip) > 0 /\ Counted(d, c, Shifted) > 0
  /\ (c.code = {}) = (Counted(d, c, Drop) = 0)

\* The receipt of a probe, in these terms.
LEMMA MeasureIs ==
  ASSUME NEW d, NEW c
  PROVE  Measure(d, c) =
        [schema |-> Num(1), producer_role |-> Str("OPERATOR_SELF_PARITY"),
         semantic_authority_language |-> Str("Sounio"), kind |-> Num(2),
         phase_code |-> Num(CodeNumber(c.code)), lane_stride |-> Num(c.stride),
         lane_offset |-> Num(c.offset), dimension |-> Num(2^Bits), precision |-> Num(64),
         trials |-> Num(64), reference_derivation |-> Str("recomputed_per_term"),
         lowered_derivation |-> Str("packed_sign_table_via_lane_map"),
         shared_accumulation_order |-> Str("ascending_right_operand"),
         reassociated |-> Bool(FALSE), fma_contracted |-> Bool(FALSE),
         rounding_mode |-> Str("FE_TONEAREST"), flush_to_zero |-> Bool(FALSE),
         denormals_are_zero |-> Bool(FALSE),
         mismatching_lanes |-> Num(Counted(d, c, NoMutation)),
         first_mismatch |-> Num(FirstOf(Seen(d, c, NoMutation))),
         sign_mutation_mismatching_lanes |-> Num(Counted(d, c, Flip)),
         lane_mutation_mismatching_lanes |-> Num(Counted(d, c, Shifted)),
         twist_drop_mutation_mismatching_lanes |-> Num(Counted(d, c, Drop)),
         twist_is_trivial |-> Bool(c.code = {}), establishes |-> Str("two_materialisations_agree"),
         claim_ready |-> Bool(FALSE), fp_utility |-> Str("NOT_ESTABLISHED"),
         result |-> Str(IF Passing(d, c) THEN "PASS" ELSE "FAIL")]
BY Zenon DEF Measure, Receipt, Passing, Counted, Seen, NoMutation, Flip, Shifted, Drop

LEMMA ReceiptIs ==
  ASSUME NEW d, NEW c
  PROVE  /\ DOMAIN Measure(d, c) = RequiredFields
         /\ Measure(d, c)["phase_code"] = Num(CodeNumber(c.code))
         /\ Measure(d, c)["mismatching_lanes"] = Num(Counted(d, c, NoMutation))
         /\ Measure(d, c)["sign_mutation_mismatching_lanes"] = Num(Counted(d, c, Flip))
         /\ Measure(d, c)["lane_mutation_mismatching_lanes"] = Num(Counted(d, c, Shifted))
         /\ Measure(d, c)["twist_drop_mutation_mismatching_lanes"] = Num(Counted(d, c, Drop))
         /\ Measure(d, c)["result"] = Str(IF Passing(d, c) THEN "PASS" ELSE "FAIL")
<1>1. DOMAIN Measure(d, c) = RequiredFields
  BY MeasureIs DEF RequiredFields, IntFields, BoolFields
<1> QED
  BY <1>1, MeasureIs

\* Whatever lanes it counts, a receipt has these fields, and the offset it was given.
LEMMA FieldsAre ==
  ASSUME NEW c, NEW p, NEW q, NEW s, NEW t
  PROVE  /\ DOMAIN Receipt(c, p, q, s, t) = RequiredFields
         /\ Receipt(c, p, q, s, t)["lane_offset"] = Num(c.offset)
<1>1. DOMAIN Receipt(c, p, q, s, t) = RequiredFields
  BY DEF Receipt, RequiredFields, IntFields, BoolFields
<1>2. Receipt(c, p, q, s, t)["lane_offset"] = Num(c.offset)
  BY DEF Receipt
<1> QED
  BY <1>1, <1>2

LEMMA PrintedIs ==
  ASSUME NEW d, NEW c, NEW r \in Printed(d, c)
  PROVE  /\ DOMAIN r = RequiredFields /\ r["lane_offset"] = Num(c.offset)
         /\ Defined(c) => r = Measure(d, c)
<1>1. CASE Defined(c)
  <2>1. r = Measure(d, c)
    BY <1>1 DEF Printed
  <2>2. PICK p, q, s, t : Measure(d, c) = Receipt(c, p, q, s, t)
    BY Zenon DEF Measure
  <2> QED
    BY <2>1, <2>2, FieldsAre
<1>2. CASE ~Defined(c)
  <2>1. PICK p \in Stray, q \in Stray, s \in Stray, t \in Stray : r = Receipt(c, p, q, s, t)
    BY <1>2 DEF Printed
  <2> QED
    BY <2>1, <1>2, FieldsAre
<1> QED
  BY <1>1, <1>2

\* The configurations measured, and what can be counted of them.
LEMMA ConfigIs ==
  ASSUME NEW c \in Configs
  PROVE  /\ c.code \in Code /\ c.stride \in Lane /\ c.stride % 2 = 1 /\ c.offset \in Int
         /\ Defined(c) => c.offset \in Nat
         /\ c.offset \in Lane => Defined(c)
         /\ \A d \in Defects, m \in Mutations :
              /\ Seen(d, c, m) \subseteq Lane
              /\ Counted(d, c, m) \in 0 .. 2^Bits
              /\ Counted(d, c, m) = 0 <=> Seen(d, c, m) = {}
<1>1. /\ c.code \in Code /\ c.stride \in Lane /\ c.stride % 2 = 1
      /\ c.offset \in Int /\ IntMax \in Nat /\ IntMax >= 32767
  BY ConfigsAssumption
<1>2. ASSUME NEW d \in Defects, NEW m \in Mutations
      PROVE  Seen(d, c, m) \subseteq Lane
  BY DEF Seen, Disagree
<1>3. c.offset \in Lane => Defined(c)
  <2> SUFFICES ASSUME c.offset \in Lane PROVE Defined(c)
    OBVIOUS
  <2> DEFINE N == 2^Bits
  <2>1. N \in {2, 4, 8, 16} /\ c.stride \in 0 .. N - 1 /\ c.offset \in 0 .. N - 1
    BY <1>1, Widths
  <2> HIDE DEF N
  <2>2. (N - 1) * c.stride <= 225
    <3>1. CASE N = 2
      BY <3>1, <2>1
    <3>2. CASE N = 4
      BY <3>2, <2>1
    <3>3. CASE N = 8
      BY <3>3, <2>1
    <3>4. CASE N = 16
      BY <3>4, <2>1
    <3> QED
      BY <2>1, <3>1, <3>2, <3>3, <3>4
  <2>3. (N - 1) * c.stride \in Int /\ c.offset \in Nat /\ c.offset <= 15
    BY <2>1
  <2>4. c.offset <= IntMax - (N - 1) * c.stride
    BY <2>2, <2>3, <1>1
  <2> QED
    BY <2>3, <2>4 DEF Defined, N
<1>4. Defined(c) => c.offset \in Nat
  BY DEF Defined
<1> QED
  BY <1>1, <1>2, <1>3, <1>4, LanesCounted DEF Counted

\* A sound probe passes.
LEMMA SoundPasses ==
  ASSUME NEW c \in Configs, Defined(c)
  PROVE  /\ Passing("none", c) /\ Seen("none", c, NoMutation) = {}
         /\ Counted("none", c, Drop) = 0 <=> c.code = {}
<1> DEFINE seen(m) == Seen("none", c, m)
<1>1. c.code \in Code /\ c.stride \in Lane /\ c.stride % 2 = 1 /\ c.offset \in Nat
  BY ConfigIs
<1>2. \A m \in Mutations : seen(m) = Differing(c.code, c.code, c.stride, c.offset, m)
  BY SeenIs
<1>3. /\ ~NoMutation.flip /\ ~NoMutation.shift /\ ~NoMutation.drop
      /\ Flip.flip /\ ~Flip.shift /\ ~Flip.drop
      /\ ~Shifted.flip /\ Shifted.shift /\ ~Shifted.drop
      /\ ~Drop.flip /\ ~Drop.shift /\ Drop.drop
  BY DEF NoMutation, Flip, Shifted, Drop, Mutation
<1>4. seen(NoMutation) = {}
  BY <1>1, <1>2, <1>3, MutationsAre, SameAgrees DEF Left
<1>5. seen(Flip) # {}
  BY <1>1, <1>2, <1>3, MutationsAre, FlipShows DEF Left
<1>6. seen(Shifted) # {}
  <2>1. Differing(c.code, c.code, c.stride, c.offset, Shifted) = Lane
    BY <1>1, <1>3, MutationsAre, DifferingIs
  <2> QED
    BY <2>1, <1>2, MutationsAre, OnesOfZero
<1>7. seen(Drop) = {} <=> c.code = {}
  <2>1. CASE c.code = {}
    BY <2>1, <1>1, <1>2, <1>3, MutationsAre, SameAgrees DEF Left
  <2>2. CASE c.code # {}
    BY <2>2, <1>1, <1>2, <1>3, MutationsAre, DropShows DEF Left
  <2> QED
    BY <2>1, <2>2
<1>8. "none" \in Defects
  BY DEF Defects
<1>9. /\ Counted("none", c, Flip) > 0 /\ Counted("none", c, Shifted) > 0
      /\ Counted("none", c, Drop) = 0 <=> c.code = {}
  <2> HIDE DEF seen
  <2>1. \A m \in Mutations : Counted("none", c, m) \in Nat
                               /\ (Counted("none", c, m) = 0 <=> seen(m) = {})
    <3>1. 2^Bits \in Nat
      BY Widths
    <3> QED
      BY <3>1, <1>8, ConfigIs DEF seen
  <2> QED
    BY <2>1, <1>5, <1>6, <1>7, MutationsAre
<1> QED
  BY <1>4, <1>9 DEF Passing

\* When a probe that passes is right about what it measured.
SoundAbout(d, c) ==
  \/ d = "none"
  \/ d \in {"base in both paths", "base in the lowering"} /\ c.code = {}

\* The controls expose every defect.
LEMMA DefectsFail ==
  ASSUME NEW d \in Defects, NEW c \in Configs, Defined(c), Passing(d, c)
  PROVE  SoundAbout(d, c)
<1>1. c.code \in Code /\ c.stride \in Lane /\ c.stride % 2 = 1 /\ c.offset \in Nat
  BY ConfigIs
<1>2. /\ ~NoMutation.flip /\ ~NoMutation.shift /\ ~NoMutation.drop
      /\ Flip.flip /\ ~Flip.shift /\ ~Flip.drop
      /\ ~Shifted.flip /\ Shifted.shift /\ ~Shifted.drop
      /\ ~Drop.flip /\ ~Drop.shift /\ Drop.drop
  BY DEF NoMutation, Flip, Shifted, Drop, Mutation
<1>3. /\ Seen(d, c, NoMutation) = {}
      /\ Seen(d, c, Flip) # {} /\ Seen(d, c, Shifted) # {}
      /\ c.code = {} <=> Seen(d, c, Drop) = {}
  <2>1. \A m \in Mutations : Counted(d, c, m) = 0 <=> Seen(d, c, m) = {}
    BY ConfigIs
  <2>2. /\ Seen(d, c, NoMutation) = {}
        /\ Counted(d, c, Flip) > 0 /\ Counted(d, c, Shifted) > 0
        /\ c.code = {} <=> Counted(d, c, Drop) = 0
    BY DEF Passing
  <2> QED
    BY <2>1, <2>2, MutationsAre
<1>4. CASE d = "same path twice"
  BY <1>3, <1>4, SeenIs, MutationsAre
<1>5. CASE d = "base in both paths"
  <2>1. Seen(d, c, Drop) = Differing({}, {}, c.stride, c.offset, Drop)
    BY <1>5, SeenIs, MutationsAre, Zenon
  <2>2. Left({}, Drop) = {}
    BY DEF Left
  <2>3. Seen(d, c, Drop) = {}
    BY <2>1, <2>2, <1>1, <1>2, MutationsAre, SameAgrees
  <2> QED
    BY <2>3, <1>3, <1>5 DEF SoundAbout
<1>6. CASE d = "base in the lowering"
  <2>1. Seen(d, c, NoMutation) = Differing(c.code, {}, c.stride, c.offset, NoMutation)
    BY <1>6, SeenIs, MutationsAre, Zenon
  <2>2. Left({}, NoMutation) = {}
    BY DEF Left
  <2>3. c.code # {} => Seen(d, c, NoMutation) # {}
    BY <2>1, <2>2, <1>1, <1>2, MutationsAre, DropShows
  <2> QED
    BY <2>3, <1>3, <1>6 DEF SoundAbout
<1>7. CASE d = "sign poisoned"
  <2>1. Seen(d, c, NoMutation) = Differing(c.code, c.code, c.stride, c.offset, Flip)
    <3>1. Mutation(TRUE, NoMutation.shift, NoMutation.drop) = Flip
      <4>1. NoMutation.shift = FALSE /\ NoMutation.drop = FALSE
        BY DEF NoMutation, Mutation
      <4> QED
        BY <4>1, Zenon DEF Flip
    <3> QED
      BY <3>1, <1>7, SeenIs, MutationsAre
  <2>2. Seen(d, c, NoMutation) # {}
    BY <2>1, <1>1, <1>2, MutationsAre, FlipShows DEF Left
  <2> QED
    BY <2>2, <1>3
<1>8. CASE d = "writes reordered"
  <2>1. Seen(d, c, Shifted) = Differing(c.code, c.code, c.stride, c.offset, NoMutation)
    <3>1. Mutation(Shifted.flip, FALSE, Shifted.drop) = NoMutation
      <4>1. Shifted.flip = FALSE /\ Shifted.drop = FALSE
        BY DEF Shifted, Mutation
      <4> QED
        BY <4>1, Zenon DEF NoMutation
    <3> QED
      BY <3>1, <1>8, SeenIs, MutationsAre
  <2>2. Seen(d, c, Shifted) = {}
    BY <2>1, <1>1, <1>2, MutationsAre, SameAgrees DEF Left
  <2> QED
    BY <2>2, <1>3
<1> QED
  BY <1>4, <1>5, <1>6, <1>7, <1>8 DEF Defects, SoundAbout

-----------------------------------------------------------------------------
(* What the oracle makes of it. *)

LEMMA IfIs ==
  ASSUME NEW broken \in BOOLEAN, NEW reason
  PROVE  If(broken, reason) = {} <=> ~broken
BY DEF If

\* An accepted receipt passes every layer, two of which look at the controls and the count.
LEMMA AcceptedIs ==
  ASSUME NEW r, Reasons(r) = {}
  PROVE  MissingFields(r) = {} /\ Controls(r) = {} /\ Parity(r) = {}
BY Zenon DEF Reasons

\* The probe's result follows from what else it reports, by the oracle's own rules.
LEMMA FailureShows ==
  ASSUME NEW d \in Defects, NEW c \in Configs, NEW r, Reasons(r) = {},
         r["result"] = Str("PASS"),
         \A f \in RequiredFields \ {"result"} : r[f] = Measure(d, c)[f]
  PROVE  Passing(d, c)
<1> DEFINE m == Measure(d, c)
           trivial == r["phase_code"] = Num(0)
           twist == r["twist_drop_mutation_mismatching_lanes"][2]
<1>1. /\ r["phase_code"] = Num(CodeNumber(c.code))
      /\ r["mismatching_lanes"] = Num(Counted(d, c, NoMutation))
      /\ r["sign_mutation_mismatching_lanes"] = Num(Counted(d, c, Flip))
      /\ r["lane_mutation_mismatching_lanes"] = Num(Counted(d, c, Shifted))
      /\ r["twist_drop_mutation_mismatching_lanes"] = Num(Counted(d, c, Drop))
  <2>1. {"phase_code", "mismatching_lanes", "sign_mutation_mismatching_lanes",
         "lane_mutation_mismatching_lanes", "twist_drop_mutation_mismatching_lanes"}
          \subseteq RequiredFields \ {"result"}
    BY DEF RequiredFields, IntFields
  <2> QED
    BY <2>1, ReceiptIs
<1>2. \A n : Num(n)[2] = n
  BY DEF Num
<1>3. \A k \in {NoMutation, Flip, Shifted, Drop} :
        Counted(d, c, k) \in Nat /\ (Counted(d, c, k) = 0 <=> Seen(d, c, k) = {})
  <2>1. 2^Bits \in Nat
    BY Widths
  <2>2. \A k \in {NoMutation, Flip, Shifted, Drop} : k \in Mutations
    BY MutationsAre
  <2>3. \A k \in Mutations :
          Counted(d, c, k) \in 0 .. 2^Bits /\ (Counted(d, c, k) = 0 <=> Seen(d, c, k) = {})
    BY ConfigIs
  <2> QED
    BY <2>1, <2>2, <2>3
<1>4. trivial <=> c.code = {}
  <2>1. c.code \in Code
    BY ConfigIs
  <2>2. trivial <=> CodeNumber(c.code) = 0
    BY <1>1 DEF Num
  <2> QED
    BY <2>1, <2>2, NumberInRange
<1>5. /\ If(r["sign_mutation_mismatching_lanes"][2] <= 0, "SIGN_CONTROL_INERT") = {}
      /\ If(r["lane_mutation_mismatching_lanes"][2] <= 0, "LANE_CONTROL_INERT") = {}
      /\ If(trivial /\ twist # 0, "TWIST_CONTROL_FIRED_ON_THE_BASE") = {}
      /\ If(~trivial /\ twist <= 0, "TWIST_CONTROL_INERT_ON_A_TWISTED_OPERATOR") = {}
  <2>1. Controls(r) = {}
    BY AcceptedIs
  <2> QED
    BY <2>1, Zenon DEF Controls
<1>6. If(r["result"] = Str("PASS") /\ r["mismatching_lanes"][2] # 0,
         "PASS_WITH_MISMATCHING_LANES") = {}
  <2>1. Parity(r) = {}
    BY AcceptedIs
  <2> QED
    BY <2>1, Zenon DEF Parity
<1> HIDE DEF trivial, twist
<1>7. ~(r["sign_mutation_mismatching_lanes"][2] <= 0) /\ ~(r["lane_mutation_mismatching_lanes"][2] <= 0)
  BY <1>5, IfIs
<1>8. ~(trivial /\ twist # 0) /\ ~(~trivial /\ twist <= 0)
  BY <1>5, IfIs
<1>9. ~(r["mismatching_lanes"][2] # 0)
  BY <1>6, IfIs
<1>10. Counted(d, c, Flip) > 0 /\ Counted(d, c, Shifted) > 0
  BY <1>1, <1>2, <1>3, <1>7
<1>11. c.code = {} <=> Counted(d, c, Drop) = 0
  BY <1>1, <1>2, <1>3, <1>4, <1>8 DEF twist
<1>12. Seen(d, c, NoMutation) = {}
  BY <1>1, <1>2, <1>3, <1>9
<1> QED
  BY <1>10, <1>11, <1>12 DEF Passing

\* An accepted receipt names a lane as its offset.
LEMMA AcceptedOffset ==
  ASSUME NEW r, Reasons(r) = {}
  PROVE  r["lane_offset"][2] \in Lane
<1>1. Provenance(r) = {}
  BY Zenon DEF Reasons
<1>2. If(r["lane_offset"][2] \notin Lane, "LANE_OFFSET") = {}
  BY <1>1, Zenon DEF Provenance
<1> QED
  BY <1>2, IfIs

\* A sound probe reports PASS, and the oracle accepts that if the offset is a lane.
LEMMA SoundIsPassed ==
  ASSUME NEW c \in Configs, Defined(c)
  PROVE  /\ Measure("none", c)["result"] = Str("PASS")
         /\ c.offset \in Lane => Reasons(Measure("none", c)) = {}
<1> DEFINE r == Measure("none", c)
<1>1. /\ Passing("none", c) /\ Seen("none", c, NoMutation) = {}
      /\ Counted("none", c, Drop) = 0 <=> c.code = {}
  BY SoundPasses
<1>2. r["result"] = Str("PASS")
  BY <1>1, ReceiptIs
<1>3. ForbiddenFields(r) = {} /\ MissingFields(r) = {}
  BY ReceiptIs DEF ForbiddenFields, MissingFields, Forbidden, RequiredFields, IntFields, BoolFields
<1>4. WrongTypes(r) = {}
  <2>1. /\ \A n : Num(n)[1] = "int"
        /\ \A b : Bool(b)[1] = "bool"
    BY DEF Num, Bool
  <2>2. /\ r["schema"][1] = "int" /\ r["kind"][1] = "int" /\ r["phase_code"][1] = "int"
        /\ r["lane_stride"][1] = "int" /\ r["lane_offset"][1] = "int"
        /\ r["dimension"][1] = "int" /\ r["precision"][1] = "int" /\ r["trials"][1] = "int"
        /\ r["mismatching_lanes"][1] = "int" /\ r["first_mismatch"][1] = "int"
        /\ r["sign_mutation_mismatching_lanes"][1] = "int"
        /\ r["lane_mutation_mismatching_lanes"][1] = "int"
        /\ r["twist_drop_mutation_mismatching_lanes"][1] = "int"
    BY <2>1, MeasureIs
  <2>3. /\ r["reassociated"][1] = "bool" /\ r["fma_contracted"][1] = "bool"
        /\ r["flush_to_zero"][1] = "bool" /\ r["denormals_are_zero"][1] = "bool"
        /\ r["twist_is_trivial"][1] = "bool" /\ r["claim_ready"][1] = "bool"
    BY <2>1, MeasureIs
  <2> HIDE DEF r
  <2>4. \A f \in IntFields : r[f][1] = "int"
    BY <2>2 DEF IntFields
  <2>5. \A f \in BoolFields : r[f][1] = "bool"
    BY <2>3 DEF BoolFields
  <2> QED
    BY <2>4, <2>5 DEF WrongTypes
<1>5. ASSUME c.offset \in Lane
      PROVE  Provenance(r) = {}
  <2>1. c.code \in Code /\ c.stride \in Lane /\ c.stride % 2 = 1 /\ c.offset \in Lane
    BY <1>5, ConfigIs
  <2>2. CodeNumber(c.code) \in 0 .. 2^(Bits * Bits) - 1
    BY <2>1, NumberInRange
  <2>3. c.stride \in 1 .. 2^Bits - 1 /\ c.stride % 2 # 0
    BY <2>1, Widths
  <2>4. /\ r["schema"] = Num(1) /\ r["producer_role"] = Str("OPERATOR_SELF_PARITY")
        /\ r["semantic_authority_language"] = Str("Sounio") /\ r["kind"] = Num(2)
        /\ r["dimension"] = Num(2^Bits) /\ r["precision"] = Num(64)
        /\ r["phase_code"][2] = CodeNumber(c.code)
        /\ r["lane_stride"][2] = c.stride /\ r["lane_offset"][2] = c.offset
    BY MeasureIs DEF Num
  <2> HIDE DEF r
  <2> QED
    BY <2>1, <2>2, <2>3, <2>4 DEF Provenance, If
<1>6. Derivations(r) = {} /\ Claim(r) = {}
  <2>1. /\ r["reference_derivation"] = Str("recomputed_per_term")
        /\ r["lowered_derivation"] = Str("packed_sign_table_via_lane_map")
        /\ r["shared_accumulation_order"] = Str("ascending_right_operand")
        /\ r["establishes"] = Str("two_materialisations_agree")
        /\ r["claim_ready"] = Bool(FALSE)
        /\ r["fp_utility"] = Str("NOT_ESTABLISHED")
    BY MeasureIs
  <2> HIDE DEF r
  <2> QED
    BY <2>1 DEF Derivations, Claim, If, Str
<1>7. Environment(r) = {}
  <2>1. /\ r["rounding_mode"] = Str("FE_TONEAREST") /\ r["trials"] = Num(64)
        /\ r["reassociated"] = Bool(FALSE) /\ r["fma_contracted"] = Bool(FALSE)
        /\ r["flush_to_zero"] = Bool(FALSE) /\ r["denormals_are_zero"] = Bool(FALSE)
    BY MeasureIs
  <2> HIDE DEF r
  <2>2. r["trials"][2] = 64
    BY <2>1 DEF Num
  <2>3. ~\E f \in {"reassociated", "fma_contracted", "flush_to_zero", "denormals_are_zero"} :
          r[f] # Bool(FALSE)
    BY <2>1
  <2>4. /\ If(r["rounding_mode"] # Str("FE_TONEAREST"), "ROUNDING_MODE") = {}
        /\ If(\E f \in {"reassociated", "fma_contracted", "flush_to_zero", "denormals_are_zero"} :
                 r[f] # Bool(FALSE), "NUMERIC_ENVIRONMENT") = {}
    BY <2>1, <2>3, Zenon DEF If
  <2>5. If(r["trials"][2] < 1, "NO_TRIALS") = {}
    BY <2>2 DEF If
  <2> QED
    BY <2>4, <2>5, Zenon DEF Environment
<1>8. /\ Counted("none", c, NoMutation) = 0
      /\ Counted("none", c, Flip) > 0 /\ Counted("none", c, Shifted) > 0
      /\ \A m \in {Flip, Shifted, Drop} : Counted("none", c, m) \in Nat
  <2>1. 2^Bits \in Nat /\ "none" \in Defects
    BY Widths DEF Defects
  <2> QED
    BY <2>1, <1>1, ConfigIs, MutationsAre DEF Passing
<1>9. Controls(r) = {}
  <2>1. /\ r["sign_mutation_mismatching_lanes"][2] = Counted("none", c, Flip)
        /\ r["lane_mutation_mismatching_lanes"][2] = Counted("none", c, Shifted)
        /\ r["twist_drop_mutation_mismatching_lanes"][2] = Counted("none", c, Drop)
        /\ r["twist_is_trivial"] = Bool(c.code = {})
    BY MeasureIs DEF Num
  <2>2. (r["phase_code"] = Num(0)) = (c.code = {})
    <3>1. c.code \in Code
      BY ConfigIs
    <3>2. r["phase_code"] = Num(0) <=> CodeNumber(c.code) = 0
      BY MeasureIs DEF Num
    <3> QED
      BY <3>1, <3>2, NumberInRange
  <2> HIDE DEF r
  <2>3. /\ If(r["sign_mutation_mismatching_lanes"][2] <= 0, "SIGN_CONTROL_INERT") = {}
        /\ If(r["lane_mutation_mismatching_lanes"][2] <= 0, "LANE_CONTROL_INERT") = {}
    BY <2>1, <1>8 DEF If
  <2>4. If(r["twist_is_trivial"] # Bool(r["phase_code"] = Num(0)),
           "TWIST_TRIVIALITY_MISDECLARED") = {}
    BY <2>1, <2>2, Zenon DEF If
  <2>5. /\ If(r["phase_code"] = Num(0) /\ r["twist_drop_mutation_mismatching_lanes"][2] # 0,
              "TWIST_CONTROL_FIRED_ON_THE_BASE") = {}
        /\ If(~(r["phase_code"] = Num(0)) /\ r["twist_drop_mutation_mismatching_lanes"][2] <= 0,
              "TWIST_CONTROL_INERT_ON_A_TWISTED_OPERATOR") = {}
    BY <2>1, <2>2, <1>1, <1>8 DEF If
  <2> QED
    BY <2>3, <2>4, <2>5, Zenon DEF Controls
<1>10. Parity(r) = {}
  <2>1. r["mismatching_lanes"][2] = 0
    BY MeasureIs, <1>8 DEF Num
  <2>2. r["first_mismatch"][2] = -1
    BY MeasureIs, <1>1 DEF Num, FirstOf
  <2>3. 0 \in 0 .. 2^Bits
    BY Widths
  <2> HIDE DEF r
  <2> QED
    BY <2>1, <2>2, <2>3, <1>2 DEF Parity, If
<1>11. c.offset \in Lane => Reasons(r) = {}
  <2> HIDE DEF r
  <2> QED
    BY <1>3, <1>4, <1>5, <1>6, <1>7, <1>9, <1>10 DEF Reasons
<1> QED
  BY <1>2, <1>11

-----------------------------------------------------------------------------
(* Receipts on their way. *)

\* Fields that nobody touched are as they were in m.
Kept(m) ==
  /\ edited = {} => receipt = m
  /\ \A f \in RequiredFields \ edited : f \in DOMAIN receipt /\ receipt[f] = m[f]

Untouched == \E m \in Printed(defect, config) : Kept(m)

Judged ==
  /\ verdict \in {"open", "accepted", "refused"}
  /\ verdict = "accepted" => Reasons(receipt) = {}
  /\ verdict = "refused" => Reasons(receipt) # {}

IInv ==
  /\ defect \in Defects /\ config \in Configs
  /\ IsFiniteSet(edited)
  /\ Untouched /\ Judged

LEMMA InitIInv == Init => IInv
<1> SUFFICES ASSUME Init PROVE IInv
  OBVIOUS
<1>1. defect \in Defects /\ config \in Configs /\ IsFiniteSet(edited)
  BY FS_EmptySet DEF Init
<1>2. Untouched
  <2>1. receipt \in Printed(defect, config) /\ edited = {}
    BY DEF Init
  <2>2. Kept(receipt)
    BY <2>1, PrintedIs DEF Kept
  <2> QED
    BY <2>1, <2>2 DEF Untouched
<1>3. Judged
  BY DEF Init, Judged
<1> QED
  BY <1>1, <1>2, <1>3 DEF IInv

LEMMA EditKeepsIInv ==
  ASSUME IInv, NEW f \in RequiredFields \cup Extras, Edit(f)
  PROVE  IInv'
<1>1. PICK v \in Forgeries(f) :
        receipt' = [g \in (DOMAIN receipt \cup {f}) \ {h \in {f} : v = Absent} |->
                      IF g = f THEN v ELSE receipt[g]]
  BY DEF Edit
<1>2. edited' = edited \cup {f} /\ UNCHANGED <<defect, config, verdict>> /\ verdict = "open"
  BY DEF Edit
<1>3. Untouched'
  <2>1. PICK m \in Printed(defect, config) : Kept(m)
    BY DEF IInv, Untouched
  <2>2. ASSUME NEW g \in RequiredFields \ edited'
        PROVE  g \in DOMAIN receipt' /\ receipt'[g] = m[g]
    <3>1. g # f /\ g \in RequiredFields \ edited
      BY <1>2, <2>2
    <3>2. g \in DOMAIN receipt /\ receipt[g] = m[g]
      BY <3>1, <2>1 DEF Kept
    <3> QED
      BY <1>1, <3>1, <3>2
  <2>3. edited' # {}
    BY <1>2
  <2>4. Kept(m)'
    BY <2>2, <2>3 DEF Kept
  <2> QED
    BY <1>2, <2>4 DEF Untouched
<1>4. IsFiniteSet(edited')
  BY <1>2, FS_AddElement DEF IInv
<1>5. Judged'
  BY <1>2 DEF Judged
<1> QED
  BY <1>2, <1>3, <1>4, <1>5 DEF IInv

LEMMA StepIInv == IInv /\ [Next]_vars => IInv'
<1> SUFFICES ASSUME IInv, [Next]_vars PROVE IInv'
  OBVIOUS
<1>1. ASSUME NEW f \in RequiredFields \cup Extras, Edit(f)
      PROVE  IInv'
  BY <1>1, EditKeepsIInv
<1>2. CASE Evaluate
  <2>1. UNCHANGED <<defect, config, receipt, edited>>
    BY <1>2 DEF Evaluate
  <2>2. Untouched'
    BY <2>1 DEF IInv, Untouched, Kept
  <2>3. Judged'
    BY <1>2 DEF Evaluate, Judged
  <2> QED
    BY <2>1, <2>2, <2>3 DEF IInv
<1>3. CASE UNCHANGED vars
  BY <1>3 DEF IInv, Untouched, Kept, Judged, vars
<1> QED
  BY <1>1, <1>2, <1>3 DEF Next

LEMMA AlwaysIInv == Spec => []IInv
BY InitIInv, StepIInv, PTL DEF Spec

\* Every operator, every odd stride and every offset for which the lane map is defined: a sound
\* probe reports PASS, and the oracle accepts the untouched report iff the offset is a lane.
THEOREM SoundProbesPass == Spec => []SoundProbePasses
<1>1. IInv => SoundProbePasses
  <2> SUFFICES ASSUME IInv, edited = {}, defect = "none", Defined(config)
               PROVE  /\ receipt["result"] = Str("PASS")
                      /\ verdict # "open" => (verdict = "accepted" <=> config.offset \in Lane)
    BY DEF SoundProbePasses
  <2>1. config \in Configs /\ receipt \in Printed("none", config)
    BY DEF IInv, Untouched, Kept
  <2>2. receipt = Measure("none", config) /\ receipt["lane_offset"] = Num(config.offset)
    BY <2>1, PrintedIs
  <2>3. receipt["result"] = Str("PASS") /\ (config.offset \in Lane => Reasons(receipt) = {})
    BY <2>1, <2>2, SoundIsPassed
  <2>4. Reasons(receipt) = {} => config.offset \in Lane
    <3>1. receipt["lane_offset"][2] = config.offset
      BY <2>2 DEF Num
    <3> QED
      BY <3>1, AcceptedOffset
  <2> QED
    BY <2>3, <2>4 DEF IInv, Judged
<1> QED
  BY <1>1, AlwaysIInv, PTL

\* Whatever is measured, no single altered field turns the report of a probe with one of the
\* defects into an accepted PASS; of what undefined behaviour printed, only an offset put right
\* is accepted.
THEOREM NoEditForgesPass == Spec => []OneEditForgesNoPass
<1>1. IInv => OneEditForgesNoPass
  <2> SUFFICES ASSUME IInv, verdict = "accepted", Cardinality(edited) <= 1,
                      receipt["result"] = Str("PASS")
               PROVE  IF Defined(config) THEN SoundHere ELSE edited = {"lane_offset"}
    BY DEF OneEditForgesNoPass
  <2>1. defect \in Defects /\ config \in Configs /\ Reasons(receipt) = {}
    BY DEF IInv, Judged
  <2>2. ASSUME NEW f \in edited PROVE edited = {f}
    <3>1. IsFiniteSet(edited \ {f}) /\ Cardinality(edited \ {f}) = Cardinality(edited) - 1
      BY FS_RemoveElement DEF IInv
    <3>2. Cardinality(edited \ {f}) \in Nat /\ Cardinality(edited) \in Nat
      BY <3>1, FS_CardinalityType DEF IInv
    <3>3. Cardinality(edited \ {f}) = 0
      BY <3>1, <3>2
    <3>4. edited \ {f} = {}
      BY <3>1, <3>3, FS_EmptySet
    <3> QED
      BY <3>4
  <2>3. PICK m \in Printed(defect, config) : Kept(m)
    BY DEF IInv, Untouched
  <2>4. CASE ~Defined(config)
    <3>1. "lane_offset" \in RequiredFields
      BY DEF RequiredFields, IntFields
    <3>2. config.offset \notin Lane
      BY <2>1, <2>4, ConfigIs
    <3>3. m["lane_offset"][2] = config.offset
      BY <2>3, PrintedIs DEF Num
    <3>4. receipt["lane_offset"][2] \in Lane
      BY <2>1, AcceptedOffset
    <3>5. "lane_offset" \in edited
      BY <3>1, <3>2, <3>3, <3>4, <2>3 DEF Kept
    <3> QED
      BY <3>5, <2>2, <2>4
  <2>5. CASE Defined(config)
    <3>1. "result" \in RequiredFields
      BY DEF RequiredFields
    <3>2. m = Measure(defect, config)
      BY <2>3, <2>5, PrintedIs
    <3>3. Passing(defect, config)
      <4>1. CASE "result" \notin edited
        <5>1. Measure(defect, config)["result"] = Str("PASS")
          BY <3>1, <3>2, <4>1, <2>3 DEF Kept
        <5>2. Str(IF Passing(defect, config) THEN "PASS" ELSE "FAIL") = Str("PASS")
          BY <5>1, ReceiptIs
        <5> QED
          BY <5>2 DEF Str
      <4>2. CASE "result" \in edited
        <5>1. edited = {"result"}
          BY <4>2, <2>2
        <5>2. \A f \in RequiredFields \ {"result"} : receipt[f] = Measure(defect, config)[f]
          BY <5>1, <3>2, <2>3 DEF Kept
        <5> QED
          BY <2>1, <5>2, FailureShows
      <4> QED
        BY <4>1, <4>2
    <3>4. SoundAbout(defect, config)
      BY <2>1, <2>5, <3>3, DefectsFail
    <3> QED
      BY <3>4, <2>5, Zenon DEF SoundAbout, SoundHere
  <2> QED
    BY <2>4, <2>5
<1> QED
  BY <1>1, AlwaysIInv, PTL
=============================================================================
