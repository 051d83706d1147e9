----------------------------- MODULE ZdPairProof -----------------------------
(***************************************************************************)
(* TypeOK, Ledger, VerdictExact and ZeroFlagSound hold of the unit for     *)
(* every number of lanes, every sign ROM and lane selection that stays     *)
(* among the lanes, every word wider than three bits and every limit; and  *)
(* with the ROM of the oracle the unit implements the service and computes *)
(* the product by the doubling formula.                                    *)
(***************************************************************************)
EXTENDS ZdPairRefinement, FiniteSetTheorems, TLAPS

Pairs == Lane \X Lane

-----------------------------------------------------------------------------
(* Lemmas about the data path.                                             *)

\* Wrapping keeps what fits a word and always yields a word.
LEMMA WrapWord ==
  ASSUME NEW x \in Int
  PROVE  /\ Wrap(x) \in Word
         /\ x \in Word => Wrap(x) = x
<1> DEFINE m == 2 * Half
<1>1. Half \in Nat /\ m \in Nat /\ m > 0
  BY WidthAssumption
<1>2. (x + Half) % m \in 0 .. m - 1
  BY <1>1
<1>3. ASSUME x \in Word PROVE (x + Half) % m = x + Half
  <2>1. x + Half \in 0 .. m - 1
    BY <1>1, <1>3 DEF Word
  <2> HIDE DEF m
  <2>2. QED
    BY <2>1, <1>1
<1>4. QED
  BY <1>1, <1>2, <1>3 DEF Wrap, Word

\* What admission means for the operands.
LEMMA AdmittedOperands ==
  ASSUME NEW l, NEW r, Admitted(l, r)
  PROVE  /\ \A k \in Lane : l[k] \in {-1, 0, 1} /\ r[k] \in {-1, 0, 1}
         /\ ~(Cardinality(Support(l)) > 2) /\ ~(Cardinality(Support(r)) > 2)
         /\ Support(l) # {} /\ Support(r) # {}
<1>1. ~ValidationTooMany(l, r) /\ ~ValidationUnsupported(l, r) /\ ~ValidationZero(l, r)
  BY DEF Admitted, Screen
<1>2. QED
  BY <1>1 DEF ValidationTooMany, ValidationUnsupported, ValidationZero

LEMMA FinitePairs == IsFiniteSet(Lane) /\ IsFiniteSet(Pairs)
<1>1. IsFiniteSet(0 .. N - 1)
  <2>1. N - 1 \in Int
    BY DimensionAssumption
  <2>2. QED
    BY <2>1, FS_Interval
<1>2. IsFiniteSet(Lane)
  BY <1>1 DEF Lane
<1>3. QED
  BY <1>2, FS_Product DEF Pairs

\* The product of two admitted coefficients, with its sign, is a unit or zero.
LEMMA UnitTerm ==
  ASSUME NEW u \in {-1, 0, 1}, NEW v \in {-1, 0, 1}, NEW a \in Lane, NEW b \in Lane
  PROVE  /\ BasisTerm(u, v, a, b) \in {-1, 0, 1}
         /\ BasisTerm(u, v, a, b) = IF Negative(a, b) THEN -(u * v) ELSE u * v
<1>1. u * v \in {-1, 0, 1}
  OBVIOUS
<1>2. {-1, 0, 1} \subseteq Word
  BY WidthAssumption DEF Word
<1>3. Wrap(u * v) = u * v /\ Wrap(-(u * v)) = -(u * v)
  <2>1. -(u * v) \in {-1, 0, 1} /\ u * v \in Int /\ -(u * v) \in Int
    BY <1>1
  <2>2. QED
    BY <1>1, <1>2, <2>1, WrapWord
<1>4. QED
  BY <1>1, <1>3 DEF BasisTerm

\* The terms of an admitted pair lie where both supports do, so no lane ever
\* balances outside -4 .. 4: the headroom the coefficient limit stands for.
LEMMA BalanceBound ==
  ASSUME NEW l, NEW r, Admitted(l, r), NEW S \in SUBSET Pairs, NEW k
  PROVE  /\ \A s \in {-1, 1} : IsFiniteSet(Terms(l, r, S, k, s))
         /\ Balance(l, r, S, k) \in -4 .. 4
<1> DEFINE box == Support(l) \X Support(r)
<1>1. IsFiniteSet(Support(l)) /\ IsFiniteSet(Support(r))
  BY FinitePairs, FS_Subset DEF Support
<1>2. Cardinality(Support(l)) \in 0 .. 2 /\ Cardinality(Support(r)) \in 0 .. 2
  BY <1>1, FS_CardinalityType, AdmittedOperands
<1>3. IsFiniteSet(box) /\ Cardinality(box) = Cardinality(Support(l)) * Cardinality(Support(r))
  BY <1>1, FS_Product
<1>4. \A x, y \in 0 .. 2 : x * y \in 0 .. 4
  OBVIOUS
<1>5. Cardinality(box) \in 0 .. 4
  BY <1>2, <1>3, <1>4
<1>6. ASSUME NEW s \in {-1, 1}
      PROVE  Terms(l, r, S, k, s) \in SUBSET box
  <2>1. ASSUME NEW p \in Terms(l, r, S, k, s) PROVE p \in box
    <3>1. p \in Pairs /\ p[1] \in Lane /\ p[2] \in Lane /\ p = <<p[1], p[2]>>
      BY DEF Terms, Pairs
    <3>2. l[p[1]] * r[p[2]] # 0
      BY DEF Terms
    <3>3. l[p[1]] \in {-1, 0, 1} /\ r[p[2]] \in {-1, 0, 1}
      BY <3>1, AdmittedOperands
    <3>4. l[p[1]] # 0 /\ r[p[2]] # 0
      BY <3>2, <3>3
    <3>5. QED
      BY <3>1, <3>4 DEF Support
  <2>2. QED
    BY <2>1
<1>7. ASSUME NEW s \in {-1, 1}
      PROVE  /\ IsFiniteSet(Terms(l, r, S, k, s))
             /\ Cardinality(Terms(l, r, S, k, s)) \in 0 .. 4
  <2>1. /\ IsFiniteSet(Terms(l, r, S, k, s))
        /\ Cardinality(Terms(l, r, S, k, s)) <= Cardinality(box)
    BY <1>3, <1>6, FS_Subset
  <2>2. QED
    BY <2>1, <1>5, FS_CardinalityType
<1>8. QED
  BY <1>7 DEF Balance

LEMMA BalanceEmpty ==
  ASSUME NEW l, NEW r, NEW k
  PROVE  Balance(l, r, {}, k) = 0
<1>1. \A s : Terms(l, r, {}, k, s) = {}
  BY DEF Terms
<1>2. QED
  BY <1>1, FS_EmptySet DEF Balance

\* Retiring one more pair adds its basis term to its lane and to no other.
LEMMA BalanceStep ==
  ASSUME NEW l, NEW r, Admitted(l, r),
         NEW S \in SUBSET Pairs, NEW a \in Lane, NEW b \in Lane, <<a, b>> \notin S,
         NEW k
  PROVE  Balance(l, r, S \cup {<<a, b>>}, k) =
           Balance(l, r, S, k) + IF Xor(a, b) = k THEN BasisTerm(l[a], r[b], a, b) ELSE 0
<1> DEFINE t == BasisTerm(l[a], r[b], a, b)
           T(s) == Terms(l, r, S, k, s)
           U(s) == Terms(l, r, S \cup {<<a, b>>}, k, s)
<1>1. l[a] \in {-1, 0, 1} /\ r[b] \in {-1, 0, 1}
  BY AdmittedOperands
<1>2. t \in {-1, 0, 1} /\ t = IF Negative(a, b) THEN -(l[a] * r[b]) ELSE l[a] * r[b]
  BY <1>1, UnitTerm
<1>3. ASSUME NEW s \in {-1, 1}
      PROVE  U(s) = IF Xor(a, b) = k /\ t = s THEN T(s) \cup {<<a, b>>} ELSE T(s)
  <2>1. (l[a] * r[b] = IF Negative(a, b) THEN -s ELSE s) <=> (t = s)
    <3>1. l[a] * r[b] \in {-1, 0, 1}
      BY <1>1
    <3>2. QED
      BY <1>2, <3>1
  <2>2. <<a, b>>[1] = a /\ <<a, b>>[2] = b
    OBVIOUS
  <2>3. QED
    BY <2>1, <2>2 DEF Terms
<1>4. ASSUME NEW s \in {-1, 1}
      PROVE  /\ Cardinality(T(s)) \in Nat
             /\ Cardinality(U(s)) =
                  IF Xor(a, b) = k /\ t = s THEN Cardinality(T(s)) + 1 ELSE Cardinality(T(s))
  <2>1. IsFiniteSet(T(s))
    BY BalanceBound
  <2>2. <<a, b>> \notin T(s)
    BY DEF Terms
  <2>3. QED
    BY <2>1, <2>2, <1>3, FS_AddElement, FS_CardinalityType
<1>5. Balance(l, r, S, k) = Cardinality(T(1)) - Cardinality(T(-1))
  BY DEF Balance
<1>6. Balance(l, r, S \cup {<<a, b>>}, k) = Cardinality(U(1)) - Cardinality(U(-1))
  BY DEF Balance
<1> HIDE DEF t, T, U
<1>7. QED
  BY <1>2, <1>4, <1>5, <1>6 DEF t

\* The lane pairs the cursor <<i, j>> has left behind, j running fastest.
Before(i, j) == {p \in Pairs : p[1] < i \/ (p[1] = i /\ p[2] < j)}

LEMMA BeforeStep ==
  ASSUME NEW i \in Lane, NEW j \in Lane
  PROVE  /\ Before(0, 0) = {}
         /\ Before(i, j) \in SUBSET Pairs /\ <<i, j>> \in Pairs
         /\ <<i, j>> \notin Before(i, j)
         /\ j # N - 1 => Before(i, j + 1) = Before(i, j) \cup {<<i, j>>}
         /\ j = N - 1 => Before(i + 1, 0) = Before(i, j) \cup {<<i, j>>}
         /\ j = N - 1 /\ i = N - 1 => Pairs = Before(i, j) \cup {<<i, j>>}
<1> USE DimensionAssumption DEF Lane
<1>1. \A p \in Pairs : p[1] \in Lane /\ p[2] \in Lane /\ p = <<p[1], p[2]>>
  BY DEF Pairs
<1>2. <<i, j>> \in Pairs /\ <<i, j>>[1] = i /\ <<i, j>>[2] = j
  BY DEF Pairs
<1>3. \A p \in Pairs : p = <<i, j>> <=> (p[1] = i /\ p[2] = j)
  BY <1>1, <1>2
<1>4. Before(0, 0) = {}
  BY <1>1 DEF Before
<1>5. <<i, j>> \notin Before(i, j)
  BY <1>2 DEF Before
<1>6. ASSUME j # N - 1 PROVE Before(i, j + 1) = Before(i, j) \cup {<<i, j>>}
  <2>1. \A p \in Pairs : p[2] < j + 1 <=> (p[2] < j \/ p[2] = j)
    BY <1>1
  <2>2. QED
    BY <1>2, <1>3, <2>1 DEF Before
<1>7. ASSUME j = N - 1 PROVE Before(i + 1, 0) = Before(i, j) \cup {<<i, j>>}
  <2>1. \A p \in Pairs : /\ p[1] < i + 1 <=> (p[1] < i \/ p[1] = i)
                         /\ p[2] < j \/ p[2] = j
                         /\ ~(p[2] < 0)
    BY <1>1, <1>7
  <2>2. QED
    BY <1>2, <1>3, <2>1 DEF Before
<1>8. ASSUME j = N - 1, i = N - 1 PROVE Pairs = Before(i, j) \cup {<<i, j>>}
  <2>1. \A p \in Pairs : (p[1] < i \/ p[1] = i) /\ (p[2] < j \/ p[2] = j)
    BY <1>1, <1>8
  <2>2. QED
    BY <1>2, <1>3, <2>1 DEF Before
<1>9. QED
  BY <1>2, <1>4, <1>5, <1>6, <1>7, <1>8 DEF Before

\* mac_cycles never reaches its width: N*N products are counted in a register
\* that holds 2*N*N values.
LEMMA CountStep ==
  ASSUME NEW i \in Lane, NEW j \in Lane
  PROVE  /\ MacModulus \in Nat /\ N * N \in Nat /\ N * N < MacModulus
         /\ i * N + j \in 0 .. N * N - 1
         /\ (i * N + j + 1) % MacModulus = i * N + j + 1
         /\ j = N - 1 => i * N + j + 1 = (i + 1) * N
<1>1. N \in Nat /\ N > 0 /\ i \in 0 .. N - 1 /\ j \in 0 .. N - 1
  BY DimensionAssumption DEF Lane
<1>2. i * N \in Nat /\ N * N \in Nat /\ N * N > 0 /\ (N - 1) * N = N * N - N
  BY <1>1
<1>3. i * N <= (N - 1) * N
  BY <1>1
<1>4. (i + 1) * N = i * N + N
  BY <1>1
<1>5. i * N + j \in 0 .. N * N - 1
  BY <1>1, <1>2, <1>3
<1>6. MacModulus \in Nat /\ MacModulus = N * N + N * N
  BY <1>1, <1>2 DEF MacModulus
<1>7. i * N + j + 1 \in 0 .. MacModulus - 1
  BY <1>2, <1>5, <1>6
<1>8. (i * N + j + 1) % MacModulus = i * N + j + 1
  BY <1>6, <1>7
<1>9. QED
  BY <1>1, <1>2, <1>4, <1>5, <1>6, <1>8

-----------------------------------------------------------------------------
(* The inductive invariant.  VerdictExact alone is not inductive: what     *)
(* Finalize publishes is exact because the accumulator was (Ledger), and   *)
(* that because the latched pair was admitted when the work began.         *)

\* Busy, finalizing and announcing exclude each other and a reset.
PhaseInv ==
  /\ ~(busy /\ finalize)
  /\ done => ready
  /\ ~rst_n => ready /\ ~done

\* Work is done only on an admitted pair, with the result registers cleared.
FlightInv == InFlight => Admitted(lhs_latched, rhs_latched) /\ ~product_is_zero

\* What the zero flag says of the other registers.
FlagInv ==
  product_is_zero => rst_n /\ ready /\ classification = "EXACT_ZD_PAIR" /\ error_code = "NONE"

IInv == TypeOK /\ PhaseInv /\ FlightInv /\ FlagInv /\ Ledger /\ VerdictExact

LEMMA RetiredIsBefore == Retired = IF finalize THEN Pairs ELSE Before(i_index, j_index)
BY DEF Retired, Before, Pairs

LEMMA InitIInv == Init => IInv
<1> SUFFICES ASSUME Init PROVE IInv
  OBVIOUS
<1> USE DEF Init
<1>1. 0 \in Lane /\ 0 \in Word /\ 0 \in 0 .. MacModulus - 1
  <2>1. 0 \in Lane /\ 0 \in Word
    BY DimensionAssumption, WidthAssumption DEF Lane, Word
  <2>2. QED
    BY <2>1, CountStep
<1>2. Zeros \in Operand
  BY <1>1 DEF Zeros, Operand
<1>3. TypeOK
  BY <1>1, <1>2 DEF TypeOK, Classifications, ErrorCodes
<1>4. PhaseInv /\ FlightInv /\ FlagInv /\ Ledger /\ VerdictExact
  BY DEF PhaseInv, FlightInv, FlagInv, Ledger, VerdictExact, InFlight, ready
<1>5. QED
  BY <1>3, <1>4 DEF IInv

\* Every pair of Requests is a pair of operands.
LEMMA RequestOperands ==
  ASSUME NEW q \in Requests
  PROVE  q[1] \in Operand /\ q[2] \in Operand
BY RequestsAssumption

LEMMA TypePreserved == TypeOK /\ [Next]_vars => TypeOK'
<1> SUFFICES ASSUME TypeOK, [Next]_vars PROVE TypeOK'
  OBVIOUS
<1> USE DEF TypeOK, Classifications, ErrorCodes
<1>1. 0 \in Lane /\ 0 \in Word /\ Zeros \in Operand
  BY DimensionAssumption, WidthAssumption, SMTT(30) DEF Lane, Word, Zeros, Operand
<1>2. 0 \in 0 .. MacModulus - 1 /\ MacModulus \in Nat /\ MacModulus > 0
  BY <1>1, CountStep
<1>3. ASSUME NEW q \in Requests, Refuse(q[1], q[2]) PROVE TypeOK'
  BY <1>1, <1>2, <1>3, RequestOperands DEF Refuse, Latch, Screen, Admitted
<1>4. ASSUME NEW q \in Requests, Admit(q[1], q[2]) PROVE TypeOK'
  BY <1>1, <1>2, <1>4, RequestOperands DEF Admit, Latch
<1>5. CASE Mac
  <2>1. i_index' \in Lane /\ j_index' \in Lane
    BY <1>5, DimensionAssumption DEF Mac, LastPair, Lane
  <2>2. mac_cycles' \in 0 .. MacModulus - 1
    BY <1>2, <1>5 DEF Mac
  <2>3. \A x, y \in Word : Wrap(x * y) \in Int /\ Wrap(-Wrap(x * y)) \in Int
    <3>1. ASSUME NEW x \in Word, NEW y \in Word
          PROVE  Wrap(x * y) \in Int /\ Wrap(-Wrap(x * y)) \in Int
      <4>1. x * y \in Int
        BY WidthAssumption DEF Word
      <4>2. Wrap(x * y) \in Int
        BY <4>1, WrapWord DEF Word
      <4>3. -Wrap(x * y) \in Int
        BY <4>2
      <4>4. QED
        BY <4>2, <4>3, WrapWord DEF Word
    <3>2. QED
      BY <3>1
  <2>4. BasisTerm(lhs_latched[i_index], rhs_latched[j_index], i_index, j_index) \in Int
    BY <2>3 DEF BasisTerm, Operand
  <2>5. \A k \in Lane :
          Wrap(accumulator[k]
               + BasisTerm(lhs_latched[i_index], rhs_latched[j_index], i_index, j_index)) \in Word
    <3>1. \A k \in Lane : accumulator[k] \in Int
      BY DEF Operand, Word
    <3>2. QED
      BY <2>4, <3>1, WrapWord
  <2>6. accumulator' \in Operand
    BY <1>5, <2>5 DEF Mac, Operand
  <2>7. busy' \in BOOLEAN /\ finalize' \in BOOLEAN /\ done' \in BOOLEAN
    BY <1>5 DEF Mac
  <2>8. QED
    BY <1>5, <2>1, <2>2, <2>6, <2>7 DEF Mac, verdict, result, latches
<1>6. CASE Finalize
  BY <1>6 DEF Finalize, cursor, latches
<1>7. CASE Idle
  BY <1>7 DEF Idle, verdict, result, cursor, latches
<1>8. CASE AssertReset
  BY <1>1, <1>2, <1>8 DEF AssertReset
<1>9. CASE ReleaseReset
  BY <1>9 DEF ReleaseReset, phase, verdict, result, cursor, latches
<1>10. CASE UNCHANGED vars
  BY <1>10 DEF vars, phase, verdict, result, cursor, latches
<1>11. QED
  BY <1>3, <1>4, <1>5, <1>6, <1>7, <1>8, <1>9, <1>10 DEF Next, ClockEdge

LEMMA AccumulatorStep ==
  ASSUME IInv, Mac
  PROVE  accumulator' =
           [k \in Lane |-> Balance(lhs_latched, rhs_latched,
                                   Before(i_index, j_index) \cup {<<i_index, j_index>>}, k)]
<1> DEFINE S == Before(i_index, j_index)
           t == BasisTerm(lhs_latched[i_index], rhs_latched[j_index], i_index, j_index)
           x == Xor(i_index, j_index)
           B(k) == Balance(lhs_latched, rhs_latched, S, k)
           C(k) == Balance(lhs_latched, rhs_latched, S \cup {<<i_index, j_index>>}, k)
<1>1. i_index \in Lane /\ j_index \in Lane /\ accumulator \in Operand /\ busy /\ ~finalize
  BY DEF IInv, TypeOK, PhaseInv, Mac
<1>2. Admitted(lhs_latched, rhs_latched)
  BY <1>1 DEF IInv, FlightInv, InFlight
<1>3. S \in SUBSET Pairs /\ <<i_index, j_index>> \notin S
      /\ S \cup {<<i_index, j_index>>} \in SUBSET Pairs
  BY <1>1, BeforeStep
<1>4. x \in Lane
  BY <1>1, BasisAssumption
<1>5. \A k \in Lane : accumulator[k] = B(k)
  BY <1>1, RetiredIsBefore DEF IInv, Ledger, InFlight
<1>6. \A k \in Lane : B(k) \in -4 .. 4 /\ C(k) \in -4 .. 4
  BY <1>2, <1>3, BalanceBound
<1>7. \A k \in Lane : C(k) = B(k) + IF x = k THEN t ELSE 0
  BY <1>1, <1>2, <1>3, BalanceStep
<1>8. -4 .. 4 \subseteq Word
  BY WidthAssumption DEF Word
<1>9. accumulator' = [accumulator EXCEPT ![x] = Wrap(accumulator[x] + t)]
  BY DEF Mac
<1> HIDE DEF S, t, x, B, C
<1>10. Wrap(accumulator[x] + t) = C(x)
  <2>1. accumulator[x] + t = C(x) /\ C(x) \in Word /\ C(x) \in Int
    BY <1>4, <1>5, <1>6, <1>7, <1>8
  <2>2. QED
    BY <2>1, WrapWord
<1>11. \A k \in Lane : k # x => accumulator[k] = C(k)
  BY <1>5, <1>6, <1>7
<1>12. accumulator' = [k \in Lane |-> C(k)]
  BY <1>1, <1>4, <1>9, <1>10, <1>11 DEF Operand
<1>13. QED
  BY <1>12 DEF C, S

LEMMA StepIInv == IInv /\ [Next]_vars => IInv'
<1> SUFFICES ASSUME IInv, [Next]_vars PROVE IInv'
  OBVIOUS
<1>1. TypeOK /\ TypeOK'
  BY TypePreserved DEF IInv
<1>2. 0 \in Lane
  BY DimensionAssumption DEF Lane
<1>3. ASSUME NEW q \in Requests, Refuse(q[1], q[2]) PROVE IInv'
  <2>1. classification' \in {"ARITHMETIC_ERROR", "INVALID_ZERO_OPERAND"}
    BY <1>3 DEF Refuse, Admitted, Screen
  <2>2. PhaseInv' /\ FlightInv' /\ FlagInv'
    BY <1>3 DEF Refuse, Latch, PhaseInv, FlightInv, FlagInv, InFlight, ready
  <2>3. Ledger' /\ VerdictExact'
    BY <1>3, <2>1 DEF Refuse, Latch, Ledger, VerdictExact, InFlight, ready
  <2>4. QED
    BY <1>1, <2>2, <2>3 DEF IInv
<1>4. ASSUME NEW q \in Requests, Admit(q[1], q[2]) PROVE IInv'
  <2>1. PhaseInv' /\ FlightInv' /\ FlagInv' /\ VerdictExact'
    BY <1>4 DEF Admit, Latch, PhaseInv, FlightInv, FlagInv, VerdictExact, InFlight, ready
  <2>2. Retired' = {}
    BY <1>2, <1>4, BeforeStep DEF Retired, Before, Pairs, Admit, Latch, ready
  <2>3. Ledger'
    <3>1. \A k \in Lane : Balance(q[1], q[2], {}, k) = 0
      BY BalanceEmpty
    <3>2. mac_cycles' = 0 /\ i_index' * N + j_index' = 0 /\ ~finalize'
      BY <1>4, DimensionAssumption DEF Admit, Latch, ready
    <3>3. QED
      BY <1>4, <2>2, <3>1, <3>2 DEF Ledger, Admit, Latch, Zeros
  <2>4. QED
    BY <1>1, <2>1, <2>3 DEF IInv
<1>5. CASE Mac
  <2>1. busy /\ ~finalize /\ i_index \in Lane /\ j_index \in Lane
    BY <1>1, <1>5 DEF Mac, IInv, PhaseInv, TypeOK
  <2>2. PhaseInv' /\ FlightInv' /\ FlagInv'
    BY <1>5, <2>1 DEF Mac, IInv, PhaseInv, FlightInv, FlagInv, InFlight, ready,
                      verdict, result, latches
  <2>3. VerdictExact'
    BY <1>5, <2>1 DEF Mac, VerdictExact, ready
  <2>4. Retired' = Before(i_index, j_index) \cup {<<i_index, j_index>>}
    <3>1. CASE LastPair
      BY <1>5, <2>1, <3>1, BeforeStep DEF Mac, LastPair, Retired, Pairs
    <3>2. CASE ~LastPair
      <4>1. Retired' = Before(i_index', j_index')
        BY <1>5, <2>1, <3>2 DEF Mac, Retired, Before, Pairs
      <4>2. CASE j_index # N - 1
        BY <1>5, <2>1, <4>1, <4>2, BeforeStep DEF Mac, LastPair
      <4>3. CASE j_index = N - 1
        BY <1>5, <2>1, <3>2, <4>1, <4>3, BeforeStep DEF Mac, LastPair
      <4>4. QED
        BY <4>2, <4>3
    <3>3. QED
      BY <3>1, <3>2
  <2>5. mac_cycles' = i_index * N + j_index + 1
    BY <1>5, <2>1, CountStep DEF Mac, IInv, Ledger, InFlight
  <2>6. mac_cycles' = IF finalize' THEN N * N ELSE i_index' * N + j_index'
    <3>1. CASE LastPair
      <4>1. N \in Int /\ (N - 1) + 1 = N
        BY DimensionAssumption
      <4>2. QED
        BY <1>5, <2>1, <2>5, <3>1, <4>1, CountStep DEF Mac, LastPair
    <3>2. CASE ~LastPair /\ j_index = N - 1
      <4>1. i_index' = i_index + 1 /\ j_index' = 0 /\ ~finalize'
        BY <1>5, <2>1, <3>2 DEF Mac
      <4>2. (i_index + 1) * N \in Int
        BY <2>1, DimensionAssumption DEF Lane
      <4>3. QED
        BY <2>1, <2>5, <3>2, <4>1, <4>2, CountStep
    <3>3. CASE ~LastPair /\ j_index # N - 1
      <4>1. i_index' = i_index /\ j_index' = j_index + 1 /\ ~finalize'
        BY <1>5, <2>1, <3>3 DEF Mac
      <4>2. i_index * N \in Int /\ j_index \in Int
        BY <2>1, DimensionAssumption DEF Lane
      <4>3. QED
        BY <2>5, <4>1, <4>2
    <3>4. QED
      BY <3>1, <3>2, <3>3
  <2>7. Ledger'
    BY <1>5, <2>4, <2>6, AccumulatorStep DEF Ledger, Mac, latches
  <2>8. QED
    BY <1>1, <2>2, <2>3, <2>7 DEF IInv
<1>6. CASE Finalize
  <2>1. ~busy /\ finalize /\ rst_n /\ accumulator \in Operand
    BY <1>1, <1>6 DEF Finalize, TypeOK
  <2>2. PhaseInv' /\ FlightInv' /\ FlagInv' /\ Ledger'
    BY <1>6, <2>1 DEF Finalize, PhaseInv, FlightInv, FlagInv, Ledger, InFlight, ready
  <2>3. Admitted(lhs_latched, rhs_latched)
    BY <2>1 DEF IInv, FlightInv, InFlight
  <2>4. accumulator = ExactProduct(lhs_latched, rhs_latched) /\ mac_cycles = N * N
    <3>1. \A k \in Lane :
            accumulator[k] = Balance(lhs_latched, rhs_latched, Lane \X Lane, k)
      BY <2>1 DEF IInv, Ledger, InFlight, Retired
    <3>2. mac_cycles = N * N
      BY <2>1 DEF IInv, Ledger, InFlight
    <3>3. QED
      BY <2>1, <3>1, <3>2 DEF ExactProduct, Operand
  <2>5. VerdictExact'
    BY <1>6, <2>3, <2>4 DEF Finalize, VerdictExact, cursor, latches
  <2>6. QED
    BY <1>1, <2>2, <2>5 DEF IInv
<1>7. CASE Idle
  <2>1. PhaseInv' /\ FlightInv' /\ FlagInv' /\ Ledger' /\ VerdictExact'
    BY <1>7 DEF Idle, IInv, PhaseInv, FlightInv, FlagInv, Ledger, VerdictExact, InFlight, ready,
                verdict, result, cursor, latches
  <2>2. QED
    BY <1>1, <2>1 DEF IInv
<1>8. CASE AssertReset
  <2>1. PhaseInv' /\ FlightInv' /\ FlagInv' /\ Ledger' /\ VerdictExact'
    BY <1>8 DEF AssertReset, PhaseInv, FlightInv, FlagInv, Ledger, VerdictExact, InFlight, ready
  <2>2. QED
    BY <1>1, <2>1 DEF IInv
<1>9. CASE ReleaseReset
  <2>1. PhaseInv' /\ FlightInv' /\ FlagInv' /\ Ledger' /\ VerdictExact'
    BY <1>9 DEF ReleaseReset, IInv, PhaseInv, FlightInv, FlagInv, Ledger, VerdictExact, InFlight,
                ready, phase, verdict, result, cursor, latches
  <2>2. QED
    BY <1>1, <2>1 DEF IInv
<1>10. CASE UNCHANGED vars
  <2>1. PhaseInv' /\ FlightInv' /\ FlagInv' /\ Ledger' /\ VerdictExact'
    BY <1>10 DEF vars, IInv, PhaseInv, FlightInv, FlagInv, Ledger, VerdictExact, InFlight,
                 ready, Retired, phase, verdict, result, cursor, latches
  <2>2. QED
    BY <1>1, <2>1 DEF IInv
<1>11. QED
  BY <1>3, <1>4, <1>5, <1>6, <1>7, <1>8, <1>9, <1>10 DEF Next, ClockEdge

-----------------------------------------------------------------------------
(* The theorems.                                                           *)

(***************************************************************************)
(* Every register holds a value of its width and encoding in every         *)
(* reachable state (declarations of the module, lines 4-46).               *)
(***************************************************************************)
THEOREM TypeCorrect == Spec => []TypeOK
<1>1. Init => TypeOK
  BY InitIInv DEF IInv
<1>2. QED
  BY <1>1, TypePreserved, PTL DEF Spec

THEOREM Invariance == Spec => []IInv
BY InitIInv, StepIInv, PTL DEF Spec

(***************************************************************************)
(* The accumulator is the exact partial sum of the retired basis products: *)
(* the 64-bit additions and negations of lines 59-69 and 144-146 never     *)
(* wrap on an admitted pair.                                               *)
(***************************************************************************)
THEOREM LedgerHolds == Spec => []Ledger
<1>1. IInv => Ledger
  BY DEF IInv
<1>2. QED
  BY <1>1, Invariance, PTL

(***************************************************************************)
(* EXACT_ZD_PAIR is shown to a ready environment exactly when the product  *)
(* of the operands last accepted is zero in every lane (lines 158-165).    *)
(***************************************************************************)
THEOREM VerdictIsExact == Spec => []VerdictExact
<1>1. IInv => VerdictExact
  BY DEF IInv
<1>2. QED
  BY <1>1, Invariance, PTL

(***************************************************************************)
(* product_is_zero can be read at any time without waiting for done: it is *)
(* never up over a stale or partial result (lines 101, 115 and 161).       *)
(***************************************************************************)
THEOREM ZeroFlagIsSound == Spec => []ZeroFlagSound
<1>1. ASSUME IInv PROVE ZeroFlagSound
  <2>1. SUFFICES ASSUME product_is_zero PROVE ZeroFlagSound
    BY DEF ZeroFlagSound
  <2>2. rst_n /\ ready /\ classification = "EXACT_ZD_PAIR" /\ error_code = "NONE"
    BY <1>1, <2>1 DEF IInv, FlagInv
  <2>3. Admitted(lhs_latched, rhs_latched) /\ product = Zeros
    BY <1>1, <2>1, <2>2 DEF IInv, VerdictExact
  <2>4. Support(lhs_latched) # {} /\ Support(rhs_latched) # {}
    BY <2>3, AdmittedOperands
  <2>5. QED
    BY <2>2, <2>3, <2>4 DEF ZeroFlagSound
<1>2. QED
  BY <1>1, Invariance, PTL

-----------------------------------------------------------------------------
(* The refinement.  The oracle adds a lane's terms one by one, by a        *)
(* recursive sum over the pairs of nonzero coefficients; the ledger counts *)
(* positive against negative terms.  The two agree because at most four    *)
(* pairs of an admitted request are nonzero: the recursion has a solution  *)
(* (the tally), and four steps down it has no other.                       *)

\* The oracle's coordinates are the lanes of the unit.
LEMMA SameLanes == Oracle!Coordinate = Lane /\ \A x : Oracle!Nonzero(x) = Support(x)
BY BitsAssumption DEF Oracle!Coordinate, Oracle!Nonzero, Support, Lane

\* The term of the oracle's sum that pair p contributes.
Signed(l, r, p) == OracleSign(p[1], p[2]) * l[p[1]] * r[p[2]]

\* The member the fold of the sum picks next.
One(s) == CHOOSE x \in s : TRUE

\* The pairs the oracle visits for lane k.
Fibre(l, r, k) ==
  {p \in Oracle!Nonzero(l) \X Oracle!Nonzero(r) : Oracle!IndexXor(p[1], p[2]) = k}

\* The function the fold evaluates at T.
Total(l, r, T) ==
  CHOOSE f : f = [s \in SUBSET T |-> IF s = {} THEN 0 ELSE Signed(l, r, One(s)) + f[s \ {One(s)}]]

\* The same sum counted: terms +1 against terms -1.
WithSign(l, r, S, s) == {p \in S : Signed(l, r, p) = s}
Tally(l, r, S) == Cardinality(WithSign(l, r, S, 1)) - Cardinality(WithSign(l, r, S, -1))

\* The coefficient the oracle computes, its library fold unfolded.
LEMMA MultiplyIsTotal ==
  ASSUME NEW l, NEW r, NEW k \in Oracle!Coordinate
  PROVE Oracle!Multiply(l, r)[k] = Total(l, r, Fibre(l, r, k))[Fibre(l, r, k)]
BY Zenon DEF Oracle!Multiply, Oracle!MapThenSumSet, Oracle!MapThenFoldSet,
             Fibre, One, Total, Signed, OracleSign

\* A term of an admitted pair is a unit or zero, and its sign is the unit's.
LEMMA SignedTerm ==
  ASSUME NEW l, NEW r, Admitted(l, r), NEW p \in Pairs
  PROVE  /\ Signed(l, r, p) \in {-1, 0, 1}
         /\ \A s \in {-1, 1} :
              Signed(l, r, p) = s <=> l[p[1]] * r[p[2]] = IF Negative(p[1], p[2]) THEN -s ELSE s
<1> DEFINE u == l[p[1]]
           v == r[p[2]]
           g == OracleSign(p[1], p[2])
<1>1. p[1] \in Lane /\ p[2] \in Lane
  BY DEF Pairs
<1>2. u \in {-1, 0, 1} /\ v \in {-1, 0, 1}
  BY <1>1, AdmittedOperands
<1>3. g = IF Negative(p[1], p[2]) THEN -1 ELSE 1
  BY <1>1, RomAssumption
<1>4. Signed(l, r, p) = g * u * v
  BY DEF Signed
<1> HIDE DEF u, v, g
<1>5. g * u * v \in {-1, 0, 1} /\ g * u * v = IF Negative(p[1], p[2]) THEN -(u * v) ELSE u * v
  BY <1>2, <1>3
<1>6. u * v \in {-1, 0, 1}
  BY <1>2
<1>7. QED
  BY <1>4, <1>5, <1>6 DEF u, v

\* Taking one pair away takes its term away: the tally solves the recursion.
LEMMA TallyStep ==
  ASSUME NEW l, NEW r, Admitted(l, r), NEW S \in SUBSET Pairs, NEW x \in S
  PROVE  Tally(l, r, S) = Signed(l, r, x) + Tally(l, r, S \ {x})
<1> DEFINE R == S \ {x}
           A(s) == WithSign(l, r, S, s)
           B(s) == WithSign(l, r, R, s)
<1>1. IsFiniteSet(S)
  BY FinitePairs, FS_Subset
<1>2. ASSUME NEW s \in {-1, 1}
      PROVE  /\ Cardinality(B(s)) \in Nat
             /\ Cardinality(A(s)) = IF Signed(l, r, x) = s THEN Cardinality(B(s)) + 1
                                    ELSE Cardinality(B(s))
  <2>1. IsFiniteSet(B(s)) /\ x \notin B(s)
    BY <1>1, FS_Subset DEF WithSign
  <2>2. A(s) = IF Signed(l, r, x) = s THEN B(s) \cup {x} ELSE B(s)
    BY DEF WithSign
  <2>3. QED
    BY <2>1, <2>2, FS_AddElement, FS_CardinalityType
<1>3. Signed(l, r, x) \in {-1, 0, 1}
  BY SignedTerm
<1>4. Tally(l, r, S) = Cardinality(A(1)) - Cardinality(A(-1))
      /\ Tally(l, r, R) = Cardinality(B(1)) - Cardinality(B(-1))
  BY DEF Tally
<1> HIDE DEF A, B
<1>5. QED
  BY <1>2, <1>3, <1>4

LEMMA TallyEmpty == \A l, r : Tally(l, r, {}) = 0
<1>1. \A l, r, s : WithSign(l, r, {}, s) = {}
  BY DEF WithSign
<1>2. QED
  BY <1>1, FS_EmptySet DEF Tally

\* At most four pairs: five rounds show the sum is the tally.
LEMMA TotalIsTally ==
  ASSUME NEW l, NEW r, Admitted(l, r), NEW T \in SUBSET Pairs, Cardinality(T) \in 0 .. 4
  PROVE  Total(l, r, T)[T] = Tally(l, r, T)
<1> DEFINE Body(f, s) == IF s = {} THEN 0 ELSE Signed(l, r, One(s)) + f[s \ {One(s)}]
           g == [s \in SUBSET T |-> Tally(l, r, s)]
           f == Total(l, r, T)
<1>1. \A s \in SUBSET T : s # {} => One(s) \in s /\ s \ {One(s)} \in SUBSET T
  BY DEF One
<1>2. \A s \in SUBSET T : g[s] = Body(g, s)
  <2>1. ASSUME NEW s \in SUBSET T, s # {} PROVE g[s] = Body(g, s)
    BY <1>1, <2>1, TallyStep
  <2>2. g[{}] = Body(g, {})
    BY TallyEmpty
  <2>3. QED
    BY <2>1, <2>2
<1>3. g = [s \in SUBSET T |-> Body(g, s)]
  BY <1>2
<1>4. f = [s \in SUBSET T |-> Body(f, s)]
  <2>1. \E h : h = [s \in SUBSET T |-> Body(h, s)]
    <3> HIDE DEF g
    <3>1. QED
      BY <1>3
  <2>2. f = CHOOSE h : h = [s \in SUBSET T |-> Body(h, s)]
    BY DEF Total
  <2> HIDE DEF f
  <2>3. QED
    BY <2>1, <2>2
<1> HIDE DEF f, g
<1>5. \A s \in SUBSET T : f[s] = Body(f, s)
  BY <1>4
<1> DEFINE P(n) == \A s \in SUBSET T : Cardinality(s) = n => f[s] = Tally(l, r, s)
<1>6. IsFiniteSet(T)
  BY FinitePairs, FS_Subset
<1>7. \A s \in SUBSET T : IsFiniteSet(s) /\ Cardinality(s) \in 0 .. 4
  <2>1. ASSUME NEW s \in SUBSET T PROVE IsFiniteSet(s) /\ Cardinality(s) \in 0 .. 4
    BY <1>6, FS_Subset, FS_CardinalityType
  <2>2. QED
    BY <2>1
<1>8. P(0)
  <2>1. ASSUME NEW s \in SUBSET T, Cardinality(s) = 0 PROVE f[s] = Tally(l, r, s)
    BY <1>5, <1>7, <2>1, FS_EmptySet, TallyEmpty
  <2>2. QED
    BY <2>1
<1>9. ASSUME NEW n \in Nat, P(n) PROVE P(n + 1)
  <2>1. SUFFICES ASSUME NEW s \in SUBSET T, Cardinality(s) = n + 1 PROVE f[s] = Tally(l, r, s)
    OBVIOUS
  <2>2. s # {}
    BY <2>1, FS_EmptySet
  <2>3. One(s) \in s /\ s \ {One(s)} \in SUBSET T
    BY <1>1, <2>2
  <2>4. Cardinality(s \ {One(s)}) = n
    BY <1>7, <2>1, <2>3, FS_RemoveElement
  <2>5. f[s] = Signed(l, r, One(s)) + Tally(l, r, s \ {One(s)})
    BY <1>5, <1>9, <2>2, <2>3, <2>4
  <2>6. QED
    BY <2>3, <2>5, TallyStep
<1>10. P(1)
  BY <1>8, <1>9, 0 + 1 = 1
<1>11. P(2)
  BY <1>10, <1>9, 1 + 1 = 2
<1>12. P(3)
  BY <1>11, <1>9, 2 + 1 = 3
<1>13. P(4)
  BY <1>12, <1>9, 3 + 1 = 4
<1>14. QED
  BY <1>7, <1>8, <1>10, <1>11, <1>12, <1>13 DEF f

\* The oracle's product of an admitted pair is the ledger's exact product.
LEMMA MultiplyIsExact ==
  ASSUME NEW l, NEW r, Admitted(l, r)
  PROVE  Oracle!Multiply(l, r) = ExactProduct(l, r)
<1>1. ASSUME NEW k \in Lane
      PROVE  Oracle!Multiply(l, r)[k] = Balance(l, r, Lane \X Lane, k)
  <2> DEFINE F == Fibre(l, r, k)
             box == Support(l) \X Support(r)
  <2>1. F \in SUBSET box /\ box \in SUBSET Pairs
    BY SameLanes DEF Fibre, Support, Pairs
  <2>2. IsFiniteSet(Support(l)) /\ IsFiniteSet(Support(r))
    BY FinitePairs, FS_Subset DEF Support
  <2>3. Cardinality(Support(l)) \in 0 .. 2 /\ Cardinality(Support(r)) \in 0 .. 2
    BY <2>2, FS_CardinalityType, AdmittedOperands
  <2>4. IsFiniteSet(box) /\ Cardinality(box) = Cardinality(Support(l)) * Cardinality(Support(r))
    BY <2>2, FS_Product
  <2>5. \A x, y \in 0 .. 2 : x * y \in 0 .. 4
    OBVIOUS
  <2>6. Cardinality(F) \in 0 .. 4
    BY <2>1, <2>3, <2>4, <2>5, FS_Subset, FS_CardinalityType
  <2>7. Oracle!Multiply(l, r)[k] = Tally(l, r, F)
    BY <2>1, <2>6, MultiplyIsTotal, TotalIsTally, SameLanes
  <2>8. ASSUME NEW s \in {-1, 1} PROVE WithSign(l, r, F, s) = Terms(l, r, Lane \X Lane, k, s)
    <3>1. ASSUME NEW p \in Pairs
          PROVE  p \in WithSign(l, r, F, s) <=> p \in Terms(l, r, Lane \X Lane, k, s)
      <4>1. p[1] \in Lane /\ p[2] \in Lane /\ p = <<p[1], p[2]>>
        BY DEF Pairs
      <4>2. Oracle!IndexXor(p[1], p[2]) = Xor(p[1], p[2])
        BY <4>1, RomAssumption
      <4>3. l[p[1]] \in {-1, 0, 1} /\ r[p[2]] \in {-1, 0, 1}
        BY <4>1, AdmittedOperands
      <4>4. l[p[1]] * r[p[2]] = (IF Negative(p[1], p[2]) THEN -s ELSE s)
            => l[p[1]] # 0 /\ r[p[2]] # 0
        <5>1. \A u, v \in {-1, 0, 1} : u = 0 \/ v = 0 => u * v = 0
          OBVIOUS
        <5>2. (IF Negative(p[1], p[2]) THEN -s ELSE s) # 0
          OBVIOUS
        <5>3. QED
          BY <4>3, <5>1, <5>2
      <4>5. p \in F <=> l[p[1]] # 0 /\ r[p[2]] # 0 /\ Xor(p[1], p[2]) = k
        BY <4>1, <4>2, SameLanes DEF Fibre, Support
      <4>6. Signed(l, r, p) = s <=> l[p[1]] * r[p[2]] = IF Negative(p[1], p[2]) THEN -s ELSE s
        BY SignedTerm
      <4> HIDE DEF F
      <4>7. QED
        BY <4>4, <4>5, <4>6 DEF WithSign, Terms, Pairs
    <3>2. QED
      BY <2>1, <3>1 DEF WithSign, Terms, Pairs
  <2>9. QED
    BY <2>7, <2>8 DEF Tally, Balance
<1>2. Oracle!Multiply(l, r) = [k \in Lane |-> Oracle!Multiply(l, r)[k]]
  BY SameLanes DEF Oracle!Multiply
<1>3. QED
  BY <1>1, <1>2 DEF ExactProduct

\* Two instances of the library count alike.
LEMMA SameCardinality == \A S : Oracle!Cardinality(S) = Cardinality(S)
BY Zenon DEF Cardinality, Oracle!Cardinality

\* The unit refuses what the oracle rejects, with the same verdict, though the
\* two test for it differently.
LEMMA RefusedIsScreened ==
  ASSUME NEW l \in Operand, NEW r \in Operand
  PROVE  /\ Oracle!OperandError(l, r) = "NONE" <=> Admitted(l, r)
         /\ ~Admitted(l, r) =>
              Oracle!Evaluate(l, r) =
                [classification |-> Screen(l, r)[1], error_code |-> Screen(l, r)[2],
                 product_is_zero |-> FALSE, product |-> Zeros]
<1> DEFINE overflow == \E x \in Oracle!Coefficients(l, r) : x > Limit \/ -x > Limit
           domain   == Oracle!Coefficients(l, r) \subseteq {-1, 0, 1}
           error    == Oracle!OperandError(l, r)
<1>1. \A k \in Lane : l[k] \in Int /\ r[k] \in Int
  BY WidthAssumption DEF Operand, Word
<1>2. overflow <=> ValidationOverflow(l, r)
  <2>1. \A x \in Int : -x > Limit <=> x < -Limit
    BY LimitAssumption
  <2>2. QED
    BY <1>1, <2>1, SameLanes DEF Oracle!Coefficients, ValidationOverflow
<1>3. domain <=> ~ValidationUnsupported(l, r)
  BY SameLanes DEF Oracle!Coefficients, ValidationUnsupported
<1>4. error = IF ValidationOverflow(l, r) THEN "OVERFLOW_RISK"
              ELSE IF ValidationTooMany(l, r) THEN "TOO_MANY_NONZERO_COEFFICIENTS"
              ELSE IF ValidationUnsupported(l, r) THEN "UNSUPPORTED_COEFFICIENT_DOMAIN"
              ELSE IF ValidationZero(l, r) THEN "ZERO_OPERAND"
              ELSE "NONE"
  BY <1>2, <1>3, SameLanes, SameCardinality
     DEF Oracle!OperandError, ValidationTooMany, ValidationZero
<1>5. Oracle!ZeroVector = Zeros
  BY SameLanes DEF Oracle!ZeroVector, Zeros
<1>6. error = "NONE" <=> Admitted(l, r)
  BY <1>4 DEF Screen, Admitted
<1>7. ASSUME error # "NONE"
      PROVE  Oracle!Evaluate(l, r) =
               [classification  |-> IF error = "ZERO_OPERAND" THEN "INVALID_ZERO_OPERAND"
                                    ELSE "ARITHMETIC_ERROR",
                error_code      |-> IF error = "ZERO_OPERAND" THEN "NONE" ELSE error,
                product_is_zero |-> FALSE, product |-> Zeros]
  BY <1>5, <1>7 DEF Oracle!Evaluate
<1> HIDE DEF error
<1>8. ASSUME error # "NONE"
      PROVE  /\ Screen(l, r)[1] = IF error = "ZERO_OPERAND" THEN "INVALID_ZERO_OPERAND"
                                  ELSE "ARITHMETIC_ERROR"
             /\ Screen(l, r)[2] = IF error = "ZERO_OPERAND" THEN "NONE" ELSE error
  BY <1>4, <1>8 DEF Screen
<1>9. QED
  BY <1>6, <1>7, <1>8 DEF error

\* The oracle's receipt on an admitted pair.
LEMMA AdmittedIsMultiplied ==
  ASSUME NEW l \in Operand, NEW r \in Operand, Admitted(l, r)
  PROVE  Oracle!Evaluate(l, r) =
           [classification  |-> IF ExactProduct(l, r) = Zeros THEN "EXACT_ZD_PAIR"
                                ELSE "NONZERO_PRODUCT",
            error_code      |-> "NONE",
            product_is_zero |-> ExactProduct(l, r) = Zeros,
            product         |-> ExactProduct(l, r)]
<1>1. Oracle!OperandError(l, r) = "NONE"
  BY RefusedIsScreened
<1>2. Oracle!ZeroVector = Zeros
  BY SameLanes DEF Oracle!ZeroVector, Zeros
<1>3. QED
  BY <1>1, <1>2, MultiplyIsExact DEF Oracle!Evaluate

\* What is being worked on was requested.
RequestInv == InFlight => <<lhs_latched, rhs_latched>> \in Requests

LEMMA RequestPair == \A q \in Requests : q = <<q[1], q[2]>> /\ q[1] \in Operand /\ q[2] \in Operand
BY RequestsAssumption

LEMMA StepRequestInv == RequestInv /\ [Next]_vars => RequestInv'
<1> SUFFICES ASSUME RequestInv, [Next]_vars PROVE RequestInv'
  OBVIOUS
<1> USE DEF RequestInv, InFlight
<1>1. ASSUME NEW q \in Requests, Refuse(q[1], q[2]) PROVE RequestInv'
  BY <1>1 DEF Refuse, Latch, ready
<1>2. ASSUME NEW q \in Requests, Admit(q[1], q[2]) PROVE RequestInv'
  BY <1>2, RequestPair DEF Admit, Latch
<1>3. CASE Mac
  BY <1>3 DEF Mac, latches
<1>4. CASE Finalize
  BY <1>4 DEF Finalize
<1>5. CASE Idle
  BY <1>5 DEF Idle, latches
<1>6. CASE AssertReset
  BY <1>6 DEF AssertReset
<1>7. CASE ReleaseReset
  BY <1>7 DEF ReleaseReset, phase, latches
<1>8. CASE UNCHANGED vars
  BY <1>8 DEF vars, phase, latches
<1>9. QED
  BY <1>1, <1>2, <1>3, <1>4, <1>5, <1>6, <1>7, <1>8 DEF Next, ClockEdge

LEMMA ServiceInit == Init => Service!Init
BY DEF Init, Service!Init, PendingRequest, VisibleAnswer, InFlight, IsResetState

\* Every clock or reset edge is a step of the service, or none it can see.
LEMMA ServiceStep ==
  IInv /\ RequestInv /\ [Next]_vars => [Service!Next]_(Service!vars)
<1> SUFFICES ASSUME IInv, RequestInv, [Next]_vars PROVE [Service!Next]_(Service!vars)
  OBVIOUS
<1>1. TypeOK /\ PhaseInv
  BY DEF IInv
<1>2. ASSUME NEW q \in Requests, Refuse(q[1], q[2]) PROVE Service!Refuse(q)
  <2>1. q[1] \in Operand /\ q[2] \in Operand /\ q \in OracleRefused
    BY <1>2, RequestPair, RefusedIsScreened DEF Refuse, OracleRefused
  <2>2. OracleAnswer[q] = [classification |-> classification', error_code |-> error_code',
                           product_is_zero |-> product_is_zero', product |-> product']
    BY <1>2, <2>1, RefusedIsScreened DEF Refuse, Latch, OracleAnswer
  <2>3. ~InFlight /\ ~InFlight' /\ rst_n /\ rst_n' /\ done'
    BY <1>2 DEF Refuse, Latch, ready, InFlight
  <2>4. ~IsResetState'
    BY <1>2 DEF Refuse, Admitted, Screen, IsResetState
  <2>5. VisibleAnswer' = OracleAnswer[q]
    BY <2>2, <2>3, <2>4 DEF VisibleAnswer, Shown
  <2>6. PendingRequest = NoRequest /\ PendingRequest' = NoRequest
    BY <2>3 DEF PendingRequest
  <2>7. QED
    BY <2>1, <2>3, <2>5, <2>6 DEF Service!Refuse
<1>3. ASSUME NEW q \in Requests, Admit(q[1], q[2]) PROVE Service!Take(q)
  <2>1. q = <<q[1], q[2]>> /\ q \notin OracleRefused
    BY <1>3, RequestPair, RefusedIsScreened DEF Admit, OracleRefused
  <2>2. ~InFlight /\ InFlight' /\ rst_n /\ rst_n' /\ ~done'
    BY <1>3, <1>1 DEF Admit, Latch, ready, InFlight
  <2>3. PendingRequest = NoRequest /\ PendingRequest' = q /\ VisibleAnswer' = NoAnswer
    BY <1>3, <2>1, <2>2 DEF PendingRequest, VisibleAnswer, Admit, Latch
  <2>4. done' = FALSE /\ rst_n' = rst_n
    BY <1>3 DEF Admit, Latch
  <2>5. QED
    BY <2>1, <2>2, <2>3, <2>4 DEF Service!Take
<1>4. CASE Mac
  <2>1. rst_n' = rst_n /\ done' = FALSE /\ done = FALSE /\ InFlight /\ InFlight'
    BY <1>1, <1>4 DEF Mac, PhaseInv, TypeOK, InFlight, ready
  <2>2. PendingRequest' = PendingRequest /\ VisibleAnswer' = VisibleAnswer
    BY <1>4, <2>1 DEF Mac, PendingRequest, VisibleAnswer, latches
  <2>3. QED
    BY <2>1, <2>2 DEF Service!vars
<1>5. CASE Finalize
  <2>1. InFlight /\ ~InFlight' /\ rst_n /\ rst_n' = rst_n /\ done' = TRUE /\ ~IsResetState'
    BY <1>5 DEF Finalize, InFlight, IsResetState
  <2> DEFINE q == <<lhs_latched, rhs_latched>>
  <2>2. q \in Requests /\ q # NoRequest
    BY <2>1, NoRequestAssumption DEF RequestInv
  <2>3. Admitted(lhs_latched, rhs_latched) /\ lhs_latched \in Operand /\ rhs_latched \in Operand
    BY <1>1, <2>1 DEF IInv, FlightInv, TypeOK
  <2>4. accumulator = ExactProduct(lhs_latched, rhs_latched)
    <3>1. \A k \in Lane :
            accumulator[k] = Balance(lhs_latched, rhs_latched, Lane \X Lane, k)
      BY <1>5, <2>1 DEF Finalize, IInv, Ledger, Retired
    <3>2. QED
      BY <1>1, <3>1 DEF ExactProduct, Operand, TypeOK
  <2>5. OracleAnswer[q] = Oracle!Evaluate(lhs_latched, rhs_latched)
    BY <2>2 DEF OracleAnswer
  <2>6. Shown' = OracleAnswer[q]
    BY <1>5, <2>3, <2>4, <2>5, AdmittedIsMultiplied DEF Finalize, Shown
  <2>7. VisibleAnswer' = OracleAnswer[PendingRequest] /\ PendingRequest # NoRequest
        /\ PendingRequest' = NoRequest
    BY <2>1, <2>2, <2>6 DEF VisibleAnswer, PendingRequest
  <2>8. Service!Deliver
    BY <2>1, <2>7 DEF Service!Deliver
  <2>9. QED
    BY <2>8 DEF Service!Next
<1>6. CASE Idle
  <2>1. rst_n /\ rst_n' = rst_n /\ done' = FALSE /\ done \in BOOLEAN
    BY <1>1, <1>6 DEF Idle, TypeOK
  <2>2. PendingRequest' = PendingRequest /\ VisibleAnswer' = VisibleAnswer
    BY <1>6 DEF Idle, PendingRequest, VisibleAnswer, InFlight, IsResetState, Shown,
                verdict, result, latches
  <2>3. CASE done
    BY <2>1, <2>2, <2>3 DEF Service!Settle, Service!Next
  <2>4. CASE ~done
    BY <2>1, <2>2, <2>4 DEF Service!vars
  <2>5. QED
    BY <2>3, <2>4
<1>7. CASE AssertReset
  <2>1. PendingRequest' = NoRequest /\ VisibleAnswer' = ResetAnswer
        /\ rst_n' = FALSE /\ done' = FALSE
    BY <1>7 DEF AssertReset, PendingRequest, VisibleAnswer, InFlight, IsResetState
  <2>2. QED
    BY <2>1 DEF Service!Reset, Service!Next
<1>8. CASE ReleaseReset
  <2>1. ~rst_n /\ rst_n' = TRUE /\ done' = done
        /\ PendingRequest' = PendingRequest /\ VisibleAnswer' = VisibleAnswer
    BY <1>8 DEF ReleaseReset, PendingRequest, VisibleAnswer, InFlight, IsResetState, Shown,
                phase, verdict, result, latches
  <2>2. QED
    BY <2>1 DEF Service!Release, Service!Next
<1>9. CASE UNCHANGED vars
  BY <1>9 DEF vars, Service!vars, PendingRequest, VisibleAnswer, InFlight, IsResetState, Shown,
              phase, verdict, result, latches
<1>10. QED
  BY <1>2, <1>3, <1>4, <1>5, <1>6, <1>7, <1>8, <1>9 DEF Next, ClockEdge, Service!Next

(***************************************************************************)
(* Every answer the unit announces is the oracle's answer to the request   *)
(* it took, announced once; a request is refused on the spot exactly when  *)
(* the oracle rejects it, with the oracle's verdict; nothing is taken or   *)
(* shown while one is worked on, and a reset discards everything (the      *)
(* whole module, lines 48-168): the unit is the service for every number   *)
(* of lanes, every request pair and any operand values.                    *)
(***************************************************************************)
THEOREM UnitIsService == Spec => Service!Init /\ [][Service!Next]_(Service!vars)
<1>1. Init => IInv /\ RequestInv
  BY InitIInv DEF Init, RequestInv, InFlight
<1>2. Spec => [](IInv /\ RequestInv)
  BY <1>1, StepIInv, StepRequestInv, PTL DEF Spec
<1>3. QED
  BY <1>2, ServiceInit, ServiceStep, PTL DEF Spec

-----------------------------------------------------------------------------
(* The doubling formula.  It is recursive on five dimensions, so its       *)
(* properties are shown one level from the one below and then unrolled:    *)
(* it is bilinear, and it multiplies basis elements as the recursion on    *)
(* indices (cd_sigma) says.  An admitted operand is a sum of at most two   *)
(* signed basis vectors, so bilinearity takes its product apart into the   *)
(* basis products the ledger counts.                                       *)

\* Integer vectors of dimension 2^n.
Vec(n) == [0 .. 2^n - 1 -> Int]

\* The doubling formula over the product E of vectors half as long.
LowHalf(n, v)  == [k \in 0 .. 2^(n - 1) - 1 |-> v[k]]
HighHalf(n, v) == [k \in 0 .. 2^(n - 1) - 1 |-> v[k + 2^(n - 1)]]
Bar(n, v)      == Oracle!Conjugate(n - 1, v)
Level(n, E) ==
  [x \in Vec(n) |-> [y \in Vec(n) |->
     IF n = 0 THEN [k \in {0} |-> x[0] * y[0]]
     ELSE [k \in 0 .. 2^n - 1 |->
             IF k < 2^(n - 1)
             THEN E[LowHalf(n, x)][LowHalf(n, y)][k]
                    - E[Bar(n, HighHalf(n, y))][HighHalf(n, x)][k]
             ELSE E[HighHalf(n, y)][LowHalf(n, x)][k - 2^(n - 1)]
                    + E[HighHalf(n, x)][Bar(n, LowHalf(n, y))][k - 2^(n - 1)]]]]

\* The recursive function unrolled: level n from level n - 1.
LEMMA Levels == \A n \in 0 .. 4 : Oracle!Doubling[n] = Level(n, Oracle!Doubling[n - 1])
<1> DEFINE D == Oracle!Doubling
           T0 == Level(0, 0)
           T1 == Level(1, T0)
           T2 == Level(2, T1)
           T3 == Level(3, T2)
           T4 == Level(4, T3)
           g == [n \in 0 .. 4 |-> IF n = 0 THEN T0 ELSE IF n = 1 THEN T1 ELSE IF n = 2 THEN T2
                                  ELSE IF n = 3 THEN T3 ELSE T4]
<1>1. D = CHOOSE f : f = [n \in 0 .. 4 |-> Level(n, f[n - 1])]
  BY Zenon DEF Oracle!Doubling, Oracle!MaxBits, Level, Vec, LowHalf, HighHalf, Bar
<1>2. \A E : Level(0, E) = T0
  BY DEF Level
<1> HIDE DEF T0, T1, T2, T3, T4, D
<1>3. \A n \in 0 .. 4 : g[n] = Level(n, g[n - 1])
  <2>1. g[0] = Level(0, g[0 - 1])
    BY <1>2
  <2>2. g[1] = Level(1, g[1 - 1])
    BY DEF T1
  <2>3. g[2] = Level(2, g[2 - 1])
    BY DEF T2
  <2>4. g[3] = Level(3, g[3 - 1])
    BY DEF T3
  <2>5. g[4] = Level(4, g[4 - 1])
    BY SMTT(30) DEF T4
  <2> HIDE DEF g
  <2>6. QED
    BY <2>1, <2>2, <2>3, <2>4, <2>5
<1>4. g = [n \in 0 .. 4 |-> Level(n, g[n - 1])]
  BY <1>3
<1> HIDE DEF g
<1>5. D = [n \in 0 .. 4 |-> Level(n, D[n - 1])]
  BY <1>1, <1>4
<1>6. QED
  BY <1>5 DEF D

\* Addition and negation of vectors, and what it is to be linear on both sides.
Sum(n, x, y) == [k \in 0 .. 2^n - 1 |-> x[k] + y[k]]
Opposite(n, x) == [k \in 0 .. 2^n - 1 |-> -x[k]]

Bilinear(n, E) ==
  \A x, y, z \in Vec(n) :
    /\ E[x][y] \in Vec(n)
    /\ E[Sum(n, x, y)][z] = Sum(n, E[x][z], E[y][z])
    /\ E[z][Sum(n, x, y)] = Sum(n, E[z][x], E[z][y])
    /\ E[Opposite(n, x)][z] = Opposite(n, E[x][z])
    /\ E[z][Opposite(n, x)] = Opposite(n, E[z][x])

\* The powers of two the dimensions are.
LEMMA Powers ==
  /\ 2^0 = 1 /\ 2^1 = 2 /\ 2^2 = 4 /\ 2^3 = 8 /\ 2^4 = 16
  /\ \A n \in 1 .. 4 : 2^(n - 1) \in Nat \ {0} /\ 2^n = 2^(n - 1) + 2^(n - 1) /\ n - 1 \in 0 .. 4
<1>1. 2^0 = 1 /\ 2^1 = 2 /\ 2^2 = 4 /\ 2^3 = 8 /\ 2^4 = 16
  OBVIOUS
<1>2. ASSUME NEW n \in 1 .. 4
      PROVE  2^(n - 1) \in Nat \ {0} /\ 2^n = 2^(n - 1) + 2^(n - 1) /\ n - 1 \in 0 .. 4
  <2>1. CASE n = 1
    BY <1>1, <2>1
  <2>2. CASE n = 2
    BY <1>1, <2>2
  <2>3. CASE n = 3
    BY <1>1, <2>3
  <2>4. CASE n = 4
    BY <1>1, <2>4
  <2>5. QED
    BY <2>1, <2>2, <2>3, <2>4
<1>3. QED
  BY <1>1, <1>2

LEMMA VecClosed ==
  ASSUME NEW n, NEW x \in Vec(n), NEW y \in Vec(n)
  PROVE  Sum(n, x, y) \in Vec(n) /\ Opposite(n, x) \in Vec(n)
BY DEF Vec, Sum, Opposite

\* Halving and conjugation are linear.
LEMMA HalvesLinear ==
  ASSUME NEW n \in 1 .. 4, NEW x \in Vec(n), NEW y \in Vec(n)
  PROVE  /\ LowHalf(n, x) \in Vec(n - 1) /\ HighHalf(n, x) \in Vec(n - 1)
         /\ LowHalf(n, Sum(n, x, y)) = Sum(n - 1, LowHalf(n, x), LowHalf(n, y))
         /\ HighHalf(n, Sum(n, x, y)) = Sum(n - 1, HighHalf(n, x), HighHalf(n, y))
         /\ LowHalf(n, Opposite(n, x)) = Opposite(n - 1, LowHalf(n, x))
         /\ HighHalf(n, Opposite(n, x)) = Opposite(n - 1, HighHalf(n, x))
<1> DEFINE h == 2^(n - 1)
           m == 2^n
<1>1. h \in Nat \ {0} /\ m = h + h
  BY Powers
<1> HIDE DEF h, m
<1>2. \A k \in 0 .. h - 1 : k \in 0 .. m - 1 /\ k + h \in 0 .. m - 1
  BY <1>1
<1>3. x \in [0 .. m - 1 -> Int] /\ y \in [0 .. m - 1 -> Int]
  BY DEF Vec, m
<1>4. LowHalf(n, x) \in [0 .. h - 1 -> Int] /\ HighHalf(n, x) \in [0 .. h - 1 -> Int]
  BY <1>2, <1>3 DEF LowHalf, HighHalf, h
<1>5. /\ LowHalf(n, Sum(n, x, y)) = Sum(n - 1, LowHalf(n, x), LowHalf(n, y))
      /\ HighHalf(n, Sum(n, x, y)) = Sum(n - 1, HighHalf(n, x), HighHalf(n, y))
  BY <1>2 DEF LowHalf, HighHalf, Sum, h, m
<1>6. /\ LowHalf(n, Opposite(n, x)) = Opposite(n - 1, LowHalf(n, x))
      /\ HighHalf(n, Opposite(n, x)) = Opposite(n - 1, HighHalf(n, x))
  BY <1>2 DEF LowHalf, HighHalf, Opposite, h, m
<1>7. QED
  BY <1>4, <1>5, <1>6 DEF Vec, h

LEMMA BarLinear ==
  ASSUME NEW n \in 1 .. 4, NEW x \in Vec(n - 1), NEW y \in Vec(n - 1)
  PROVE  /\ Bar(n, x) \in Vec(n - 1)
         /\ Bar(n, Sum(n - 1, x, y)) = Sum(n - 1, Bar(n, x), Bar(n, y))
         /\ Bar(n, Opposite(n - 1, x)) = Opposite(n - 1, Bar(n, x))
<1> DEFINE h == 2^(n - 1)
<1>1. h \in Nat \ {0}
  BY Powers
<1> HIDE DEF h
<1>2. 0 \in 0 .. h - 1 /\ \A k \in 0 .. h - 1 : x[k] \in Int /\ y[k] \in Int /\ x[0] \in Int
  BY <1>1 DEF Vec, h
<1>3. Bar(n, x) \in [0 .. h - 1 -> Int]
  BY <1>2 DEF Bar, Oracle!Conjugate, h
<1>4. Bar(n, Sum(n - 1, x, y)) = Sum(n - 1, Bar(n, x), Bar(n, y))
  BY <1>2 DEF Bar, Oracle!Conjugate, Sum, h
<1>5. Bar(n, Opposite(n - 1, x)) = Opposite(n - 1, Bar(n, x))
  BY <1>2 DEF Bar, Oracle!Conjugate, Opposite, h
<1>6. QED
  BY <1>3, <1>4, <1>5 DEF Vec, h

\* One level of the doubling keeps bilinearity.
LEMMA LevelBilinear ==
  ASSUME NEW n \in 1 .. 4, NEW E, Bilinear(n - 1, E)
  PROVE  Bilinear(n, Level(n, E))
<1> DEFINE h == 2^(n - 1)
           m == 2^n
           V == Vec(n - 1)
           W == Vec(n)
           L(v) == LowHalf(n, v)
           H(v) == HighHalf(n, v)
           B(v) == Bar(n, v)
           P(x, y) == [k \in 0 .. m - 1 |-> IF k < h THEN E[L(x)][L(y)][k] - E[B(H(y))][H(x)][k]
                                            ELSE E[H(y)][L(x)][k - h] + E[H(x)][B(L(y))][k - h]]
           F == Level(n, E)
<1>1. h \in Nat \ {0} /\ m = h + h /\ n # 0
  <2> HIDE DEF V, W, L, H, B, P, F
  <2>1. h \in Nat \ {0} /\ m = h + h
    BY Powers
  <2>2. QED
    BY <2>1
<1>2. \A x, y \in W : F[x][y] = P(x, y)
  <2>1. \A x, y \in W : F[x][y] = IF n = 0 THEN [k \in {0} |-> x[0] * y[0]] ELSE P(x, y)
    BY Zenon DEF Level
  <2> HIDE DEF F, P
  <2>2. QED
    BY <1>1, <2>1
<1>3. \A x, y \in W : Sum(n, x, y) \in W /\ Opposite(n, x) \in W
  BY VecClosed
<1>4. \A x \in W : L(x) \in V /\ H(x) \in V /\ B(L(x)) \in V /\ B(H(x)) \in V
  BY HalvesLinear, BarLinear
<1>5. \A x, y \in V : \A k \in 0 .. h - 1 : E[x][y][k] \in Int
  BY DEF Bilinear, Vec
<1>6. \A k \in 0 .. m - 1 : (k < h => k \in 0 .. h - 1) /\ (~(k < h) => k - h \in 0 .. h - 1)
  BY <1>1
<1>7. \A x, y, z \in V : \A k \in 0 .. h - 1 :
        /\ E[Sum(n - 1, x, y)][z][k] = E[x][z][k] + E[y][z][k]
        /\ E[z][Sum(n - 1, x, y)][k] = E[z][x][k] + E[z][y][k]
        /\ E[Opposite(n - 1, x)][z][k] = -E[x][z][k]
        /\ E[z][Opposite(n - 1, x)][k] = -E[z][x][k]
  <2>1. \A u, v : \A k \in 0 .. h - 1 : /\ Sum(n - 1, u, v)[k] = u[k] + v[k]
                                       /\ Opposite(n - 1, u)[k] = -u[k]
    BY DEF Sum, Opposite
  <2>2. ASSUME NEW x \in V, NEW y \in V, NEW z \in V
        PROVE  /\ E[Sum(n - 1, x, y)][z] = Sum(n - 1, E[x][z], E[y][z])
               /\ E[z][Sum(n - 1, x, y)] = Sum(n - 1, E[z][x], E[z][y])
               /\ E[Opposite(n - 1, x)][z] = Opposite(n - 1, E[x][z])
               /\ E[z][Opposite(n - 1, x)] = Opposite(n - 1, E[z][x])
    BY DEF Bilinear
  <2> HIDE DEF h, V
  <2>3. QED
    BY <2>1, <2>2, SMTT(30)
<1>14. \A x, y, z \in V : \A k \in 0 .. h - 1 : E[Sum(n - 1, x, y)][z][k] = E[x][z][k] + E[y][z][k]
  BY <1>7
<1>15. \A x, y, z \in V : \A k \in 0 .. h - 1 : E[z][Sum(n - 1, x, y)][k] = E[z][x][k] + E[z][y][k]
  BY <1>7
<1> DEFINE Q(x, y, k) == E[L(x)][L(y)][k] - E[B(H(y))][H(x)][k]
            R(x, y, k) == E[H(y)][L(x)][k] + E[H(x)][B(L(y))][k]
<1>13. \A x, y : \A k \in 0 .. m - 1 : P(x, y)[k] = IF k < h THEN Q(x, y, k) ELSE R(x, y, k - h)
  OBVIOUS
<1>8. ASSUME NEW x \in W, NEW y \in W PROVE F[x][y] \in W
  <2>1. \A k \in 0 .. m - 1 : P(x, y)[k] \in Int
    BY <1>4, <1>5, <1>6, SMTT(30)
  <2>2. QED
    BY <1>2, <2>1 DEF Vec
<1>9. ASSUME NEW x \in W, NEW y \in W, NEW z \in W
      PROVE  F[Sum(n, x, y)][z] = Sum(n, F[x][z], F[y][z])
  <2>1. \A k \in 0 .. m - 1 : P(Sum(n, x, y), z)[k] = P(x, z)[k] + P(y, z)[k]
    <3>1. /\ L(Sum(n, x, y)) = Sum(n - 1, L(x), L(y))
          /\ H(Sum(n, x, y)) = Sum(n - 1, H(x), H(y))
      BY HalvesLinear
    <3> HIDE DEF h, m, V, W, L, H, B, F, P
    <3>4. {L(x), L(y), L(z), H(x), H(y), H(z), B(L(x)), B(L(y)), B(L(z)), B(H(x)), B(H(y)), B(H(z))}
               \subseteq V
      BY <1>4
    <3>2. ASSUME NEW k \in 0 .. h - 1
          PROVE  /\ Q(Sum(n, x, y), z, k) = Q(x, z, k) + Q(y, z, k)
                 /\ R(Sum(n, x, y), z, k) = R(x, z, k) + R(y, z, k)
      <4>1. E[L(Sum(n, x, y))][L(z)][k] = E[L(x)][L(z)][k] + E[L(y)][L(z)][k]
        BY <1>14, <3>1, <3>4, SMTT(30)
      <4>2. E[B(H(z))][H(Sum(n, x, y))][k] = E[B(H(z))][H(x)][k] + E[B(H(z))][H(y)][k]
        BY <1>15, <3>1, <3>4, SMTT(30)
      <4>3. E[H(z)][L(Sum(n, x, y))][k] = E[H(z)][L(x)][k] + E[H(z)][L(y)][k]
        BY <1>15, <3>1, <3>4, SMTT(30)
      <4>4. E[H(Sum(n, x, y))][B(L(z))][k] = E[H(x)][B(L(z))][k] + E[H(y)][B(L(z))][k]
        BY <1>14, <3>1, <3>4, SMTT(30)
      <4>5. {E[L(x)][L(z)][k],
             E[L(y)][L(z)][k],
             E[B(H(z))][H(x)][k],
             E[B(H(z))][H(y)][k],
             E[H(z)][L(x)][k],
             E[H(z)][L(y)][k],
             E[H(x)][B(L(z))][k],
             E[H(y)][B(L(z))][k]} \subseteq Int
        BY <1>4, <1>5
      <4>6. QED
        BY <4>1, <4>2, <4>3, <4>4, <4>5
    <3> HIDE DEF Q, R
    <3>3. QED
      BY <1>6, <1>13, <3>2
  <2> HIDE DEF P
  <2>2. Sum(n, P(x, z), P(y, z)) = [k \in 0 .. m - 1 |-> P(x, z)[k] + P(y, z)[k]]
    BY DEF Sum
  <2>3. P(Sum(n, x, y), z) = [k \in 0 .. m - 1 |-> P(Sum(n, x, y), z)[k]]
    BY DEF P
  <2>4. P(Sum(n, x, y), z) = Sum(n, P(x, z), P(y, z))
    BY <2>1, <2>2, <2>3
  <2>5. QED
    BY <1>2, <1>3, <2>4
<1>10. ASSUME NEW x \in W, NEW y \in W, NEW z \in W
       PROVE  F[z][Sum(n, x, y)] = Sum(n, F[z][x], F[z][y])
  <2>1. \A k \in 0 .. m - 1 : P(z, Sum(n, x, y))[k] = P(z, x)[k] + P(z, y)[k]
    <3>1. /\ L(Sum(n, x, y)) = Sum(n - 1, L(x), L(y))
          /\ H(Sum(n, x, y)) = Sum(n - 1, H(x), H(y))
          /\ B(L(Sum(n, x, y))) = Sum(n - 1, B(L(x)), B(L(y)))
          /\ B(H(Sum(n, x, y))) = Sum(n - 1, B(H(x)), B(H(y)))
      BY <1>4, HalvesLinear, BarLinear
    <3> HIDE DEF h, m, V, W, L, H, B, F, P
    <3>4. {L(x), L(y), L(z), H(x), H(y), H(z), B(L(x)), B(L(y)), B(L(z)), B(H(x)), B(H(y)), B(H(z))}
               \subseteq V
      BY <1>4
    <3>2. ASSUME NEW k \in 0 .. h - 1
          PROVE  /\ Q(z, Sum(n, x, y), k) = Q(z, x, k) + Q(z, y, k)
                 /\ R(z, Sum(n, x, y), k) = R(z, x, k) + R(z, y, k)
      <4>1. E[L(z)][L(Sum(n, x, y))][k] = E[L(z)][L(x)][k] + E[L(z)][L(y)][k]
        BY <1>15, <3>1, <3>4, SMTT(30)
      <4>2. E[B(H(Sum(n, x, y)))][H(z)][k] = E[B(H(x))][H(z)][k] + E[B(H(y))][H(z)][k]
        BY <1>14, <3>1, <3>4, SMTT(30)
      <4>3. E[H(Sum(n, x, y))][L(z)][k] = E[H(x)][L(z)][k] + E[H(y)][L(z)][k]
        BY <1>14, <3>1, <3>4, SMTT(30)
      <4>4. E[H(z)][B(L(Sum(n, x, y)))][k] = E[H(z)][B(L(x))][k] + E[H(z)][B(L(y))][k]
        BY <1>15, <3>1, <3>4, SMTT(30)
      <4>5. {E[L(z)][L(x)][k],
             E[L(z)][L(y)][k],
             E[B(H(x))][H(z)][k],
             E[B(H(y))][H(z)][k],
             E[H(x)][L(z)][k],
             E[H(y)][L(z)][k],
             E[H(z)][B(L(x))][k],
             E[H(z)][B(L(y))][k]} \subseteq Int
        BY <1>4, <1>5
      <4>6. QED
        BY <4>1, <4>2, <4>3, <4>4, <4>5
    <3> HIDE DEF Q, R
    <3>3. QED
      BY <1>6, <1>13, <3>2
  <2> HIDE DEF P
  <2>2. Sum(n, P(z, x), P(z, y)) = [k \in 0 .. m - 1 |-> P(z, x)[k] + P(z, y)[k]]
    BY DEF Sum
  <2>3. P(z, Sum(n, x, y)) = [k \in 0 .. m - 1 |-> P(z, Sum(n, x, y))[k]]
    BY DEF P
  <2>4. P(z, Sum(n, x, y)) = Sum(n, P(z, x), P(z, y))
    BY <2>1, <2>2, <2>3
  <2>5. QED
    BY <1>2, <1>3, <2>4
<1>11. ASSUME NEW x \in W, NEW z \in W
       PROVE  /\ F[Opposite(n, x)][z] = Opposite(n, F[x][z])
              /\ F[z][Opposite(n, x)] = Opposite(n, F[z][x])
  <2>1. \A k \in 0 .. m - 1 : /\ P(Opposite(n, x), z)[k] = -P(x, z)[k]
                              /\ P(z, Opposite(n, x))[k] = -P(z, x)[k]
    <3>1. /\ L(Opposite(n, x)) = Opposite(n - 1, L(x))
          /\ H(Opposite(n, x)) = Opposite(n - 1, H(x))
          /\ B(L(Opposite(n, x))) = Opposite(n - 1, B(L(x)))
          /\ B(H(Opposite(n, x))) = Opposite(n - 1, B(H(x)))
      BY <1>4, HalvesLinear, BarLinear
    <3> HIDE DEF h, m, V, W, L, H, B, F, P
    <3>2. ASSUME NEW k \in 0 .. h - 1
          PROVE  /\ Q(Opposite(n, x), z, k) = -Q(x, z, k)
                 /\ R(Opposite(n, x), z, k) = -R(x, z, k)
                 /\ Q(z, Opposite(n, x), k) = -Q(z, x, k)
                 /\ R(z, Opposite(n, x), k) = -R(z, x, k)
      <4>1. E[L(Opposite(n, x))][L(z)][k] = -E[L(x)][L(z)][k]
        BY <1>4, <1>7, <3>1, SMTT(30)
      <4>2. E[B(H(z))][H(Opposite(n, x))][k] = -E[B(H(z))][H(x)][k]
        BY <1>4, <1>7, <3>1, SMTT(30)
      <4>3. E[H(z)][L(Opposite(n, x))][k] = -E[H(z)][L(x)][k]
        BY <1>4, <1>7, <3>1, SMTT(30)
      <4>4. E[H(Opposite(n, x))][B(L(z))][k] = -E[H(x)][B(L(z))][k]
        BY <1>4, <1>7, <3>1, SMTT(30)
      <4>5. E[L(z)][L(Opposite(n, x))][k] = -E[L(z)][L(x)][k]
        BY <1>4, <1>7, <3>1, SMTT(30)
      <4>6. E[B(H(Opposite(n, x)))][H(z)][k] = -E[B(H(x))][H(z)][k]
        BY <1>4, <1>7, <3>1
      <4>7. E[H(Opposite(n, x))][L(z)][k] = -E[H(x)][L(z)][k]
        BY <1>4, <1>7, <3>1, SMTT(30)
      <4>8. E[H(z)][B(L(Opposite(n, x)))][k] = -E[H(z)][B(L(x))][k]
        BY <1>4, <1>7, <3>1
      <4>9. {E[L(x)][L(z)][k],
             E[B(H(z))][H(x)][k],
             E[H(z)][L(x)][k],
             E[H(x)][B(L(z))][k],
             E[L(z)][L(x)][k],
             E[B(H(x))][H(z)][k],
             E[H(x)][L(z)][k],
             E[H(z)][B(L(x))][k]} \subseteq Int
        BY <1>4, <1>5
      <4>10. QED
        BY <4>1, <4>2, <4>3, <4>4, <4>5, <4>6, <4>7, <4>8, <4>9
    <3> HIDE DEF Q, R
    <3>3. QED
      BY <1>6, <1>13, <3>2
  <2> HIDE DEF P
  <2>2. /\ Opposite(n, P(x, z)) = [k \in 0 .. m - 1 |-> -P(x, z)[k]]
        /\ Opposite(n, P(z, x)) = [k \in 0 .. m - 1 |-> -P(z, x)[k]]
    BY DEF Opposite
  <2>3. /\ P(Opposite(n, x), z) = [k \in 0 .. m - 1 |-> P(Opposite(n, x), z)[k]]
        /\ P(z, Opposite(n, x)) = [k \in 0 .. m - 1 |-> P(z, Opposite(n, x))[k]]
    BY DEF P
  <2>4. /\ P(Opposite(n, x), z) = Opposite(n, P(x, z))
        /\ P(z, Opposite(n, x)) = Opposite(n, P(z, x))
    BY <2>1, <2>2, <2>3
  <2>5. QED
    BY <1>2, <1>3, <2>4
<1>12. QED
  BY <1>8, <1>9, <1>10, <1>11 DEF Bilinear

\* The algebra of dimension one is the integers.
LEMMA DoublingZero ==
  \A x, y \in Vec(0) : Oracle!Doubling[0][x][y] = [k \in {0} |-> x[0] * y[0]]
<1> DEFINE D == Oracle!Doubling
<1>1. D[0] = Level(0, D[0 - 1])
  BY Levels
<1>2. \A E : \A x, y \in Vec(0) :
        Level(0, E)[x][y] = IF 0 = 0 THEN [k \in {0} |-> x[0] * y[0]] ELSE Level(0, E)[x][y]
  BY DEF Level
<1> HIDE DEF D
<1>3. \A x, y \in Vec(0) : D[0][x][y] = [k \in {0} |-> x[0] * y[0]]
  BY <1>1, <1>2
<1>4. QED
  BY <1>3 DEF D

\* Five levels: the product of every dimension is bilinear.
LEMMA DoublingBilinear == \A n \in 0 .. 4 : Bilinear(n, Oracle!Doubling[n])
<1> DEFINE D == Oracle!Doubling
<1>1. Bilinear(0, D[0])
  <2>1. \A x, y \in Vec(0) : D[0][x][y] = [k \in {0} |-> x[0] * y[0]]
    BY DoublingZero
  <2>2. 0 .. 2^0 - 1 = {0} /\ Vec(0) = [{0} -> Int]
    BY Powers DEF Vec
  <2>3. ASSUME NEW x \in Vec(0), NEW y \in Vec(0), NEW z \in Vec(0)
        PROVE /\ D[0][x][y] \in Vec(0)
              /\ D[0][Sum(0, x, y)][z] = Sum(0, D[0][x][z], D[0][y][z])
              /\ D[0][z][Sum(0, x, y)] = Sum(0, D[0][z][x], D[0][z][y])
              /\ D[0][Opposite(0, x)][z] = Opposite(0, D[0][x][z])
              /\ D[0][z][Opposite(0, x)] = Opposite(0, D[0][z][x])
    <3>1. x[0] \in Int /\ y[0] \in Int /\ z[0] \in Int
      BY <2>2
    <3>2. \A a, b, c \in Int : /\ (a + b) * c = a * c + b * c /\ c * (a + b) = c * a + c * b
                               /\ (-a) * c = -(a * c) /\ c * (-a) = -(c * a) /\ a * b \in Int
      OBVIOUS
    <3>3. Sum(0, x, y) \in Vec(0) /\ Opposite(0, x) \in Vec(0)
      BY VecClosed
    <3>4. /\ Sum(0, x, y) = [k \in {0} |-> x[k] + y[k]]
          /\ Opposite(0, x) = [k \in {0} |-> -x[k]]
      BY <2>2 DEF Sum, Opposite
    <3>5. \A u, v \in Vec(0) : D[0][u][v] = [k \in {0} |-> u[0] * v[0]]
      BY <2>1
    <3> HIDE DEF D
    <3>7. /\ Sum(0, x, y)[0] = x[0] + y[0] /\ Opposite(0, x)[0] = -x[0]
      BY <3>4
    <3>8. \A u, v \in Vec(0) : D[0][u][v] \in Vec(0) /\ D[0][u][v][0] = u[0] * v[0]
      <4>1. ASSUME NEW u \in Vec(0), NEW v \in Vec(0)
            PROVE  D[0][u][v] \in Vec(0) /\ D[0][u][v][0] = u[0] * v[0]
        <5>1. u[0] \in Int /\ v[0] \in Int
          BY <2>2
        <5>2. u[0] * v[0] \in Int
          BY <5>1
        <5>3. D[0][u][v] = [k \in {0} |-> u[0] * v[0]]
          BY <3>5
        <5>4. QED
          BY <2>2, <5>2, <5>3
      <4>2. QED
        BY <4>1
    <3>9. \A f, g \in Vec(0) : f[0] = g[0] => f = g
      BY <2>2
    <3>10. \A f, g \in Vec(0) : Sum(0, f, g)[0] = f[0] + g[0] /\ Opposite(0, f)[0] = -f[0]
      BY <2>2 DEF Sum, Opposite
    <3>11. /\ D[0][Sum(0, x, y)][z][0] = x[0] * z[0] + y[0] * z[0]
           /\ D[0][z][Sum(0, x, y)][0] = z[0] * x[0] + z[0] * y[0]
           /\ D[0][Opposite(0, x)][z][0] = -(x[0] * z[0])
           /\ D[0][z][Opposite(0, x)][0] = -(z[0] * x[0])
      <4>1. /\ D[0][Sum(0, x, y)][z][0] = (x[0] + y[0]) * z[0]
            /\ D[0][z][Sum(0, x, y)][0] = z[0] * (x[0] + y[0])
            /\ D[0][Opposite(0, x)][z][0] = (-x[0]) * z[0]
            /\ D[0][z][Opposite(0, x)][0] = z[0] * (-x[0])
        BY <3>3, <3>7, <3>8
      <4>2. QED
        BY <3>1, <3>2, <4>1
    <3>12. /\ Sum(0, D[0][x][z], D[0][y][z])[0] = x[0] * z[0] + y[0] * z[0]
           /\ Sum(0, D[0][z][x], D[0][z][y])[0] = z[0] * x[0] + z[0] * y[0]
           /\ Opposite(0, D[0][x][z])[0] = -(x[0] * z[0])
           /\ Opposite(0, D[0][z][x])[0] = -(z[0] * x[0])
      BY <3>8, <3>10, SMTT(30)
    <3>13. /\ D[0][Sum(0, x, y)][z] \in Vec(0) /\ D[0][z][Sum(0, x, y)] \in Vec(0)
           /\ D[0][Opposite(0, x)][z] \in Vec(0) /\ D[0][z][Opposite(0, x)] \in Vec(0)
      BY <3>3, <3>8
    <3>14. /\ Sum(0, D[0][x][z], D[0][y][z]) \in Vec(0) /\ Sum(0, D[0][z][x], D[0][z][y]) \in Vec(0)
           /\ Opposite(0, D[0][x][z]) \in Vec(0) /\ Opposite(0, D[0][z][x]) \in Vec(0)
      BY <3>8, VecClosed
    <3>15. QED
      BY <3>8, <3>9, <3>11, <3>12, <3>13, <3>14
  <2>4. QED
    BY <2>3 DEF Bilinear
<1>2. ASSUME NEW n \in 1 .. 4, Bilinear(n - 1, D[n - 1]) PROVE Bilinear(n, D[n])
  BY <1>2, Levels, LevelBilinear
<1>3. Bilinear(1, D[1])
  BY <1>1, <1>2, 1 - 1 = 0
<1>4. Bilinear(2, D[2])
  BY <1>3, <1>2, 2 - 1 = 1
<1>5. Bilinear(3, D[3])
  BY <1>4, <1>2, 3 - 1 = 2
<1>6. Bilinear(4, D[4])
  BY <1>5, <1>2, 4 - 1 = 3
<1> HIDE DEF D
<1>7. QED
  BY <1>1, <1>3, <1>4, <1>5, <1>6 DEF D

\* Binary digits and exclusive or of indices, as the oracle computes them.
Digit(x, k) == Oracle!Bit(x, k)
CdXor(a, b) == Oracle!IndexXor(a, b)

\* An index of the upper half is one of the lower half with one more digit set.
LEMMA DigitHalves ==
  ASSUME NEW n \in 1 .. 4, NEW x \in 0 .. 2^(n - 1) - 1, NEW k \in 0 .. 3
  PROVE  /\ Digit(x, k) \in {0, 1}
         /\ x + 2^(n - 1) \in 0 .. 15 /\ x \in 0 .. 15
         /\ k >= n - 1 => Digit(x, k) = 0
         /\ Digit(x + 2^(n - 1), k) = IF k = n - 1 THEN 1 ELSE Digit(x, k)
<1> USE DEF Digit, Oracle!Bit
<1>1. CASE n = 1
  <2>1. x = 0 /\ 2^(n - 1) = 1
    BY <1>1, Powers
  <2>2. CASE k = 0
    BY <1>1, <2>1, <2>2, Powers
  <2>3. CASE k = 1
    BY <1>1, <2>1, <2>3, Powers
  <2>4. CASE k = 2
    BY <1>1, <2>1, <2>4, Powers
  <2>5. CASE k = 3
    BY <1>1, <2>1, <2>5, Powers
  <2>6. QED
    BY <2>2, <2>3, <2>4, <2>5
<1>2. CASE n = 2
  <2>1. x \in 0 .. 1 /\ 2^(n - 1) = 2
    BY <1>2, Powers
  <2>2. CASE k = 0
    BY <1>2, <2>1, <2>2, Powers
  <2>3. CASE k = 1
    BY <1>2, <2>1, <2>3, Powers
  <2>4. CASE k = 2
    BY <1>2, <2>1, <2>4, Powers
  <2>5. CASE k = 3
    BY <1>2, <2>1, <2>5, Powers
  <2>6. QED
    BY <2>2, <2>3, <2>4, <2>5
<1>3. CASE n = 3
  <2>1. x \in 0 .. 3 /\ 2^(n - 1) = 4
    BY <1>3, Powers
  <2>2. CASE k = 0
    BY <1>3, <2>1, <2>2, Powers
  <2>3. CASE k = 1
    BY <1>3, <2>1, <2>3, Powers
  <2>4. CASE k = 2
    BY <1>3, <2>1, <2>4, Powers
  <2>5. CASE k = 3
    BY <1>3, <2>1, <2>5, Powers
  <2>6. QED
    BY <2>2, <2>3, <2>4, <2>5
<1>4. CASE n = 4
  <2>1. x \in 0 .. 7 /\ 2^(n - 1) = 8
    BY <1>4, Powers
  <2>2. CASE k = 0
    BY <1>4, <2>1, <2>2, Powers
  <2>3. CASE k = 1
    BY <1>4, <2>1, <2>3, Powers
  <2>4. CASE k = 2
    BY <1>4, <2>1, <2>4, Powers
  <2>5. CASE k = 3
    BY <1>4, <2>1, <2>5, Powers
  <2>6. QED
    BY <2>2, <2>3, <2>4, <2>5
<1>5. QED
  BY <1>1, <1>2, <1>3, <1>4

\* One level of cd_sigma over the signs T of the level below.
SigmaLevel(n, T) ==
  [a \in Oracle!Index |-> [b \in Oracle!Index |->
     IF a = 0 \/ b = 0 THEN 1
     ELSE IF n <= 1 THEN -1
     ELSE CASE a < 2^(n - 1) /\ b < 2^(n - 1)   -> T[a % 2^(n - 1)][b % 2^(n - 1)]
            [] a < 2^(n - 1) /\ b >= 2^(n - 1)  -> T[b % 2^(n - 1)][a % 2^(n - 1)]
            [] a >= 2^(n - 1) /\ b < 2^(n - 1)  ->
                 IF b % 2^(n - 1) = 0 THEN T[a % 2^(n - 1)][0]
                 ELSE -T[a % 2^(n - 1)][b % 2^(n - 1)]
            [] a >= 2^(n - 1) /\ b >= 2^(n - 1) ->
                 IF b % 2^(n - 1) = 0 THEN -T[0][a % 2^(n - 1)]
                 ELSE T[b % 2^(n - 1)][a % 2^(n - 1)]]]

\* The real unit multiplies by one.
LEMMA SigmaZero ==
  \A m, T : \A a, b \in Oracle!Index : a = 0 \/ b = 0 => SigmaLevel(m, T)[a][b] = 1
<1> DEFINE Rest(n, T, a, b) ==
             IF n <= 1 THEN -1
             ELSE CASE a < 2^(n - 1) /\ b < 2^(n - 1)   -> T[a % 2^(n - 1)][b % 2^(n - 1)]
                    [] a < 2^(n - 1) /\ b >= 2^(n - 1)  -> T[b % 2^(n - 1)][a % 2^(n - 1)]
                    [] a >= 2^(n - 1) /\ b < 2^(n - 1)  ->
                         IF b % 2^(n - 1) = 0 THEN T[a % 2^(n - 1)][0]
                         ELSE -T[a % 2^(n - 1)][b % 2^(n - 1)]
                    [] a >= 2^(n - 1) /\ b >= 2^(n - 1) ->
                         IF b % 2^(n - 1) = 0 THEN -T[0][a % 2^(n - 1)]
                         ELSE T[b % 2^(n - 1)][a % 2^(n - 1)]
<1> DEFINE Row(n, T, a) ==
             [b \in Oracle!Index |-> IF a = 0 \/ b = 0 THEN 1 ELSE Rest(n, T, a, b)]
<1>1. \A n, T : SigmaLevel(n, T) = [a \in Oracle!Index |-> Row(n, T, a)]
  BY Zenon DEF SigmaLevel
<1>2. \A n, T, a : \A b \in Oracle!Index :
        Row(n, T, a)[b] = IF a = 0 \/ b = 0 THEN 1 ELSE Rest(n, T, a, b)
  <2> HIDE DEF Rest
  <2>1. QED
    OBVIOUS
<1> HIDE DEF Rest, Row
<1>3. QED
  BY <1>1, <1>2

LEMMA SigmaLevels == \A n \in 0 .. 4 : Oracle!Sigma[n] = SigmaLevel(n, Oracle!Sigma[n - 1])
<1> DEFINE D == Oracle!Sigma
           T0 == SigmaLevel(0, 0)
           T1 == SigmaLevel(1, T0)
           T2 == SigmaLevel(2, T1)
           T3 == SigmaLevel(3, T2)
           T4 == SigmaLevel(4, T3)
           g == [n \in 0 .. 4 |-> IF n = 0 THEN T0 ELSE IF n = 1 THEN T1 ELSE IF n = 2 THEN T2
                                  ELSE IF n = 3 THEN T3 ELSE T4]
<1>1. D = CHOOSE f : f = [n \in 0 .. 4 |-> SigmaLevel(n, f[n - 1])]
  BY Zenon DEF Oracle!Sigma, Oracle!MaxBits, SigmaLevel
<1>2. \A E : SigmaLevel(0, E) = T0
  BY DEF SigmaLevel
<1> HIDE DEF T0, T1, T2, T3, T4, D
<1>3. \A n \in 0 .. 4 : g[n] = SigmaLevel(n, g[n - 1])
  <2>1. g[0] = SigmaLevel(0, g[0 - 1])
    BY <1>2
  <2>2. g[1] = SigmaLevel(1, g[1 - 1])
    BY DEF T1
  <2>3. g[2] = SigmaLevel(2, g[2 - 1])
    BY DEF T2
  <2>4. g[3] = SigmaLevel(3, g[3 - 1])
    BY DEF T3
  <2>5. g[4] = SigmaLevel(4, g[4 - 1])
    BY DEF T4
  <2> HIDE DEF g
  <2>6. QED
    BY <2>1, <2>2, <2>3, <2>4, <2>5
<1>4. g = [n \in 0 .. 4 |-> SigmaLevel(n, g[n - 1])]
  BY <1>3
<1> HIDE DEF g
<1>5. D = [n \in 0 .. 4 |-> SigmaLevel(n, D[n - 1])]
  BY <1>1, <1>4
<1>6. QED
  BY <1>5 DEF D

LEMMA SmallIndex ==
  ASSUME NEW n \in 1 .. 4, NEW x \in 0 .. 2^(n - 1) - 1
  PROVE  x \in 0 .. 15 /\ x + 2^(n - 1) \in 0 .. 15
<1>1. 0 \in 0 .. 3
  OBVIOUS
<1>2. QED
  BY <1>1, DigitHalves

\* Exclusive or, half by half.
LEMMA XorHalves ==
  ASSUME NEW n \in 1 .. 4, NEW x \in 0 .. 2^(n - 1) - 1, NEW y \in 0 .. 2^(n - 1) - 1
  PROVE  /\ CdXor(x, y) \in 0 .. 2^(n - 1) - 1
         /\ CdXor(x, y + 2^(n - 1)) = CdXor(x, y) + 2^(n - 1)
         /\ CdXor(x + 2^(n - 1), y) = CdXor(x, y) + 2^(n - 1)
         /\ CdXor(x + 2^(n - 1), y + 2^(n - 1)) = CdXor(x, y)
         /\ CdXor(y, x) = CdXor(x, y)
<1> DEFINE h == 2^(n - 1)
           d(a, b, k) == (Digit(a, k) + Digit(b, k)) % 2
<1>1. Oracle!Index = 0 .. 15
  BY Powers DEF Oracle!Index, Oracle!MaxBits
<1>2. ASSUME NEW a \in 0 .. 15, NEW b \in 0 .. 15
      PROVE  CdXor(a, b) = d(a, b, 0) + 2 * d(a, b, 1) + 4 * d(a, b, 2) + 8 * d(a, b, 3)
  <2>1. CdXor(a, b) = 2^0 * d(a, b, 0) + 2^1 * d(a, b, 1) + 2^2 * d(a, b, 2) + 2^3 * d(a, b, 3)
    BY <1>1 DEF CdXor, Oracle!IndexXor, Oracle!XorTable, Digit
  <2>2. \A k \in 0 .. 3 : d(a, b, k) \in Int
    <3>1. \A c \in 0 .. 15 : \A k \in 0 .. 3 : Digit(c, k) \in Int
      BY Powers DEF Digit, Oracle!Bit
    <3>2. QED
      BY <3>1
  <2> HIDE DEF d
  <2>3. QED
    BY <2>1, <2>2, Powers
<1>3. h \in Nat \ {0} /\ x + h \in 0 .. 15 /\ y + h \in 0 .. 15 /\ x \in 0 .. 15 /\ y \in 0 .. 15
  BY SmallIndex, Powers
<1>4. ASSUME NEW k \in 0 .. 3
      PROVE  /\ d(x, y, k) \in {0, 1} /\ (k >= n - 1 => d(x, y, k) = 0)
             /\ d(x, y + h, k) = IF k = n - 1 THEN 1 ELSE d(x, y, k)
             /\ d(x + h, y, k) = IF k = n - 1 THEN 1 ELSE d(x, y, k)
             /\ d(x + h, y + h, k) = d(x, y, k)
             /\ d(y, x, k) = d(x, y, k)
  <2> DEFINE p == Digit(x, k)
             q == Digit(y, k)
             r == Digit(x + h, k)
             s == Digit(y + h, k)
  <2>1. /\ p \in {0, 1} /\ q \in {0, 1}
        /\ k >= n - 1 => p = 0 /\ q = 0
        /\ r = (IF k = n - 1 THEN 1 ELSE p)
        /\ s = (IF k = n - 1 THEN 1 ELSE q)
    BY DigitHalves
  <2> HIDE DEF p, q, r, s
  <2>2. k \in Int /\ n \in Int
    OBVIOUS
  <2>3. CASE k = n - 1
    <3>1. p = 0 /\ q = 0 /\ r = 1 /\ s = 1
      BY <2>1, <2>2, <2>3
    <3>2. (0 + 0) % 2 = 0 /\ (0 + 1) % 2 = 1 /\ (1 + 0) % 2 = 1 /\ (1 + 1) % 2 = 0
      OBVIOUS
    <3>3. QED
      BY <2>3, <3>1, <3>2 DEF p, q, r, s
  <2>4. CASE k # n - 1
    <3>1. r = p /\ s = q
      BY <2>1, <2>4
    <3>2. (p + q) % 2 \in {0, 1} /\ (q + p) % 2 = (p + q) % 2
      BY <2>1
    <3>3. k >= n - 1 => (p + q) % 2 = 0
      BY <2>1
    <3>4. QED
      BY <2>4, <3>1, <3>2, <3>3 DEF p, q, r, s
  <2>5. QED
    BY <2>3, <2>4
<1>5. /\ CdXor(x, y) = d(x, y, 0) + 2 * d(x, y, 1) + 4 * d(x, y, 2) + 8 * d(x, y, 3)
      /\ CdXor(x, y + h) = d(x, y + h, 0) + 2 * d(x, y + h, 1) + 4 * d(x, y + h, 2)
            + 8 * d(x, y + h, 3)
      /\ CdXor(x + h, y) = d(x + h, y, 0) + 2 * d(x + h, y, 1) + 4 * d(x + h, y, 2)
            + 8 * d(x + h, y, 3)
      /\ CdXor(x + h, y + h) = d(x + h, y + h, 0) + 2 * d(x + h, y + h, 1) + 4 * d(x + h, y + h, 2)
                             + 8 * d(x + h, y + h, 3)
      /\ CdXor(y, x) = d(y, x, 0) + 2 * d(y, x, 1) + 4 * d(y, x, 2) + 8 * d(y, x, 3)
  BY <1>2, <1>3
<1> HIDE DEF d, h
<1>6. /\ CdXor(x, y) \in 0 .. h - 1
      /\ CdXor(x, y + h) = CdXor(x, y) + h
      /\ CdXor(x + h, y) = CdXor(x, y) + h
      /\ CdXor(x + h, y + h) = CdXor(x, y)
      /\ CdXor(y, x) = CdXor(x, y)
  <2>1. CASE n = 1
    <3>1. h = 1
      BY <2>1, Powers DEF h
    <3>2. QED
      BY <1>4, <1>5, <2>1, <3>1
  <2>2. CASE n = 2
    <3>1. h = 2
      BY <2>2, Powers DEF h
    <3>2. QED
      BY <1>4, <1>5, <2>2, <3>1
  <2>3. CASE n = 3
    <3>1. h = 4
      BY <2>3, Powers DEF h
    <3>2. QED
      BY <1>4, <1>5, <2>3, <3>1
  <2>4. CASE n = 4
    <3>1. h = 8
      BY <2>4, Powers DEF h
    <3>2. QED
      BY <1>4, <1>5, <2>4, <3>1
  <2>5. QED
    BY <2>1, <2>2, <2>3, <2>4
<1>7. QED
  BY <1>6 DEF h

\* The sign of e_a e_b in dimension 2^n.
Sgn(n, a, b) == Oracle!Sigma[n][a][b]

\* cd_sigma, half by half.
LEMMA SigmaHalves ==
  ASSUME NEW n \in 1 .. 4, NEW x \in 0 .. 2^(n - 1) - 1, NEW y \in 0 .. 2^(n - 1) - 1
  PROVE  /\ Sgn(n, x, y) = Sgn(n - 1, x, y)
         /\ Sgn(n, x, y + 2^(n - 1)) = Sgn(n - 1, y, x)
         /\ Sgn(n, x + 2^(n - 1), y) = IF y = 0 THEN Sgn(n - 1, x, 0) ELSE -Sgn(n - 1, x, y)
         /\ Sgn(n, x + 2^(n - 1), y + 2^(n - 1)) = IF y = 0 THEN -Sgn(n - 1, 0, x)
               ELSE Sgn(n - 1, y, x)
<1> DEFINE h == 2^(n - 1)
           low(a, b) == Oracle!Sigma[n - 1][a][b]
<1>1. Oracle!Index = 0 .. 15
  BY Powers DEF Oracle!Index, Oracle!MaxBits
<1>2. /\ h \in Nat \ {0} /\ x + h \in 0 .. 15 /\ y + h \in 0 .. 15 /\ x \in 0 .. 15 /\ y \in 0 .. 15
      /\ 0 \in 0 .. 15
  <2> HIDE DEF low
  <2>1. h \in Nat \ {0}
    BY Powers
  <2>2. x + h \in 0 .. 15 /\ y + h \in 0 .. 15 /\ x \in 0 .. 15 /\ y \in 0 .. 15
    BY SmallIndex
  <2>3. QED
    BY <2>1, <2>2
<1>3. x % h = x /\ y % h = y /\ (x + h) % h = x /\ (y + h) % h = y
  <2>1. CASE n = 1
    BY <2>1, Powers
  <2>2. CASE n = 2
    BY <2>2, Powers
  <2>3. CASE n = 3
    BY <2>3, Powers
  <2>4. CASE n = 4
    BY <2>4, Powers
  <2>5. QED
    BY <2>1, <2>2, <2>3, <2>4
<1>4. n = 1 => x = 0 /\ y = 0
  BY Powers
<1>5. \A a, b \in 0 .. 15 : Sgn(n, a, b) =
        IF a = 0 \/ b = 0 THEN 1
        ELSE IF n <= 1 THEN -1
        ELSE CASE a < h /\ b < h   -> low(a % h, b % h)
               [] a < h /\ b >= h  -> low(b % h, a % h)
               [] a >= h /\ b < h  -> IF b % h = 0 THEN low(a % h, 0) ELSE -low(a % h, b % h)
               [] a >= h /\ b >= h -> IF b % h = 0 THEN -low(0, a % h) ELSE low(b % h, a % h)
  <2>1. Oracle!Sigma[n] = SigmaLevel(n, Oracle!Sigma[n - 1])
    BY SigmaLevels
  <2>2. \A a, b \in Oracle!Index : SigmaLevel(n, Oracle!Sigma[n - 1])[a][b] =
          IF a = 0 \/ b = 0 THEN 1
          ELSE IF n <= 1 THEN -1
          ELSE CASE a < h /\ b < h   -> low(a % h, b % h)
                 [] a < h /\ b >= h  -> low(b % h, a % h)
                 [] a >= h /\ b < h  -> IF b % h = 0 THEN low(a % h, 0) ELSE -low(a % h, b % h)
                 [] a >= h /\ b >= h -> IF b % h = 0 THEN -low(0, a % h) ELSE low(b % h, a % h)
    BY Zenon DEF SigmaLevel
  <2> HIDE DEF h, low
  <2>3. QED
    BY <1>1, <2>1, <2>2, Zenon DEF Sgn
<1>6. \A a \in 0 .. 15 : low(a, 0) = 1 /\ low(0, a) = 1
  <2>1. n - 1 \in 0 .. 4
    OBVIOUS
  <2>2. \A m, T : \A a, b \in Oracle!Index : a = 0 \/ b = 0 => SigmaLevel(m, T)[a][b] = 1
    BY SigmaZero
  <2>3. QED
    BY <1>1, <2>1, <2>2, SigmaLevels
<1> HIDE DEF h, low
<1>7. /\ x < h /\ y < h /\ ~(x >= h) /\ ~(y >= h)
      /\ x + h >= h /\ y + h >= h /\ ~(x + h < h) /\ ~(y + h < h) /\ x + h # 0 /\ y + h # 0
  BY <1>2 DEF h
<1>8. ASSUME NEW a \in 0 .. 15, NEW b \in 0 .. 15, a # 0, b # 0, ~(n <= 1)
      PROVE  /\ a < h /\ b < h => Sgn(n, a, b) = low(a % h, b % h)
             /\ a < h /\ ~(b < h) /\ b >= h => Sgn(n, a, b) = low(b % h, a % h)
             /\ ~(a < h) /\ a >= h /\ b < h /\ ~(b >= h) =>
                  Sgn(n, a, b) = IF b % h = 0 THEN low(a % h, 0) ELSE -low(a % h, b % h)
             /\ ~(a < h) /\ a >= h /\ ~(b < h) /\ b >= h =>
                  Sgn(n, a, b) = IF b % h = 0 THEN -low(0, a % h) ELSE low(b % h, a % h)
  <2> DEFINE e1 == low(a % h, b % h)
             e2 == low(b % h, a % h)
             e3 == IF b % h = 0 THEN low(a % h, 0) ELSE -low(a % h, b % h)
             e4 == IF b % h = 0 THEN -low(0, a % h) ELSE low(b % h, a % h)
  <2>1. Sgn(n, a, b) = CASE a < h /\ b < h   -> e1
                       [] a < h /\ b >= h  -> e2
                       [] a >= h /\ b < h  -> e3
                       [] a >= h /\ b >= h -> e4
    BY <1>5, <1>8, Zenon
  <2> HIDE DEF e1, e2, e3, e4
  <2>2. \A p, q, r, s : LET v == CASE p /\ q -> e1 [] p /\ s -> e2 [] r /\ q -> e3 [] r /\ s -> e4
                       IN  /\ p /\ q /\ ~r /\ ~s => v = e1
                           /\ p /\ ~q /\ ~r /\ s => v = e2
                           /\ ~p /\ q /\ r /\ ~s => v = e3
                           /\ ~p /\ ~q /\ r /\ s => v = e4
    OBVIOUS
  <2>3. (a < h <=> ~(a >= h)) /\ (b < h <=> ~(b >= h))
    BY <1>2
  <2>4. QED
    BY <2>1, <2>2, <2>3 DEF e1, e2, e3, e4
<1>14. \A a, b \in 0 .. 15 :
         /\ a = 0 \/ b = 0 => Sgn(n, a, b) = 1
         /\ a # 0 /\ b # 0 /\ n <= 1 => Sgn(n, a, b) = -1
  BY <1>5, Zenon
<1> HIDE DEF Sgn
<1>9. Sgn(n, x, y) = low(x, y)
  <2>1. CASE x = 0 \/ y = 0
    BY <1>2, <1>6, <1>14, <2>1
  <2>2. CASE x # 0 /\ y # 0
    <3>1. ~(n <= 1)
      BY <1>4, <2>2, SMTT(30)
    <3>2. Sgn(n, x, y) = low(x % h, y % h)
      BY <1>2, <1>7, <1>8, <2>2, <3>1
    <3>3. QED
      BY <1>3, <3>2
  <2>3. QED
    BY <2>1, <2>2
<1>10. Sgn(n, x, y + h) = low(y, x)
  <2>1. CASE x = 0
    BY <1>2, <1>6, <1>14, <2>1
  <2>2. CASE x # 0
    <3>1. ~(n <= 1)
      BY <1>4, <2>2, SMTT(30)
    <3>2. Sgn(n, x, y + h) = low((y + h) % h, x % h)
      BY <1>2, <1>7, <1>8, <2>2, <3>1
    <3>3. QED
      BY <1>3, <3>2
  <2>3. QED
    BY <2>1, <2>2
<1>11. Sgn(n, x + h, y) = IF y = 0 THEN low(x, 0) ELSE -low(x, y)
  <2>1. CASE y = 0
    BY <1>2, <1>6, <1>14, <2>1
  <2>2. CASE y # 0
    <3>1. ~(n <= 1)
      BY <1>4, <2>2, SMTT(30)
    <3>2. Sgn(n, x + h, y) = IF y % h = 0 THEN low((x + h) % h, 0) ELSE -low((x + h) % h, y % h)
      BY <1>2, <1>7, <1>8, <2>2, <3>1
    <3>3. QED
      BY <1>3, <2>2, <3>2
  <2>3. QED
    BY <2>1, <2>2
<1>12. Sgn(n, x + h, y + h) = IF y = 0 THEN -low(0, x) ELSE low(y, x)
  <2>1. CASE n <= 1
    <3>1. x = 0 /\ y = 0
      BY <1>4, <2>1
    <3>2. Sgn(n, x + h, y + h) = -1
      BY <1>2, <1>7, <1>14, <2>1
    <3>3. QED
      BY <1>2, <1>6, <3>1, <3>2
  <2>2. CASE ~(n <= 1)
    <3>1. Sgn(n, x + h, y + h) =
            IF (y + h) % h = 0 THEN -low(0, (x + h) % h) ELSE low((y + h) % h, (x + h) % h)
      BY <1>2, <1>7, <1>8, <2>2
    <3>2. QED
      BY <1>3, <3>1, SMTT(30)
  <2>3. QED
    BY <2>1, <2>2
<1>13. QED
  BY <1>9, <1>10, <1>11, <1>12 DEF h, low, Sgn

\* Basis vectors, their multiples and zero.
Unit(n, a) == Oracle!BasisVector(n, a)
Scaled(n, s, a) == [k \in 0 .. 2^n - 1 |-> IF k = a THEN s ELSE 0]
Null(n) == [k \in 0 .. 2^n - 1 |-> 0]

\* Halves and conjugates of basis vectors are basis vectors, or zero.
LEMMA UnitHalves ==
  ASSUME NEW n \in 1 .. 4, NEW x \in 0 .. 2^(n - 1) - 1
  PROVE  /\ LowHalf(n, Unit(n, x)) = Unit(n - 1, x)
         /\ HighHalf(n, Unit(n, x)) = Null(n - 1)
         /\ LowHalf(n, Unit(n, x + 2^(n - 1))) = Null(n - 1)
         /\ HighHalf(n, Unit(n, x + 2^(n - 1))) = Unit(n - 1, x)
         /\ Bar(n, Unit(n - 1, x)) = IF x = 0 THEN Unit(n - 1, 0) ELSE Opposite(n - 1, Unit(n - 1, x))
         /\ Bar(n, Null(n - 1)) = Null(n - 1)
         /\ Unit(n - 1, x) \in Vec(n - 1) /\ Null(n - 1) \in Vec(n - 1)
         /\ Unit(n, x) \in Vec(n) /\ Unit(n, x + 2^(n - 1)) \in Vec(n)
<1> DEFINE h == 2^(n - 1)
           m == 2^n
<1>1. h \in Nat \ {0} /\ m = h + h
  BY Powers
<1> HIDE DEF h, m
<1>2. \A k \in 0 .. h - 1 : /\ k \in 0 .. m - 1 /\ k + h \in 0 .. m - 1
                            /\ k + h # x /\ k # x + h
                            /\ (k + h = x + h) <=> (k = x)
  BY <1>1 DEF h
<1>3. 0 \in 0 .. h - 1 /\ x \in 0 .. h - 1
  BY <1>1 DEF h
<1>4. /\ LowHalf(n, Unit(n, x)) = Unit(n - 1, x)
      /\ HighHalf(n, Unit(n, x)) = Null(n - 1)
  BY <1>2 DEF LowHalf, HighHalf, Unit, Oracle!BasisVector, Null, h, m
<1>5. /\ LowHalf(n, Unit(n, x + h)) = Null(n - 1)
      /\ HighHalf(n, Unit(n, x + h)) = Unit(n - 1, x)
  BY <1>2 DEF LowHalf, HighHalf, Unit, Oracle!BasisVector, Null, h, m
<1>6. Bar(n, Unit(n - 1, x)) = IF x = 0 THEN Unit(n - 1, 0) ELSE Opposite(n - 1, Unit(n - 1, x))
  BY <1>3 DEF Bar, Oracle!Conjugate, Unit, Oracle!BasisVector, Opposite, h
<1>7. Bar(n, Null(n - 1)) = Null(n - 1)
  <2>1. \A k \in 0 .. h - 1 : Null(n - 1)[k] = 0
    BY DEF Null, h
  <2>2. Bar(n, Null(n - 1)) = [k \in 0 .. h - 1 |-> 0]
    <3>1. \A i \in Int : -i = 0 <=> i = 0
      OBVIOUS
    <3>2. \A k \in 0 .. h - 1 : -Null(n - 1)[k] = 0
      <4>1. 0 \in Int
        OBVIOUS
      <4>2. QED
        BY <2>1, <3>1, <4>1, Zenon
    <3>3. QED
      BY <1>3, <2>1, <3>2 DEF Bar, Oracle!Conjugate, h
  <2>3. QED
    BY <2>2 DEF Null, h
<1>8. /\ Unit(n - 1, x) \in Vec(n - 1) /\ Null(n - 1) \in Vec(n - 1)
      /\ Unit(n, x) \in Vec(n) /\ Unit(n, x + h) \in Vec(n)
  BY DEF Unit, Oracle!BasisVector, Null, Vec
<1>9. QED
  BY <1>4, <1>5, <1>6, <1>7, <1>8 DEF h

\* A bilinear product with zero is zero.
LEMMA NullProduct ==
  ASSUME NEW n, NEW E, Bilinear(n, E), NEW x \in Vec(n)
  PROVE  E[Null(n)][x] = Null(n) /\ E[x][Null(n)] = Null(n)
<1> DEFINE z == Null(n)
<1>1. z \in Vec(n) /\ Sum(n, z, z) = z
  BY DEF Null, Sum, Vec
<1>2. \A f \in Vec(n) : Sum(n, f, f) = f => f = z
  <2>1. ASSUME NEW f \in Vec(n), Sum(n, f, f) = f PROVE f = z
    <3>1. ASSUME NEW k \in 0 .. 2^n - 1 PROVE f[k] = 0
      <4>1. f[k] = f[k] + f[k]
        BY <2>1 DEF Sum
      <4>2. f[k] \in Int
        BY DEF Vec
      <4>3. QED
        BY <4>1, <4>2, SMTT(30)
    <3>2. QED
      BY <3>1 DEF Vec, Null
  <2>2. QED
    BY <2>1
<1> HIDE DEF z
<1>3. /\ E[z][x] \in Vec(n) /\ E[x][z] \in Vec(n)
      /\ Sum(n, E[z][x], E[z][x]) = E[z][x]
      /\ Sum(n, E[x][z], E[x][z]) = E[x][z]
  BY <1>1 DEF Bilinear
<1>4. QED
  BY <1>2, <1>3 DEF z

\* The product E multiplies basis vectors by sign and exclusive or.
BasisProducts(n, E) ==
  \A a, b \in 0 .. 2^n - 1 : /\ CdXor(a, b) \in 0 .. 2^n - 1 /\ Sgn(n, a, b) \in {-1, 1}
                             /\ E[Unit(n, a)][Unit(n, b)] = Scaled(n, Sgn(n, a, b), CdXor(a, b))

\* One level of the doubling multiplies basis vectors as one level of cd_sigma says.
LEMMA LevelBasis ==
  ASSUME NEW n \in 1 .. 4, NEW E, Bilinear(n - 1, E), BasisProducts(n - 1, E)
  PROVE  BasisProducts(n, Level(n, E))
<1> DEFINE h == 2^(n - 1)
           m == 2^n
           low(a, b) == Sgn(n - 1, a, b)
           e(x) == Unit(n - 1, x)
           z == Null(n - 1)
           F == Level(n, E)
           u(x) == Unit(n, x)
           c(s, a) == Scaled(n - 1, s, a)
<1>1. h \in Nat \ {0} /\ m = h + h /\ n # 0
  <2> HIDE DEF low, e, z, F, u, c
  <2>1. h \in Nat \ {0} /\ m = h + h
    BY Powers
  <2>2. QED
    BY <2>1
<1>2. \A x, y \in Vec(n) : \A k \in 0 .. m - 1 :
        F[x][y][k] =
          IF k < h THEN E[LowHalf(n, x)][LowHalf(n, y)][k]
               - E[Bar(n, HighHalf(n, y))][HighHalf(n, x)][k]
          ELSE E[HighHalf(n, y)][LowHalf(n, x)][k - h]
               + E[HighHalf(n, x)][Bar(n, LowHalf(n, y))][k - h]
  <2> DEFINE P(x, y) ==
        [k \in 0 .. m - 1 |->
          IF k < h THEN E[LowHalf(n, x)][LowHalf(n, y)][k]
               - E[Bar(n, HighHalf(n, y))][HighHalf(n, x)][k]
          ELSE E[HighHalf(n, y)][LowHalf(n, x)][k - h]
               + E[HighHalf(n, x)][Bar(n, LowHalf(n, y))][k - h]]
  <2>1. \A x, y \in Vec(n) : F[x][y] = IF n = 0 THEN [k \in {0} |-> x[0] * y[0]] ELSE P(x, y)
    BY Zenon DEF Level
  <2>2. \A x, y \in Vec(n) : F[x][y] = P(x, y)
    <3> HIDE DEF F, P
    <3>1. QED
      BY <1>1, <2>1
  <2>3. \A x, y : \A k \in 0 .. m - 1 : P(x, y)[k] =
          IF k < h THEN E[LowHalf(n, x)][LowHalf(n, y)][k]
               - E[Bar(n, HighHalf(n, y))][HighHalf(n, x)][k]
          ELSE E[HighHalf(n, y)][LowHalf(n, x)][k - h]
               + E[HighHalf(n, x)][Bar(n, LowHalf(n, y))][k - h]
    OBVIOUS
  <2> HIDE DEF F, P, h, m
  <2>4. QED
    BY <2>2, <2>3
<1>3. \A x \in Vec(n - 1) : E[z][x] = z /\ E[x][z] = z
  BY NullProduct
<1>4. \A a, b \in 0 .. h - 1 : /\ CdXor(a, b) \in 0 .. h - 1 /\ low(a, b) \in {-1, 1}
                               /\ E[e(a)][e(b)] = c(low(a, b), CdXor(a, b))
  BY DEF BasisProducts
<1>5. /\ \A k \in 0 .. h - 1 : z[k] = 0
      /\ \A s, a : \A k \in 0 .. h - 1 : c(s, a)[k] = IF k = a THEN s ELSE 0
      /\ \A f : \A k \in 0 .. h - 1 : Opposite(n - 1, f)[k] = -f[k]
  BY DEF Null, Scaled, Opposite
<1>6. \A k \in 0 .. m - 1 : /\ k < h => k \in 0 .. h - 1
                            /\ ~(k < h) => k - h \in 0 .. h - 1 /\ k \in Int
  BY <1>1
<1>7. ASSUME NEW x \in 0 .. h - 1
      PROVE  /\ LowHalf(n, u(x)) = e(x) /\ HighHalf(n, u(x)) = z
             /\ LowHalf(n, u(x + h)) = z /\ HighHalf(n, u(x + h)) = e(x)
             /\ e(x) \in Vec(n - 1) /\ u(x) \in Vec(n) /\ u(x + h) \in Vec(n)
             /\ Bar(n, e(x)) = (IF x = 0 THEN e(0) ELSE Opposite(n - 1, e(x)))
             /\ Bar(n, e(x)) \in Vec(n - 1)
             /\ Bar(n, z) = z
  BY UnitHalves, BarLinear
<1>12. \A f, g \in Vec(n - 1) : /\ E[f][Opposite(n - 1, g)] = Opposite(n - 1, E[f][g])
                                /\ E[Opposite(n - 1, g)][f] = Opposite(n - 1, E[g][f])
  BY DEF Bilinear
<1>8. ASSUME NEW x \in 0 .. h - 1, NEW y \in 0 .. h - 1, NEW k \in 0 .. h - 1
      PROVE  /\ E[e(x)][e(y)][k] = IF k = CdXor(x, y) THEN low(x, y) ELSE 0
             /\ E[e(x)][Bar(n, e(y))][k] =
                  IF k = CdXor(x, y) THEN IF y = 0 THEN low(x, 0) ELSE -low(x, y) ELSE 0
             /\ E[Bar(n, e(y))][e(x)][k] =
                  IF k = CdXor(x, y) THEN IF y = 0 THEN low(0, x) ELSE -low(y, x) ELSE 0
             /\ E[e(y)][e(x)][k] = IF k = CdXor(x, y) THEN low(y, x) ELSE 0
  <2> HIDE DEF h, m, low, e, z, F, u, c
  <2>0. 0 \in 0 .. h - 1
    BY <1>1
  <2>1. CdXor(y, x) = CdXor(x, y)
    BY XorHalves DEF h
  <2>6. E[e(x)][e(y)] = c(low(x, y), CdXor(x, y)) /\ E[e(y)][e(x)] = c(low(y, x), CdXor(x, y))
    BY <1>4, <2>1
  <2>2. /\ E[e(x)][e(y)][k] = IF k = CdXor(x, y) THEN low(x, y) ELSE 0
        /\ E[e(y)][e(x)][k] = IF k = CdXor(x, y) THEN low(y, x) ELSE 0
        /\ low(x, y) \in {-1, 1} /\ low(y, x) \in {-1, 1}
    <3>1. /\ c(low(x, y), CdXor(x, y))[k] = IF k = CdXor(x, y) THEN low(x, y) ELSE 0
          /\ c(low(y, x), CdXor(x, y))[k] = IF k = CdXor(x, y) THEN low(y, x) ELSE 0
      <4>1. \A s, a : c(s, a)[k] = IF k = a THEN s ELSE 0
        BY <1>5
      <4>2. QED
        BY <4>1
    <3>2. low(x, y) \in {-1, 1} /\ low(y, x) \in {-1, 1}
      BY <1>4
    <3>3. QED
      BY <2>6, <3>1, <3>2, Zenon
  <2>3. CASE y = 0
    BY <1>7, <2>0, <2>2, <2>3
  <2>4. CASE y # 0
    <3>1. Bar(n, e(y)) = Opposite(n - 1, e(y)) /\ e(x) \in Vec(n - 1) /\ e(y) \in Vec(n - 1)
      BY <1>7, <2>4
    <3>2. /\ E[e(x)][Opposite(n - 1, e(y))] = Opposite(n - 1, E[e(x)][e(y)])
          /\ E[Opposite(n - 1, e(y))][e(x)] = Opposite(n - 1, E[e(y)][e(x)])
      BY <1>12, <3>1
    <3>3. /\ E[e(x)][Bar(n, e(y))][k] = -E[e(x)][e(y)][k]
          /\ E[Bar(n, e(y))][e(x)][k] = -E[e(y)][e(x)][k]
      BY <1>5, <3>1, <3>2
    <3>4. QED
      BY <2>2, <2>4, <3>3
  <2>5. QED
    BY <2>3, <2>4
<1>9. ASSUME NEW x \in 0 .. h - 1, NEW y \in 0 .. h - 1, NEW k \in 0 .. h - 1
      PROVE  /\ E[z][e(y)][k] = 0 /\ E[e(x)][z][k] = 0 /\ E[z][z][k] = 0
             /\ E[Bar(n, e(y))][z][k] = 0 /\ E[z][Bar(n, e(y))][k] = 0
             /\ Bar(n, z) = z
  <2>1. z \in Vec(n - 1)
    BY UnitHalves
  <2> HIDE DEF h, m, low, e, z, F, u, c
  <2>2. QED
    BY <1>3, <1>5, <1>7, <2>1
<1>10. ASSUME NEW x \in 0 .. h - 1, NEW y \in 0 .. h - 1
       PROVE  /\ F[u(x)][u(y)] \in Vec(n) /\ F[u(x)][u(y + h)] \in Vec(n)
              /\ F[u(x + h)][u(y)] \in Vec(n) /\ F[u(x + h)][u(y + h)] \in Vec(n)
  <2>1. Bilinear(n, F)
    BY LevelBilinear
  <2> HIDE DEF h, m, low, e, z, F, u, c
  <2>2. QED
    BY <1>7, <2>1 DEF Bilinear
<1>11. ASSUME NEW x \in 0 .. h - 1, NEW y \in 0 .. h - 1, NEW k \in 0 .. m - 1
       PROVE  LET d == CdXor(x, y) IN
              /\ F[u(x)][u(y)][k] = IF k = d THEN low(x, y) ELSE 0
              /\ F[u(x)][u(y + h)][k] = IF k = d + h THEN low(y, x) ELSE 0
              /\ F[u(x + h)][u(y)][k] =
                   IF k = d + h THEN IF y = 0 THEN low(x, 0) ELSE -low(x, y) ELSE 0
              /\ F[u(x + h)][u(y + h)][k] =
                   IF k = d THEN IF y = 0 THEN -low(0, x) ELSE low(y, x) ELSE 0
  <2> DEFINE d == CdXor(x, y)
             v1 == low(x, y)
             v2 == low(y, x)
             v3 == IF y = 0 THEN low(x, 0) ELSE -low(x, y)
             v4 == IF y = 0 THEN low(0, x) ELSE -low(y, x)
  <2>0. 0 \in 0 .. h - 1
    BY <1>1
  <2>1. d \in 0 .. h - 1 /\ v1 \in {-1, 1} /\ v2 \in {-1, 1} /\ v3 \in {-1, 1} /\ v4 \in {-1, 1}
    <3> HIDE DEF h, m, low, e, z, F, u, c
    <3>1. low(x, 0) \in {-1, 1} /\ low(0, x) \in {-1, 1} /\ v1 \in {-1, 1} /\ v2 \in {-1, 1}
      BY <1>4, <2>0
    <3>2. d \in 0 .. h - 1
      BY <1>4
    <3>3. QED
      BY <3>1, <3>2
  <2>2. /\ u(x) \in Vec(n) /\ u(x + h) \in Vec(n) /\ u(y) \in Vec(n) /\ u(y + h) \in Vec(n)
    <3> HIDE DEF h, m, low, e, z, F, u, c
    <3>1. QED
      BY <1>7
  <2>3. CASE k < h
    <3>1. k \in 0 .. h - 1
      BY <1>6, <2>3
    <3> HIDE DEF h, m, low, e, z, F, u, c
    <3>2. /\ F[u(x)][u(y)][k] = E[e(x)][e(y)][k] - E[Bar(n, z)][z][k]
          /\ F[u(x)][u(y + h)][k] = E[e(x)][z][k] - E[Bar(n, e(y))][z][k]
          /\ F[u(x + h)][u(y)][k] = E[z][e(y)][k] - E[Bar(n, z)][e(x)][k]
          /\ F[u(x + h)][u(y + h)][k] = E[z][z][k] - E[Bar(n, e(y))][e(x)][k]
      BY <1>2, <1>7, <2>2, <2>3
    <3>3. /\ E[e(x)][e(y)][k] = (IF k = d THEN v1 ELSE 0)
          /\ E[Bar(n, e(y))][e(x)][k] = (IF k = d THEN v4 ELSE 0)
      BY <1>8, <3>1
    <3>4. /\ E[z][e(y)][k] = 0 /\ E[z][e(x)][k] = 0 /\ E[e(x)][z][k] = 0 /\ E[z][z][k] = 0
          /\ E[Bar(n, e(y))][z][k] = 0 /\ Bar(n, z) = z
      BY <1>9, <3>1
    <3>5. k # d + h
      BY <1>1, <2>1, <2>3, <3>1
    <3> HIDE DEF d, v1, v2, v3, v4
    <3>6. /\ F[u(x)][u(y)][k] = IF k = d THEN v1 ELSE 0
          /\ F[u(x)][u(y + h)][k] = 0
          /\ F[u(x + h)][u(y)][k] = 0
          /\ F[u(x + h)][u(y + h)][k] = IF k = d THEN -v4 ELSE 0
      BY <2>1, <3>2, <3>3, <3>4
    <3>7. -v4 = IF y = 0 THEN -low(0, x) ELSE low(y, x)
      BY <2>1 DEF v4, v2
    <3>8. /\ F[u(x)][u(y + h)][k] = IF k = d + h THEN v2 ELSE 0
          /\ F[u(x + h)][u(y)][k] = IF k = d + h THEN v3 ELSE 0
      BY <3>5, <3>6
    <3>9. F[u(x + h)][u(y + h)][k] = IF k = d THEN IF y = 0 THEN -low(0, x) ELSE low(y, x) ELSE 0
      BY <3>6, <3>7
    <3>10. QED
      BY <3>6, <3>8, <3>9 DEF d, v1, v2, v3
  <2>4. CASE ~(k < h)
    <3> DEFINE j == k - h
    <3>1. j \in 0 .. h - 1 /\ k \in Int
      BY <1>6, <2>4
    <3>0. k # d
      BY <1>1, <2>1, <2>4, <3>1
    <3>5. k = d + h <=> j = d
      BY <1>1, <2>1, <3>1
    <3> HIDE DEF h, m, low, e, z, F, u, c
    <3>2. /\ F[u(x)][u(y)][k] = E[z][e(x)][k - h] + E[z][Bar(n, e(y))][k - h]
          /\ F[u(x)][u(y + h)][k] = E[e(y)][e(x)][k - h] + E[z][Bar(n, z)][k - h]
          /\ F[u(x + h)][u(y)][k] = E[z][z][k - h] + E[e(x)][Bar(n, e(y))][k - h]
          /\ F[u(x + h)][u(y + h)][k] = E[e(y)][z][k - h] + E[e(x)][Bar(n, z)][k - h]
      BY <1>2, <1>7, <2>2, <2>4
    <3> HIDE DEF j
    <3>3. /\ E[e(y)][e(x)][j] = (IF j = d THEN v2 ELSE 0)
          /\ E[e(x)][Bar(n, e(y))][j] = (IF j = d THEN v3 ELSE 0)
      BY <1>8, <3>1
    <3>4. /\ E[z][e(x)][j] = 0 /\ E[z][z][j] = 0 /\ E[z][Bar(n, e(y))][j] = 0
          /\ E[e(y)][z][j] = 0 /\ E[e(x)][z][j] = 0 /\ Bar(n, z) = z
      BY <1>9, <3>1
    <3> HIDE DEF d, v1, v2, v3, v4
    <3>6. /\ F[u(x)][u(y)][k] = 0
          /\ F[u(x)][u(y + h)][k] = IF j = d THEN v2 ELSE 0
          /\ F[u(x + h)][u(y)][k] = IF j = d THEN v3 ELSE 0
          /\ F[u(x + h)][u(y + h)][k] = 0
      BY <2>1, <3>2, <3>3, <3>4 DEF j
    <3> DEFINE v5 == IF y = 0 THEN -low(0, x) ELSE low(y, x)
    <3> HIDE DEF v5
    <3>7. /\ F[u(x)][u(y)][k] = IF k = d THEN v1 ELSE 0
          /\ F[u(x)][u(y + h)][k] = IF k = d + h THEN v2 ELSE 0
          /\ F[u(x + h)][u(y)][k] = IF k = d + h THEN v3 ELSE 0
          /\ F[u(x + h)][u(y + h)][k] = IF k = d THEN v5 ELSE 0
      BY <3>0, <3>5, <3>6
    <3>8. QED
      BY <3>7 DEF d, v1, v2, v3, v5
  <2>5. QED
    BY <2>3, <2>4
<1>13. ASSUME NEW x \in 0 .. h - 1, NEW y \in 0 .. h - 1
       PROVE  /\ Sgn(n, x, y) = low(x, y) /\ CdXor(x, y) \in 0 .. h - 1
              /\ Sgn(n, x, y + h) = low(y, x) /\ CdXor(x, y + h) = CdXor(x, y) + h
              /\ Sgn(n, x + h, y) = (IF y = 0 THEN low(x, 0) ELSE -low(x, y))
              /\ CdXor(x + h, y) = CdXor(x, y) + h
              /\ Sgn(n, x + h, y + h) = (IF y = 0 THEN -low(0, x) ELSE low(y, x))
              /\ CdXor(x + h, y + h) = CdXor(x, y)
  BY SigmaHalves, XorHalves
<1>14. ASSUME NEW f \in Vec(n), NEW s, NEW d, \A k \in 0 .. m - 1 : f[k] = IF k = d THEN s ELSE 0
       PROVE  f = Scaled(n, s, d)
  BY <1>14 DEF Vec, Scaled
<1>15. ASSUME NEW x \in 0 .. h - 1, NEW y \in 0 .. h - 1
       PROVE  /\ F[u(x)][u(y)] = Scaled(n, Sgn(n, x, y), CdXor(x, y))
              /\ F[u(x)][u(y + h)] = Scaled(n, Sgn(n, x, y + h), CdXor(x, y + h))
              /\ F[u(x + h)][u(y)] = Scaled(n, Sgn(n, x + h, y), CdXor(x + h, y))
              /\ F[u(x + h)][u(y + h)] = Scaled(n, Sgn(n, x + h, y + h), CdXor(x + h, y + h))
  <2> HIDE DEF h, m, low, e, z, F, u, c
  <2>1. F[u(x)][u(y)] = Scaled(n, Sgn(n, x, y), CdXor(x, y))
    <3> DEFINE f == F[u(x)][u(y)]
               s == Sgn(n, x, y)
               d == CdXor(x, y)
    <3>4. s = low(x, y) /\ d = CdXor(x, y)
      BY <1>13
    <3>5. \A k \in 0 .. m - 1 : f[k] = IF k = CdXor(x, y) THEN low(x, y) ELSE 0
      BY <1>11
    <3>6. f \in Vec(n)
      BY <1>10
    <3> HIDE DEF f, s, d
    <3>1. f \in Vec(n) /\ \A k \in 0 .. m - 1 : f[k] = IF k = d THEN s ELSE 0
      BY <3>4, <3>5, <3>6
    <3> HIDE DEF f, s, d
    <3>2. f = Scaled(n, s, d)
      BY <1>14, <3>1
    <3>3. QED
      BY <3>2 DEF f, s, d
  <2>2. F[u(x)][u(y + h)] = Scaled(n, Sgn(n, x, y + h), CdXor(x, y + h))
    <3> DEFINE f == F[u(x)][u(y + h)]
               s == Sgn(n, x, y + h)
               d == CdXor(x, y + h)
    <3>4. s = low(y, x) /\ d = CdXor(x, y) + h
      BY <1>13
    <3>5. \A k \in 0 .. m - 1 : f[k] = IF k = CdXor(x, y) + h THEN low(y, x) ELSE 0
      BY <1>11
    <3>6. f \in Vec(n)
      BY <1>10
    <3> HIDE DEF f, s, d
    <3>1. f \in Vec(n) /\ \A k \in 0 .. m - 1 : f[k] = IF k = d THEN s ELSE 0
      BY <3>4, <3>5, <3>6
    <3> HIDE DEF f, s, d
    <3>2. f = Scaled(n, s, d)
      BY <1>14, <3>1
    <3>3. QED
      BY <3>2 DEF f, s, d
  <2>3. F[u(x + h)][u(y)] = Scaled(n, Sgn(n, x + h, y), CdXor(x + h, y))
    <3> DEFINE f == F[u(x + h)][u(y)]
               s == Sgn(n, x + h, y)
               d == CdXor(x + h, y)
    <3>4. s = (IF y = 0 THEN low(x, 0) ELSE -low(x, y)) /\ d = CdXor(x, y) + h
      BY <1>13
    <3>5. \A k \in 0 .. m - 1 : f[k] = IF k = CdXor(x, y) + h
               THEN (IF y = 0 THEN low(x, 0) ELSE -low(x, y)) ELSE 0
      BY <1>11
    <3>6. f \in Vec(n)
      BY <1>10
    <3> HIDE DEF f, s, d
    <3>1. f \in Vec(n) /\ \A k \in 0 .. m - 1 : f[k] = IF k = d THEN s ELSE 0
      BY <3>4, <3>5, <3>6
    <3> HIDE DEF f, s, d
    <3>2. f = Scaled(n, s, d)
      BY <1>14, <3>1
    <3>3. QED
      BY <3>2 DEF f, s, d
  <2>4. F[u(x + h)][u(y + h)] = Scaled(n, Sgn(n, x + h, y + h), CdXor(x + h, y + h))
    <3> DEFINE f == F[u(x + h)][u(y + h)]
               s == Sgn(n, x + h, y + h)
               d == CdXor(x + h, y + h)
    <3>4. s = (IF y = 0 THEN -low(0, x) ELSE low(y, x)) /\ d = CdXor(x, y)
      BY <1>13
    <3>5. \A k \in 0 .. m - 1 : f[k] = IF k = CdXor(x, y)
               THEN (IF y = 0 THEN -low(0, x) ELSE low(y, x)) ELSE 0
      BY <1>11
    <3>6. f \in Vec(n)
      BY <1>10
    <3> HIDE DEF f, s, d
    <3>1. f \in Vec(n) /\ \A k \in 0 .. m - 1 : f[k] = IF k = d THEN s ELSE 0
      BY <3>4, <3>5, <3>6
    <3> HIDE DEF f, s, d
    <3>2. f = Scaled(n, s, d)
      BY <1>14, <3>1
    <3>3. QED
      BY <3>2 DEF f, s, d
  <2>5. QED
    BY <2>1, <2>2, <2>3, <2>4
<1>16. ASSUME NEW x \in 0 .. h - 1, NEW y \in 0 .. h - 1
       PROVE  /\ {CdXor(x, y), CdXor(x, y + h), CdXor(x + h, y), CdXor(x + h, y + h)}
                    \subseteq 0 .. m - 1
              /\ {Sgn(n, x, y), Sgn(n, x, y + h), Sgn(n, x + h, y), Sgn(n, x + h, y + h)}
                    \subseteq {-1, 1}
  <2> HIDE DEF h, m, low, e, z, F, u, c
  <2>1. 0 \in 0 .. h - 1
    BY <1>1
  <2>2. /\ low(x, y) \in {-1, 1} /\ low(y, x) \in {-1, 1}
        /\ low(x, 0) \in {-1, 1} /\ low(0, x) \in {-1, 1}
    BY <1>4, <2>1
  <2> DEFINE d == CdXor(x, y)
             s1 == low(x, y)
             s2 == low(y, x)
             s3 == IF y = 0 THEN low(x, 0) ELSE -low(x, y)
             s4 == IF y = 0 THEN -low(0, x) ELSE low(y, x)
  <2>3. /\ Sgn(n, x, y) = s1 /\ Sgn(n, x, y + h) = s2
        /\ Sgn(n, x + h, y) = s3 /\ Sgn(n, x + h, y + h) = s4
        /\ CdXor(x, y + h) = d + h /\ CdXor(x + h, y) = d + h /\ CdXor(x + h, y + h) = d
        /\ d \in 0 .. h - 1
    BY <1>13
  <2>4. s1 \in {-1, 1} /\ s2 \in {-1, 1} /\ s3 \in {-1, 1} /\ s4 \in {-1, 1}
    BY <2>2
  <2> HIDE DEF d, s1, s2, s3, s4
  <2>5. d \in 0 .. m - 1 /\ d + h \in 0 .. m - 1
    BY <1>1, <2>3
  <2>6. CdXor(x, y) = d
    BY DEF d
  <2>7. QED
    BY <2>3, <2>4, <2>5, <2>6
<1>17. ASSUME NEW a \in 0 .. m - 1 PROVE \E x \in 0 .. h - 1 : a = x \/ a = x + h
  <2>1. CASE a < h
    BY <1>1, <2>1
  <2>2. CASE ~(a < h)
    <3>1. a - h \in 0 .. h - 1 /\ a = (a - h) + h
      BY <1>1, <2>2
    <3>2. QED
      BY <3>1
  <2>3. QED
    BY <2>1, <2>2
<1>18. ASSUME NEW a \in 0 .. m - 1, NEW b \in 0 .. m - 1
       PROVE  /\ CdXor(a, b) \in 0 .. m - 1 /\ Sgn(n, a, b) \in {-1, 1}
              /\ F[u(a)][u(b)] = Scaled(n, Sgn(n, a, b), CdXor(a, b))
  <2>1. PICK x \in 0 .. h - 1 : a = x \/ a = x + h
    BY <1>17
  <2>2. PICK y \in 0 .. h - 1 : b = y \/ b = y + h
    BY <1>17
  <2> HIDE DEF h, m, low, e, z, F, u, c
  <2>3. CASE a = x /\ b = y
    BY <1>15, <1>16, <2>3
  <2>4. CASE a = x /\ b = y + h
    BY <1>15, <1>16, <2>4
  <2>5. CASE a = x + h /\ b = y
    BY <1>15, <1>16, <2>5
  <2>6. CASE a = x + h /\ b = y + h
    BY <1>15, <1>16, <2>6
  <2>7. QED
    BY <2>1, <2>2, <2>3, <2>4, <2>5, <2>6
<1>19. QED
  BY <1>18 DEF BasisProducts

\* The doubling formula multiplies basis elements as the recursion on indices says.
LEMMA DoublingBasis == \A n \in 0 .. 4 : BasisProducts(n, Oracle!Doubling[n])
<1> DEFINE D == Oracle!Doubling
<1>1. BasisProducts(0, D[0])
  <2>1. Oracle!Index = 0 .. 15 /\ 0 .. 2^0 - 1 = {0}
    BY Powers DEF Oracle!Index, Oracle!MaxBits
  <2>2. CdXor(0, 0) = 0
    <3>1. \A k \in 0 .. 3 : Digit(0, k) = 0
      <4>1. 1 \in 1 .. 4 /\ 0 \in 0 .. 2^(1 - 1) - 1 /\ \A k \in 0 .. 3 : k >= 1 - 1
        BY <2>1, 1 - 1 = 0
      <4>2. QED
        BY <4>1, DigitHalves
    <3>2. CdXor(0, 0) = 2^0 * ((Digit(0, 0) + Digit(0, 0)) % 2)
                      + 2^1 * ((Digit(0, 1) + Digit(0, 1)) % 2)
                      + 2^2 * ((Digit(0, 2) + Digit(0, 2)) % 2)
                      + 2^3 * ((Digit(0, 3) + Digit(0, 3)) % 2)
      BY <2>1 DEF CdXor, Oracle!IndexXor, Oracle!XorTable, Digit
    <3>3. QED
      BY <3>1, <3>2, Powers
  <2>3. Sgn(0, 0, 0) = 1
    <3>1. \A m, T : \A a, b \in Oracle!Index : a = 0 \/ b = 0 => SigmaLevel(m, T)[a][b] = 1
      BY SigmaZero
    <3>2. Oracle!Sigma[0] = SigmaLevel(0, Oracle!Sigma[0 - 1]) /\ 0 \in Oracle!Index
      BY <2>1, SigmaLevels
    <3>3. QED
      BY <3>1, <3>2 DEF Sgn
  <2>4. Unit(0, 0) = [k \in {0} |-> 1] /\ Scaled(0, 1, 0) = [k \in {0} |-> 1]
    BY <2>1 DEF Unit, Oracle!BasisVector, Scaled
  <2>5. D[0][Unit(0, 0)][Unit(0, 0)] = [k \in {0} |-> 1]
    <3>3. Unit(0, 0) \in Vec(0) /\ Unit(0, 0)[0] = 1
      BY <2>1, <2>4 DEF Vec
    <3>4. D[0][Unit(0, 0)][Unit(0, 0)] = [k \in {0} |-> Unit(0, 0)[0] * Unit(0, 0)[0]]
      BY <3>3, DoublingZero
    <3>5. QED
      BY <3>3, <3>4
  <2> HIDE DEF D
  <2>6. QED
    BY <2>1, <2>2, <2>3, <2>4, <2>5 DEF BasisProducts
<1>2. ASSUME NEW n \in 1 .. 4, BasisProducts(n - 1, D[n - 1]) PROVE BasisProducts(n, D[n])
  <2>1. Bilinear(n - 1, D[n - 1])
    <3>1. n - 1 \in 0 .. 4
      OBVIOUS
    <3>2. QED
      BY <3>1, DoublingBilinear
  <2>2. BasisProducts(n, Level(n, D[n - 1]))
    BY <1>2, <2>1, LevelBasis
  <2>3. D[n] = Level(n, D[n - 1])
    BY Levels
  <2>4. QED
    BY <2>2, <2>3
<1> HIDE DEF D
<1>3. BasisProducts(1, D[1])
  BY <1>1, <1>2, 1 - 1 = 0
<1>4. BasisProducts(2, D[2])
  BY <1>3, <1>2, 2 - 1 = 1
<1>5. BasisProducts(3, D[3])
  BY <1>4, <1>2, 3 - 1 = 2
<1>6. BasisProducts(4, D[4])
  BY <1>5, <1>2, 4 - 1 = 3
<1>7. QED
  BY <1>1, <1>3, <1>4, <1>5, <1>6 DEF D

\* The oracle's algebra is one of those the doubling reaches, its vectors hold
\* every operand, and its basis products are those of the ROM.
LEMMA WordsAreCoordinates ==
  /\ Bits \in 0 .. 4 /\ Lane = 0 .. 2^Bits - 1
  /\ \A x \in Operand : x \in Vec(Bits)
  /\ Bilinear(Bits, Oracle!Doubling[Bits])
  /\ BasisProducts(Bits, Oracle!Doubling[Bits])
<1>1. Bits \in 0 .. 4
  BY RomAssumption DEF Oracle!MaxBits
<1>2. Lane = 0 .. 2^Bits - 1
  BY BitsAssumption DEF Lane
<1>3. \A x \in Operand : x \in Vec(Bits)
  <2>1. Word \subseteq Int
    BY WidthAssumption DEF Word
  <2>2. QED
    BY <1>2, <2>1 DEF Operand, Vec
<1>4. QED
  BY <1>1, <1>2, <1>3, DoublingBilinear, DoublingBasis

\* A vector reduced to some of its coordinates.
Part(x, A) == [k \in Lane |-> IF k \in A THEN x[k] ELSE 0]

\* The doubling formula and the ledger agree on the terms of A and B.
Agree(l, r, A, B) ==
  \A k \in Lane :
    Oracle!Doubling[Bits][Part(l, A)][Part(r, B)][k] = Balance(l, r, A \X B, k)

\* What is counted over two disjoint sets of lane pairs adds up.
LEMMA BalanceUnion ==
  ASSUME NEW l, NEW r, Admitted(l, r), NEW S1 \in SUBSET Pairs, NEW S2 \in SUBSET Pairs,
         S1 \cap S2 = {}, NEW k
  PROVE  Balance(l, r, S1 \cup S2, k) = Balance(l, r, S1, k) + Balance(l, r, S2, k)
<1> DEFINE T1(s) == Terms(l, r, S1, k, s)
           T2(s) == Terms(l, r, S2, k, s)
           U(s) == Terms(l, r, S1 \cup S2, k, s)
<1>1. ASSUME NEW s \in {-1, 1}
      PROVE  /\ Cardinality(U(s)) = Cardinality(T1(s)) + Cardinality(T2(s))
             /\ Cardinality(T1(s)) \in Nat /\ Cardinality(T2(s)) \in Nat
  <2>1. IsFiniteSet(T1(s)) /\ IsFiniteSet(T2(s))
    BY BalanceBound
  <2>2. U(s) = T1(s) \cup T2(s) /\ T1(s) \cap T2(s) = {}
    BY DEF Terms
  <2> HIDE DEF T1, T2, U
  <2>3. Cardinality(T1(s)) \in Nat /\ Cardinality(T2(s)) \in Nat
    BY <2>1, FS_CardinalityType
  <2>4. Cardinality(T1(s) \cup T2(s)) =
          Cardinality(T1(s)) + Cardinality(T2(s)) - Cardinality(T1(s) \cap T2(s))
    BY <2>1, FS_Union
  <2>5. Cardinality(T1(s) \cap T2(s)) = 0
    BY <2>2, FS_EmptySet
  <2>6. QED
    BY <2>2, <2>3, <2>4, <2>5
<1>2. /\ Balance(l, r, S1, k) = Cardinality(T1(1)) - Cardinality(T1(-1))
      /\ Balance(l, r, S2, k) = Cardinality(T2(1)) - Cardinality(T2(-1))
      /\ Balance(l, r, S1 \cup S2, k) = Cardinality(U(1)) - Cardinality(U(-1))
  BY DEF Balance
<1> HIDE DEF T1, T2, U
<1>3. QED
  BY <1>1, <1>2

\* Parts are vectors, and parts over disjoint sets add up.
LEMMA PartVec ==
  ASSUME NEW x \in Operand, NEW A
  PROVE  Part(x, A) \in Vec(Bits)
<1>1. x \in Vec(Bits) /\ Lane = 0 .. 2^Bits - 1
  BY WordsAreCoordinates
<1>2. QED
  BY <1>1 DEF Part, Vec

LEMMA PartSum ==
  ASSUME NEW x \in Operand, NEW A, NEW B, A \cap B = {}
  PROVE  Part(x, A \cup B) = Sum(Bits, Part(x, A), Part(x, B))
<1>1. Lane = 0 .. 2^Bits - 1
  BY WordsAreCoordinates
<1>2. \A k \in Lane : x[k] \in Int
  BY WidthAssumption DEF Operand, Word
<1>3. QED
  BY <1>1, <1>2 DEF Part, Sum

\* Agreement carries over to disjoint unions, on either side.
LEMMA AgreeUnion ==
  ASSUME NEW l \in Operand, NEW r \in Operand, Admitted(l, r),
         NEW A1 \in SUBSET Lane, NEW A2 \in SUBSET Lane, A1 \cap A2 = {}, NEW B \in SUBSET Lane
  PROVE  /\ Agree(l, r, A1, B) /\ Agree(l, r, A2, B) => Agree(l, r, A1 \cup A2, B)
         /\ Agree(l, r, B, A1) /\ Agree(l, r, B, A2) => Agree(l, r, B, A1 \cup A2)
<1> DEFINE E == Oracle!Doubling[Bits]
<1>1. \A x, y : \A k \in Lane : Sum(Bits, x, y)[k] = x[k] + y[k]
  BY WordsAreCoordinates DEF Sum
<1>2. /\ A1 \X B \in SUBSET Pairs /\ A2 \X B \in SUBSET Pairs
      /\ B \X A1 \in SUBSET Pairs /\ B \X A2 \in SUBSET Pairs
      /\ (A1 \X B) \cap (A2 \X B) = {} /\ (B \X A1) \cap (B \X A2) = {}
      /\ (A1 \cup A2) \X B = (A1 \X B) \cup (A2 \X B)
      /\ B \X (A1 \cup A2) = (B \X A1) \cup (B \X A2)
  BY DEF Pairs
<1>3. /\ \A k : Balance(l, r, (A1 \cup A2) \X B, k) =
                  Balance(l, r, A1 \X B, k) + Balance(l, r, A2 \X B, k)
      /\ \A k : Balance(l, r, B \X (A1 \cup A2), k) =
                  Balance(l, r, B \X A1, k) + Balance(l, r, B \X A2, k)
  BY <1>2, BalanceUnion
<1>4. /\ E[Part(l, A1 \cup A2)][Part(r, B)] =
           Sum(Bits, E[Part(l, A1)][Part(r, B)], E[Part(l, A2)][Part(r, B)])
      /\ E[Part(l, B)][Part(r, A1 \cup A2)] =
           Sum(Bits, E[Part(l, B)][Part(r, A1)], E[Part(l, B)][Part(r, A2)])
  <2>1. /\ Part(l, A1 \cup A2) = Sum(Bits, Part(l, A1), Part(l, A2))
        /\ Part(r, A1 \cup A2) = Sum(Bits, Part(r, A1), Part(r, A2))
    BY PartSum
  <2>2. \A A : Part(l, A) \in Vec(Bits) /\ Part(r, A) \in Vec(Bits)
    BY PartVec
  <2>3. Bilinear(Bits, E)
    BY WordsAreCoordinates
  <2> HIDE DEF E
  <2>4. QED
    BY <2>1, <2>2, <2>3, SMTT(30) DEF Bilinear
<1> HIDE DEF E
<1>5. /\ \A k \in Lane : E[Part(l, A1 \cup A2)][Part(r, B)][k] =
                           E[Part(l, A1)][Part(r, B)][k] + E[Part(l, A2)][Part(r, B)][k]
      /\ \A k \in Lane : E[Part(l, B)][Part(r, A1 \cup A2)][k] =
                           E[Part(l, B)][Part(r, A1)][k] + E[Part(l, B)][Part(r, A2)][k]
  BY <1>1, <1>4
<1>6. QED
  BY <1>3, <1>5, ZenonT(60) DEF Agree, E

\* A single pair balances to its own basis term.
LEMMA BalanceOne ==
  ASSUME NEW l, NEW r, Admitted(l, r), NEW a \in Lane, NEW b \in Lane, NEW k
  PROVE  Balance(l, r, {<<a, b>>}, k) = 0 + IF Xor(a, b) = k THEN BasisTerm(l[a], r[b], a, b) ELSE 0
<1>1. PICK T \in SUBSET Pairs : T = {}
  OBVIOUS
<1>2. <<a, b>> \notin T /\ T \cup {<<a, b>>} = {<<a, b>>}
  BY <1>1
<1>3. Balance(l, r, T \cup {<<a, b>>}, k) =
        Balance(l, r, T, k) + IF Xor(a, b) = k THEN BasisTerm(l[a], r[b], a, b) ELSE 0
  BY <1>2, BalanceStep
<1>4. Balance(l, r, T, k) = 0
  BY <1>1, BalanceEmpty
<1>5. QED
  BY <1>2, <1>3, <1>4

\* One coefficient of each side: one basis product, scaled.
LEMMA AgreeOne ==
  ASSUME NEW l \in Operand, NEW r \in Operand, Admitted(l, r), NEW a \in Lane, NEW b \in Lane
  PROVE  Agree(l, r, {a}, {b})
<1> DEFINE E == Oracle!Doubling[Bits]
           u == l[a]
           v == r[b]
           g == Sgn(Bits, a, b)
           d == CdXor(a, b)
           P == Part(l, {a})
           Q == Part(r, {b})
           A == Unit(Bits, a)
           B == Unit(Bits, b)
<1>1. u \in {-1, 0, 1} /\ v \in {-1, 0, 1}
  BY AdmittedOperands
<1>2. Lane = 0 .. 2^Bits - 1 /\ Bilinear(Bits, E) /\ BasisProducts(Bits, E)
  BY WordsAreCoordinates
<1>3. /\ g \in {-1, 1} /\ E[A][B] = Scaled(Bits, g, d)
      /\ A \in Vec(Bits) /\ B \in Vec(Bits)
  <2>1. A \in Vec(Bits) /\ B \in Vec(Bits)
    BY DEF Unit, Oracle!BasisVector, Vec
  <2> HIDE DEF E
  <2>2. QED
    BY <1>2, <2>1 DEF BasisProducts
<1>4. /\ P = IF u = 0 THEN Null(Bits) ELSE IF u = 1 THEN A ELSE Opposite(Bits, A)
      /\ Q = IF v = 0 THEN Null(Bits) ELSE IF v = 1 THEN B ELSE Opposite(Bits, B)
  <2>1. P = [k \in Lane |-> IF k = a THEN u ELSE 0] /\ Q = [k \in Lane |-> IF k = b THEN v ELSE 0]
    BY DEF Part
  <2>2. /\ A = [k \in Lane |-> IF k = a THEN 1 ELSE 0] /\ B = [k \in Lane |-> IF k = b THEN 1 ELSE 0]
        /\ Null(Bits) = [k \in Lane |-> 0]
    BY <1>2 DEF Unit, Oracle!BasisVector, Null
  <2> HIDE DEF P, Q, A, B, u, v
  <2>3. /\ Opposite(Bits, A) = [k \in Lane |-> IF k = a THEN -1 ELSE 0]
        /\ Opposite(Bits, B) = [k \in Lane |-> IF k = b THEN -1 ELSE 0]
    <3>1. \A i, j : -(IF i = j THEN 1 ELSE 0) = IF i = j THEN -1 ELSE 0
      OBVIOUS
    <3>2. QED
      BY <1>2, <2>2, <3>1 DEF Opposite
  <2>4. /\ u = 0 => P = Null(Bits)
        /\ v = 0 => Q = Null(Bits)
    BY <2>1, <2>2
  <2>5. /\ u = 1 => P = A
        /\ v = 1 => Q = B
    BY <2>1, <2>2
  <2>6. /\ u = -1 => P = Opposite(Bits, A)
        /\ v = -1 => Q = Opposite(Bits, B)
    BY <2>1, <2>3
  <2>7. QED
    BY <1>1, <2>4, <2>5, <2>6
<1>5. g = (IF Negative(a, b) THEN -1 ELSE 1) /\ d = Xor(a, b)
  BY RomAssumption DEF Sgn, CdXor, OracleSign
<1>6. \A k : Balance(l, r, {<<a, b>>}, k) =
               IF d = k THEN IF Negative(a, b) THEN -(u * v) ELSE u * v ELSE 0
  <2>1. BasisTerm(u, v, a, b) = IF Negative(a, b) THEN -(u * v) ELSE u * v
    BY <1>1, UnitTerm
  <2>2. \A k : Balance(l, r, {<<a, b>>}, k) =
                 0 + IF Xor(a, b) = k THEN BasisTerm(u, v, a, b) ELSE 0
    BY BalanceOne
  <2> HIDE DEF u, v, d
  <2>4. u * v \in {-1, 0, 1}
    <3>1. \A x, y \in {-1, 0, 1} : x * y \in {-1, 0, 1}
      OBVIOUS
    <3>2. QED
      BY <1>1, <3>1
  <2> DEFINE t == IF Negative(a, b) THEN -(u * v) ELSE u * v
  <2>5. t \in {-1, 0, 1} /\ BasisTerm(u, v, a, b) = t
    BY <2>1, <2>4
  <2> HIDE DEF t
  <2>6. \A k : Balance(l, r, {<<a, b>>}, k) = 0 + IF Xor(a, b) = k THEN t ELSE 0
    BY <2>2, <2>5
  <2>7. \A k : Balance(l, r, {<<a, b>>}, k) = IF d = k THEN t ELSE 0
    BY <1>5, <2>5, <2>6
  <2>8. QED
    BY <2>7 DEF t
<1>7. \A k \in Lane : E[P][Q][k] = IF k = d THEN g * u * v ELSE 0
  <2>1. /\ \A k \in Lane : Null(Bits)[k] = 0
        /\ \A s, j : \A k \in Lane : Scaled(Bits, s, j)[k] = IF k = j THEN s ELSE 0
        /\ \A f : \A k \in Lane : Opposite(Bits, f)[k] = -f[k]
    BY <1>2 DEF Null, Scaled, Opposite
  <2>2. \A x \in Vec(Bits) : E[Null(Bits)][x] = Null(Bits) /\ E[x][Null(Bits)] = Null(Bits)
    BY <1>2, NullProduct
  <2>3. \A x, y \in Vec(Bits) : /\ E[Opposite(Bits, x)][y] = Opposite(Bits, E[x][y])
                                /\ E[y][Opposite(Bits, x)] = Opposite(Bits, E[y][x])
                                /\ Opposite(Bits, x) \in Vec(Bits)
    BY <1>2, VecClosed DEF Bilinear
  <2>4. P \in Vec(Bits) /\ Q \in Vec(Bits)
    BY PartVec
  <2> HIDE DEF E, P, Q, A, B, u, v, g, d
  <2>5. SUFFICES ASSUME NEW k \in Lane PROVE E[P][Q][k] = IF k = d THEN g * u * v ELSE 0
    OBVIOUS
  <2>6. E[A][B][k] = IF k = d THEN g ELSE 0
    BY <1>3, <2>1
  <2>7. CASE u = 0
    <3>1. E[P][Q] = Null(Bits)
      BY <1>4, <2>2, <2>4, <2>7
    <3>2. g * u * v = 0
      BY <1>1, <1>3, <2>7
    <3>3. QED
      BY <2>1, <3>1, <3>2
  <2>8. CASE v = 0
    <3>1. E[P][Q] = Null(Bits)
      BY <1>4, <2>2, <2>4, <2>8
    <3>2. g * u * v = 0
      BY <1>1, <1>3, <2>8
    <3>3. QED
      BY <2>1, <3>1, <3>2
  <2>9. CASE u = 1 /\ v = 1
    <3>1. P = A /\ Q = B /\ g * u * v = g
      BY <1>3, <1>4, <2>9
    <3>2. QED
      BY <2>6, <3>1
  <2>10. CASE u = 1 /\ v = -1
    <3>1. P = A /\ Q = Opposite(Bits, B) /\ g * u * v = -g
      BY <1>3, <1>4, <2>10
    <3>2. E[P][Q][k] = -E[A][B][k]
      BY <1>3, <2>1, <2>3, <3>1
    <3>3. QED
      BY <1>3, <2>6, <3>1, <3>2
  <2>11. CASE u = -1 /\ v = 1
    <3>1. P = Opposite(Bits, A) /\ Q = B /\ g * u * v = -g
      BY <1>3, <1>4, <2>11
    <3>2. E[P][Q][k] = -E[A][B][k]
      BY <1>3, <2>1, <2>3, <3>1
    <3>3. QED
      BY <1>3, <2>6, <3>1, <3>2
  <2>12. CASE u = -1 /\ v = -1
    <3>1. P = Opposite(Bits, A) /\ Q = Opposite(Bits, B) /\ g * u * v = g
      BY <1>3, <1>4, <2>12
    <3>2. E[P][Q] = Opposite(Bits, Opposite(Bits, E[A][B]))
      BY <1>3, <2>3, <3>1
    <3>3. E[P][Q][k] = -(-E[A][B][k])
      BY <2>1, <3>2
    <3>4. QED
      BY <1>3, <2>6, <3>1, <3>3
  <2>13. QED
    BY <1>1, <2>7, <2>8, <2>9, <2>10, <2>11, <2>12
<1>8. {a} \X {b} = {<<a, b>>}
  OBVIOUS
<1>9. g * u * v = IF Negative(a, b) THEN -(u * v) ELSE u * v
  <2> HIDE DEF u, v, g
  <2>1. QED
    BY <1>1, <1>5
<1> HIDE DEF u, v, g, d
<1>10. QED
  BY <1>6, <1>7, <1>8, <1>9 DEF Agree

\* An admitted operand has one or two nonzero coefficients.
LEMMA OneOrTwo ==
  ASSUME NEW l, NEW r, Admitted(l, r), NEW x \in {l, r}
  PROVE  \E a, b \in Lane : Support(x) = {a} \cup ({b} \ {a})
<1> DEFINE T == Support(x)
<1>1. T \in SUBSET Lane /\ T # {} /\ ~(Cardinality(T) > 2)
  <2>1. T \in SUBSET Lane
    BY DEF Support
  <2>2. /\ ~(Cardinality(Support(l)) > 2) /\ ~(Cardinality(Support(r)) > 2)
        /\ Support(l) # {} /\ Support(r) # {}
    BY AdmittedOperands
  <2>3. CASE x = l
    BY <2>1, <2>2, <2>3
  <2>4. CASE x = r
    BY <2>1, <2>2, <2>4
  <2>5. QED
    BY <2>3, <2>4
<1> HIDE DEF T
<1>2. IsFiniteSet(T) /\ Cardinality(T) \in 0 .. 2
  <2>1. IsFiniteSet(T)
    BY <1>1, FinitePairs, FS_Subset
  <2>2. Cardinality(T) \in Nat
    BY <2>1, FS_CardinalityType
  <2>3. QED
    BY <1>1, <2>1, <2>2
<1>3. PICK a \in T : TRUE
  BY <1>1
<1> DEFINE R == T \ {a}
<1>4. IsFiniteSet(R) /\ Cardinality(R) = Cardinality(T) - 1
  BY <1>2, FS_RemoveElement
<1> HIDE DEF R
<1>5. Cardinality(R) \in {0, 1}
  BY <1>2, <1>4, FS_CardinalityType
<1>6. CASE Cardinality(R) = 0
  <2>1. R = {}
    BY <1>4, <1>6, FS_EmptySet
  <2>2. T = {a} \cup ({a} \ {a}) /\ a \in Lane
    BY <1>1, <2>1 DEF R
  <2>3. QED
    BY <2>2 DEF T
<1>7. CASE Cardinality(R) = 1
  <2>1. PICK b : R = {b}
    BY <1>4, <1>7, FS_Singleton
  <2>2. T = {a} \cup ({b} \ {a}) /\ a \in Lane /\ b \in Lane
    BY <1>1, <2>1 DEF R
  <2>3. QED
    BY <2>2 DEF T
<1>8. QED
  BY <1>5, <1>6, <1>7

LEMMA AgreeEmpty ==
  ASSUME NEW l \in Operand, NEW r \in Operand, Admitted(l, r), NEW B \in SUBSET Lane
  PROVE  Agree(l, r, B, {})
<1> DEFINE E == Oracle!Doubling[Bits]
<1>1. Lane = 0 .. 2^Bits - 1 /\ Bilinear(Bits, E)
  BY WordsAreCoordinates
<1>2. Part(r, {}) = Null(Bits) /\ Part(l, B) \in Vec(Bits)
  BY <1>1, PartVec DEF Part, Null
<1>3. E[Part(l, B)][Null(Bits)] = Null(Bits)
  BY <1>1, <1>2, NullProduct
<1>4. \A k \in Lane : Null(Bits)[k] = 0
  BY <1>1 DEF Null
<1>5. B \X {} = {}
  OBVIOUS
<1> HIDE DEF E
<1>6. QED
  BY <1>2, <1>3, <1>4, <1>5, BalanceEmpty DEF Agree, E

\* The product of an admitted pair by the doubling formula is the exact product.
LEMMA DoublingIsExact ==
  ASSUME NEW l \in Operand, NEW r \in Operand, Admitted(l, r)
  PROVE  Oracle!Doubling[Bits][l][r] = ExactProduct(l, r)
<1> DEFINE A == Support(l)
           B == Support(r)
           E == Oracle!Doubling[Bits]
<1>1. PICK a1, a2 \in Lane : A = {a1} \cup ({a2} \ {a1})
  BY OneOrTwo
<1>2. PICK b1, b2 \in Lane : B = {b1} \cup ({b2} \ {b1})
  BY OneOrTwo
<1>3. ASSUME NEW a \in Lane PROVE Agree(l, r, {a}, B)
  <2>1. Agree(l, r, {a}, {b1})
    BY AgreeOne
  <2>2. Agree(l, r, {a}, {b2} \ {b1})
    <3>1. CASE b1 = b2
      <4>1. {b2} \ {b1} = {}
        BY <3>1
      <4>2. QED
        BY <4>1, AgreeEmpty
    <3>2. CASE b1 # b2
      <4>1. {b2} \ {b1} = {b2}
        BY <3>2
      <4>2. QED
        BY <4>1, AgreeOne
    <3>3. QED
      BY <3>1, <3>2
  <2>3. {b1} \cap ({b2} \ {b1}) = {} /\ {b2} \ {b1} \in SUBSET Lane
    OBVIOUS
  <2>4. Agree(l, r, {a}, {b1} \cup ({b2} \ {b1}))
    BY <2>1, <2>2, <2>3, AgreeUnion
  <2>5. QED
    BY <1>2, <2>4
<1>4. Agree(l, r, A, B)
  <2>1. CASE a1 = a2
    <3>1. A = {a1}
      BY <1>1, <2>1
    <3>2. QED
      BY <1>3, <3>1
  <2>2. CASE a1 # a2
    <3>1. A = {a1} \cup {a2} /\ {a1} \cap {a2} = {} /\ B \in SUBSET Lane
      BY <1>1, <2>2 DEF Support
    <3> HIDE DEF A, B
    <3>2. Agree(l, r, {a1} \cup {a2}, B)
      BY <1>3, <3>1, AgreeUnion
    <3>3. QED
      BY <3>1, <3>2
  <2>3. QED
    BY <2>1, <2>2
<1>5. Part(l, A) = l /\ Part(r, B) = r
  BY DEF Part, Support, Operand
<1>6. ASSUME NEW k \in Lane PROVE Balance(l, r, A \X B, k) = Balance(l, r, Lane \X Lane, k)
  <2>1. ASSUME NEW s \in {-1, 1}
        PROVE  Terms(l, r, A \X B, k, s) = Terms(l, r, Lane \X Lane, k, s)
    <3>1. ASSUME NEW p \in Lane \X Lane,
                 l[p[1]] * r[p[2]] = IF Negative(p[1], p[2]) THEN -s ELSE s
          PROVE  p \in A \X B
      <4>1. p[1] \in Lane /\ p[2] \in Lane /\ p = <<p[1], p[2]>>
        OBVIOUS
      <4>2. l[p[1]] \in {-1, 0, 1} /\ r[p[2]] \in {-1, 0, 1}
        BY <4>1, AdmittedOperands
      <4>3. \A u, v \in {-1, 0, 1} : u = 0 \/ v = 0 => u * v = 0
        OBVIOUS
      <4>4. (IF Negative(p[1], p[2]) THEN -s ELSE s) # 0
        OBVIOUS
      <4>5. l[p[1]] # 0 /\ r[p[2]] # 0
        BY <3>1, <4>2, <4>3, <4>4
      <4>6. QED
        BY <4>1, <4>5 DEF Support
    <3>2. A \X B \subseteq Lane \X Lane
      BY DEF Support
    <3> HIDE DEF A, B
    <3>3. QED
      BY <3>1, <3>2 DEF Terms
  <2>2. QED
    BY <2>1 DEF Balance
<1>7. \A k \in Lane : E[l][r][k] = Balance(l, r, Lane \X Lane, k)
  BY <1>4, <1>5, <1>6 DEF Agree
<1>8. E[l][r] \in [Lane -> Int]
  BY WordsAreCoordinates DEF Bilinear, Vec
<1> HIDE DEF E
<1>9. QED
  BY <1>7, <1>8 DEF ExactProduct, E

\* A result with work behind it is a verdict about the product.
WorkInv == ready /\ mac_cycles > 0 => classification \in {"EXACT_ZD_PAIR", "NONZERO_PRODUCT"}

LEMMA StepWorkInv == IInv /\ WorkInv /\ [Next]_vars => WorkInv'
<1> SUFFICES ASSUME IInv, WorkInv, [Next]_vars PROVE WorkInv'
  OBVIOUS
<1> USE DEF WorkInv, ready
<1>1. ~(0 > 0)
  OBVIOUS
<1>2. ASSUME NEW q \in Requests, Refuse(q[1], q[2]) \/ Admit(q[1], q[2]) PROVE WorkInv'
  BY <1>1, <1>2 DEF Refuse, Admit, Latch
<1>3. CASE Mac
  BY <1>3 DEF Mac
<1>4. CASE Finalize
  BY <1>4 DEF Finalize
<1>5. CASE Idle
  BY <1>5 DEF Idle, verdict, cursor
<1>6. CASE AssertReset
  BY <1>1, <1>6 DEF AssertReset
<1>7. CASE ReleaseReset
  BY <1>7 DEF ReleaseReset, phase, verdict, cursor
<1>8. CASE UNCHANGED vars
  BY <1>8 DEF vars, phase, verdict, cursor
<1>9. QED
  BY <1>2, <1>3, <1>4, <1>5, <1>6, <1>7, <1>8 DEF Next, ClockEdge

(***************************************************************************)
(* The announced product is the product of the two operands by the         *)
(* doubling formula, the textbook definition of the algebra, in every      *)
(* reachable state and for every operand pair: sign ROM, exclusive-or lane *)
(* selection and accumulation (lines 48-69 and 143-165) leave nothing out. *)
(***************************************************************************)
THEOREM ProductIsDoubling == Spec => []ProductIsCayleyDickson
<1>1. Init => IInv /\ WorkInv
  BY InitIInv DEF Init, WorkInv
<1>2. Spec => [](IInv /\ WorkInv)
  BY <1>1, StepIInv, StepWorkInv, PTL DEF Spec
<1>3. IInv /\ WorkInv => ProductIsCayleyDickson
  <2>1. SUFFICES ASSUME IInv, WorkInv, done, mac_cycles > 0
                 PROVE  product = Oracle!Doubling[Bits][lhs_latched][rhs_latched]
    BY DEF ProductIsCayleyDickson
  <2>2. ready /\ classification \in {"EXACT_ZD_PAIR", "NONZERO_PRODUCT"}
    BY <2>1 DEF IInv, PhaseInv, WorkInv
  <2>3. /\ Admitted(lhs_latched, rhs_latched)
        /\ product = ExactProduct(lhs_latched, rhs_latched)
        /\ lhs_latched \in Operand /\ rhs_latched \in Operand
    BY <2>1, <2>2 DEF IInv, VerdictExact, TypeOK
  <2>4. QED
    BY <2>3, DoublingIsExact
<1>4. QED
  BY <1>2, <1>3, PTL
=============================================================================
