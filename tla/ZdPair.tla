------------------------------- MODULE ZdPair -------------------------------
(***************************************************************************)
(* rtl/eisa_h_sed16_zd_pair_v1.sv: an iterative multiplier that decides    *)
(* whether two sedenions form an exact zero-divisor pair.  One step is one *)
(* rising clock edge, or an edge of the asynchronous reset.  start and the *)
(* operands are inputs, free to change at every clock edge.                *)
(***************************************************************************)
EXTENDS Integers, FiniteSets

CONSTANTS N,               \* lanes to an operand (16)
          Half,            \* lanes are words in -Half .. Half-1 (2^63)
          Limit,           \* largest magnitude that is not an overflow risk
          Xor(_, _),       \* a ^ b on lane indices
          Negative(_, _),  \* V1_BASIS_NEGATIVE[{a, b}]
          Requests         \* the operand pairs the environment may present

Lane    == 0 .. N - 1
Word    == -Half .. Half - 1
Operand == [Lane -> Word]

ASSUME DimensionAssumption == N \in Nat \ {0}
ASSUME WidthAssumption     == Half \in Nat /\ Half > 4
ASSUME LimitAssumption     == Limit \in Nat /\ 1 <= Limit
ASSUME BasisAssumption     == \A a, b \in Lane : Xor(a, b) \in Lane /\ Negative(a, b) \in BOOLEAN
ASSUME RequestsAssumption  == Requests \subseteq Operand \X Operand

Classifications == {"EXACT_ZD_PAIR", "NONZERO_PRODUCT", "INVALID_ZERO_OPERAND", "ARITHMETIC_ERROR"}
ErrorCodes == {"NONE", "UNSUPPORTED_COEFFICIENT_DOMAIN", "TOO_MANY_NONZERO_COEFFICIENTS",
               "OVERFLOW_RISK"}
MacModulus == 2 * N * N      \* mac_cycles has one bit more than N*N needs (9 bits)

VARIABLES
  rst_n,                            \* the reset input, active low
  busy, done, finalize,             \* handshake and phase
  classification, error_code,       \* the verdict
  product_is_zero, product,         \* the result
  mac_cycles, i_index, j_index,     \* progress
  lhs_latched, rhs_latched, accumulator

phase   == <<busy, done, finalize>>
verdict == <<classification, error_code>>
result  == <<product_is_zero, product>>
cursor  == <<mac_cycles, i_index, j_index>>
latches == <<lhs_latched, rhs_latched>>
vars    == <<rst_n, phase, verdict, result, cursor, latches, accumulator>>

Zeros == [k \in Lane |-> 0]

TypeOK ==
  /\ {rst_n, busy, done, finalize, product_is_zero} \subseteq BOOLEAN
  /\ classification \in Classifications
  /\ error_code \in ErrorCodes
  /\ mac_cycles \in 0 .. MacModulus - 1
  /\ i_index \in Lane /\ j_index \in Lane
  /\ lhs_latched \in Operand /\ rhs_latched \in Operand
  /\ accumulator \in Operand /\ product \in Operand

-----------------------------------------------------------------------------
(* The combinational part.                                                 *)

\* Two's complement: what a register of the lane width keeps of x.
Wrap(x) == ((x + Half) % (2 * Half)) - Half

\* Mutant: the ROM read with its two index halves exchanged.
BasisTermSwapped(left, right, a, b) ==
  LET raw == Wrap(left * right)
  IN  IF Negative(b, a) THEN Wrap(-raw) ELSE raw

BasisTerm(left, right, a, b) ==
  LET raw == Wrap(left * right)
  IN  IF Negative(a, b) THEN Wrap(-raw) ELSE raw

Support(x) == {k \in Lane : x[k] # 0}

ValidationOverflow(lhs, rhs) ==
  \E k \in Lane : \E x \in {lhs[k], rhs[k]} : x > Limit \/ x < -Limit

ValidationTooMany(lhs, rhs) == Cardinality(Support(lhs)) > 2 \/ Cardinality(Support(rhs)) > 2

ValidationUnsupported(lhs, rhs) == \E k \in Lane : ~({lhs[k], rhs[k]} \subseteq {-1, 0, 1})

ValidationZero(lhs, rhs) == Support(lhs) = {} \/ Support(rhs) = {}

\* The priority of the validation flags: the verdict a refused pair gets.
Screen(lhs, rhs) ==
  IF ValidationOverflow(lhs, rhs) THEN <<"ARITHMETIC_ERROR", "OVERFLOW_RISK">>
  ELSE IF ValidationTooMany(lhs, rhs)
       THEN <<"ARITHMETIC_ERROR", "TOO_MANY_NONZERO_COEFFICIENTS">>
  ELSE IF ValidationUnsupported(lhs, rhs)
       THEN <<"ARITHMETIC_ERROR", "UNSUPPORTED_COEFFICIENT_DOMAIN">>
  ELSE IF ValidationZero(lhs, rhs) THEN <<"INVALID_ZERO_OPERAND", "NONE">>
  ELSE <<"ADMITTED", "NONE">>

Admitted(lhs, rhs) == Screen(lhs, rhs) = <<"ADMITTED", "NONE">>

\* Mutant: ready without the finalize cycle.
ReadyDuringFinalize == ~busy

ready == ~busy /\ ~finalize

-----------------------------------------------------------------------------
(* Power-up holds the reset, as the testbench does before its first case.  *)

Init ==
  /\ rst_n = FALSE
  /\ busy = FALSE /\ done = FALSE /\ finalize = FALSE
  /\ classification = "ARITHMETIC_ERROR" /\ error_code = "NONE"
  /\ product_is_zero = FALSE /\ product = Zeros
  /\ mac_cycles = 0 /\ i_index = 0 /\ j_index = 0
  /\ lhs_latched = Zeros /\ rhs_latched = Zeros /\ accumulator = Zeros

\* Mutant: a reset that forgets the finalize flag.
AssertResetKeepsFinalize ==
  /\ rst_n
  /\ rst_n' = FALSE
  /\ busy' = FALSE /\ done' = FALSE /\ UNCHANGED finalize
  /\ classification' = "ARITHMETIC_ERROR" /\ error_code' = "NONE"
  /\ product_is_zero' = FALSE /\ product' = Zeros
  /\ mac_cycles' = 0 /\ i_index' = 0 /\ j_index' = 0
  /\ lhs_latched' = Zeros /\ rhs_latched' = Zeros /\ accumulator' = Zeros

\* The reset needs no clock.  Clock edges under reset change nothing more.
AssertReset ==
  /\ rst_n
  /\ rst_n' = FALSE
  /\ busy' = FALSE /\ done' = FALSE /\ finalize' = FALSE
  /\ classification' = "ARITHMETIC_ERROR" /\ error_code' = "NONE"
  /\ product_is_zero' = FALSE /\ product' = Zeros
  /\ mac_cycles' = 0 /\ i_index' = 0 /\ j_index' = 0
  /\ lhs_latched' = Zeros /\ rhs_latched' = Zeros /\ accumulator' = Zeros

ReleaseReset ==
  /\ ~rst_n
  /\ rst_n' = TRUE
  /\ UNCHANGED <<phase, verdict, result, cursor, latches, accumulator>>

\* Mutant: a request that leaves the last result's zero flag up.
LatchKeepsZeroFlag(lhs, rhs) ==
  /\ rst_n /\ ready
  /\ product' = Zeros
  /\ mac_cycles' = 0 /\ i_index' = 0 /\ j_index' = 0
  /\ lhs_latched' = lhs /\ rhs_latched' = rhs /\ accumulator' = Zeros
  /\ UNCHANGED <<rst_n, finalize, product_is_zero>>

\* start && ready: every request clears the last result and latches its
\* operands, refused ones too.
Latch(lhs, rhs) ==
  /\ rst_n /\ ready
  /\ product_is_zero' = FALSE /\ product' = Zeros
  /\ mac_cycles' = 0 /\ i_index' = 0 /\ j_index' = 0
  /\ lhs_latched' = lhs /\ rhs_latched' = rhs /\ accumulator' = Zeros
  /\ UNCHANGED <<rst_n, finalize>>

\* A refusal is answered at the edge that latches it.
Refuse(lhs, rhs) ==
  /\ Latch(lhs, rhs)
  /\ ~Admitted(lhs, rhs)
  /\ classification' = Screen(lhs, rhs)[1] /\ error_code' = Screen(lhs, rhs)[2]
  /\ done' = TRUE
  /\ UNCHANGED busy

\* An admitted pair leaves the previous classification standing.
Admit(lhs, rhs) ==
  /\ Latch(lhs, rhs)
  /\ Admitted(lhs, rhs)
  /\ busy' = TRUE /\ done' = FALSE
  /\ error_code' = "NONE"
  /\ UNCHANGED classification

\* Mutant: the last pair recognised one row too late.
LastPairLate == i_index = N /\ j_index = N - 1

LastPair == i_index = N - 1 /\ j_index = N - 1

\* One basis product per edge, j fastest.  start is ignored: ready is low.
Mac ==
  /\ rst_n /\ busy
  /\ done' = FALSE
  /\ accumulator' =
       [accumulator EXCEPT ![Xor(i_index, j_index)] =
          Wrap(@ + BasisTerm(lhs_latched[i_index], rhs_latched[j_index], i_index, j_index))]
  /\ mac_cycles' = (mac_cycles + 1) % MacModulus
  /\ j_index' = IF j_index = N - 1 THEN 0 ELSE j_index + 1
  /\ i_index' = IF j_index = N - 1 /\ ~LastPair THEN i_index + 1 ELSE i_index
  /\ busy' = ~LastPair
  /\ finalize' = IF LastPair THEN TRUE ELSE finalize
  /\ UNCHANGED <<rst_n, verdict, result, latches>>

\* Mutant: the finalize flag is not taken back.
FinalizeStays ==
  /\ rst_n /\ ~busy /\ finalize
  /\ product' = accumulator
  /\ product_is_zero' = (accumulator = Zeros)
  /\ classification' = IF accumulator = Zeros THEN "EXACT_ZD_PAIR" ELSE "NONZERO_PRODUCT"
  /\ error_code' = "NONE"
  /\ done' = TRUE
  /\ UNCHANGED <<rst_n, busy, finalize, cursor, latches, accumulator>>

Finalize ==
  /\ rst_n /\ ~busy /\ finalize
  /\ product' = accumulator
  /\ product_is_zero' = (accumulator = Zeros)
  /\ classification' = IF accumulator = Zeros THEN "EXACT_ZD_PAIR" ELSE "NONZERO_PRODUCT"
  /\ error_code' = "NONE"
  /\ finalize' = FALSE
  /\ done' = TRUE
  /\ UNCHANGED <<rst_n, busy, cursor, latches, accumulator>>

\* No start and nothing under way: only the done pulse ends.
Idle ==
  /\ rst_n /\ ready
  /\ done' = FALSE
  /\ UNCHANGED <<rst_n, busy, finalize, verdict, result, cursor, latches, accumulator>>

ClockEdge ==
  \/ \E q \in Requests : Refuse(q[1], q[2]) \/ Admit(q[1], q[2])
  \/ Mac
  \/ Finalize
  \/ Idle

Next == ClockEdge \/ AssertReset \/ ReleaseReset

(***************************************************************************)
(* The clock is free-running, so an edge that has something to do comes.   *)
(* Nothing is assumed of start or of the reset: edges at which the unit is *)
(* ready and no pulse is up may all pass without a request.                *)
(***************************************************************************)
Fairness == WF_vars((done \/ ~ready) /\ ClockEdge)

Spec == Init /\ [][Next]_vars /\ Fairness
-----------------------------------------------------------------------------
(* Properties.                                                             *)

\* The lane pairs whose basis product is already in the accumulator.
Retired ==
  IF finalize THEN Lane \X Lane
  ELSE {p \in Lane \X Lane : p[1] < i_index \/ (p[1] = i_index /\ p[2] < j_index)}

\* The pairs among S whose basis product is s in lane k, by the contract's
\* rule e_a e_b = sign(a,b) e_(a xor b) and with no regard to word width.
Terms(lhs, rhs, S, k, s) ==
  {p \in S : /\ Xor(p[1], p[2]) = k
             /\ lhs[p[1]] * rhs[p[2]] = IF Negative(p[1], p[2]) THEN -s ELSE s}

\* Lane k of the product over the pairs of S: terms +1 against terms -1.
Balance(lhs, rhs, S, k) ==
  Cardinality(Terms(lhs, rhs, S, k, 1)) - Cardinality(Terms(lhs, rhs, S, k, -1))

ExactProduct(lhs, rhs) == [k \in Lane |-> Balance(lhs, rhs, Lane \X Lane, k)]

InFlight == busy \/ finalize

(***************************************************************************)
(* While a request is being worked on, the accumulator is exactly the sum  *)
(* of the basis products retired so far, no lane has wrapped, and          *)
(* mac_cycles counts those products (the iterative MAC, lines 143-157).    *)
(***************************************************************************)
Ledger ==
  InFlight =>
    /\ \A k \in Lane : accumulator[k] = Balance(lhs_latched, rhs_latched, Retired, k)
    /\ mac_cycles = IF finalize THEN N * N ELSE i_index * N + j_index

(***************************************************************************)
(* Once the unit is ready again, a verdict about the product is a verdict  *)
(* about the exact product of the operands last accepted: EXACT_ZD_PAIR    *)
(* if and only if positive and negative terms cancel in every lane         *)
(* (lines 158-165), whatever requests, resets and refusals came before.    *)
(***************************************************************************)
VerdictExact ==
  (ready /\ classification \in {"EXACT_ZD_PAIR", "NONZERO_PRODUCT"}) =>
    /\ Admitted(lhs_latched, rhs_latched)
    /\ product = ExactProduct(lhs_latched, rhs_latched)
    /\ product_is_zero <=> (classification = "EXACT_ZD_PAIR")
    /\ product_is_zero <=> (product = Zeros)
    /\ mac_cycles = N * N

(***************************************************************************)
(* product_is_zero may be trusted at any time, done or not: it is never up *)
(* beside another verdict, a nonzero product or an unfinished computation. *)
(* classification may not: it is stale from an admission to the next done  *)
(* (lines 113-142 do not clear it).                                        *)
(***************************************************************************)
ZeroFlagSound ==
  product_is_zero =>
    /\ ready /\ rst_n
    /\ classification = "EXACT_ZD_PAIR" /\ error_code = "NONE"
    /\ product = Zeros
    /\ Support(lhs_latched) # {} /\ Support(rhs_latched) # {}

Refusal == \E q \in Requests : Refuse(q[1], q[2])

(***************************************************************************)
(* done is a pulse: unless refusals follow each other at every edge for    *)
(* ever, each holding it up for its own answer, it always falls again      *)
(* (line 112, the default of every clock edge).                            *)
(***************************************************************************)
DoneFalls == <>[][~Refusal]_vars => []<>~done
=============================================================================
