-------------------------- MODULE SelfParityOracle --------------------------
(***************************************************************************)
(* A probe (src/eisa_h/pireus_operator_self_parity.cpp) computes one       *)
(* operator by two derivations and prints a receipt; the oracle            *)
(* (tools/eisa_h/pireus_operator_self_parity_oracle.py) judges it.         *)
(*                                                                         *)
(* The probe's operands are generic: two sums of products are bit-equal    *)
(* iff they add the same signed products in the same order, so a lane is   *)
(* the sequence of its terms.                                              *)
(***************************************************************************)
EXTENDS PhaseAlgebra, Sequences

Negative(code) == [a \in Lane |-> [b \in Lane |-> Tau[a][b] # Bilinear(code, a, b)]]

\* A term: its sign, and the lanes its two factors come from.
Reference(code) ==
  LET sign == Negative(code)
  IN  [k \in Lane |-> [b \in Lane |-> <<sign[IndexXor(k, b)][b], IndexXor(k, b), b>>]]

\* The cell of the table that the sign mutation flips.
Flipped == <<3, 5>>
Mutation(flip, shift, drop) == [flip |-> flip, shift |-> shift, drop |-> drop]
NoMutation == Mutation(FALSE, FALSE, FALSE)

\* Where lane is loaded from, and which lane a store comes from.
LoadPerm(stride, offset) == [lane \in Lane |-> (lane * stride + offset) % 2^Bits]
\* Mutant: a store goes where a load comes from.
PermItself(perm) == perm
InverseOf(perm) == [k \in Lane |-> CHOOSE lane \in Lane : perm[lane] = k]

Lowered(code, stride, offset, mutation) ==
  LET sign  == Negative(IF mutation.drop THEN {} ELSE code)
      table == [c \in Lane \X Lane |-> sign[c[1]][c[2]] # (mutation.flip /\ c = Flipped)]
      load  == LoadPerm(stride, offset)
      store == InverseOf(LoadPerm(stride, IF mutation.shift THEN (offset + 1) % 2^Bits ELSE offset))
  IN  [k \in Lane |-> [b \in Lane |->
        LET a == IndexXor(k, b) IN <<table[<<a, b>>], load[store[a]], load[store[b]]>>]]

(***************************************************************************)
(* Ways for a probe to be wrong, each of which the controls should expose. *)
(***************************************************************************)
Defects ==
  {"none", "same path twice", "base in both paths", "base in the lowering",
   "sign poisoned", "writes reordered"}

\* What the two paths of a probe with a defect compute under a mutation.
Paths(defect, code, stride, offset, mutation) ==
  LET reference == Reference(IF defect = "base in both paths" THEN {} ELSE code)
      lowered(c, m) == Lowered(c, stride, offset, m)
  IN <<reference,
       CASE defect = "same path twice"      -> reference
         [] defect \in {"base in both paths", "base in the lowering"} -> lowered({}, mutation)
         [] defect = "sign poisoned"        -> lowered(code, Mutation(TRUE, mutation.shift, mutation.drop))
         [] defect = "writes reordered"     -> lowered(code, Mutation(mutation.flip, FALSE, mutation.drop))
         [] defect = "none"                 -> lowered(code, mutation)>>

Disagree(paths) == {k \in Lane : paths[1][k] # paths[2][k]}
FirstOf(lanes) == IF lanes = {} THEN -1 ELSE CHOOSE k \in lanes : \A l \in lanes : k <= l

-----------------------------------------------------------------------------
(***************************************************************************)
(* main of the probe: one measurement, three controls, one receipt.  The   *)
(* four sets are the lanes found to disagree in each of them.              *)
(***************************************************************************)
Num(n) == <<"int", n>>
Bool(b) == <<"bool", b>>
Str(s) == <<"str", s>>

Receipt(config, plain, flipped, shifted, dropped) ==
  LET code  == config.code
      sign  == Cardinality(flipped)
      lane  == Cardinality(shifted)
      twist == Cardinality(dropped)
      pass  == plain = {} /\ sign > 0 /\ lane > 0 /\ (code = {}) = (twist = 0)
  IN [schema |-> Num(1), producer_role |-> Str("OPERATOR_SELF_PARITY"),
      semantic_authority_language |-> Str("Sounio"), kind |-> Num(2),
      phase_code |-> Num(CodeNumber(code)), lane_stride |-> Num(config.stride),
      lane_offset |-> Num(config.offset), dimension |-> Num(2^Bits), precision |-> Num(64),
      trials |-> Num(64), reference_derivation |-> Str("recomputed_per_term"),
      lowered_derivation |-> Str("packed_sign_table_via_lane_map"),
      shared_accumulation_order |-> Str("ascending_right_operand"),
      reassociated |-> Bool(FALSE), fma_contracted |-> Bool(FALSE),
      rounding_mode |-> Str("FE_TONEAREST"), flush_to_zero |-> Bool(FALSE),
      denormals_are_zero |-> Bool(FALSE), mismatching_lanes |-> Num(Cardinality(plain)),
      first_mismatch |-> Num(FirstOf(plain)), sign_mutation_mismatching_lanes |-> Num(sign),
      lane_mutation_mismatching_lanes |-> Num(lane),
      twist_drop_mutation_mismatching_lanes |-> Num(twist),
      twist_is_trivial |-> Bool(code = {}), establishes |-> Str("two_materialisations_agree"),
      claim_ready |-> Bool(FALSE), fp_utility |-> Str("NOT_ESTABLISHED"),
      result |-> Str(IF pass THEN "PASS" ELSE "FAIL")]

Measure(defect, config) ==
  LET lanes(mutation) == Disagree(Paths(defect, config.code, config.stride, config.offset, mutation))
  IN  Receipt(config, lanes(NoMutation), lanes(Mutation(TRUE, FALSE, FALSE)),
              lanes(Mutation(FALSE, TRUE, FALSE)), lanes(Mutation(FALSE, FALSE, TRUE)))

-----------------------------------------------------------------------------
(***************************************************************************)
(* evaluate: two layers that stop it, the types, then everything else at   *)
(* once.  Each operator is the set of reasons it appends.                  *)
(***************************************************************************)
IntFields ==
  {"schema", "kind", "phase_code", "lane_stride", "lane_offset", "dimension", "precision",
   "trials", "mismatching_lanes", "first_mismatch", "sign_mutation_mismatching_lanes",
   "lane_mutation_mismatching_lanes", "twist_drop_mutation_mismatching_lanes"}
BoolFields ==
  {"reassociated", "fma_contracted", "flush_to_zero", "denormals_are_zero",
   "twist_is_trivial", "claim_ready"}
RequiredFields ==
  IntFields \cup BoolFields \cup
  {"producer_role", "semantic_authority_language", "reference_derivation",
   "lowered_derivation", "shared_accumulation_order", "rounding_mode", "establishes",
   "fp_utility", "result"}

\* Keys nobody asked for; one of them lies in a nested object.
Extras == {"comment", "host.elapsed"}
Forbidden == {"host.elapsed"}

ForbiddenFields(r) == DOMAIN r \cap Forbidden
MissingFields(r) == RequiredFields \ DOMAIN r
WrongTypes(r) ==
  {f \in IntFields : r[f][1] # "int"} \cup {f \in BoolFields : r[f][1] # "bool"}

If(broken, reason) == {x \in {reason} : broken}

Provenance(r) ==
  If(r["schema"] # Num(1), "SCHEMA")
  \cup If(r["producer_role"] # Str("OPERATOR_SELF_PARITY"), "PRODUCER_ROLE")
  \cup If(r["semantic_authority_language"] # Str("Sounio"), "AUTHORITY_NOT_SOUNIO")
  \cup If(r["kind"] # Num(2), "KIND_NOT_OPERATOR_GENESIS")
  \cup If(r["dimension"] # Num(2^Bits) \/ r["precision"] # Num(64), "SHAPE")
  \cup If(r["phase_code"][2] \notin 0 .. 2^(Bits * Bits) - 1, "PHASE_CODE_RANGE")
  \cup If(r["lane_stride"][2] \notin 1 .. 2^Bits - 1 \/ r["lane_stride"][2] % 2 = 0, "LANE_STRIDE")
  \cup If(r["lane_offset"][2] \notin Lane, "LANE_OFFSET")

Derivations(r) ==
  If(r["reference_derivation"] = r["lowered_derivation"], "DERIVATIONS_NOT_INDEPENDENT")
  \cup If(r["reference_derivation"] # Str("recomputed_per_term"), "REFERENCE_DERIVATION")
  \cup If(r["lowered_derivation"] # Str("packed_sign_table_via_lane_map"), "LOWERED_DERIVATION")
  \cup If(r["shared_accumulation_order"] # Str("ascending_right_operand"), "ACCUMULATION_ORDER")

Environment(r) ==
  If(r["rounding_mode"] # Str("FE_TONEAREST"), "ROUNDING_MODE")
  \cup If(\E f \in {"reassociated", "fma_contracted", "flush_to_zero", "denormals_are_zero"} :
            r[f] # Bool(FALSE), "NUMERIC_ENVIRONMENT")
  \cup If(r["trials"][2] < 1, "NO_TRIALS")

\* Mutant: nobody asks whether the lane control fired.
ControlsWithoutLane(r) ==
  LET trivial == r["phase_code"] = Num(0)
      twist   == r["twist_drop_mutation_mismatching_lanes"][2]
  IN If(r["sign_mutation_mismatching_lanes"][2] <= 0, "SIGN_CONTROL_INERT")
     \cup If(r["twist_is_trivial"] # Bool(trivial), "TWIST_TRIVIALITY_MISDECLARED")
     \cup If(trivial # (twist = 0), "TWIST_CONTROL")

Controls(r) ==
  LET trivial == r["phase_code"] = Num(0)
      twist   == r["twist_drop_mutation_mismatching_lanes"][2]
  IN If(r["sign_mutation_mismatching_lanes"][2] <= 0, "SIGN_CONTROL_INERT")
     \cup If(r["lane_mutation_mismatching_lanes"][2] <= 0, "LANE_CONTROL_INERT")
     \cup If(r["twist_is_trivial"] # Bool(trivial), "TWIST_TRIVIALITY_MISDECLARED")
     \cup If(trivial /\ twist # 0, "TWIST_CONTROL_FIRED_ON_THE_BASE")
     \cup If(~trivial /\ twist <= 0, "TWIST_CONTROL_INERT_ON_A_TWISTED_OPERATOR")

Parity(r) ==
  LET mismatching == r["mismatching_lanes"][2]
      first       == r["first_mismatch"][2]
  IN If(mismatching \notin 0 .. 2^Bits, "MISMATCH_COUNT_RANGE")
     \cup If(mismatching = 0 /\ first # -1, "FIRST_MISMATCH_WITHOUT_MISMATCH")
     \cup If(mismatching > 0 /\ first \notin Lane, "MISMATCH_WITHOUT_FIRST_MISMATCH")
     \cup If(r["result"] \notin {Str("PASS"), Str("FAIL")}, "RESULT")
     \cup If(r["result"] = Str("PASS") /\ mismatching # 0, "PASS_WITH_MISMATCHING_LANES")

Claim(r) ==
  If(r["establishes"] # Str("two_materialisations_agree"), "OVERSTATED_ESTABLISHES")
  \cup If(r["claim_ready"] # Bool(FALSE), "CLAIM_READY_MUST_BE_FALSE")
  \cup If(r["fp_utility"] # Str("NOT_ESTABLISHED"), "UTILITY_NOT_DISCLAIMED")

Reasons(r) ==
  IF ForbiddenFields(r) # {} THEN ForbiddenFields(r)
  ELSE IF MissingFields(r) # {} THEN MissingFields(r)
  ELSE IF WrongTypes(r) # {} THEN WrongTypes(r)
  ELSE UNION {Provenance(r), Derivations(r), Environment(r), Controls(r), Parity(r), Claim(r)}
=============================================================================
