-------------------------- MODULE OperatorAdmission --------------------------
(***************************************************************************)
(* tools/eisa_h/pireus_operator_admission_oracle.py: a receipt describes   *)
(* an operator by its phase code and claims what the operator is; the      *)
(* oracle recomputes every claim.  An engine writes the canonical receipt, *)
(* anybody may then tamper with a field or add one, and the oracle looks   *)
(* at the layers of obligations from the outermost inwards, naming all     *)
(* faults of the first layer that has one.                                 *)
(***************************************************************************)
EXTENDS GaugeSpace

CONSTANTS Described,    \* codes that receipts are written about
          Strides,      \* lane maps of those receipts
          Offsets,
          MaxTampers    \* a bound: fields tampered with

ASSUME DescribedAssumption ==
  Described \subseteq Code /\ Strides \subseteq Lane /\ Offsets \subseteq Lane

(***************************************************************************)
(* The twisted product: e_i e_j = sign e_(i xor j); a sign is a bit.       *)
(***************************************************************************)
\* Mutant: or, for exclusive or.
NegativeOr == [code \in Code |->
                 [i \in Lane |-> [j \in Lane |-> Tau[i][j] \/ Bilinear(code, i, j)]]]

Negative == [code \in Code |->
               [i \in Lane |-> [j \in Lane |-> Tau[i][j] # Bilinear(code, i, j)]]]

\* e_i (e_j e_k) against (e_i e_j) e_k, and the identities on the basis.
StructureInvariants(code) ==
  LET s(i, j)   == Negative[code][i][j]
      x(i, j)   == IndexXor(i, j)
      pairs     == Lane \X Lane
      neutral(u) == \A j \in Lane : ~s(u, j) /\ ~s(j, u)
  IN [associator_defects |->
        Cardinality({t \in Lane \X Lane \X Lane :
          (s(t[1], t[2]) # s(x(t[1], t[2]), t[3])) # (s(t[2], t[3]) # s(t[1], x(t[2], t[3])))}),
      commutator_defects |-> Cardinality({p \in pairs : s(p[1], p[2]) # s(p[2], p[1])}),
      anticommutator_failures |->
        Cardinality({p \in pairs : p[1] # p[2] /\ 0 \notin {p[1], p[2]} /\ s(p[1], p[2]) = s(p[2], p[1])}),
      basis_left_alternative_failures |->
        Cardinality({p \in pairs : (s(p[1], p[1]) # s(0, p[2])) # (s(p[1], p[2]) # s(p[1], x(p[1], p[2])))}),
      basis_right_alternative_failures |->
        Cardinality({p \in pairs : (s(p[1], p[2]) # s(x(p[1], p[2]), p[2])) # (s(p[2], p[2]) # s(p[1], 0))}),
      basis_flexible_failures |->
        Cardinality({p \in pairs : (s(p[1], p[2]) # s(x(p[1], p[2]), p[1])) # (s(p[2], p[1]) # s(p[1], x(p[2], p[1])))}),
      square_negatives |-> Cardinality({y \in Lane : s(y, y)}),
      \* The first neutral index ends the search; only index 0 is a unit.
      unit_index |-> IF neutral(0) THEN 0 ELSE -1]

Invariants == [code \in Code |-> StructureInvariants(code)]

\* Coefficients (a, b, k) that the lane map rebuilds differently from sigma.
TensorFailures(code, stride, offset) ==
  LET sign(a, b) == IF Negative[code][a][b] THEN -1 ELSE 1
      hits(a, b, k) ==
        {lane \in Lane : LET out == (lane * stride + offset) % 2^Bits
                         IN  out = k /\ IndexXor(out, b) = a}
  IN  Cardinality({t \in Lane \X Lane \X Lane :
        Cardinality(hits(t[1], t[2], t[3])) * sign(t[1], t[2])
          # (IF IndexXor(t[1], t[2]) = t[3] THEN sign(t[1], t[2]) ELSE 0)})

Failures ==
  [code \in Code |-> [stride \in Lane |-> [offset \in Lane |-> TensorFailures(code, stride, offset)]]]

-----------------------------------------------------------------------------
(***************************************************************************)
(* Receipts: functions from field names to values tagged with their type.  *)
(***************************************************************************)
InvariantFields ==
  {"associator_defects", "commutator_defects", "anticommutator_failures",
   "basis_left_alternative_failures", "basis_right_alternative_failures",
   "basis_flexible_failures", "square_negatives", "unit_index"}
IntFields ==
  InvariantFields \cup
  {"schema", "kind", "phase_code", "quadratic_code", "affine_class", "tensor_components",
   "tensor_reconstruction_failures", "lane_stride", "lane_offset"}
BoolFields == {"novel_relative_to_v1_grammar", "claim_ready"}
RequiredFields ==
  IntFields \cup BoolFields \cup
  {"authority", "decision", "tensor_encoding", "fp_parity", "formal_v13_v14"}

\* Keys nobody asked for; two carry a forbidden word, one of them inside a value.
Extras == {"comment", "Speedup", "nested.median_ppm"}
Forbidden == {"Speedup", "nested.median_ppm"}

Claims(code, stride, offset) ==
  LET own == Invariants[code]
  IN  [schema |-> <<"int", 1>>, kind |-> <<"int", 2>>, authority |-> <<"str", "Sounio">>,
       decision |-> <<"str", IF Novel(code) THEN "ADMIT" ELSE "REFUSE">>,
       phase_code |-> <<"int", CodeNumber(code)>>, quadratic_code |-> <<"int", QuadraticId(code)>>,
       affine_class |-> <<"int", ClassOf(code)>>,
       novel_relative_to_v1_grammar |-> <<"bool", Novel(code)>>,
       associator_defects |-> <<"int", own.associator_defects>>,
       commutator_defects |-> <<"int", own.commutator_defects>>,
       anticommutator_failures |-> <<"int", own.anticommutator_failures>>,
       basis_left_alternative_failures |-> <<"int", own.basis_left_alternative_failures>>,
       basis_right_alternative_failures |-> <<"int", own.basis_right_alternative_failures>>,
       basis_flexible_failures |-> <<"int", own.basis_flexible_failures>>,
       square_negatives |-> <<"int", own.square_negatives>>,
       unit_index |-> <<"int", own.unit_index>>,
       tensor_components |-> <<"int", 2^(3 * Bits)>>,
       tensor_encoding |-> <<"str", "cd16-abk-offset1-v1">>,
       tensor_reconstruction_failures |-> <<"int", Failures[code][stride][offset]>>,
       lane_stride |-> <<"int", stride>>, lane_offset |-> <<"int", offset>>,
       fp_parity |-> <<"str", "UNMEASURED">>, claim_ready |-> <<"bool", FALSE>>,
       formal_v13_v14 |-> <<"str", "OPEN">>]

CanonicalReceipt ==
  [code \in Code |-> [stride \in Lane |-> [offset \in Lane |-> Claims(code, stride, offset)]]]

CodeNumbered ==
  [n \in 0 .. 2^(Bits * Bits) - 1 |-> {c \in Position \X Position : Bit(n, c[1] * Bits + c[2]) = 1}]

-----------------------------------------------------------------------------
(***************************************************************************)
(* The layers, each as the set of faults it finds.  A layer may rely on    *)
(* what the ones before it established.                                    *)
(***************************************************************************)
Value(r, f) == r[f][2]

ForbiddenField(r) == DOMAIN r \cap Forbidden
MissingField(r) == RequiredFields \ DOMAIN r
\* Mutant: booleans are only looked at when all integers are right.
WrongTypeStaged(r) ==
  LET ints == {f \in IntFields : r[f][1] # "int"}
  IN  IF ints # {} THEN ints ELSE {f \in BoolFields : r[f][1] # "bool"}

WrongType(r) ==
  {f \in IntFields : r[f][1] # "int"} \cup {f \in BoolFields : r[f][1] # "bool"}
Provenance(r) ==
  {f \in {"schema", "authority", "kind", "decision"} :
     r[f] \notin CASE f = "schema"    -> {<<"int", 1>>}
                   [] f = "authority" -> {<<"str", "Sounio">>}
                   [] f = "kind"      -> {<<"int", 2>>}
                   [] f = "decision"  -> {<<"str", "ADMIT">>, <<"str", "REFUSE">>}}
CodeRange(r) == {f \in {"phase_code"} : Value(r, f) \notin 0 .. 2^(Bits * Bits) - 1}

LaneMap(r) ==
  {f \in {"lane_stride", "lane_offset"} :
     IF f = "lane_stride" THEN Value(r, f) \notin 1 .. 2^Bits - 1 \/ Value(r, f) % 2 # 1
     ELSE Value(r, f) \notin 0 .. 2^Bits - 1}

\* Mutant: of the derived claims only the invariants are recomputed.
ObligationsOfAlgebra(r) ==
  LET truth == CanonicalReceipt[CodeNumbered[Value(r, "phase_code")]][1][0]
  IN  {f \in InvariantFields : r[f] # truth[f]}

Obligations(r) ==
  LET code   == CodeNumbered[Value(r, "phase_code")]
      actual == Failures[code][Value(r, "lane_stride")][Value(r, "lane_offset")]
      truth  == CanonicalReceipt[code][1][0]
      admits == r["decision"] = <<"str", "ADMIT">>
  IN  {f \in RequiredFields \ {"decision", "phase_code", "lane_stride", "lane_offset",
                               "tensor_reconstruction_failures"} : r[f] # truth[f]}
      \cup {f \in {"tensor_reconstruction_failures"} : r[f] # <<"int", actual>>}
      \cup {f \in {"ADMITTED_WITH_TENSOR_FAILURES"} : admits /\ actual # 0}
      \cup {f \in {"ADMITTED_WITHOUT_NOVELTY"} : admits /\ ~Novel(code)}

Layers == <<"forbidden", "missing", "types", "provenance", "range", "lanes", "obligations">>

Faults(layer, r) ==
  CASE layer = "forbidden"   -> ForbiddenField(r)
    [] layer = "missing"     -> MissingField(r)
    [] layer = "types"       -> WrongType(r)
    [] layer = "provenance"  -> Provenance(r)
    [] layer = "range"       -> CodeRange(r)
    [] layer = "lanes"       -> LaneMap(r)
    [] layer = "obligations" -> Obligations(r)

-----------------------------------------------------------------------------
(***************************************************************************)
(* What tampering can put into a field.                                    *)
(***************************************************************************)
Absent == <<"absent", 0>>

Forgeries(f) ==
  {<<"str", "forged">>} \cup
  CASE f \in Extras     -> {}
    [] f \in BoolFields -> {Absent, <<"bool", TRUE>>, <<"bool", FALSE>>}
    [] f = "phase_code" -> {<<"int", CodeNumber(c)>> : c \in Described}
                             \cup {<<"int", -1>>, <<"int", 2^(Bits * Bits)>>}
    [] f \in {"lane_stride", "lane_offset"} -> {<<"int", n>> : n \in -1 .. 2^Bits}
    [] f = "decision"   -> {<<"str", "ADMIT">>, <<"str", "REFUSE">>}
    [] OTHER            -> {Absent, <<"int", 3>>}

VARIABLES receipt,   \* <<>> until an engine writes one
          tampered,  \* fields that were touched
          stage,     \* layers passed; 0 while the receipt is on its way
          faults     \* what the deciding layer found

vars == <<receipt, tampered, stage, faults>>

Init == receipt = <<>> /\ tampered = {} /\ stage = 0 /\ faults = {}

\* canonical_receipt
Write ==
  /\ receipt = <<>>
  /\ \E code \in Described, stride \in Strides, offset \in Offsets :
       receipt' = CanonicalReceipt[code][stride][offset]
  /\ UNCHANGED <<tampered, stage, faults>>

Tamper(f) ==
  /\ receipt # <<>> /\ stage = 0
  /\ f \notin tampered /\ Cardinality(tampered) < MaxTampers
  /\ \E v \in Forgeries(f) :
       receipt' = [g \in (DOMAIN receipt \cup {f}) \ {h \in {f} : v = Absent} |->
                     IF g = f THEN v ELSE receipt[g]]
  /\ tampered' = tampered \cup {f}
  /\ UNCHANGED <<stage, faults>>

\* evaluate, one layer at a time: return at the first that finds a fault.
Evaluate ==
  /\ receipt # <<>> /\ faults = {} /\ stage < Len(Layers)
  /\ faults' = Faults(Layers[stage + 1], receipt)
  /\ stage' = stage + 1
  /\ UNCHANGED <<receipt, tampered>>

Next == Write \/ Evaluate \/ \E f \in RequiredFields \cup Extras : Tamper(f)
Spec == Init /\ [][Next]_vars

Accepted == stage = Len(Layers) /\ faults = {}
Refused == faults # {}

-----------------------------------------------------------------------------
(***************************************************************************)
(* A receipt is accepted iff it is the one an honest engine would write    *)
(* about the code it names, with a harmless key or two more; or says of a  *)
(* novel operator that it is refused, which the contract allows.           *)
(***************************************************************************)
Honest ==
  /\ RequiredFields \subseteq DOMAIN receipt
  /\ \E code   \in {c \in Code : <<"int", CodeNumber(c)>> = receipt["phase_code"]},
        stride \in {n \in Lane : n % 2 = 1 /\ <<"int", n>> = receipt["lane_stride"]},
        offset \in {n \in Lane : <<"int", n>> = receipt["lane_offset"]} :
       LET truth == CanonicalReceipt[code][stride][offset]
       IN  \A f \in RequiredFields :
             \/ receipt[f] = truth[f]
             \/ f = "decision" /\ receipt[f] = <<"str", "REFUSE">>

AcceptedIsHonest ==
  Accepted \/ Refused => (Accepted <=> Honest /\ DOMAIN receipt \cap Forbidden = {})

(***************************************************************************)
(* A refusal names every fault of its layer: putting right what it names,  *)
(* and nothing else, gets the receipt past that layer without offending an *)
(* outer one.  (Naming a field that has no fault is not excluded here.)    *)
(***************************************************************************)
Repair ==
  IF stage < Len(Layers) THEN CanonicalReceipt[{}][1][0]
  ELSE CanonicalReceipt[CodeNumbered[Value(receipt, "phase_code")]]
                       [Value(receipt, "lane_stride")][Value(receipt, "lane_offset")]
Repaired ==
  [f \in (DOMAIN receipt \cup (faults \cap RequiredFields)) \ (faults \cap Forbidden) |->
     IF f \in faults THEN Repair[f]
     ELSE IF f = "decision" /\ faults \ (RequiredFields \cup Forbidden) # {}
          THEN <<"str", "REFUSE">>
     ELSE receipt[f]]

RefusalIsComplete ==
  Refused => \A r \in {Repaired} : \A n \in 1 .. stage : Faults(Layers[n], r) = {}

(***************************************************************************)
(* The verdict depends on the code only through its quadratic code: codes  *)
(* that differ by an alternating form cannot be told apart by any of the   *)
(* eight invariants, nor by class or novelty.                              *)
(***************************************************************************)
VerdictIsGaugeInvariant ==
  stage = Len(Layers) =>
    LET code == CodeNumbered[Value(receipt, "phase_code")]
    IN  \A other \in Code :
          QuadraticCode(other) = QuadraticCode(code) =>
            Obligations([receipt EXCEPT !["phase_code"] = <<"int", CodeNumber(other)>>]) = faults
=============================================================================
