--------------------------- MODULE MaterialParity ---------------------------
(***************************************************************************)
(* tools/eisa_h/pireus_material_parity_oracle.py: a producer measures a    *)
(* lowering on a material and prints one key=value line per field; the     *)
(* lines may be edited on their way; the oracle parses them line by line   *)
(* and classifies the receipt by the first fault it meets.                 *)
(* A value is tagged with what its text reads as.                          *)
(***************************************************************************)
EXTENDS Integers, Sequences, SequencesExt, FiniteSets

CONSTANTS Dimension,   \* 16 in the contract
          MaxEdits     \* a bound: lines edited

ASSUME DimensionAssumption == Dimension \in Nat \ {0}

Num(n) == <<"int", n>>
Flag(b) == <<"flag", b>>
Text(s) == <<"text", s>>

IntFields ==
  {"dimension", "partner_cells", "partner_failures", "negative_cells", "positive_cells",
   "vector_matching_lanes", "vector_mismatching_lanes", "vector_first_mismatch",
   "sign_mutation_mismatching_lanes", "selector_mutation_mismatching_lanes"}
BoolFields ==
  {"flush_to_zero", "denormals_are_zero", "ascending_i", "reassociated", "claim_ready",
   "generic_cost_claim"}
RequiredFields ==
  IntFields \cup BoolFields \cup
  {"producer_language", "producer_role", "semantic_authority_language",
   "semantic_authority_role", "source_semantics_sha256", "target", "rounding_mode", "result"}
Banned == {"speedup_ratio"}   \* keys that hold a forbidden substring

-----------------------------------------------------------------------------
(***************************************************************************)
(* The producer: what it measured, and the lines it prints about it.       *)
(***************************************************************************)
Lanes == 0 .. Dimension - 1

Measurements ==
  [mismatches : SUBSET Lanes, partner_failures : {0, 1},
   sign_control : {0, Dimension}, selector_control : {Dimension}]

Clean(m) == m.mismatches = {} /\ m.partner_failures = 0

Receipt(m) ==
  LET cells == Dimension * Dimension
      lanes == Cardinality(m.mismatches)
      first == IF lanes = 0 THEN -1
               ELSE CHOOSE k \in m.mismatches : \A j \in m.mismatches : k <= j
  IN << <<"producer_language", Text("C++")>>,
        <<"producer_role", Text("MATERIAL_PARITY")>>,
        <<"semantic_authority_language", Text("Sounio")>>,
        <<"semantic_authority_role", Text("SEMANTIC_AUTHORITY")>>,
        <<"source_semantics_sha256", Text("digest")>>,
        <<"target", Text("xeon")>>,
        <<"rounding_mode", Text("FE_TONEAREST")>>,
        <<"flush_to_zero", Flag(FALSE)>>,
        <<"denormals_are_zero", Flag(FALSE)>>,
        <<"dimension", Num(Dimension)>>,
        <<"partner_cells", Num(cells - m.partner_failures)>>,
        <<"partner_failures", Num(m.partner_failures)>>,
        <<"negative_cells", Num(1)>>,
        <<"positive_cells", Num(cells - 1)>>,
        <<"vector_matching_lanes", Num(Dimension - lanes)>>,
        <<"vector_mismatching_lanes", Num(lanes)>>,
        <<"vector_first_mismatch", Num(first)>>,
        <<"sign_mutation_mismatching_lanes", Num(m.sign_control)>>,
        <<"selector_mutation_mismatching_lanes", Num(m.selector_control)>>,
        <<"ascending_i", Flag(TRUE)>>,
        <<"reassociated", Flag(FALSE)>>,
        <<"claim_ready", Flag(FALSE)>>,
        <<"generic_cost_claim", Flag(FALSE)>>,
        <<"result", Text(IF Clean(m) THEN "PASS" ELSE "FAIL")>> >>

\* A line without "=" or without a key.
NoField == <<"", Text("")>>

\* What a line can be replaced by.
Altered(line) ==
  {NoField, <<line[1], Text("forged")>>} \cup
  CASE line[1] \in IntFields  -> {<<line[1], Num(n)>> : n \in {-1, 0, 1}}
    [] line[1] \in BoolFields -> {<<line[1], Flag(b)>> : b \in BOOLEAN}
    [] line[1] = "result"     -> {<<line[1], Text(r)>> : r \in {"PASS", "FAIL"}}
    [] OTHER                  -> {}

\* What can be added.
Added ==
  {NoField, <<"comment", Text("")>>, <<"timing_ns", Num(1)>>, <<"speedup_ratio", Num(1)>>,
   <<"result", Text("PASS")>>, <<"vector_mismatching_lanes", Num(0)>>}

-----------------------------------------------------------------------------
(***************************************************************************)
(* parse_receipt: a key is there once, and it is not empty.  What it finds *)
(* first is what it returns; an empty key counts before a repeated one.    *)
(***************************************************************************)
NoKey(text)    == {n \in DOMAIN text : text[n][1] = ""}
Repeated(text) == {n \in DOMAIN text : \E m \in 1 .. n - 1 : text[m][1] = text[n][1]}
Unread(text)   == NoKey(text) \cup Repeated(text)

ParseError(text) ==
  IF Min(Unread(text)) \in NoKey(text) THEN "MALFORMED_VALUE" ELSE "DUPLICATE_FIELD"

Fields(text) ==
  [key \in {text[n][1] : n \in DOMAIN text} |->
     text[CHOOSE n \in DOMAIN text : text[n][1] = key][2]]

(***************************************************************************)
(* classify: the order of the checks is part of the contract.              *)
(***************************************************************************)
\* Mutant: the lane of the first mismatch is not looked at.
AgreesOnCounts(f) ==
  /\ f["vector_mismatching_lanes"] = Num(0)
  /\ f["partner_failures"] = Num(0)

Agrees(f) ==
  /\ f["vector_mismatching_lanes"] = Num(0)
  /\ f["vector_first_mismatch"] = Num(-1)
  /\ f["partner_failures"] = Num(0)

Malformed(f) ==
  \/ \E k \in IntFields  : f[k][1] # "int"
  \/ \E k \in BoolFields : f[k][1] # "flag"
  \/ f["result"] \notin {Text("PASS"), Text("FAIL")}

ClaimsAuthority(f) ==
  \/ f["producer_role"] # Text("MATERIAL_PARITY")
  \/ f["semantic_authority_role"] # Text("SEMANTIC_AUTHORITY")
  \/ f["semantic_authority_language"] # Text("Sounio")

Vacuous(f) ==
  \E k \in {"sign_mutation_mismatching_lanes", "selector_mutation_mismatching_lanes"} :
    f[k][2] <= 0

CellsLost(f) ==
  LET cells == f["dimension"][2] * f["dimension"][2]
  IN  \/ f["positive_cells"][2] + f["negative_cells"][2] # cells
      \/ f["partner_cells"][2] + f["partner_failures"][2] # cells

EnvironmentModified(f) ==
  \/ f["rounding_mode"] # Text("FE_TONEAREST")
  \/ f["flush_to_zero"][2]
  \/ f["denormals_are_zero"][2]

Faulty(code, f) ==
  CASE code = "GAIN_CLAIM_IN_PARITY_RECEIPT" -> DOMAIN f \cap Banned # {}
    [] code = "MISSING_REQUIRED_FIELD"       -> ~(RequiredFields \subseteq DOMAIN f)
    [] code = "MALFORMED_VALUE"              -> Malformed(f)
    [] code = "PRODUCER_CLAIMS_AUTHORITY"    -> ClaimsAuthority(f)
    [] code = "VACUOUS_MUTATION_CONTROL"     -> Vacuous(f)
    [] code = "CELL_COUNT_INCONSISTENT"      -> CellsLost(f)
    [] code = "EVALUATION_ORDER_MODIFIED"    -> ~f["ascending_i"][2] \/ f["reassociated"][2]
    [] code = "NUMERIC_ENVIRONMENT_MODIFIED" -> EnvironmentModified(f)
    [] code = "UNSUPPORTED_CLAIM_PROMOTION"  -> f["claim_ready"][2] \/ f["generic_cost_claim"][2]
    [] code = "PARITY_INCONSISTENT_WITH_RESULT" -> (f["result"] = Text("PASS")) # Agrees(f)

\* Mutant: the result is not compared with the counts.
LadderTrustsResult ==
  <<"GAIN_CLAIM_IN_PARITY_RECEIPT", "MISSING_REQUIRED_FIELD", "MALFORMED_VALUE",
    "PRODUCER_CLAIMS_AUTHORITY", "VACUOUS_MUTATION_CONTROL", "CELL_COUNT_INCONSISTENT",
    "EVALUATION_ORDER_MODIFIED", "NUMERIC_ENVIRONMENT_MODIFIED",
    "UNSUPPORTED_CLAIM_PROMOTION">>

Ladder ==
  <<"GAIN_CLAIM_IN_PARITY_RECEIPT", "MISSING_REQUIRED_FIELD", "MALFORMED_VALUE",
    "PRODUCER_CLAIMS_AUTHORITY", "VACUOUS_MUTATION_CONTROL", "CELL_COUNT_INCONSISTENT",
    "EVALUATION_ORDER_MODIFIED", "NUMERIC_ENVIRONMENT_MODIFIED",
    "UNSUPPORTED_CLAIM_PROMOTION", "PARITY_INCONSISTENT_WITH_RESULT">>

Rejected(code) == <<"REJECTED_RECEIPT", code>>

\* A check relies on those before it, so the ladder is climbed in order.
FirstFault(f) ==
  Ladder[CHOOSE n \in DOMAIN Ladder :
           Faulty(Ladder[n], f) /\ \A m \in 1 .. n - 1 : ~Faulty(Ladder[m], f)]

Classify(f) ==
  IF \E n \in DOMAIN Ladder : Faulty(Ladder[n], f) THEN Rejected(FirstFault(f))
  ELSE <<IF Agrees(f) THEN "ACCEPTED_MATERIAL_PARITY" ELSE "OBSERVED_MISMATCH", "none">>

\* evaluate
Verdict(text) ==
  IF Unread(text) # {} THEN Rejected(ParseError(text)) ELSE Classify(Fields(text))

-----------------------------------------------------------------------------
VARIABLES measured,   \* by the producer, for good
          lines,      \* on their way
          edits,      \* how often they were edited
          outcome     \* <<>> or <<classification, error code>>

parityVars == <<measured, lines, edits, outcome>>

ParityInit ==
  /\ measured \in Measurements
  /\ lines = Receipt(measured)
  /\ edits = 0
  /\ outcome = <<>>

Edit(next) ==
  /\ outcome = <<>> /\ edits < MaxEdits
  /\ lines' = next
  /\ edits' = edits + 1
  /\ UNCHANGED <<measured, outcome>>

Alter == \E n \in DOMAIN lines : \E l \in Altered(lines[n]) \ {lines[n]} : Edit([lines EXCEPT ![n] = l])
Drop == \E n \in DOMAIN lines : Edit(RemoveAt(lines, n))
Add == \E l \in Added : Edit(Append(lines, l))

Evaluate ==
  /\ outcome = <<>>
  /\ outcome' = Verdict(lines)
  /\ UNCHANGED <<measured, lines, edits>>

ParityNext == Alter \/ Drop \/ Add \/ Evaluate
ParitySpec == ParityInit /\ [][ParityNext]_parityVars

-----------------------------------------------------------------------------
(***************************************************************************)
(* A failed measurement says so in three lines at least (the result, and   *)
(* two counts bound to each other): two edits never make it parity.        *)
(***************************************************************************)
TwoEditsForgeNoParity ==
  edits <= 2 /\ outcome = <<"ACCEPTED_MATERIAL_PARITY", "none">> => Clean(measured)

(***************************************************************************)
(* No single edit turns one admissible classification into the other.      *)
(***************************************************************************)
OneEditNeverFlips ==
  [][edits' > edits =>
       {"ACCEPTED_MATERIAL_PARITY", "OBSERVED_MISMATCH"}
         # {Verdict(lines)[1], Verdict(lines')[1]}]_parityVars
=============================================================================
