--------------------------- MODULE ContractSuites ---------------------------
(***************************************************************************)
(* The contract suites of tools/eisa_h: for each oracle the checks its     *)
(* load_and_run makes of schema, contract and vectors, in their order, and *)
(* the mutations of its self-test, each as the set of checks that object   *)
(* to the mutated document.  The texts the checks compare are left out: a  *)
(* document is what is wrong with it.                                      *)
(*                                                                         *)
(*   plan       the stages of a run with --selftest                        *)
(*   plain      the stages of a run without                                *)
(*   stops      an uncaught mutation ends the self-test at once            *)
(*   measured   checks that receipts measured by the gate can fail; the    *)
(*              mutated runs do not see those receipts                     *)
(*   texts      mutations that replace a text, which may not be there;     *)
(*              the others set, drop or append                             *)
(*   guards     those of them that stop the run when it is not             *)
(***************************************************************************)
EXTENDS Naturals, Sequences

TestFirst == <<"mutate", "baseline", "write", "print">>
TestLast == <<"baseline", "mutate", "write", "print">>
Plain == <<"baseline", "write">>

AtlasSuite ==
  [plan |-> TestFirst, plain |-> Plain, stops |-> TRUE, measured |-> {},
   checks |-> <<
     "contract id", "contract keys", "claims novelty", "vectors id",
     "gauge_classes", "gauge_class_size", "bilinear_matrices",
     "alternating_subspace_dimension", "span_dimension", "general_linear_group_order",
     "admitted plain", "admitted exchange", "affine_classes", "v1_grammar_classes",
     "atlas digest", "duplicate case", "case verdict", "coverage">>,
   mutations |-> <<
     {"affine_classes"}, {"gauge_classes"}, {"admitted exchange"}, {"v1_grammar_classes"},
     {"atlas digest"}, {"span_dimension"}, {"claims novelty"},
     {"case verdict"}, {"case verdict"}, {"duplicate case"}>>,
   texts |-> {}, guards |-> {}]

AdmissionSuite ==
  [plan |-> TestFirst, plain |-> Plain, stops |-> TRUE, measured |-> {},
   checks |-> <<
     "contract id", "contract keys", "vectors id", "claims utility", "claims parity",
     "forbidden fields", "required fields", "reference drift", "reference novelty",
     "duplicate case", "case verdict", "case reason", "coverage">>,
   mutations |-> <<
     \* Phase code 0 is neither the declared operator nor a new one.
     {"reference drift", "reference novelty"},
     {"reference drift"}, {"reference drift"}, {"reference drift"},
     {"reference drift"}, {"reference drift"}, {"reference drift"},
     {"claims utility"}, {"claims parity"}, {"forbidden fields"}, {"required fields"},
     {"case verdict"}, {"case verdict"}, {"case verdict"}, {"duplicate case"}>>,
   texts |-> {}, guards |-> {}]

CrossEngineSuite ==
  [plan |-> TestFirst, plain |-> Plain, stops |-> TRUE, measured |-> {},
   checks |-> <<
     "contract id", "vectors id", "contract keys", "claims correctness", "claims performance",
     "not executed", "engine source",
     \* verify
     "duplicate case", "recorded_receipts", "context digest",
     \* check_case
     "wire json", "receipt json", "receipt object", "exit code", "header", "claim_ready",
     "wire digest", "attested proposal", "receipt context", "proposal context",
     "lowering kind", "lowering phase", "operator kind", "phase echo", "novelty",
     "classifier", "unknown kind", "phase range", "recovered code", "divergence",
     \* verify, after the cases
     "operator_receipts", "no lowering", "base digest", "lowering tensor", "no phase 0",
     "phase 0 tensor", "shared digest", "distinct tensors">>,
   mutations |-> <<
     {"recorded_receipts"}, {"operator_receipts"}, {"distinct tensors"}, {"base digest"},
     {"claims correctness"}, {"not executed"}, {"engine source"},
     {"divergence"}, {"novelty"},
     \* The wire alone is changed; then wire, digest and echo together.
     {"wire digest", "phase echo", "divergence"}, {"divergence"},
     {"operator kind", "operator_receipts", "lowering tensor", "distinct tensors"},
     {"duplicate case", "recorded_receipts"}, {"engine source"},
     {"context digest", "receipt context", "proposal context"}>>,
   texts |-> (8 .. 12) \cup {15}, guards |-> 8 .. 12]

MaterialSuite ==
  [plan |-> TestFirst, plain |-> Plain, stops |-> TRUE, measured |-> {},
   checks |-> <<
     "schema const", "schema enum", "schema object", "schema required", "schema additional",
     "schema array", "schema unique", "schema string",
     "contract id", "roles differ", "duplicate field", "required fields", "error codes",
     "claims gain", "vectors id", "duplicate case", "missing case",
     "unknown class", "unknown code", "coverage",
     \* A receipt without the field that evaluate looks up: a KeyError.
     "field lookup", "case verdict">>,
   mutations |-> <<
     {"schema const", "contract id"},
     {"schema const", "roles differ", "case verdict"},
     {"error codes", "unknown code"}, {"error codes", "unknown code"},
     {"claims gain"}, {"required fields", "field lookup"}, {"case verdict"},
     {"coverage", "case verdict"}, {"case verdict"}, {"missing case"}, {"duplicate case"}>>,
   texts |-> {}, guards |-> {}]

SelfParitySuite ==
  [plan |-> TestFirst, plain |-> Plain, stops |-> TRUE, measured |-> {"case verdict"},
   checks |-> <<
     "contract id", "contract keys", "vectors id", "claims utility", "claims novelty",
     "forbidden fields", "required fields", "reference code",
     "duplicate case", "case verdict", "case reason", "coverage">>,
   mutations |-> <<
     {"claims utility"}, {"claims novelty"}, {"reference code"}, {"forbidden fields"},
     {"required fields"},
     {"case verdict"}, {"case verdict"}, {"case verdict"}, {"case verdict"}, {"case verdict"},
     {"duplicate case"}>>,
   texts |-> {}, guards |-> {}]

WireSuite ==
  [plan |-> TestFirst, plain |-> Plain, stops |-> TRUE, measured |-> {},
   checks |-> <<
     "contract id", "contract keys", "vectors id", "v1_keys", "v2_added_key",
     "v1_proposal_seen_mask", "v2_proposal_seen_mask", "max_document_bytes",
     "max_value_digits", "derived_by", "executed",
     "duplicate case", "case verdict", "case reason", "both outcomes", "both kinds">>,
   mutations |-> <<
     {"v1_proposal_seen_mask"}, {"v2_proposal_seen_mask"}, {"max_document_bytes"},
     {"max_value_digits"}, {"v2_added_key"}, {"v1_keys"}, {"executed"}, {"derived_by"},
     {"case verdict"}, {"case verdict"}, {"duplicate case"}>>,
   texts |-> {}, guards |-> {}]

ZdPairSuite ==
  [plan |-> <<"baseline", "mutate", "print", "write">>, plain |-> Plain, stops |-> FALSE, measured |-> {},
   checks |-> <<
     "dialect", "identity", "open schema", "schema structure", "schema keys",
     "schema const", "schema enum", "schema type", "schema pattern", "schema unique",
     "schema required", "schema additional",
     "contract id", "format", "basis rule", "basis drift", "basis hash",
     "coefficient type", "coefficient values", "support bound", "overflow threshold",
     "arithmetic", "classifications", "error codes", "receipt surface",
     "receipt identities", "future target",
     "vectors id", "case ids", "case coverage", "case verdict">>,
   mutations |-> <<
     {"schema keys", "schema additional"}, {"schema type"}, {"basis hash"}, {"case verdict"},
     \* Two cases of one name: a name is missing as well.
     {"case ids", "case coverage"},
     {"case verdict"}, {"case verdict"}, {"case coverage"}>>,
   texts |-> {}, guards |-> {}]

\* This oracle tests itself on every run, with evaluate alone.
PatchSuite ==
  [plan |-> TestLast, plain |-> TestLast, stops |-> TRUE, measured |-> {},
   checks |-> <<
     "contract id", "contract keys", "claims compiled", "claims executed",
     "claims correctness", "claims classification",
     "empty patch", "edit removes", "edit adds", "kind1 invariant", "boundary missing",
     "overstated", "added count", "removed count">>,
   mutations |-> <<
     {"boundary missing"}, {"boundary missing", "overstated"},
     {"edit adds", "boundary missing"}, {"edit adds"}, {"edit adds"}, {"boundary missing"},
     {"kind1 invariant", "removed count"}>>,
   texts |-> 1 .. 6, guards |-> 1 .. 6]
=============================================================================
