------------------------- MODULE MCContractHarness -------------------------
(***************************************************************************)
(* The eight suites of the repository, each with at most one check lost    *)
(* and at most one fault in its documents.                                 *)
(***************************************************************************)
EXTENDS ContractHarness, ContractSuites

Names == {"atlas", "admission", "cross engine", "material", "self parity", "wire",
          "zd pair", "patch"}
SuiteOf ==
  [s \in Names |->
     CASE s = "atlas"        -> AtlasSuite
       [] s = "admission"    -> AdmissionSuite
       [] s = "cross engine" -> CrossEngineSuite
       [] s = "material"     -> MaterialSuite
       [] s = "self parity"  -> SelfParitySuite
       [] s = "wire"         -> WireSuite
       [] s = "zd pair"      -> ZdPairSuite
       [] s = "patch"        -> PatchSuite]

(***************************************************************************)
(* The checks that the self-tests hold in place, oracle by oracle.  Every  *)
(* check of a suite that is not named here can be deleted unnoticed.       *)
(***************************************************************************)
Held ==
  [s \in Names |->
     CASE s = "atlas"        -> {"affine_classes", "gauge_classes", "admitted exchange",
                                 "v1_grammar_classes", "atlas digest", "span_dimension",
                                 "claims novelty", "case verdict", "duplicate case"}
       [] s = "admission"    -> {"reference drift", "claims utility", "claims parity",
                                 "forbidden fields", "required fields", "case verdict",
                                 "duplicate case"}
       [] s = "cross engine" -> {"recorded_receipts", "operator_receipts", "distinct tensors",
                                 "base digest", "claims correctness", "not executed",
                                 "engine source", "divergence", "novelty"}
       [] s = "material"     -> {"claims gain", "case verdict", "missing case", "duplicate case"}
       [] s = "self parity"  -> {"claims utility", "claims novelty", "reference code",
                                 "forbidden fields", "required fields", "case verdict",
                                 "duplicate case"}
       [] s = "wire"         -> {"v1_proposal_seen_mask", "v2_proposal_seen_mask", "v1_keys",
                                 "v2_added_key", "max_document_bytes", "max_value_digits",
                                 "executed", "derived_by", "case verdict", "duplicate case"}
       [] s = "zd pair"      -> {"schema type", "basis hash", "case verdict", "case coverage"}
       [] s = "patch"        -> {"boundary missing", "edit adds"}]

ASSUME HeldAssumption == \A s \in Names : Guarded(s) = Held[s]
=============================================================================
