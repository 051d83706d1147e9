---------------------------- MODULE CrossEngine ----------------------------
(***************************************************************************)
(* tools/eisa_h/pireus_admission_cross_engine_oracle.py: receipts of the   *)
(* admission engine are recorded beside the proposals they answer; the     *)
(* oracle rebuilds every structure tensor from the phase code the proposal *)
(* names and compares.  A digest is what it is of (SHA-256 is injective    *)
(* on what occurs), so a tensor digest is the set of cells (a, b) with a   *)
(* negative sign, and a context digest the context.                        *)
(***************************************************************************)
EXTENDS PhaseAlgebra, Sequences

CONSTANTS Phases,     \* codes proposals are recorded about
          Declared,   \* the counts of the contract
          MaxTampers  \* a bound: fields of the recording tampered with

ASSUME PhasesAssumption == {} \in Phases /\ Phases \subseteq Code

Contexts == {"frozen", "another"}
NoPhase == {<<-1, -1>>}         \* no key "phase"
TooBig == {<<Bits, Bits>>}     \* a bit beyond the last

(***************************************************************************)
(* sigma_phase, the tensor and the code read back from it.                 *)
(***************************************************************************)
NegativeSign(code, a, b) == Tau[a][b] # Bilinear(code, a, b)
Tensor(code) == {c \in Lane \X Lane : NegativeSign(code, c[1], c[2])}

RecoveredCode(code) ==
  {c \in Position \X Position :
     NegativeSign(code, 2^c[1], 2^c[2]) # Tau[2^c[1]][2^c[2]]}

-----------------------------------------------------------------------------
(***************************************************************************)
(* One recorded case: the proposal as wire bytes, the digest recorded      *)
(* beside them, and the receipt the engine printed.                        *)
(***************************************************************************)
Proposal(kind, phase) == [kind |-> kind, phase |-> phase, context |-> "frozen"]

Recorded(id, wire) ==
  [id |-> id, exit |-> 0, wire |-> wire, hash |-> wire,
   header |-> "good",          \* JSON; schema, authority, decision, encoding, components
   claim_ready |-> FALSE, proposal |-> wire, context |-> wire.context,
   kind |-> IF wire.kind = 1 THEN "lowering" ELSE "operator",
   phase_code |-> wire.phase, novelty |-> "NOT_CLASSIFIED", classifier |-> "atlas",
   tensor |-> Tensor(IF wire.kind = 1 THEN {} ELSE wire.phase)]

\* What is recorded once for all cases: the context and its digest, and in the contract the
\* digest of the Cayley-Dickson tensor.
Common == [context |-> "frozen", digest |-> "frozen", base |-> Tensor({})]

\* What a recording may hold instead.
Forgeries(f) ==
  CASE f = "id"          -> 1 .. 3
    [] f = "exit"        -> {1}
    [] f = "wire"        -> {[Proposal(k, p) EXCEPT !.context = c] :
                               k \in {1, 2, 3}, p \in Phases \cup {NoPhase, TooBig}, c \in Contexts}
    [] f = "hash"        -> {Proposal(2, p) : p \in Phases}
    [] f = "proposal"    -> {Proposal(2, p) : p \in Phases}
    [] f = "claim_ready" -> {TRUE}
    [] f = "context"     -> {"another"}
    [] f = "phase_code"  -> Phases
    [] f = "tensor"      -> {Tensor(p) : p \in Phases}
    [] OTHER             -> {"forged"}
CommonForgeries(f) == IF f = "base" THEN {Tensor(p) : p \in Phases} ELSE Contexts

-----------------------------------------------------------------------------
VARIABLES cases,      \* the recording
          common,     \* what it says for all cases
          tampers,    \* how many times it was tampered with
          results,    \* what check_case has returned so far
          verdict     \* recording, then the outcome

vars == <<cases, common, tampers, results, verdict>>

Init ==
  /\ cases = <<>> /\ common = Common /\ tampers = 0 /\ results = <<>>
  /\ verdict = "recording"

\* The engine admits a proposal and its answer is recorded.
Record ==
  /\ verdict = "recording" /\ tampers = 0 /\ Len(cases) < Declared.recorded
  /\ \E wire \in {Proposal(1, NoPhase)} \cup {Proposal(2, p) : p \in Phases} :
       cases' = Append(cases, Recorded(Len(cases) + 1, wire))
  /\ UNCHANGED <<common, tampers, results, verdict>>

Tamper ==
  /\ verdict = "recording" /\ tampers < MaxTampers
  /\ \E n \in DOMAIN cases, f \in DOMAIN Recorded(1, Proposal(1, NoPhase)) :
       \E v \in Forgeries(f) : cases' = [cases EXCEPT ![n][f] = v]
  /\ tampers' = tampers + 1
  /\ UNCHANGED <<common, results, verdict>>

TamperCommon ==
  /\ verdict = "recording" /\ tampers < MaxTampers
  /\ \E f \in DOMAIN common : \E v \in CommonForgeries(f) : common' = [common EXCEPT ![f] = v]
  /\ tampers' = tampers + 1
  /\ UNCHANGED <<cases, results, verdict>>

\* _consistent_phase_swap: wire, both digests and the echoed code agree.
SwapPhase ==
  /\ verdict = "recording" /\ tampers < MaxTampers
  /\ \E n \in DOMAIN cases, p \in Phases :
       LET wire == [cases[n].wire EXCEPT !.phase = p]
       IN  /\ cases[n].wire.kind = 2 /\ p # cases[n].wire.phase
           /\ cases' = [cases EXCEPT ![n] =
                          [@ EXCEPT !.wire = wire, !.hash = wire, !.proposal = wire,
                                    !.phase_code = p]]
  /\ tampers' = tampers + 1
  /\ UNCHANGED <<common, results, verdict>>

\* verify, before the cases are looked at.
Ids == {cases[n].id : n \in DOMAIN cases}

Start ==
  /\ verdict = "recording"
  /\ verdict' = IF Cardinality(Ids) # Len(cases) THEN "duplicate case_id"
                ELSE IF Len(cases) # Declared.recorded THEN "count"
                ELSE IF common.digest # common.context THEN "context digest" ELSE "checking"
  /\ UNCHANGED <<cases, common, tampers, results>>

CodeOf(c) == IF c.wire.kind = 1 THEN {} ELSE c.wire.phase

(***************************************************************************)
(* check_case: a case without a fault yields its result, the first fault   *)
(* ends the run.                                                           *)
(***************************************************************************)
\* Mutant: only lowerings are derived again.
DivergesLowering(c) == c.kind = "lowering" /\ Tensor(CodeOf(c)) # c.tensor

Diverges(c) == Tensor(CodeOf(c)) # c.tensor

HeaderFault(c) == c.exit # 0 \/ c.header # "good" \/ c.claim_ready

\* Mutant: which proposal the receipt attests to is not looked at.
BindingFaultOfRecord(c) ==
  c.wire # c.hash \/ c.context # common.context \/ c.wire.context # common.context

BindingFault(c) ==
  \/ c.wire # c.hash
  \/ c.proposal # c.hash
  \/ c.context # common.context
  \/ c.wire.context # common.context

KindFault(c) ==
  \/ c.wire.kind = 1 /\ (c.kind # "lowering" \/ c.wire.phase # NoPhase)
  \/ /\ c.wire.kind = 2
     /\ \/ c.kind # "operator" \/ c.wire.phase = NoPhase \/ c.phase_code # c.wire.phase
        \/ c.novelty # "NOT_CLASSIFIED" \/ c.classifier # "atlas"
  \/ c.wire.kind \notin {1, 2}

CaseFault(c) ==
  IF HeaderFault(c) THEN "header"
  ELSE IF BindingFault(c) THEN "binding"
  ELSE IF KindFault(c) THEN "kind"
  ELSE IF CodeOf(c) \notin Code THEN "phase code out of range"
  ELSE IF RecoveredCode(CodeOf(c)) # CodeOf(c) THEN "not recoverable"
  ELSE IF Diverges(c) THEN "divergence"
  ELSE "none"

CheckCase ==
  /\ verdict = "checking" /\ Len(results) < Len(cases)
  /\ LET c == cases[Len(results) + 1]
     IN  IF CaseFault(c) = "none"
         THEN /\ results' = Append(results, [kind |-> c.kind, phase |-> CodeOf(c),
                                             tensor |-> c.tensor])
              /\ UNCHANGED verdict
         ELSE verdict' = CaseFault(c) /\ UNCHANGED results
  /\ UNCHANGED <<cases, common, tampers>>

Results(kind) == {results[n] : n \in {m \in DOMAIN results : results[m].kind = kind}}
Operators == Results("operator")
Lowerings == Results("lowering")

\* verify, after the last case.
Conclude ==
  /\ verdict = "checking" /\ Len(results) = Len(cases)
  /\ LET base == Tensor({})
         zero == {r \in Operators : r.phase = {}}
     IN verdict' =
          IF Cardinality({n \in DOMAIN results : results[n].kind = "operator"}) # Declared.operators
          THEN "operator count"
          ELSE IF Lowerings = {} THEN "no kind=1"
          ELSE IF base # common.base THEN "base digest drift"
          ELSE IF \E r \in Lowerings : r.tensor # base THEN "kind=1 is not Cayley-Dickson"
          ELSE IF zero = {} THEN "no phase 0"
          ELSE IF \E r \in zero : r.tensor # base THEN "phase 0 is not Cayley-Dickson"
          ELSE IF \E r, s \in Operators : r.tensor = s.tensor /\ r.phase # s.phase THEN "shared digest"
          ELSE IF Cardinality({r.tensor : r \in Operators}) # Declared.distinct THEN "distinct count"
          ELSE "match"
  /\ UNCHANGED <<cases, common, tampers, results>>

Next == Record \/ Tamper \/ TamperCommon \/ SwapPhase \/ Start \/ CheckCase \/ Conclude
Spec == Init /\ [][Next]_vars

-----------------------------------------------------------------------------
(***************************************************************************)
(* A match means that every receipt of the set answers the proposal it is  *)
(* recorded with, under the one context whose digest was recorded, and     *)
(* that tensors of the set tell the operators apart: equal tensors, equal  *)
(* codes, with a lowering counting as code 0, the code of the tensor that  *)
(* the contract declares.                                                  *)
(***************************************************************************)
MatchBinds ==
  verdict = "match" =>
    /\ \A n \in DOMAIN cases :
         /\ cases[n].proposal = cases[n].wire
         /\ cases[n].context = common.digest /\ cases[n].wire.context = common.digest
         /\ cases[n].tensor = Tensor(CodeOf(cases[n]))
         /\ cases[n].tensor = common.base <=> CodeOf(cases[n]) = {}
    /\ \A m, n \in DOMAIN cases :
         cases[m].tensor = cases[n].tensor <=> CodeOf(cases[m]) = CodeOf(cases[n])

(***************************************************************************)
(* After the cases have passed, four errors of verify can no longer occur: *)
(* tensors of lowerings, of phase 0 and shared ones are excluded by the    *)
(* comparison of each case with its own code.                              *)
(***************************************************************************)
LateErrorsAreExcluded ==
  verdict \notin {"not recoverable", "kind=1 is not Cayley-Dickson",
                  "phase 0 is not Cayley-Dickson", "shared digest"}
=============================================================================
