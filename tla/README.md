# Verification of sounio-hardware

TLA+ models of the zero-divisor-pair unit of EISA-H and of the machinery that
produces evidence about it, model-checked with TLC and, where it matters most,
proved with TLAPS. Paths are relative to the repository root.

## 1. The system

The repository contains one piece of hardware, an executable contract for it,
scripts (gates) that compare the two and refuse to say more than they measured,
a dispatcher that runs the long gates on a Slurm cluster, and a family of
oracles (PIREUS) that judge documents produced elsewhere.

| component | state it keeps | operations | talks to |
|---|---|---|---|
| Zero-divisor-pair unit, `rtl/eisa_h_sed16_zd_pair_v1.sv` | operand latches, accumulator, product, two indices, a cycle counter, busy/finalize/done, the verdict | accept and refuse, accept and start, one multiply-accumulate per clock, finalize, idle, asynchronous reset | start/ready/done handshake with whatever surrounds it |
| Software oracle, `tools/eisa_h/zd_pair_oracle.py` | none | judge an operand pair, write the basis sign table, validate contract and vectors | called by the contract and RTL gates |
| Basis ROM check, `tools/eisa_h/check_basis_rom.py` | none | compare ROM literal and table hash | the synthesis gate |
| Testbench, `tb/eisa_h/` | a scoreboard | drives 1,040 transactions | the unit, before and after synthesis |
| Gates, `scripts/gate_zd_pair_*.sh` | a temporary directory, an artifact directory | run tools under timeouts, check logs, seal artifacts; exit 0, 1 or 42 (blocked) | Yosys, Icarus, the validators |
| Partition emission gate and drivers, `scripts/gate_zd_pair_formal_partition_emit.sh`, `tools/eisa_h/generate_state_partition_recipes.py` | process ids, logs, CNF files, bundle | spawn four drivers, wait, inspect, archive, seal | four concurrent Yosys processes |
| Slurm dispatch, `scripts/slurm/run_zd_pair_synth.sh` | OUT_DIR at home; the tree `/tmp/zdtool` and its lock on the node | claim a directory, package, submit, work, collect, validate | Slurm, the gates, the result validator |
| Result validator, `tools/eisa_h/validate_slurm_result.py` | none | classify a receipt as pass, blocked or failed | called by the launcher |
| Receipt validators, log normaliser | none | compare receipts with manifests | called by the gates |
| PIREUS operator atlas, `tools/eisa_h/pireus_operator_atlas_oracle.py` | a basis, a union-find forest | reduce, admit matrices, merge, number classes, classify a code | the admission oracle calls it |
| PIREUS admission, cross-engine, wire, patch oracles, `tools/eisa_h/pireus_*` | a parser's position; otherwise none | judge a receipt, a recording of receipts, a proposal document, a patch | an engine elsewhere writes what they judge |
| PIREUS parity: the probe `src/eisa_h/pireus_operator_self_parity.cpp` and two oracles | none | compute an operator by two derivations, print a receipt; judge receipts | probe to oracle through a receipt |
| Contract harness: `main`, `load_and_run`, `mutation_selftest` of each oracle | the number of mutations caught | check the committed documents, try mutations, write receipts, print PASS | contract gates, committed JSON files |

### What is hard about it

* **Time.** The unit works for 256 clocks on latched operands while its inputs
  move, `start` may come at any clock, and reset at any instant. One register
  (`classification`) is stale between an admission and the answer.
* **Arithmetic.** Lanes are words of fixed width; the unit relies on the
  validation bound and the support limit to never wrap. The signs come from a
  literal in which bit order, index order and convention could each be reversed.
* **Sharing.** All jobs of a node use one tree under one lock. The lock is a
  file descriptor that every process of a gate inherits, so it outlives the
  shell; jobs are killed at any step and leave their tree behind.
* **Evidence.** A receipt travels as one line of output, which can be missing or
  cut short. The validator compares the commit and the gate, never the launch.
* **Processes.** The emission gate runs four drivers at once. Any of them, or
  the gate itself, can be killed; a dump can stop short without an error.
* **Verdicts.** Nested timeouts and ordered ladders of checks decide between
  pass, failure and blocked; the order is part of the contract.
* **Claims about claims.** A receipt states one fact several times; an edit of
  one statement must collide with another. A self-test counts exceptions, and
  cannot tell the exception it wanted from another one.
* **Algebra computed greedily.** The atlas decides membership in a space by a
  reduction that is right only for a sorted basis, and merges orbits in a forest
  that its searches rewrite.

### What makes each component correct

* Unit: an answer is the oracle's answer to the request it belongs to, announced
  by one pulse; no request is taken while another is worked on; an admitted
  request not discarded by reset is answered; sums never wrap.
* ROM, recursion, algebra: one and the same sign table, that of the doubled algebra.
* Dispatch: no job sees another job's tree; a launch passes only on the
  receipt of its own gate; 42 stays 42; every launch ends.
* Emission gate: a pass seals every partition whole; drivers are waited for.
* Formal and synthesis gates: no marker is printed that was not earned; a clock
  that runs out is blocked, never a pass; the formal gate never passes; evidence
  is kept however an obligation ends.
* Atlas: the admitted matrices are those whose action is a gauge, classes are orbits.
* Admission: a receipt is accepted iff it is what an honest engine writes; a
  refusal names every fault of the outermost layer; the verdict does not depend
  on the choice of gauge.
* Cross-engine: a match binds every receipt to the proposal it answers and to the one
  context recorded.
* Wire parser: the language of the second version extends that of the first by one
  key; a document is admissible iff it gives each mandatory key of its kind once and
  no other, with a phase in range; every value has one encoding.
* Parity: a sound probe passes, a defective one does not, also after edits.
* Harness: PASS lines and receipts speak of documents no check objects to.

## 2. The modules

| module | models | about |
|---|---|---|
| `CayleyDickson` | `cd_sigma`, the ROM literal, index exclusive or | three independent definitions of the algebra's signs; recursive functions of one argument, so that they can be reasoned about |
| `ZdPairOracle` | `operand_error`, `multiply`, `evaluate` | the oracle's verdict on a pair |
| `ZdPair` | the whole RTL module | one action per branch of the clocked process |
| `ZdService` | - | abstract: what the unit promises its surroundings |
| `ZdPairRefinement` | - | the unit against oracle, service and algebra; the ROM it assumes |
| `BasisTable` | `basis_table_bytes`, `check_basis_rom.py` | the table cell by cell |
| `SlurmDispatch` | launcher, worker, result validator | one action per step of either script |
| `GateService` | - | abstract: what dispatching a gate promises |
| `PartitionEmit` | the emission gate and its drivers | one action per step of either |
| `GateScript` | what gate scripts share | `set -e`, timed steps, 42 |
| `SynthGate`, `FormalGate` | the two gates of these names with the gates and validators they call | one action per step |
| `Gates` | the worker's choice of a gate | composes the two; one runs per job |
| `PhaseAlgebra`, `GaugeSpace` | codes, forms, matrices and the action of the atlas oracle | pure definitions, with orbits and gauge membership by definition |
| `OperatorAtlas` | `_build_atlas_uncached` | the loops, step by step |
| `UnionFind` | its merge loop | abstract: merging any pairs, in any order |
| `OperatorAdmission` | `evaluate`, `canonical_receipt` | an engine, edits, the layers of obligations |
| `CrossEngine` | `check_case`, `verify` | a recording, edits, the checks |
| `ProposalWire` | `parse`, `admissible` in both versions | two parsers read one document |
| `MaterialParity` | `parse_receipt`, `classify`, `evaluate` | a producer, edits, the ladder |
| `SelfParityOracle`, `SelfParity` | the C++ probe and `evaluate` | a probe that may have a defect, edits, the obligations |
| `ContractHarness`, `ContractSuites` | the frame of all eight oracles; their lists of checks and mutations | a run with a check lost and a document wrong |
| `*Proof` (eight) | - | theorems |
| `MC*` (eight) | - | instances for TLC |

### The unit

`ZdPair` has a variable for every register, with the register's name. A step is
a rising clock edge, or an edge of the asynchronous reset. The arms of the
clocked process are `Refuse` and `Admit` (both through `Latch`, the part of
`start && ready` they share), `Mac`, `Finalize` and `Idle`; `done <= 0`, the
default at the head of the process, is part of each. `AssertReset` and
`ReleaseReset` are the reset input. `start` and the operands are existentially
chosen at every edge. Lane registers hold words of `-Half .. Half-1`; `Wrap` is
what a register keeps of a sum or product. Number of lanes, width, limit, sign
table and the set of operand pairs are constants.

`ZdService` has four variables and knows nothing of cycles. The refinement maps
`pending` to the latched operands from admission to answer, `answer` to the
outputs, `announced` to `done`. The oracle gives the answers, so
`ImplementsService` says at once that hardware and oracle agree, that the
handshake is respected, and, with fairness, that answers come. What both sides share is
an assumption of the module, `RomAssumption`: cell by cell, the unit's sign ROM and lane
selection are those of the oracle's recursion. `check_basis_rom.py` and the contract gate
establish it in the repository; TLC evaluates it here, on the literal of the source.
`NoRequestAssumption` says that the mark for "no request" is none of the requests.

Port wiring (`lane_wiring`) is the identity on lanes and is not a variable.

### The dispatch

`launcher[l]` and `worker[l]` are the positions of the two scripts of launch
`l`; `tree[n]` is `/tmp/zdtool` on node `n`: whose payload is unpacked, whose
request was copied into the result, `gate.rc`, whether the gate's evidence is
complete, which launches' gates wrote into the result, and whether `SHA256SUMS`
still describes it. `locks` holds, for each launch, which of its shell and its
gate's processes have descriptor 9 open. `Lock` needs a node nobody holds;
`Leave` closes the shell's descriptor and perhaps not the gate's; `GateWrites`
is possible as long as a process of the gate lives, also after the shell is
gone; a gate that returns 0 leaves none (which `PartitionEmit` supports for
the one gate with parallel children), any other may. `Kill` is Slurm's time
limit, `scancel` or a crash of the job; `Reap` ends what it left.

A payload is identified with the launch that made it, so that the three digest
comparisons of `Unpack` are the distinction between a payload and a damaged
one; `Reject` covers the latter. `Withhold` covers all preflight checks
(blocked) and a failing copy (`set -e`). `Classify` is the validator's ladder.

### The emission gate

`step` and `next` are the position in the script's three loops, `driver[p]` the
stage of each Yosys process; `cnf` and `log` are the files it writes, `archive`
and `bundle` what the script makes of them. `CloseDump` may leave a partial
CNF, which is what a full disk does to it. `Wait` takes the drivers in the order
of the array, whatever order they end in, and remembers a failure. `Stop` is
`set -e`: the script ends with the status of the command that failed, which is any of
`Statuses` (`xargs` reports 123, `gzip` 2, the surface gate passes on its own). The type
invariant therefore promises nothing about the exit code beyond that.

A behaviour worth knowing, found while modelling: if `mkdir` fails in the spawn
loop (line 26) the script ends with the drivers spawned so far still running.
`NoOrphans` is therefore stated for scripts that spawned all their drivers, and
`SlurmDispatch` lets every gate that fails leave processes behind.

### The gates

`GateScript` holds the position of a script, its exit code, whether a clock ran
out, and the markers printed; both gates extend it. A test that fails under
`set -e` is the other arm of `Require`. In `SynthGate` an artifact is the one the receipts
pin or another one, so that a comparison of hashes is equality; a simulation log
is its text and its `$finish` lines, which name a path and are removed by the
normaliser, one exactly. One committed file may have been edited: the ROM or either
manifest. The nested contract gate writes the sign table cell by cell (`BasisTable`).
In `FormalGate` the process of an obligation writes sections of a log and a CNF;
`WallClock` may end it anywhere and keeps only a prefix of the log; the solver
has a clock of its own. `Keep` is `persist_obligation`: under `set -e` it can itself
end the gate. `code[o]`, `log[o]` and `cnf[o]` are looked at in the order of the script.

`TimeIsBlocked` has an exception that was found by stating it without: when the
solver's own clock runs out (exit code 1) and the CNF is cut short, the gate
looks at the CNF first and fails; likewise a log that lacks its geometry. Both
are failures, not passes.

Printing the last marker and exiting are one step of the synthesis gate: a kill between
them leaves an earned marker beside exit code 137. `TimedOut` counts 137 as a clock that
ran out, as the gates do, although another killer gives the same code.

### The atlas and the algebra

A code is the set of its one bits, a vector over the cells of the sign table a
set of cells, so that exclusive or is symmetric difference. `OperatorAtlas` has an
action for each turn of each loop: `SpanStep`, `ActionStep`, and for the merge
`Take`, `HalveLeft`, `HalveRight`, `Link`, so that path halving is modelled with
its intermediate states. `GaugeSpace` states the same things without computing:
a change of signs is a gauge if it is bilinear up to a coboundary, orbits are
what can be reached. `MergesOrbits` is the refinement: the merge loop implements
`UnionFind`, which merges pairs in any order.

### Receipts and those who edit them

`OperatorAdmission`, `CrossEngine`, `MaterialParity` and `SelfParity` have one shape:
an honest producer writes a document, fields of it are altered, dropped or added,
and the oracle evaluates it. Values carry the type their text reads as, so that
type checks are modelled. The oracles' own code is in `Layers`/`Faults`,
`CaseFault`, `Ladder`/`Faulty` and `Reasons`; what the values should be is computed
from the algebra, as the oracles do, and not copied from the receipt. The layers of
`OperatorAdmission` may be evaluated only in order, since a later one uses fields an
earlier one checked; it is one layer per step. The probe's operands are generic: two
lanes are bit-equal iff they add the same signed products in the same order.

What a recording of `CrossEngine` says for all its cases, the context, its digest and the
digest of the base tensor, is a record of its own (`common`), and is tampered with like a
case. `Start` and `Conclude` are what `verify` compares before and after the cases, in its
order.

The probe's `main` refuses a stride that is even or out of range, and takes any `int` as
offset. `Printed` follows it: an offset beyond the lanes is reduced and measured rightly; a
negative one makes remainders negative and indexes arrays out of range, and one near
`INT_MAX` overflows, so that any lanes may be found to disagree (`Stray`). To give an offset
that is a lane is the duty of the caller, which the contract gate meets and the oracle
enforces: it refuses the PASS of a sound probe under any other (`LANE_OFFSET`).

### The wire parser

Characters are classes; a quoted name is one symbol. `Step` is the parser as a
function of a state and a symbol, `parser` holds one state per version, and both
read every symbol: `ExtensionIsConservative` compares them at every prefix. White
space is where the source calls `skip`, and nowhere else. Digits are kept as read
(`numeral`) beside the number accumulated from them (`value`), which is what the source
stores; `Canonical` writes a natural number in digits, so that `OneEncoding` compares what
was read with what the stored number would be written as.

### The contract harness

The eight oracles have one frame with two orders of self-test and baseline. A
suite is the list of checks of its `load_and_run` in their order and the list of
its mutations, each as the set of checks that object to it. `lost` is a check that
an edit of the oracle removed, `wrong` a fault of the committed documents, `fresh`
one of a measured receipt, `inert` a mutation whose text is no longer there to be replaced.
Where an oracle guards against the last (the patch oracle's "changed nothing", the assertions
of the cross-engine oracle), `StopInert` ends the run; elsewhere the copy is tried
unchanged. `LossIsNoticed` makes exact which checks the self-tests
hold in place, `ContractHarness!Guarded`: those that alone object to some mutation. The others
can be deleted from their oracle and the gate still passes, because no mutation is aimed
at them or because the mutation that is trips another check as well.
`MCContractHarness!Held` lists the guarded checks of the eight suites by name, and TLC
checks the list (`HeldAssumption`).

### Where documents and code differ

Noted while modelling; the models follow the code.

* `spec/eisa_h/pireus_material_parity_v1.json:49` speaks of timing fields being
  refused; `pireus_material_parity_oracle.py:140` refuses keys that hold one of
  a few substrings, and `timing_ns` is not among them.
* `vectors/eisa_h/pireus_proposal_wire_v1.json:35` explains one refusal by the
  number of keys; the parser refuses the document for its unknown key (line 100).
* The docstring of `pireus_admission_patch_oracle.py` (lines 11-12) calls the
  patch pinned to its base; `evaluate` (line 48) looks at its text only.

## 3. The runs

| run | instance | shows |
|---|---|---|
| `zd_pair_4` | 4 lanes, 8-bit words, limit 5; every pair of operands with one or two units, up to the sign of each operand, and every boundary of validation on either side and on both | `TypeOK`, `Ledger` |
| `zd_pair_16` | 16 lanes, the ROM of the source, 8-bit words; the testbench's named cases, both orders of the zero-divisor pair, every validation boundary, and requests spread over the ROM | `ProductIsCayleyDickson`, `VerdictExact`, `ZeroFlagSound`, `ImplementsService`, `DoneFalls` |
| `gates` | both gates with every failing step, timeout and kill; all 256 cells of the sign table; one edited file at most | `RomMatchesRecursion`, `SignsAreDoubling`, `MarkersAreEarned`, `TimeIsBlocked`, `EvidenceKept` |
| `slurm_dispatch` | three launches of one gate and commit, one node, two of them with the same OUT_DIR; gates that end with 0, 1, 42 and 137 | `TypeOK`, `OwnTree`, `OwnReceipt`, `ImplementsGateService` |
| `partition_emit` | the four partitions in the script's order; commands that fail with 1, 2, 123 or 137 | `EmitTypeOK`, `PassIsComplete`, `NoOrphans`, `GateEnds` |
| `operator_atlas` | three bits: 8 lanes, 512 matrices, 64 keys | `AdmittedAreGauge`, `ClassesAreOrbits`, `Terminates`, `MergesOrbits` |
| `operator_admission` | two bits; receipts about three codes, edited in up to two fields | `AcceptedIsHonest`, `RefusalIsComplete`, `VerdictIsGaugeInvariant` |
| `cross_engine` | two bits; three recorded cases, two edits of a case or of what is common to all | `MatchBinds`, `LateErrorsAreExcluded` |
| `material_parity` | dimension two, every measurement, two edits of lines | `TwoEditsForgeNoParity`, `OneEditNeverFlips` |
| `self_parity` | sixteen lanes, the six configurations of the contract gate and offsets beyond the lanes, negative and overflowing, six kinds of probe, edits of two fields | `SoundProbePasses`, `OneEditForgesNoPass` |
| `proposal_wire` | three keys and the added one, base 3, two digits, two hexadecimal digits | `CountIsSeen`, `ExtensionIsConservative`, `AdmissibleIsExact`, `OneEncoding` |
| `contract_harness` | all eight suites; any one check lost, any one document wrong, any one mutation inert, any measured receipts | `EvidenceIsSound`, `MutationsBite`, `LossIsNoticed` |

**Bounds.** Four lanes are the quaternions and the leading corner of the ROM;
with them every admissible pair is within reach, and a sign of an operand as a
whole only negates the product. Limit 5 with 8-bit words is to them what
1,518,500,249 is to 64 bits: the largest magnitude whose products can be added
four times without a wrap. The request after the current one is chosen freely,
so any two requests follow each other, with resets anywhere. Sixteen lanes make
a computation 256 steps long; the requests are few but touch rows at the beginning,
middle and end of the ROM, every class of verdict and the zero divisors, and `gates` covers
the signs completely. For the dispatch, three launches are the least with both
a collision of directories and a stranger on the node; one node is where trees
are shared, and commit and gate are equal because unequal ones are told apart by
the validator.

Three bits are the least with a lane of three ones, whose coboundary is not
bilinear: below, the gauge space is the bilinear forms and the reduction has
nothing to decide. Two bits suffice for admission: there are novel codes, codes that
differ by an alternating form, even and odd strides. `MaxTampers` and `MaxEdits`
bound the number of altered fields (2): enough for an edit that hides another;
two is also what `TwoEditsForgeNoParity` is about (its theorem allows any number of
edits and shows that three are needed), and one more than `OneEditForgesNoPass` is. Dimension two has lanes that match beside lanes that do not. Base 3 with two
digits has zero, a leading zero, a digit that is neither, and one digit too many;
three keys have the kind, the context and a key that a proposal may not carry. The
documents of the wire parser are of any length: its state is finite. At most one lost check,
one fault of the documents and one inert mutation are what a self-test is about. The
`Statuses` of commands that fail are data: no step looks at them. Undefined behaviour of the
probe is sampled (no lane or one disagrees), which is all the oracle's tests tell apart; its
theorem is for any `Stray`. Three texts and four `$finish` shapes are all a log can do to the
normaliser and the validator: expected, more than expected, not there; none, one, another
one, two.

The properties most sensitive to the number of launches, nodes, lanes,
partitions, keys, checks, bits, edits or elements are proved for all of them.

**Stopping.** All programs but the unit end; deadlock is not checked there, and
where ending matters a liveness property says so. The unit never stops, and its
runs check for deadlock.

**Fairness.** The clock of the unit runs freely: weak fairness of a clock edge while
a request is under way or `done` is up, and nothing about `start` or reset. A launcher takes its steps as
long as it can, and Slurm enforces the time limit of a submitted job; nothing is
assumed of the worker, the lock or the gate. The emission gate and its drivers
are processes that run; a driver's solver has a timeout of one second. The merge
loop of the atlas is a sequential program that goes on while it can
(`WF_atlasVars(Merge)`): `Terminates` says that path halving does not run in a circle.
The other models need no fairness: nothing is claimed of them but safety.

## 4. The theorems

Each proof follows one pattern: a strengthening of the invariant, named parts
of which are shown to hold initially and to be preserved action by action.

* `ZdPairProof`, for every number of lanes, every word range wider than -4..4, every
  limit, sign table and set of requests. `PhaseInv` says which of busy and finalize
  go with which positions of the indices, `FlightInv` that operands under way
  passed validation, `FlagInv` what the verdict registers hold between requests.
  The core is the ledger: retiring a pair moves one term from the pairs still to
  come into the balance of one lane, and a lane's balance is bounded because the
  nonzero terms are pairs of at most two by at most two lanes. So at most four
  terms of magnitude one meet in a lane, nothing wraps, and at the last pair the
  balance is the exact product. Theorems: `TypeCorrect`, `LedgerHolds`,
  `VerdictIsExact`, `ZeroFlagIsSound`.

  Under `RomAssumption`, with 1 to 16 lanes, two theorems compare the unit with what it
  should compute, for all operand pairs and not only the requests of a run:

  * `UnitIsService`: every step of the unit is a step of `ZdService` or a stutter. The
    oracle adds up a sequence of signed terms, the unit counts the terms of either sign in
    a lane; `Tally` relates the two, term by term, since a sum over at most four nonzero
    terms can be unrolled (`TotalIsTally`). `RefusedIsScreened` shows that validation on
    either side names the same rule, `RequestInv` that the latched operands are a request.
  * `ProductIsDoubling`: the announced product is the product by the doubling formula.
    `Levels` gives the formula one dimension at a time; each level is bilinear
    (`DoublingBilinear`), and multiplies basis elements as `cd_sigma` and the exclusive or
    of indices say (`DoublingBasis`, from `SigmaHalves` and `XorHalves`). An admitted
    operand is the sum of one or two signed basis elements (`OneOrTwo`), so products of
    operands are sums of at most four products of basis elements (`AgreeUnion`), which is
    the balance of the ledger (`DoublingIsExact`).

* `SlurmDispatchProof`, for any launches, nodes, directories and outcomes.
  `Locks` says that all holders on a node belong to one launch and that a
  shell past the lock is one of them; `Trees` follows a tree from the wipe; `Lines`
  and `Directories` carry what was sealed to the output directory; `Passes`
  keeps it there because a directory was claimed by one launch. Without `Locks`
  the statement about trees is not inductive: an orphan of another launch could
  write at any time. Theorems: `DispatchTypes`, `TreeIsOwn`, `ReceiptIsOwn`,
  `DispatchIsService` (steps of the dispatch are steps of `GateService`).
* `OperatorAtlasProof`, for one to four bits. The first part is about `PhaseAlgebra` and
  `GaugeSpace`, and also serves `OperatorAdmissionProof` and `SelfParityProof`.

  * *The gauge space.* Numbers, codes and vectors are sets of ones under symmetric
    difference; a form is additive in both operands and in its code (`FormAdds`), and what
    agrees with a form at the unit vectors and is additive is that form. `IsGauge` is defined by
    a function on lanes of three ones and more; it is shown to mean a form up to the coboundary
    of any function (`GaugeIsSpanned`, `GaugeIsMember`), because the values on lanes of one and
    two ones can be interpolated by a quadratic function, whose coboundary is bilinear. So
    gauges are closed under symmetric difference, and a gauge map sends quadratic forms to
    quadratic forms: it permutes the keys (`MovedIsKey`).
  * *Orbits* are computed by a number of rounds of growth. The rounds suffice, since a
    strictly growing subset of the keys has grown as often as it has members; hence an
    orbit is the least closed set with its key (`OrbitIsClosed`, `OrbitIsLeast`), and, gauge maps
    being permutations of a finite set, orbits are the classes of an equivalence
    (`OrbitsAreClasses`).
  * *The reduction.* `Spanning` is the inductive invariant of the first loop: the basis is
    sorted by leading bit, strictly, and a basis (`IsBasis`) of a space of gauges that holds
    the generators dealt with: every leading bit in the space is one of the basis. A vector
    of the space and no other is reduced to nothing (`ReducesToNothing`); a remainder has none
    of the leading bits, so inserting it keeps the basis sorted, and of a larger space
    (`InsertKeepsBasis`). Sortedness is what makes one pass of `min(v, v ^ b)` enough:
    without it a later exclusive or could bring back a leading bit that was cleared before.
    The generators generate all gauges (`GeneratorsSpan`), so in the end the space is
    theirs, and `Admitting` says which maps the second loop has let through. Theorem:
    `AdmittedIsGauge`.
  * *Merging.* No key looked up is unknown (`Typed`); each step of the loop is one of
    `UnionFind` or leaves the forest alone, and merging in any order keeps parent
    pointers and searches inside orbits (`Forest`, `OrbitsAreSame`). Theorems:
    `ClassesStayInside`, `MergingIsInOrbits`.
  * *Classes.* That orbits are merged entirely needs more: `Grouped` gives each key a root and
    a depth that falls along parent pointers (`Trees`: no cycles, `Root` is defined), and says
    that the ends of every pair taken so far have one root, or are being searched for
    (`Together`). At the end all pairs are taken, so trees are closed under gauge maps, and with
    `Forest` they are the orbits. The quadratic code tells keys apart (`BitsApart`: the code's
    bits have places of their own), so that orbits have different least codes and the
    numbering by rank gives different orbits different numbers. Theorem: `ClassesAreRight`.
* `OperatorAdmissionProof`, for one to four bits, any codes described, any lane maps and
  any amount of tampering. The state invariant is small (`IInv`: values carry a type, and
  the layers passed found nothing); the work is about what is recomputed.
  A code is read back from its number (`CodeOfNumber`, `NumberOfCode`: the sixteen bits are
  taken apart one by one). Codes with one quadratic code differ by an alternating form,
  hence by the coboundary of a function on lanes (`GaugeClass`), which leaves each of the
  eight invariants as it is (`InvariantsAreGauge`). An odd stride permutes the lanes (`OddStridePermutes`), so that
  every coefficient is hit exactly once and no receipt with an odd stride has tensor
  failures (`OddStrideNeverFails`). Then evaluation succeeds iff every obligation is met,
  and obligations are met iff the receipt is the recomputed one. Theorems:
  `OnlyTheTruthPasses`, `RepairSuffices`, `VerdictSeesGauge`.
* `SelfParityProof`, for eight and sixteen lanes, every code, odd stride and `int` as offset. A
  lane map that is defined, with an odd stride, is a permutation (`OddStridePermutes`, shared with the admission proof), so
  loading what is stored gives the lane itself, and the lane before when the store map is one
  ahead (`StoreUndoes`). So the lowered path adds up the reference's terms (`LoweredIs`), with a
  flipped cell differs in one lane, with shifted operands in all, and without the twist in some
  lane iff the code is not zero. A sound probe passes (`SoundIsPassed`), and is
  accepted iff its offset is a lane; what is printed for any other offset is refused until the
  offset is edited. A probe
  with a defect either disagrees, or one of its controls is silent, in fields that are not the
  result (`DefectsFail`, `FailureShows`). The oracle derives the verdict from those fields again,
  so a forger has to alter the result and what gives it away, two fields. `IInv` says that a
  field not edited is as it was measured. Theorems: `SoundProbesPass`, `NoEditForgesPass`.
* `HarnessProof`, on `PartitionEmit` for any non-empty list of distinct partitions.
  `Loops` says what the positions before `next` have in common in each of the three
  loops; the rest is that a driver that ended is still. `EmitTypes` says that no loop
  runs past the array and that drivers and files stay in their ranges. Theorems:
  `EmitTypes`, `EmitIsComplete`, `EmitLeavesNoOrphans`.

  On `ContractHarness` for any suites that meet `SuiteAssumption` and
  `PlanAssumption`. `IInv` adds to the types: checks passed in the current run did
  not object (`Held`), every mutation counted was rejected by a check that remains
  (`Counted`), stages behind did their work (`Done`). A mutation may be rejected
  because the document was wrong before; that this cannot lead to a PASS follows
  only with the baseline run, which is where `Done` is needed. For `LossNoticed`
  the other direction is added: a run over sound documents that failed has met a mutation
  that only the lost check would have caught, or an inert one (`Blame`). Theorems:
  `TypeCorrect`, `EvidenceSound`, `MutationsDoBite`, `LossNoticed`.
* `ProposalWireProof`, for any keys, bounds and documents. `Good` relates,
  mode by mode, keys seen, members counted, values stored and the context; one
  lemma per function of the parser, one for `Step`. `OneKeyMore` follows the two parsers
  through a symbol: from equal states they part only over the added key or over the bound.
  `AdmissionExact` reads the mask key by key, and has the phase's range from the test that
  `admissible` makes of it. `NumbersAreCanonical` relates numeral and value digit by digit (`Encoded`): appending a
  digit to a number without leading zero is what `Canonical` does one digit on. Theorems:
  `TypeCorrect`, `CountCorrect`, `AdmissionExact`, `OneKeyMore`, `NumbersAreCanonical`.
* `AdmissionReceiptsProof`, on `CrossEngine` for one to four bits, any codes recorded, any counts
  declared and any amount of tampering. `Judged` says that results are returned in the
  order of the cases and only for a case without a fault, that a match has looked at all
  of them, and that context and base digest were found to be the recorded ones; the cases are fixed once the run begins. Equal tensors
  belong to equal codes because each code is read back from its tensor's cells at
  powers of two (`CodeIsRecovered`, what `exhaustive_injectivity` of the oracle tries for
  all 65,536 codes); the algebra is not needed.
  From the same invariant, each result's tensor is that of its own code, which leaves
  nothing for the comparisons after the loop to find. Theorems: `CodeIsRecovered`,
  `MatchDoesBind`, `LateErrorsNeverCome`.

  On `MaterialParity` for every dimension, every measurement and any number of edits.
  A receipt is accepted for a failed measurement only if three of the six lines that bind
  each other (`Binding`: dimension, the partner's cells and failures, the number of mismatching
  lanes and the first of them, the result) have been lost (`ThreeAreLost`), and an edit
  loses one line at most (`OneLost`, which the invariant `ParityIInv` counts). One edit
  changes one field (`OneField`), and the verdict hangs on the result and on counts that have
  to agree with it: whichever field is not edited keeps the verdict (`NoFlip`).
  Theorems: `NoForgedParity`, `NoFlippedVerdict`.

**Recursion.** Nothing here uses an induction theorem over data. What is recursive is
either bounded and unrolled (dimensions 1 to 16, at most four nonzero terms, sixteen bits
of a code), or a statement about all naturals that follows from the least number for which
it fails (`WFMin`: in `ProposalWireProof` for `Canonical`, in `OperatorAtlasProof` for
reduction, orbits and roots).

**Assumptions** are those the modules declare on their constants: shape of the sign
table, width, requests that are operands of the port's shape, distinctness of
markers, lane maps of receipts about operators that name lanes, mutations that some check objects to, `BitsAssumption`
(lanes have one to four bits, sixteen lanes being the repository's size), and, for the two
theorems about the pair oracle, `RomAssumption`; for the parity probe, arguments for which
its `main` measures (it checks the stride; the offset is any `int`, of at least 16 bits), and a
table that has the cell its sign control flips (`ConfigsAssumption`, hence eight lanes or
sixteen); statuses of failed commands that are no success (`StatusesAssumption`). All of them are evaluated by
TLC in the runs, `RomAssumption` on the 256 bits of the source.

**Only model-checked:**

* Liveness: `DoneFalls`, `GateEnds`, `Terminates`, and the fairness parts of
  `ImplementsService` and `ImplementsGateService`. Liveness under fairness and ENABLED are
  beyond the prover.
* The gates: `MarkersAreEarned`, `TimeIsBlocked`, `EvidenceKept`. `Gates` has no constants,
  so its run covers the model completely and a theorem would say no more.
  `RomMatchesRecursion` and `SignsAreDoubling` are about 256 given bits, which TLC reads;
  that recursion and doubling agree in every dimension is `DoublingBasis`.

## 5. Not modelled

* What committed documents say: the suites of the harness know which check
  objects to what, not the texts compared.
* Yosys and Icarus, and what their outputs mean; the recipes. What may happen to
  their processes is.
* The contents of a partition bundle and the parsing of checksum files; a
  receipt is complete or not, still sealed or not.
* The partition generator's recipes and the partition surface gate: one step of
  `PartitionEmit`. The surface gate's spawn loop runs `bash -n` under `set -e`
  between two spawns (line 61), with the consequence described above for line 26
  of the emission gate.
* The rules of the admission patch oracle about lines of a patch.
* The contract gates of the PIREUS oracles: each runs an oracle twice and compares
  the receipts. Files that change between the two runs are therefore not covered.
* The RTL gate's mutated sources; the testbench; the CI workflow and its contract tests.
* Registers of the unit before the first reset. The model begins in reset, as the
  testbench does.
* Death of the launcher itself, which leaves no verdict to be wrong about.
* Floating-point rounding in the parity probes: equal terms in equal order are
  equal sums, whatever the rounding.

## 6. Plan

Done, in this order: the unit against its oracle and service, the dispatch, the
emission gate; the algebra, atlas and admission; cross-engine, parities, parser; the
harness; the formal and synthesis gates; then the theorems of admission, cross-engine,
parser and harness, those of the unit against service and doubling formula, and those of
material parity, self parity and the atlas. Next, most useful first:

1. The outcomes that `SlurmDispatch` assumes of a gate, derived from `Gates` and
   `PartitionEmit`; the surface gate's spawn loop with them.
2. `AdmissionPatch`: lines, hunks and the heads that are skipped in a body.
3. `PartitionRecipes`: disjointness and exact union; the bundle semantics of the
   validator against what the emission gate seals.
4. The unit before its first reset, as a second initial predicate.
