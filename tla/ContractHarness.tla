-------------------------- MODULE ContractHarness --------------------------
(***************************************************************************)
(* One run of a contract oracle of tools/eisa_h: main, mutation_selftest   *)
(* and load_and_run.  A run of load_and_run makes the checks of its suite  *)
(* one after another and raises at the first that objects.  The self-test  *)
(* runs it on mutated documents, where raising is what counts; the         *)
(* baseline run, on the documents as they are.                             *)
(*                                                                         *)
(* The oracle may have lost checks (a guard deleted or made vacuous by an  *)
(* edit), the documents may be wrong, and a text that a mutation replaces  *)
(* may have gone from its document: what does a PASS still mean?           *)
(***************************************************************************)
EXTENDS Naturals, Sequences

CONSTANTS Suite,      \* the suites, by name
          Of          \* their records: plans, stops, measured, checks, mutations, texts, guards

Stage == {"mutate", "baseline", "write", "print"}
CheckOf(s) == {Of[s].checks[n] : n \in DOMAIN Of[s].checks}

ASSUME SuiteAssumption ==
  \A s \in Suite :
    /\ Of[s].plan \in Seq(Stage) /\ Of[s].plain \in Seq(Stage)
    /\ Of[s].stops \in BOOLEAN
    /\ Of[s].checks \in Seq(CheckOf(s)) /\ Of[s].checks # <<>>
    /\ Of[s].measured \subseteq CheckOf(s)
    /\ Of[s].mutations \in Seq((SUBSET CheckOf(s)) \ {{}}) /\ Of[s].mutations # <<>>
    /\ Of[s].texts \subseteq DOMAIN Of[s].mutations /\ Of[s].guards \subseteq Of[s].texts

\* Nothing is written or printed before the baseline run, nor, where the
\* PASS line is printed, before the self-test.
Comes(plan, first, then) ==
  \A n \in 1 .. Len(plan) : plan[n] = then => \E m \in 1 .. n - 1 : plan[m] = first

ASSUME PlanAssumption ==
  \A s \in Suite : \A plan \in {Of[s].plan, Of[s].plain} :
    /\ Comes(plan, "baseline", "write")
    /\ Comes(plan, "baseline", "print")
    /\ Comes(plan, "mutate", "print")

VARIABLES
  suite,
  selftest,   \* was the run asked for a self-test?
  lost,       \* checks that no longer object
  wrong,      \* checks that should object to the committed documents
  fresh,      \* checks that should object to the measured receipts
  inert,      \* mutations that find nothing to replace
  step,       \* place in the plan; one more than its length at the end
  turn,       \* mutation that is tried
  at,         \* check that is made
  caught,
  outcome     \* running, exit 0, or an exception's exit 1, or killed

oracle == <<suite, selftest, lost, wrong, fresh, inert>>
vars == <<oracle, step, turn, at, caught, outcome>>

Plan == IF selftest THEN Of[suite].plan ELSE Of[suite].plain
Checks == Of[suite].checks
Mutations == Of[suite].mutations

Init ==
  /\ suite \in Suite
  /\ selftest \in BOOLEAN
  /\ lost \in {{}} \cup {{c} : c \in CheckOf(suite)}
  /\ wrong \in {{}} \cup {{c} : c \in CheckOf(suite)}
  /\ fresh \in SUBSET Of[suite].measured
  /\ inert \in {{}} \cup {{n} : n \in Of[suite].texts}
  /\ step = 1
  /\ turn = 1
  /\ at = 1
  /\ caught = 0
  /\ outcome = "running"

-----------------------------------------------------------------------------
In(stage) == outcome = "running" /\ step <= Len(Plan) /\ Plan[step] = stage

Effect(n) == IF n \in inert THEN {} ELSE Mutations[n]

\* A mutated copy keeps whatever is wrong with the document it was made of.
Faults == IF Plan[step] = "mutate" THEN wrong \cup Effect(turn) ELSE wrong \cup fresh
Objects(check) == check \in Faults \ lost

\* A mutated copy is there, and is tried.
Trying == In("mutate") /\ turn <= Len(Mutations) /\ turn \notin inert \cap Of[suite].guards
Running == In("baseline") \/ Trying

\* load_and_run: a check that does not object.
Hold ==
  /\ Running
  /\ at <= Len(Checks)
  /\ ~Objects(Checks[at])
  /\ at' = at + 1
  /\ UNCHANGED <<oracle, step, turn, caught, outcome>>

\* Mutant: an exception of the baseline run is swallowed.
RaiseSwallowed ==
  /\ In("baseline")
  /\ at <= Len(Checks)
  /\ Objects(Checks[at])
  /\ at' = at + 1
  /\ UNCHANGED <<oracle, step, turn, caught, outcome>>

\* A check of the baseline run raises: the program ends with a traceback.
Raise ==
  /\ In("baseline")
  /\ at <= Len(Checks)
  /\ Objects(Checks[at])
  /\ outcome' = "failed"
  /\ UNCHANGED <<oracle, step, turn, at, caught>>

BaselineHolds ==
  /\ In("baseline")
  /\ at > Len(Checks)
  /\ step' = step + 1
  /\ at' = 1
  /\ UNCHANGED <<oracle, turn, caught, outcome>>

\* The mutation finds nothing to replace: SystemExit, or an assertion that nobody catches.
StopInert ==
  /\ In("mutate")
  /\ turn \in inert \cap Of[suite].guards
  /\ outcome' = "failed"
  /\ UNCHANGED <<oracle, step, turn, at, caught>>

\* A check of a mutated run raises: except ... caught += 1.
Catch ==
  /\ Trying
  /\ at <= Len(Checks)
  /\ Objects(Checks[at])
  /\ caught' = caught + 1
  /\ turn' = turn + 1
  /\ at' = 1
  /\ UNCHANGED <<oracle, step, outcome>>

\* Mutant: a mutation that was not rejected is passed over.
MissPassedOver ==
  /\ Trying
  /\ at > Len(Checks)
  /\ turn' = turn + 1
  /\ at' = 1
  /\ UNCHANGED <<oracle, step, caught, outcome>>

\* A mutated run ends well: SystemExit, or the miss shows in the count.
Miss ==
  /\ Trying
  /\ at > Len(Checks)
  /\ IF Of[suite].stops
     THEN outcome' = "failed" /\ UNCHANGED <<turn, at>>
     ELSE turn' = turn + 1 /\ at' = 1 /\ UNCHANGED outcome
  /\ UNCHANGED <<oracle, step, caught>>

\* Mutant: the count is not compared with the number of mutations.
TestedUncounted ==
  /\ In("mutate")
  /\ turn > Len(Mutations)
  /\ step' = step + 1
  /\ UNCHANGED <<oracle, turn, at, caught, outcome>>

\* All mutations were tried; one oracle compares the count, the others need not.
Tested ==
  /\ In("mutate")
  /\ turn > Len(Mutations)
  /\ IF caught # Len(Mutations) /\ ~Of[suite].stops
     THEN outcome' = "failed" /\ UNCHANGED step
     ELSE step' = step + 1 /\ UNCHANGED outcome
  /\ UNCHANGED <<oracle, turn, at, caught>>

\* Receipts are written, or the PASS line is printed.
Write == In("write") /\ step' = step + 1 /\ UNCHANGED <<oracle, turn, at, caught, outcome>>
PrintPass == In("print") /\ step' = step + 1 /\ UNCHANGED <<oracle, turn, at, caught, outcome>>

Exit ==
  /\ outcome = "running"
  /\ step > Len(Plan)
  /\ outcome' = "passed"
  /\ UNCHANGED <<oracle, step, turn, at, caught>>

\* The gate is interrupted, or its job's time is up.
Kill ==
  /\ outcome = "running"
  /\ outcome' = "killed"
  /\ UNCHANGED <<oracle, step, turn, at, caught>>

Program ==
  \/ Hold \/ Raise \/ BaselineHolds
  \/ StopInert \/ Catch \/ Miss \/ Tested
  \/ Write \/ PrintPass \/ Exit
Next == Program \/ Kill

Spec == Init /\ [][Next]_vars

-----------------------------------------------------------------------------
Past(stage) == \E n \in 1 .. step - 1 : n <= Len(Plan) /\ Plan[n] = stage

TypeOK ==
  /\ suite \in Suite
  /\ selftest \in BOOLEAN
  /\ lost \subseteq CheckOf(suite)
  /\ wrong \subseteq CheckOf(suite)
  /\ fresh \subseteq Of[suite].measured
  /\ inert \subseteq 1 .. Len(Mutations)
  /\ step \in 1 .. Len(Plan) + 1
  /\ turn \in 1 .. Len(Mutations) + 1
  /\ at \in 1 .. Len(Checks) + 1
  /\ caught \in 0 .. turn - 1
  /\ outcome \in {"running", "failed", "killed", "passed"}

(***************************************************************************)
(* Receipts on disk and PASS lines speak of documents, and of measured     *)
(* receipts, to which no check objects that the oracle still has: also     *)
(* when the run is killed right after.                                     *)
(***************************************************************************)
EvidenceIsSound == Past("write") \/ Past("print") => wrong \cup fresh \subseteq lost

(***************************************************************************)
(* After a PASS line all mutations have been counted, and every one has    *)
(* changed its document and is one that a check still objects to for its   *)
(* own sake.  A document that was wrong already would have every mutated   *)
(* copy "caught" (the mutated runs are masked), one that no mutation       *)
(* touched too; that such a run cannot pass is due to the baseline run,    *)
(* which in one order comes first and in the other last.                   *)
(***************************************************************************)
MutationsBite ==
  Past("print") =>
    /\ caught = Len(Mutations)
    /\ \A n \in 1 .. Len(Mutations) : n \notin inert /\ Mutations[n] \ lost # {}

(***************************************************************************)
(* What the self-test really holds in place is the checks that are the     *)
(* only ones to object to one of the mutations.  A run that prints PASS    *)
(* has lost none of them, and a run over sound documents fails only if it  *)
(* has lost one, or a mutation is inert ("a contract whose own corruption  *)
(* still passes is decoration").  Any other check can be deleted from its  *)
(* oracle and the gate still passes, either because no mutation is aimed   *)
(* at it or because the mutation aimed at it trips a second check.         *)
(***************************************************************************)
Guarded(s) ==
  {c \in CheckOf(s) : \E n \in 1 .. Len(Of[s].mutations) : Of[s].mutations[n] = {c}}

LossIsNoticed ==
  /\ Past("print") => lost \cap Guarded(suite) = {}
  /\ outcome = "failed" /\ wrong = {} /\ fresh = {} =>
       lost \cap Guarded(suite) # {} \/ inert # {}
=============================================================================
