---------------------------- MODULE HarnessProof ----------------------------
(***************************************************************************)
(* What the exit code 0 of the two harnesses is worth: the gate around the *)
(* four drivers (PartitionEmit), and an oracle's frame around its checks   *)
(* (ContractHarness).  The two do not share any state.                     *)
(*                                                                         *)
(* What a passing emission gate returns is complete, and a gate that could *)
(* spawn its drivers leaves none behind, for any number of partitions.     *)
(* The argument follows the script's loops: what has been passed by `next` *)
(* has been spawned, waited for, or archived.  It rests on a driver that   *)
(* ended touching its files no more.                                       *)
(*                                                                         *)
(* The PASS line of a contract oracle, for any suite: any number of checks *)
(* and mutations, any set of checks lost, anything wrong with the          *)
(* documents, and any plan in which the evidence comes last.  A stage that *)
(* is over leaves a fact behind: the baseline, that no check objects; the  *)
(* self-test, that as many mutations were rejected as tried, hence all.    *)
(* That a mutation was rejected for its own sake follows only from the two *)
(* together.                                                               *)
(***************************************************************************)
EXTENDS PartitionEmit, ContractHarness, SequenceTheorems, TLAPS

-----------------------------------------------------------------------------
(* The emission gate. *)

Positions == 1 .. Len(Order)

\* The files of a partition are as the gate accepted them.
Accepted(p) == archive[p] = "whole" /\ LogComplete(p)

Loops ==
  /\ place # "ended" => exit = NoCode
  /\ place = "surface" => \A p \in Partitions : driver[p] = "idle"
  /\ place = "spawn" => \A k \in Positions : k >= next => driver[Order[k]] = "idle"
  /\ place = "wait" => \A k \in Positions : k < next =>
       /\ driver[Order[k]] \in Ended
       /\ emit_rc = 0 => driver[Order[k]] = "succeeded"
  /\ place \in {"check", "seal"} => \A p \in Partitions : driver[p] = "succeeded"
  /\ place = "check" => \A k \in Positions : k < next => Accepted(Order[k])
  /\ place = "seal" => \A p \in Partitions : Accepted(p)

EmitIInv == EmitTypeOK /\ Loops /\ PassIsComplete /\ NoOrphans

\* The array lists partitions, all of them, and is not empty.
LEMMA OrderFacts ==
  /\ Len(Order) \in Nat \ {0}
  /\ \A k \in Positions : Order[k] \in Partitions
  /\ \A p \in Partitions : \E k \in Positions : Order[k] = p
  /\ \A j, k \in Positions : Order[j] = Order[k] => j = k
<1>1. Order \in Seq(Partitions) /\ Order # <<>>
  BY OrderAssumption
<1>2. Len(Order) \in Nat \ {0}
  BY <1>1, EmptySeq
<1>3. \A k \in Positions : Order[k] \in Partitions
  BY <1>1, <1>2, ElementOfSeq DEF Positions
<1> QED BY <1>2, <1>3, OrderAssumption DEF Positions

LEMMA EmitInitIInv == EmitInit => EmitIInv
<1> SUFFICES ASSUME EmitInit PROVE EmitIInv
  OBVIOUS
<1>1. EmitTypeOK
  <2>1. \A p \in Partitions : NotSealed[p] \in Contents \X Seq(Markers)
    BY EmptySeq DEF NotSealed, Contents
  <2>2. bundle \in [Partitions -> Contents \X Seq(Markers)]
    BY <2>1 DEF EmitInit, NotSealed
  <2>3. log \in [Partitions -> Seq(Markers)]
    BY EmptySeq DEF EmitInit
  <2>4. next \in 1 .. Len(Order)
    BY OrderFacts DEF EmitInit
  <2> QED BY <2>2, <2>3, <2>4 DEF EmitInit, EmitTypeOK, NoCode, Stages, Contents
<1>2. Loops /\ PassIsComplete /\ NoOrphans
  BY DEF EmitInit, Loops, PassIsComplete, NoOrphans, NoCode
<1> QED BY <1>1, <1>2 DEF EmitIInv

-----------------------------------------------------------------------------
\* What a driver changes keeps its type.
LEMMA DriverTypes ==
  ASSUME EmitTypeOK, NEW p \in Partitions, Driver(p)
  PROVE  EmitTypeOK'
<1>1. UNCHANGED script
  BY DEF Driver, OpenDump, CloseDump, Solve, Succeed, FailDriver
<1>2. driver' \in [Partitions -> Stages]
  <2>1. PICK s \in Stages : driver' = [driver EXCEPT ![p] = s]
    BY DEF Driver, OpenDump, CloseDump, Solve, Succeed, FailDriver, Become, Stages
  <2> QED BY <2>1 DEF EmitTypeOK
<1>3. cnf' \in [Partitions -> Contents]
  <2>1. UNCHANGED cnf \/ \E c \in Contents : cnf' = [cnf EXCEPT ![p] = c]
    BY DEF Driver, OpenDump, CloseDump, Solve, Succeed, FailDriver, Contents
  <2> QED BY <2>1 DEF EmitTypeOK
<1>4. log' \in [Partitions -> Seq(Markers)]
  <2>1. CASE UNCHANGED log
    BY <2>1 DEF EmitTypeOK
  <2>2. ASSUME NEW m \in Markers, log' = [log EXCEPT ![p] = Append(log[p], m)]
        PROVE  log' \in [Partitions -> Seq(Markers)]
    <3>1. log \in [Partitions -> Seq(Markers)] /\ Append(log[p], m) \in Seq(Markers)
      BY DEF EmitTypeOK
    <3> QED BY <2>2, <3>1
  <2>3. \/ UNCHANGED log
        \/ \E m \in Markers : log' = [log EXCEPT ![p] = Append(log[p], m)]
    BY DEF Driver, OpenDump, CloseDump, Solve, Succeed, FailDriver, Markers
  <2> QED BY <2>1, <2>2, <2>3
<1> QED BY <1>1, <1>2, <1>3, <1>4 DEF EmitTypeOK, script

LEMMA TypePreserved ==
  ASSUME EmitTypeOK, EmitNext
  PROVE  EmitTypeOK'
<1> USE OrderFacts DEF EmitTypeOK, Killed, NoCode, Stages, Contents, Positions
<1>1. CASE Refuse \/ Generate \/ KillScript \/ Reject \/ Stop
  BY <1>1 DEF Refuse, Generate, KillScript, Reject, Stop, End
<1>2. CASE Spawn
  BY <1>2 DEF Spawn, Advance
<1>3. CASE Wait
  BY <1>3 DEF Wait, Advance, End
<1>4. CASE Archive
  BY <1>4 DEF Archive, Advance
<1>5. CASE Seal
  <2>1. bundle' \in [Partitions -> Contents \X Seq(Markers)]
    BY <1>5 DEF Seal
  <2> QED BY <1>5, <2>1 DEF Seal, End
<1>6. ASSUME NEW p \in Partitions, Driver(p)
      PROVE  EmitTypeOK'
  BY <1>6, DriverTypes
<1> QED BY <1>1, <1>2, <1>3, <1>4, <1>5, <1>6 DEF EmitNext, Script

\* A driver that ended is still, and so are its files.
LEMMA EndedIsStill ==
  ASSUME EmitTypeOK, NEW p \in Partitions, Driver(p)
  PROVE  /\ UNCHANGED script
         /\ driver[p] \notin Ended \cup {"idle"}
         /\ \A q \in Partitions \ {p} : driver'[q] = driver[q] /\ log'[q] = log[q]
BY DEF Driver, OpenDump, CloseDump, Solve, Succeed, FailDriver, Become, EmitTypeOK, Ended, script

LEMMA LoopsPreserved ==
  ASSUME EmitIInv, EmitTypeOK', EmitNext
  PROVE  Loops'
<1> USE OrderFacts DEF EmitIInv, EmitTypeOK, Loops, Positions
<1>1. CASE Refuse \/ KillScript \/ Reject \/ Stop
  BY <1>1 DEF Refuse, KillScript, Reject, Stop, End
<1>2. CASE Generate
  BY <1>2 DEF Generate
<1>3. CASE Spawn
  BY <1>3 DEF Spawn, Advance
<1>4. CASE Wait
  <2>1. \A k \in Positions : k <= next =>
          /\ driver[Order[k]] \in Ended
          /\ emit_rc' = 0 => driver[Order[k]] = "succeeded"
    BY <1>4 DEF Wait, Ended
  <2>2. CASE next = Len(Order) /\ emit_rc' = 1
    BY <1>4, <2>2 DEF Wait, End
  <2>3. CASE next = Len(Order) /\ emit_rc' # 1
    <3>1. \A p \in Partitions : driver[p] = "succeeded"
      BY <2>1, <2>3
    <3> QED BY <1>4, <2>3, <3>1 DEF Wait, Advance
  <2>4. CASE next # Len(Order)
    <3>1. next' = next + 1 /\ place' = place /\ UNCHANGED <<driver, exit>>
      BY <1>4, <2>4 DEF Wait, Advance
    <3> QED BY <1>4, <2>1, <3>1 DEF Wait
  <2> QED BY <2>2, <2>3, <2>4
<1>5. CASE Archive
  <2>1. /\ archive' = [archive EXCEPT ![Order[next]] = "whole"]
        /\ LogComplete(Order[next]) /\ UNCHANGED <<log, driver, exit>>
    BY <1>5 DEF Archive, Sound
  <2>2. \A k \in Positions : k <= next => Accepted(Order[k])'
    BY <1>5, <2>1, SMTT(30) DEF Archive, Accepted, LogComplete
  <2>3. CASE next = Len(Order)
    <3>1. \A p \in Partitions : Accepted(p)'
      BY <2>2, <2>3
    <3> QED BY <1>5, <2>1, <2>3, <3>1 DEF Archive, Advance
  <2>4. CASE next # Len(Order)
    BY <1>5, <2>1, <2>2, <2>4 DEF Archive, Advance
  <2> QED BY <2>3, <2>4
<1>6. CASE Seal
  BY <1>6 DEF Seal, End
<1>7. ASSUME NEW p \in Partitions, Driver(p)
      PROVE  Loops'
  <2>1. \A q \in Partitions : driver[q] \in Ended \cup {"idle"} =>
          driver'[q] = driver[q] /\ log'[q] = log[q]
    BY <1>7, EndedIsStill
  <2>2. UNCHANGED script
    BY <1>7, EndedIsStill
  <2> QED BY <2>1, <2>2, SMTT(30) DEF script, Accepted, LogComplete, Ended
<1> QED BY <1>1, <1>2, <1>3, <1>4, <1>5, <1>6, <1>7 DEF EmitNext, Script

LEMMA PromisesPreserved ==
  ASSUME EmitIInv, EmitTypeOK', EmitNext
  PROVE  PassIsComplete' /\ NoOrphans'
<1> USE OrderFacts DEF EmitIInv, EmitTypeOK, Loops, Positions, PassIsComplete, NoOrphans,
                       NoCode, Killed
<1>s. 0 \notin Statuses
  BY StatusesAssumption
<1>1. CASE Refuse
  <2>1. /\ place = "surface" /\ exit' \in {42} \cup Statuses
        /\ UNCHANGED <<driver, log, bundle>>
    BY <1>1 DEF Refuse, End
  <2>2. exit' # 0
    BY <1>s, <2>1
  <2>3. \A p \in Partitions : driver'[p] = "idle"
    BY <2>1
  <2>4. \E p \in Partitions : TRUE
    BY OrderFacts
  <2> QED BY <2>2, <2>3, <2>4
<1>2. CASE Generate \/ Spawn \/ Archive
  BY <1>2 DEF Generate, Spawn, Archive, Advance
<1>3. CASE Wait
  <2>1. CASE next = Len(Order) /\ emit_rc' = 1
    <3>1. \A p \in Partitions : driver[p] \in Ended
      BY <1>3, <2>1 DEF Wait
    <3> QED BY <1>3, <2>1, <3>1 DEF Wait, End
  <2>2. CASE ~(next = Len(Order) /\ emit_rc' = 1)
    BY <1>3, <2>2 DEF Wait, Advance
  <2> QED BY <2>1, <2>2
<1>4. CASE Reject \/ Stop
  <2>1. /\ place \in {"spawn", "check", "seal"} /\ exit' \in {1} \cup Statuses
        /\ UNCHANGED <<driver, log, bundle>>
    BY <1>4 DEF Reject, Stop, End
  <2>2. exit' # 0
    BY <1>s, <2>1
  <2>3. CASE place = "spawn"
    <3>1. driver'[Order[next]] = "idle" /\ Order[next] \in Partitions
      BY <2>1, <2>3
    <3> QED BY <2>2, <3>1
  <2>4. CASE place \in {"check", "seal"}
    <3>1. \A p \in Partitions : driver'[p] \in Ended
      BY <2>1, <2>4 DEF Ended
    <3> QED BY <2>2, <3>1
  <2> QED BY <2>1, <2>3, <2>4
<1>5. CASE Seal
  <2>1. \A p \in Partitions : bundle'[p] = <<"whole", <<"dump", "outcome">>>>
    BY <1>5 DEF Seal, Accepted, LogComplete
  <2>2. \A p \in Partitions : bundle'[p][2] = log'[p] /\ driver'[p] = "succeeded"
    BY <1>5, <2>1 DEF Seal, Accepted, LogComplete
  <2>3. PassIsComplete'
    BY <2>1, <2>2
  <2>4. NoOrphans'
    BY <2>2 DEF Ended
  <2> QED BY <2>3, <2>4
<1>6. CASE KillScript
  BY <1>6 DEF KillScript, End
<1>7. ASSUME NEW p \in Partitions, Driver(p)
      PROVE  PassIsComplete' /\ NoOrphans'
  <2>1. \A q \in Partitions : driver[q] \in Ended \cup {"idle"} =>
          driver'[q] = driver[q] /\ log'[q] = log[q]
    BY <1>7, EndedIsStill, SMTT(30)
  <2>2. UNCHANGED script /\ driver[p] \notin Ended \cup {"idle"}
    BY <1>7, EndedIsStill
  <2>3. \A q \in Partitions \ {p} : driver'[q] = driver[q]
    BY <1>7, EndedIsStill, SMTT(30)
  <2>4. PassIsComplete'
    BY <2>1, <2>2 DEF script, Ended
  <2>5. NoOrphans'
    <3> SUFFICES ASSUME place = "ended", exit # 137, \A q \in Partitions : driver'[q] # "idle"
                 PROVE  FALSE
      BY <2>2 DEF script, Ended
    <3>1. \A q \in Partitions : driver[q] # "idle"
      BY <2>2, <2>3
    <3> QED BY <2>2, <3>1
  <2> QED BY <2>4, <2>5
<1> HIDE OrderFacts DEF EmitIInv, EmitTypeOK, Loops, PassIsComplete, NoOrphans
<1> QED BY <1>1, <1>2, <1>3, <1>4, <1>5, <1>6, <1>7 DEF EmitNext, Script

LEMMA EmitStepIInv == EmitIInv /\ [EmitNext]_emitVars => EmitIInv'
<1> SUFFICES ASSUME EmitIInv, [EmitNext]_emitVars PROVE EmitIInv'
  OBVIOUS
<1>1. CASE EmitNext
  BY <1>1, TypePreserved, LoopsPreserved, PromisesPreserved DEF EmitIInv
<1>2. CASE UNCHANGED emitVars
  BY <1>2 DEF emitVars, EmitIInv, EmitTypeOK, Loops, Accepted, LogComplete, PassIsComplete, NoOrphans
<1> QED BY <1>1, <1>2

\* The strengthened invariant holds of every behaviour of the gate.
THEOREM EmitInvariance == EmitSpec => []EmitIInv
BY EmitInitIInv, EmitStepIInv, PTL DEF EmitSpec

\* The gate's registers and its drivers' files stay in their ranges: the loops never run
\* past the array, and an archive or a log holds nothing but what a driver wrote.
THEOREM EmitTypes == EmitSpec => []EmitTypeOK
<1>1. EmitIInv => EmitTypeOK
  BY DEF EmitIInv
<1> QED BY <1>1, EmitInvariance, PTL

\* A passing gate returns every partition whole, as its sealed bundle says, and all its
\* drivers are gone: what SlurmDispatch assumes of a gate that returns 0.
THEOREM EmitIsComplete == EmitSpec => []PassIsComplete
<1>1. EmitIInv => PassIsComplete
  BY DEF EmitIInv
<1> QED BY <1>1, EmitInvariance, PTL

\* A script that spawned its drivers and was not killed has none running when it ends.
THEOREM EmitLeavesNoOrphans == EmitSpec => []NoOrphans
<1>1. EmitIInv => NoOrphans
  BY DEF EmitIInv
<1> QED BY <1>1, EmitInvariance, PTL

-----------------------------------------------------------------------------
(* The contract harness. *)

\* No check objects to the documents as they are.
Clean == \A n \in 1 .. Len(Checks) : Checks[n] \notin (wrong \cup fresh) \ lost

\* Some check objects to the copy that mutation n makes.
Rejected(n) == \E c \in CheckOf(suite) : c \in (wrong \cup Effect(n)) \ lost

Between == outcome = "running" /\ ~Running => at = 1
Held == In("baseline") => \A n \in 1 .. at - 1 : Checks[n] \notin (wrong \cup fresh) \ lost
Counted ==
  /\ caught = turn - 1 => \A n \in 1 .. turn - 1 : Rejected(n)
  /\ Of[suite].stops => caught = turn - 1
Done ==
  /\ Past("baseline") => Clean
  /\ Past("mutate") => caught = Len(Mutations)

IInv == TypeOK /\ Between /\ Held /\ Counted /\ Done

-----------------------------------------------------------------------------
LEMMA SuiteFacts ==
  ASSUME suite \in Suite, selftest \in BOOLEAN
  PROVE  /\ Len(Plan) \in Nat /\ \A n \in 1 .. Len(Plan) : Plan[n] \in Stage
         /\ Len(Checks) \in Nat \ {0}
         /\ \A n \in 1 .. Len(Checks) : Checks[n] \in CheckOf(suite)
         /\ Len(Mutations) \in Nat \ {0}
         /\ \A n \in 1 .. Len(Mutations) : Mutations[n] \subseteq CheckOf(suite) /\ Mutations[n] # {}
         /\ Of[suite].stops \in BOOLEAN
         /\ Of[suite].measured \subseteq CheckOf(suite)
         /\ Of[suite].texts \subseteq 1 .. Len(Mutations)
<1>1. Of[suite].plan \in Seq(Stage) /\ Of[suite].plain \in Seq(Stage)
  BY SuiteAssumption
<1>2. Plan \in Seq(Stage)
  BY <1>1 DEF Plan
<1>3. Checks \in Seq(CheckOf(suite)) /\ Checks # <<>>
  BY SuiteAssumption DEF Checks
<1>4. Mutations \in Seq((SUBSET CheckOf(suite)) \ {{}}) /\ Mutations # <<>>
  BY SuiteAssumption DEF Mutations
<1>5. Len(Mutations) \in Nat \ {0}
  BY <1>4
<1>6. ASSUME NEW n \in 1 .. Len(Mutations)
      PROVE  Mutations[n] \in (SUBSET CheckOf(suite)) \ {{}}
  BY <1>4, <1>5, ElementOfSeq
<1>7. Len(Plan) \in Nat /\ \A n \in 1 .. Len(Plan) : Plan[n] \in Stage
  BY <1>2
<1>8. Len(Checks) \in Nat \ {0} /\ \A n \in 1 .. Len(Checks) : Checks[n] \in CheckOf(suite)
  BY <1>3
<1>9. Of[suite].texts \subseteq 1 .. Len(Mutations)
  <2>1. Of[suite].texts \subseteq DOMAIN Mutations
    BY SuiteAssumption DEF Mutations
  <2> QED BY <2>1, <1>4
<1> QED BY <1>5, <1>6, <1>7, <1>8, <1>9, SuiteAssumption

LEMMA PlanFacts ==
  ASSUME suite \in Suite, selftest \in BOOLEAN
  PROVE  /\ Comes(Plan, "baseline", "write")
         /\ Comes(Plan, "baseline", "print")
         /\ Comes(Plan, "mutate", "print")
<1>1. Plan \in {Of[suite].plan, Of[suite].plain}
  BY DEF Plan
<1> QED BY <1>1, PlanAssumption

\* A stage is past when it was, or when it is the one just left.
LEMMA PastMoves ==
  ASSUME TypeOK, UNCHANGED oracle, NEW stage,
         step' = step \/ (step' = step + 1 /\ step <= Len(Plan)),
         Past(stage)'
  PROVE  Past(stage) \/ (step' = step + 1 /\ Plan[step] = stage)
<1>1. step \in Nat /\ Len(Plan) \in Nat
  BY SuiteFacts DEF TypeOK
<1>2. Plan' = Plan
  BY DEF oracle, Plan
<1>3. PICK n \in 1 .. step' - 1 : n <= Len(Plan) /\ Plan[n] = stage
  BY <1>2 DEF Past
<1>4. n \in 1 .. step - 1 \/ (step' = step + 1 /\ n = step)
  BY <1>1, <1>3
<1> QED BY <1>3, <1>4 DEF Past

\* What comes first is past when what comes then is.
LEMMA PastOrder ==
  ASSUME TypeOK, NEW first, NEW then, Comes(Plan, first, then), Past(then)
  PROVE  Past(first)
<1>1. step \in Nat /\ Len(Plan) \in Nat
  BY SuiteFacts DEF TypeOK
<1>2. PICK n \in 1 .. step - 1 : n <= Len(Plan) /\ Plan[n] = then
  BY DEF Past
<1>3. n \in 1 .. Len(Plan)
  BY <1>1, <1>2
<1>4. PICK m \in 1 .. n - 1 : Plan[m] = first
  BY <1>2, <1>3 DEF Comes
<1>5. m \in 1 .. step - 1 /\ m <= Len(Plan)
  BY <1>1, <1>2, <1>4
<1> QED BY <1>4, <1>5 DEF Past

-----------------------------------------------------------------------------
LEMMA InitIInv == Init => IInv
<1> SUFFICES ASSUME Init PROVE IInv
  OBVIOUS
<1>1. suite \in Suite /\ selftest \in BOOLEAN
  BY DEF Init
<1>2. lost \subseteq CheckOf(suite) /\ wrong \subseteq CheckOf(suite)
  BY DEF Init
<1>3. TypeOK
  <2>1. inert \subseteq 1 .. Len(Mutations)
    BY <1>1, SuiteFacts DEF Init
  <2> QED BY <1>1, <1>2, <2>1, SuiteFacts DEF Init, TypeOK
<1> QED BY <1>3 DEF Init, IInv, Between, Held, Counted, Done, Past

\* The inputs of a run never change, nor what is derived from them.
LEMMA InputsStay ==
  ASSUME UNCHANGED oracle
  PROVE  /\ Plan' = Plan /\ Checks' = Checks /\ Mutations' = Mutations
         /\ suite' = suite /\ selftest' = selftest /\ lost' = lost
         /\ wrong' = wrong /\ fresh' = fresh /\ inert' = inert
         /\ Clean' = Clean /\ CheckOf(suite)' = CheckOf(suite)
         /\ \A n : Rejected(n)' = Rejected(n)
BY DEF oracle, Plan, Checks, Mutations, Clean, CheckOf, Rejected, Effect

LEMMA TypeStep == TypeOK /\ [Next]_vars => TypeOK'
<1> SUFFICES ASSUME TypeOK, [Next]_vars PROVE TypeOK'
  OBVIOUS
<1>s. suite \in Suite /\ selftest \in BOOLEAN
  BY DEF TypeOK
<1>f. Len(Plan) \in Nat /\ Len(Checks) \in Nat \ {0} /\ Len(Mutations) \in Nat \ {0}
  BY <1>s, SuiteFacts
<1>o. UNCHANGED oracle
  BY DEF Next, Program, vars, Hold, Raise, BaselineHolds, StopInert, Catch, Miss, Tested,
         Write, PrintPass, Exit, Kill
<1>1. /\ suite' \in Suite /\ selftest' \in BOOLEAN /\ lost' \subseteq CheckOf(suite')
      /\ wrong' \subseteq CheckOf(suite') /\ fresh' \subseteq Of[suite'].measured
      /\ inert' \subseteq 1 .. Len(Mutations)
  BY <1>o DEF TypeOK, oracle
<1>2. step' \in 1 .. Len(Plan) + 1
  BY <1>f, SMTT(30) DEF TypeOK, Next, Program, vars, In, Hold, Raise, BaselineHolds, StopInert, Catch,
              Miss, Tested, Write, PrintPass, Exit, Kill
<1>3. turn' \in 1 .. Len(Mutations) + 1 /\ caught' \in 0 .. turn' - 1
  <2>1. CASE Catch \/ Miss
    <3>1. turn \in 1 .. Len(Mutations) /\ caught \in 0 .. turn - 1
      BY <1>f, <2>1 DEF TypeOK, Catch, Miss, Trying
    <3>2. \/ turn' = turn + 1 /\ caught' \in {caught, caught + 1}
          \/ turn' = turn /\ caught' = caught
      BY <2>1 DEF Catch, Miss
    <3> QED BY <1>f, <3>1, <3>2
  <2>2. CASE ~(Catch \/ Miss)
    <3>1. UNCHANGED <<turn, caught>>
      BY <2>2 DEF Next, Program, vars, Hold, Raise, BaselineHolds, StopInert, Tested, Write,
                  PrintPass, Exit, Kill
    <3> QED BY <3>1 DEF TypeOK
  <2> QED BY <2>1, <2>2
<1>4. at' \in 1 .. Len(Checks) + 1
  BY <1>f DEF TypeOK, Next, Program, vars, Hold, Raise, BaselineHolds, StopInert, Catch,
              Miss, Tested, Write, PrintPass, Exit, Kill
<1>5. outcome' \in {"running", "failed", "killed", "passed"}
  BY DEF TypeOK, Next, Program, vars, Hold, Raise, BaselineHolds, StopInert, Catch, Miss, Tested,
         Write, PrintPass, Exit, Kill
<1> QED BY <1>o, <1>1, <1>2, <1>3, <1>4, <1>5, InputsStay DEF TypeOK

\* A mutated copy that a check objects to is a rejected one.
LEMMA ObjectionRejects ==
  ASSUME TypeOK, In("mutate"), at <= Len(Checks), Objects(Checks[at])
  PROVE  Rejected(turn)
<1>1. Checks[at] \in CheckOf(suite)
  BY SuiteFacts DEF TypeOK
<1>2. Checks[at] \in (wrong \cup Effect(turn)) \ lost
  BY <1>1 DEF In, Objects, Faults
<1> QED BY <1>1, <1>2 DEF Rejected

\* Within a stage nothing more is past; what was established stays.
LEMMA DoneStays ==
  ASSUME IInv, UNCHANGED oracle, step' = step,
         caught' = caught \/ (turn <= Len(Mutations) /\ caught' = caught + 1)
  PROVE  Done'
<1>1. TypeOK /\ Done
  BY DEF IInv
<1>2. \A stage : Past(stage)' => Past(stage)
  BY <1>1, PastMoves DEF TypeOK
<1>3. Past("mutate") => caught' = caught
  BY <1>1, SuiteFacts DEF TypeOK, Done
<1> QED BY <1>1, <1>2, <1>3, InputsStay DEF Done

\* A step that counts no mutation changes nothing about those counted.
LEMMA CountedStays ==
  ASSUME Counted, UNCHANGED <<oracle, turn, caught>>
  PROVE  Counted'
BY InputsStay DEF Counted, oracle

LEMMA StepIInv == IInv /\ [Next]_vars => IInv'
<1> SUFFICES ASSUME IInv, [Next]_vars PROVE IInv'
  OBVIOUS
<1>t. TypeOK /\ TypeOK'
  BY TypeStep DEF IInv
<1>f. /\ Len(Plan) \in Nat /\ Len(Checks) \in Nat \ {0} /\ Len(Mutations) \in Nat \ {0}
      /\ step \in Nat /\ turn \in Nat /\ at \in Nat /\ caught \in Nat
      /\ turn <= Len(Mutations) + 1 /\ caught <= turn - 1
  BY <1>t, SuiteFacts DEF TypeOK
<1>i. Between /\ Held /\ Counted /\ Done
  BY DEF IInv
<1>1. CASE Hold
  <2>1. UNCHANGED <<oracle, step, turn, caught, outcome>> /\ at' = at + 1 /\ Running
    BY <1>1 DEF Hold
  <2>2. Running'
    BY <2>1, InputsStay DEF Running, Trying, In
  <2>3. Held'
    <3>1. SUFFICES ASSUME In("baseline"), NEW n \in 1 .. at
                   PROVE  Checks[n] \notin (wrong \cup fresh) \ lost
      BY <1>f, <2>1, InputsStay DEF Held, In
    <3>2. CASE n = at
      BY <1>1, <3>1, <3>2 DEF Hold, Objects, Faults, In
    <3>3. CASE n \in 1 .. at - 1
      BY <1>i, <3>1, <3>3 DEF Held
    <3> QED BY <1>f, <3>1, <3>2, <3>3
  <2> QED BY <1>t, <1>i, <2>1, <2>2, <2>3, DoneStays, CountedStays DEF IInv, Between
<1>2. CASE Raise \/ StopInert
  <2>1. UNCHANGED <<oracle, step, turn, at, caught>> /\ outcome' = "failed"
    BY <1>2 DEF Raise, StopInert
  <2> QED BY <1>t, <1>i, <2>1, DoneStays, CountedStays DEF IInv, Between, Held, In
<1>3. CASE BaselineHolds
  <2>1. /\ UNCHANGED <<oracle, turn, caught, outcome>> /\ at' = 1 /\ step' = step + 1
        /\ In("baseline") /\ at > Len(Checks)
    BY <1>3 DEF BaselineHolds
  <2>2. Clean
    <3>1. \A n \in 1 .. Len(Checks) : n \in 1 .. at - 1
      BY <1>f, <2>1
    <3> QED BY <1>i, <2>1, <3>1 DEF Held, Clean
  <2>3. Past("mutate")' => Past("mutate")
    BY <1>t, <2>1, PastMoves DEF In
  <2>4. Done'
    BY <1>i, <2>1, <2>2, <2>3, InputsStay DEF Done
  <2>5. Held' /\ Between'
    BY <2>1 DEF Held, Between
  <2> QED BY <1>t, <1>i, <2>1, <2>4, <2>5, CountedStays DEF IInv
<1>4. CASE Catch
  <2>1. /\ UNCHANGED <<oracle, step, outcome>>
        /\ at' = 1 /\ turn' = turn + 1 /\ caught' = caught + 1
        /\ turn <= Len(Mutations) /\ In("mutate")
    BY <1>4 DEF Catch, Trying
  <2>2. Rejected(turn)
    BY <1>t, <1>4, ObjectionRejects DEF Catch, Trying
  <2>3. Counted'
    <3>1. ASSUME caught = turn - 1, NEW n \in 1 .. turn PROVE Rejected(n)
      <4>1. n \in 1 .. turn - 1 \/ n = turn
        BY <1>f
      <4> QED BY <1>i, <2>2, <3>1, <4>1 DEF Counted
    <3>2. (Of[suite].stops)' = Of[suite].stops
      BY <2>1, InputsStay
    <3>3. (caught = turn - 1)' <=> caught = turn - 1
      BY <1>f, <2>1
    <3>4. (turn - 1)' = turn
      BY <1>f, <2>1
    <3> QED BY <1>i, <2>1, <3>1, <3>2, <3>3, <3>4, InputsStay DEF Counted
  <2>4. Held' /\ Between'
    BY <2>1 DEF Held, Between
  <2> QED BY <1>t, <2>1, <2>3, <2>4, DoneStays DEF IInv
<1>5. CASE Miss
  <2>1. UNCHANGED <<oracle, step, caught>> /\ turn <= Len(Mutations) /\ In("mutate")
    BY <1>5 DEF Miss, Trying
  <2>2. CASE Of[suite].stops
    <3>1. UNCHANGED <<turn, at>> /\ outcome' = "failed"
      BY <1>5, <2>2 DEF Miss
    <3> QED BY <1>t, <1>i, <2>1, <3>1, DoneStays, CountedStays DEF IInv, Between, Held, In
  <2>3. CASE ~Of[suite].stops
    <3>1. turn' = turn + 1 /\ at' = 1
      BY <1>5, <2>3 DEF Miss
    <3>2. caught' # turn' - 1
      BY <1>f, <2>1, <3>1
    <3>3. Counted'
      BY <2>1, <2>3, <3>2, InputsStay DEF Counted
    <3>4. Held' /\ Between'
      BY <3>1 DEF Held, Between
    <3> QED BY <1>t, <2>1, <3>3, <3>4, DoneStays DEF IInv
  <2> QED BY <2>2, <2>3
<1>6. CASE Tested
  <2>1. UNCHANGED <<oracle, turn, at, caught>> /\ turn > Len(Mutations) /\ In("mutate")
    BY <1>6 DEF Tested
  <2>2. CASE caught # Len(Mutations) /\ ~Of[suite].stops
    <3>1. step' = step /\ outcome' = "failed"
      BY <1>6, <2>2 DEF Tested
    <3> QED BY <1>t, <1>i, <2>1, <3>1, DoneStays, CountedStays DEF IInv, Between, Held, In
  <2>3. CASE ~(caught # Len(Mutations) /\ ~Of[suite].stops)
    <3>1. step' = step + 1 /\ outcome' = outcome
      BY <1>6, <2>3 DEF Tested
    <3>2. caught = Len(Mutations)
      BY <1>f, <1>i, <2>1, <2>3 DEF Counted
    <3>3. at = 1
      BY <1>f, <1>i, <2>1 DEF Between, Running, Trying, In
    <3>4. Past("baseline")' => Past("baseline")
      BY <1>t, <2>1, <3>1, PastMoves DEF In
    <3>5. Done'
      BY <1>i, <2>1, <3>2, <3>4, InputsStay DEF Done
    <3>6. Held' /\ Between'
      BY <2>1, <3>3 DEF Held, Between
    <3> QED BY <1>t, <1>i, <2>1, <3>5, <3>6, CountedStays DEF IInv
  <2> QED BY <2>2, <2>3
<1>7. CASE Write \/ PrintPass
  <2>1. /\ UNCHANGED <<oracle, turn, at, caught, outcome>> /\ step' = step + 1
        /\ In("write") \/ In("print")
    BY <1>7 DEF Write, PrintPass
  <2>2. at = 1
    BY <1>i, <2>1 DEF Between, Running, Trying, In
  <2>3. /\ Past("baseline")' => Past("baseline")
        /\ Past("mutate")' => Past("mutate")
    BY <1>t, <2>1, PastMoves DEF In
  <2>4. Done'
    BY <1>i, <2>1, <2>3, InputsStay DEF Done
  <2>5. Held' /\ Between'
    BY <2>1, <2>2 DEF Held, Between
  <2> QED BY <1>t, <1>i, <2>1, <2>4, <2>5, CountedStays DEF IInv
<1>8. CASE Exit \/ Kill
  <2>1. UNCHANGED <<oracle, step, turn, at, caught>> /\ outcome' # "running"
    BY <1>8 DEF Exit, Kill
  <2> QED BY <1>t, <1>i, <2>1, DoneStays, CountedStays DEF IInv, Between, Held, In
<1>9. CASE UNCHANGED vars
  <2>1. UNCHANGED <<oracle, step, turn, at, caught, outcome>>
    BY <1>9 DEF vars
  <2>2. Held' /\ Between'
    BY <1>i, <2>1, InputsStay DEF Held, Between, Running, Trying, In
  <2> QED BY <1>t, <1>i, <2>1, <2>2, DoneStays, CountedStays DEF IInv
<1> QED BY <1>1, <1>2, <1>3, <1>4, <1>5, <1>6, <1>7, <1>8, <1>9 DEF Next, Program

LEMMA AlwaysIInv == Spec => []IInv
<1> QED BY InitIInv, StepIInv, PTL DEF Spec

-----------------------------------------------------------------------------
\* What the documents are wrong in, once the baseline is past.
LEMMA CleanMeansLost ==
  ASSUME TypeOK, Clean
  PROVE  wrong \cup fresh \subseteq lost
<1> SUFFICES ASSUME NEW c \in wrong \cup fresh PROVE c \in lost
  OBVIOUS
<1>1. c \in CheckOf(suite)
  BY SuiteFacts DEF TypeOK
<1>2. PICK n \in DOMAIN Checks : Checks[n] = c
  BY <1>1 DEF CheckOf, Checks
<1>3. Checks \in Seq(CheckOf(suite))
  BY SuiteAssumption DEF TypeOK, Checks
<1>4. n \in 1 .. Len(Checks)
  BY <1>3
<1> QED BY <1>2, <1>4 DEF Clean

\* A run stays within its plan, its checks and its mutations (main, load_and_run).
THEOREM TypeCorrect == Spec => []TypeOK
<1>1. IInv => TypeOK
  BY DEF IInv
<1> QED BY AlwaysIInv, <1>1, PTL

(***************************************************************************)
(* Whatever check an oracle has lost and whatever is wrong: receipts and   *)
(* PASS lines come only after a baseline run in which no remaining check   *)
(* objected.                                                               *)
(***************************************************************************)
THEOREM EvidenceSound == Spec => []EvidenceIsSound
<1>1. IInv => EvidenceIsSound
  <2> SUFFICES ASSUME IInv, Past("write") \/ Past("print")
               PROVE  wrong \cup fresh \subseteq lost
    BY DEF EvidenceIsSound
  <2>1. TypeOK /\ Done
    BY DEF IInv
  <2>2. Past("baseline")
    BY <2>1, PlanFacts, PastOrder DEF TypeOK
  <2> QED BY <2>1, <2>2, CleanMeansLost DEF Done
<1> QED BY AlwaysIInv, <1>1, PTL

(***************************************************************************)
(* After a PASS line each mutation changed its document, and is objected   *)
(* to by a remaining check for what the mutation did, not for what was     *)
(* wrong before: the self-test alone does not give that (its runs are      *)
(* masked), nor the baseline.                                              *)
(***************************************************************************)
THEOREM MutationsDoBite == Spec => []MutationsBite
<1>1. IInv => MutationsBite
  <2> SUFFICES ASSUME IInv, Past("print")
               PROVE  /\ caught = Len(Mutations)
                      /\ \A n \in 1 .. Len(Mutations) : n \notin inert /\ Mutations[n] \ lost # {}
    BY DEF MutationsBite
  <2>1. TypeOK /\ Done /\ Counted
    BY DEF IInv
  <2>2. Past("baseline") /\ Past("mutate")
    BY <2>1, PlanFacts, PastOrder DEF TypeOK
  <2>3. wrong \subseteq lost
    BY <2>1, <2>2, CleanMeansLost DEF Done
  <2>4. caught = Len(Mutations)
    BY <2>1, <2>2 DEF Done
  <2>5. ASSUME NEW n \in 1 .. Len(Mutations) PROVE n \notin inert /\ Mutations[n] \ lost # {}
    <3>1. n \in 1 .. turn - 1 /\ caught = turn - 1
      BY <2>1, <2>4, SuiteFacts, SMTT(30) DEF TypeOK
    <3>2. Rejected(n)
      BY <2>1, <3>1 DEF Counted
    <3> QED BY <2>3, <3>2 DEF Rejected, Effect
  <2> QED BY <2>4, <2>5
<1> QED BY AlwaysIInv, <1>1, PTL

-----------------------------------------------------------------------------
(***************************************************************************)
(* What a failure over sound documents says.  A mutation goes through when *)
(* the checks that objected to it are all among the lost ones, or it is    *)
(* inert; the checks made so far of a mutated copy, the count, and a       *)
(* failed run each bear witness to that.                                   *)
(***************************************************************************)
GoesThrough(n) == Effect(n) \subseteq lost

Tried ==
  In("mutate") /\ turn <= Len(Mutations) =>
    \A n \in 1 .. at - 1 : Checks[n] \notin Effect(turn) \ lost
Missed == caught # turn - 1 => \E n \in 1 .. turn - 1 : GoesThrough(n)
Blamed ==
  outcome = "failed" /\ wrong = {} /\ fresh = {} => \E n \in 1 .. Len(Mutations) : GoesThrough(n)
OneLost == lost = {} \/ \E c : lost = {c}

Blame == Tried /\ Missed /\ Blamed /\ OneLost

LEMMA InitBlame == Init => Blame
<1> SUFFICES ASSUME Init PROVE Blame
  OBVIOUS
<1>1. OneLost
  BY DEF Init, OneLost
<1>2. Tried /\ Missed /\ Blamed
  BY DEF Init, Tried, Missed, Blamed
<1> QED BY <1>1, <1>2 DEF Blame

\* A mutated copy to which no check objected.
LEMMA NoObjection ==
  ASSUME TypeOK, Tried, In("mutate"), turn <= Len(Mutations), at > Len(Checks)
  PROVE  GoesThrough(turn)
<1> SUFFICES ASSUME NEW c \in Effect(turn) PROVE c \in lost
  BY DEF GoesThrough
<1>1. turn \in 1 .. Len(Mutations) /\ Len(Checks) \in Nat /\ at \in Nat
  BY SuiteFacts DEF TypeOK
<1>2. c \in CheckOf(suite)
  BY <1>1, SuiteFacts DEF TypeOK, Effect
<1>3. PICK n \in DOMAIN Checks : Checks[n] = c
  BY <1>2 DEF CheckOf, Checks
<1>4. Checks \in Seq(CheckOf(suite))
  BY SuiteAssumption DEF TypeOK, Checks
<1>5. n \in 1 .. at - 1
  BY <1>1, <1>4
<1> QED BY <1>3, <1>5 DEF Tried

LEMMA StepBlame == IInv /\ Blame /\ [Next]_vars => Blame'
<1> SUFFICES ASSUME IInv, Blame, [Next]_vars PROVE Blame'
  OBVIOUS
<1>t. TypeOK
  BY DEF IInv
<1>f. /\ Len(Mutations) \in Nat \ {0} /\ Len(Checks) \in Nat
      /\ turn \in Nat \ {0} /\ at \in Nat \ {0} /\ caught \in Nat
      /\ turn <= Len(Mutations) + 1
  BY <1>t, SuiteFacts DEF TypeOK
<1>b. Tried /\ Missed /\ Blamed /\ OneLost
  BY DEF Blame
<1>o. UNCHANGED oracle
  BY DEF Next, Program, vars, Hold, Raise, BaselineHolds, StopInert, Catch, Miss, Tested,
         Write, PrintPass, Exit, Kill
<1>c. /\ OneLost' /\ Mutations' = Mutations /\ Checks' = Checks /\ Plan' = Plan
      /\ lost' = lost /\ wrong' = wrong /\ fresh' = fresh
      /\ \A n : GoesThrough(n)' = GoesThrough(n)
  BY <1>b, <1>o, InputsStay DEF OneLost, GoesThrough, Effect
<1>1. CASE Hold
  <2>1. UNCHANGED <<oracle, step, turn, caught, outcome>> /\ at' = at + 1
    BY <1>1 DEF Hold
  <2>2. ASSUME In("mutate"), turn <= Len(Mutations), NEW n \in 1 .. at
        PROVE  Checks[n] \notin Effect(turn) \ lost
    <3>1. CASE n = at
      BY <1>1, <2>2, <3>1 DEF Hold, Objects, Faults, In
    <3>2. CASE n \in 1 .. at - 1
      BY <1>b, <2>2, <3>2 DEF Tried
    <3> QED BY <1>f, <3>1, <3>2
  <2>3. Tried'
    <3>1. Effect(turn)' = Effect(turn)
      BY <1>c, <1>o, <2>1 DEF Effect, oracle
    <3> QED BY <1>c, <1>f, <2>1, <2>2, <3>1 DEF Tried, In
  <2>4. Missed' /\ Blamed'
    BY <1>b, <1>c, <2>1 DEF Missed, Blamed
  <2> QED BY <1>c, <2>3, <2>4 DEF Blame
<1>2. CASE Raise
  <2>1. UNCHANGED <<oracle, step, turn, at, caught>> /\ outcome' = "failed"
    BY <1>2 DEF Raise
  <2>2. wrong # {} \/ fresh # {}
    BY <1>2 DEF Raise, Objects, Faults, In
  <2>3. Tried'
    BY <2>1 DEF Tried, In
  <2>4. Missed' /\ Blamed'
    BY <1>b, <1>c, <2>1, <2>2 DEF Missed, Blamed
  <2> QED BY <1>c, <2>3, <2>4 DEF Blame
<1>3. CASE BaselineHolds \/ Write \/ PrintPass
  <2>1. UNCHANGED <<oracle, turn, caught, outcome>> /\ at' = 1
    <3>1. CASE BaselineHolds
      BY <3>1 DEF BaselineHolds
    <3>2. CASE Write \/ PrintPass
      <4>1. UNCHANGED <<oracle, turn, at, caught, outcome>> /\ (In("write") \/ In("print"))
        BY <3>2 DEF Write, PrintPass
      <4>2. at = 1
        BY <4>1 DEF IInv, Between, Running, Trying, In
      <4> QED BY <4>1, <4>2
    <3> QED BY <1>3, <3>1, <3>2
  <2>2. Tried'
    BY <2>1 DEF Tried
  <2>3. Missed' /\ Blamed'
    BY <1>b, <1>c, <2>1 DEF Missed, Blamed
  <2> QED BY <1>c, <2>2, <2>3 DEF Blame
<1>4. CASE Catch
  <2>1. /\ UNCHANGED <<oracle, step, outcome>>
        /\ at' = 1 /\ turn' = turn + 1 /\ caught' = caught + 1
    BY <1>4 DEF Catch, Trying
  <2>2. Tried'
    BY <2>1 DEF Tried
  <2>3. Missed'
    <3> SUFFICES ASSUME caught # turn - 1 PROVE \E n \in 1 .. turn : GoesThrough(n)
      BY <1>c, <1>f, <2>1 DEF Missed
    <3>1. PICK n \in 1 .. turn - 1 : GoesThrough(n)
      BY <1>b DEF Missed
    <3>2. n \in 1 .. turn
      BY <1>f
    <3> QED BY <3>1, <3>2
  <2>4. Blamed'
    BY <1>b, <1>c, <2>1 DEF Blamed
  <2> QED BY <1>c, <2>2, <2>3, <2>4 DEF Blame
<1>5. CASE Miss
  <2>1. /\ UNCHANGED <<oracle, step, caught>> /\ turn <= Len(Mutations) /\ In("mutate")
        /\ at > Len(Checks)
    BY <1>5 DEF Miss, Trying
  <2>2. GoesThrough(turn) /\ turn \in 1 .. Len(Mutations)
    BY <1>b, <1>f, <1>t, <2>1, NoObjection
  <2>3. CASE Of[suite].stops
    <3>1. UNCHANGED <<turn, at>> /\ outcome' = "failed"
      BY <1>5, <2>3 DEF Miss
    <3>2. Tried'
      BY <3>1 DEF Tried, In
    <3>3. Missed' /\ Blamed'
      BY <1>b, <1>c, <2>1, <2>2, <3>1 DEF Missed, Blamed
    <3> QED BY <1>c, <3>2, <3>3 DEF Blame
  <2>4. CASE ~Of[suite].stops
    <3>1. turn' = turn + 1 /\ at' = 1 /\ outcome' = outcome
      BY <1>5, <2>4 DEF Miss
    <3>2. Tried'
      BY <3>1 DEF Tried
    <3>3. Missed'
      <4>1. turn \in 1 .. turn' - 1 /\ GoesThrough(turn)
        BY <1>f, <2>2, <3>1
      <4> QED BY <1>c, <4>1 DEF Missed
    <3>4. Blamed'
      BY <1>b, <1>c, <3>1 DEF Blamed
    <3> QED BY <1>c, <3>2, <3>3, <3>4 DEF Blame
  <2> QED BY <2>3, <2>4
<1>6. CASE Tested
  <2>1. UNCHANGED <<oracle, turn, at, caught>> /\ turn > Len(Mutations)
    BY <1>6 DEF Tested
  <2>2. Tried'
    BY <1>c, <1>f, <2>1 DEF Tried
  <2>3. Missed'
    BY <1>b, <1>c, <2>1 DEF Missed
  <2>4. Blamed'
    <3>1. CASE caught # Len(Mutations)
      <4>1. turn = Len(Mutations) + 1
        BY <1>f, <2>1
      <4>2. \E n \in 1 .. Len(Mutations) : GoesThrough(n)
        BY <1>b, <1>f, <3>1, <4>1 DEF Missed
      <4> QED BY <1>c, <4>2 DEF Blamed
    <3>2. CASE caught = Len(Mutations)
      <4>1. outcome' = outcome
        BY <1>6, <3>2 DEF Tested
      <4> QED BY <1>b, <1>c, <4>1 DEF Blamed
    <3> QED BY <3>1, <3>2
  <2> QED BY <1>c, <2>2, <2>3, <2>4 DEF Blame
<1>7. CASE Exit \/ Kill
  <2>1. UNCHANGED <<oracle, step, turn, at, caught>> /\ outcome' \notin {"running", "failed"}
    BY <1>7 DEF Exit, Kill
  <2> QED BY <1>b, <1>c, <2>1 DEF Blame, Tried, Missed, Blamed, In
<1>8. CASE StopInert
  <2>1. /\ UNCHANGED <<oracle, step, turn, at, caught>> /\ outcome' = "failed"
        /\ turn \in inert
    BY <1>8 DEF StopInert
  <2>2. GoesThrough(turn) /\ turn \in 1 .. Len(Mutations)
    BY <1>t, <2>1 DEF GoesThrough, Effect, TypeOK
  <2>3. Tried'
    BY <2>1 DEF Tried, In
  <2>4. Missed' /\ Blamed'
    BY <1>b, <1>c, <2>1, <2>2 DEF Missed, Blamed
  <2> QED BY <1>c, <2>3, <2>4 DEF Blame
<1>9. CASE UNCHANGED vars
  <2>1. UNCHANGED <<oracle, step, turn, at, caught, outcome>>
    BY <1>9 DEF vars
  <2>2. Effect(turn)' = Effect(turn)
    BY <1>c, <2>1 DEF Effect, oracle
  <2> QED BY <1>b, <1>c, <2>1, <2>2 DEF Blame, Tried, Missed, Blamed, In
<1> QED BY <1>1, <1>2, <1>3, <1>4, <1>5, <1>6, <1>7, <1>8, <1>9 DEF Next, Program

(***************************************************************************)
(* For any suite, in either order of the stages and whether or not a miss  *)
(* stops the self-test: a check that alone objects to a mutation cannot be *)
(* lost without the PASS line being lost, and over sound documents only an *)
(* inert mutation also makes a run fail.                                   *)
(***************************************************************************)
THEOREM LossNoticed == Spec => []LossIsNoticed
<1>1. IInv /\ MutationsBite /\ Blame => LossIsNoticed
  <2> SUFFICES ASSUME IInv, MutationsBite, Blame PROVE LossIsNoticed
    OBVIOUS
  <2>1. ASSUME Past("print"), NEW c \in lost, c \in Guarded(suite) PROVE FALSE
    <3>1. PICK n \in 1 .. Len(Mutations) : Mutations[n] = {c}
      BY <2>1 DEF Guarded, Mutations
    <3>2. Mutations[n] \ lost # {}
      BY <2>1 DEF MutationsBite
    <3> QED BY <2>1, <3>1, <3>2
  <2>2. ASSUME outcome = "failed", wrong = {}, fresh = {}, inert = {}
        PROVE  lost \cap Guarded(suite) # {}
    <3>1. PICK n \in 1 .. Len(Mutations) : Mutations[n] \subseteq lost
      BY <2>2 DEF Blame, Blamed, GoesThrough, Effect
    <3>2. Mutations[n] \subseteq CheckOf(suite) /\ Mutations[n] # {}
      BY SuiteFacts DEF IInv, TypeOK
    <3>3. PICK c : lost = {c}
      BY <3>1, <3>2 DEF Blame, OneLost
    <3>4. Mutations[n] = {c} /\ c \in CheckOf(suite)
      BY <3>1, <3>2, <3>3
    <3>5. c \in Guarded(suite)
      BY <3>4 DEF Guarded, Mutations
    <3> QED BY <3>3, <3>5
  <2> QED BY <2>1, <2>2 DEF LossIsNoticed
<1> QED BY <1>1, InitBlame, StepBlame, AlwaysIInv, MutationsDoBite, PTL DEF Spec
=============================================================================
