--------------------------- MODULE PartitionEmit ---------------------------
(***************************************************************************)
(* scripts/gate_zd_pair_formal_partition_emit.sh: four temporal drivers    *)
(* run in parallel, each dumping the CNF of one consequent partition and   *)
(* then trying it for a second; the gate waits for all of them, inspects   *)
(* what they left and seals it into one bundle.                            *)
(*                                                                         *)
(* A driver or the gate script can be killed at any step, and the script   *)
(* stops at the first command that fails, with whatever status that had.   *)
(* Drivers do not die with the script.  A dump cut short leaves a partial  *)
(* CNF, and on a full disk the driver does not notice.                     *)
(***************************************************************************)
EXTENDS Integers, Sequences

CONSTANTS Partitions, Order,     \* the partitions=( ... ) array
          Statuses               \* exit statuses of commands that fail

ASSUME OrderAssumption ==
  /\ Order \in Seq(Partitions) /\ Order # <<>>
  /\ \A p \in Partitions : \E k \in 1 .. Len(Order) : Order[k] = p
  /\ \A j, k \in 1 .. Len(Order) : Order[j] = Order[k] => j = k

ASSUME StatusesAssumption == Statuses \subseteq 1 .. 255

Killed   == 137
NoCode   == 999      \* no exit code yet
Stages   == {"idle", "recipe", "dumping", "dumped", "solved", "succeeded", "failed"}
Ended    == {"succeeded", "failed"}
Contents == {"none", "partial", "whole"}
Markers  == {"dump", "outcome"}

VARIABLES
  place,      \* where the script is
  next,       \* position in Order of the loop it is in
  emit_rc,    \* a driver failed
  exit,       \* the exit code of the script
  driver,     \* the stage of each driver process
  cnf,        \* $TMP/<partition>.cnf
  log,        \* the markers in <partition>/yosys.log
  archive,    \* obligation.cnf.gz
  bundle      \* what BUNDLE_SHA256SUMS describes: the logs and archives sealed

emitVars == <<place, next, emit_rc, exit, driver, cnf, log, archive, bundle>>
script   == <<place, next, emit_rc, exit, archive, bundle>>
NotSealed == [p \in Partitions |-> <<"none", <<>>>>]

EmitTypeOK ==
  /\ place \in {"surface", "spawn", "wait", "check", "seal", "ended"}
  /\ next \in 1 .. Len(Order)
  /\ emit_rc \in {0, 1}
  /\ exit \in {0, 1, 42, Killed, NoCode} \cup Statuses
  /\ driver \in [Partitions -> Stages]
  /\ cnf \in [Partitions -> Contents]
  /\ log \in [Partitions -> Seq(Markers)]
  /\ archive \in [Partitions -> Contents]
  /\ bundle \in [Partitions -> Contents \X Seq(Markers)]

EmitInit ==
  /\ place = "surface" /\ next = 1 /\ emit_rc = 0 /\ exit = NoCode
  /\ driver = [p \in Partitions |-> "idle"]
  /\ cnf = [p \in Partitions |-> "none"]
  /\ log = [p \in Partitions |-> <<>>]
  /\ archive = [p \in Partitions |-> "none"]
  /\ bundle = NotSealed

----------------------------------------------------------------------------
(* The script. *)

End(rc) == place' = "ended" /\ exit' = rc

\* Mutant: the next loop does not start from the first partition.
AdvanceOn(after) ==
  IF next = Len(Order) THEN next' = next + 1 /\ place' = after
                       ELSE next' = next + 1 /\ UNCHANGED place

\* The loop goes on, or over to the next one.
Advance(after) ==
  IF next = Len(Order) THEN next' = 1 /\ place' = after
                       ELSE next' = next + 1 /\ UNCHANGED place

\* No artifact directory, or one that exists; else mkdir, the surface gate or cp fails.
Refuse ==
  /\ place = "surface"
  /\ \E rc \in {42} \cup Statuses : End(rc)
  /\ UNCHANGED <<next, emit_rc, driver, cnf, log, archive, bundle>>

Generate ==
  /\ place = "surface"
  /\ place' = "spawn"
  /\ UNCHANGED <<next, emit_rc, exit, driver, cnf, log, archive, bundle>>

Spawn ==
  /\ place = "spawn"
  /\ driver' = [driver EXCEPT ![Order[next]] = "recipe"]
  /\ Advance("wait")
  /\ UNCHANGED <<emit_rc, exit, cnf, log, archive, bundle>>

\* Mutant: the first failure ends the script, whoever else is running.
WaitFailFast ==
  /\ place = "wait" /\ driver[Order[next]] \in Ended
  /\ IF driver[Order[next]] = "failed"
     THEN End(1) /\ UNCHANGED <<next, emit_rc>>
     ELSE Advance("check") /\ UNCHANGED <<emit_rc, exit>>
  /\ UNCHANGED <<driver, cnf, log, archive, bundle>>

\* Mutant: the script waits for success, which a failed driver never has.
WaitForSuccess ==
  /\ place = "wait" /\ driver[Order[next]] = "succeeded"
  /\ Advance("check")
  /\ UNCHANGED <<emit_rc, exit, driver, cnf, log, archive, bundle>>

\* wait "$pid" for each driver; a failure is only remembered.
Wait ==
  /\ place = "wait" /\ driver[Order[next]] \in Ended
  /\ emit_rc' = IF driver[Order[next]] = "failed" THEN 1 ELSE emit_rc
  /\ IF next = Len(Order) /\ emit_rc' = 1
     THEN End(1) /\ UNCHANGED next
     ELSE Advance("check") /\ UNCHANGED exit
  /\ UNCHANGED <<driver, cnf, log, archive, bundle>>

LogComplete(p) == log[p] = <<"dump", "outcome">>

\* Mutant: the log is taken for the proof that the CNF is complete.
SoundByLog(p) == LogComplete(p)

\* One dump marker, one outcome, in this order; as many clauses as declared.
Sound(p) == LogComplete(p) /\ cnf[p] = "whole"

Archive ==
  /\ place = "check" /\ Sound(Order[next])
  /\ archive' = [archive EXCEPT ![Order[next]] = cnf[Order[next]]]
  /\ Advance("seal")
  /\ UNCHANGED <<emit_rc, exit, driver, cnf, log, bundle>>

Reject ==
  /\ place = "check" /\ ~Sound(Order[next])
  /\ End(1)
  /\ UNCHANGED <<next, emit_rc, driver, cnf, log, archive, bundle>>

\* set -e, pipefail: mkdir before a spawn, gzip, cp or a digest fails.
Stop ==
  /\ place \in {"spawn", "check", "seal"}
  /\ \E rc \in Statuses : End(rc)
  /\ UNCHANGED <<next, emit_rc, driver, cnf, log, archive, bundle>>

Seal ==
  /\ place = "seal"
  /\ bundle' = [p \in Partitions |-> <<archive[p], log[p]>>]
  /\ End(0)
  /\ UNCHANGED <<next, emit_rc, driver, cnf, log, archive>>

KillScript ==
  /\ place # "ended"
  /\ End(Killed)
  /\ UNCHANGED <<next, emit_rc, driver, cnf, log, archive, bundle>>

----------------------------------------------------------------------------
(* A driver: one Yosys process. *)

Become(p, s) == driver' = [driver EXCEPT ![p] = s]

\* The recipe has run; the log says that the dump begins.
OpenDump(p) ==
  /\ driver[p] = "recipe"
  /\ Become(p, "dumping")
  /\ log' = [log EXCEPT ![p] = Append(@, "dump")]
  /\ cnf' = [cnf EXCEPT ![p] = "partial"]
  /\ UNCHANGED script

CloseDump(p) ==
  /\ driver[p] = "dumping"
  /\ Become(p, "dumped")
  /\ \E c \in {"partial", "whole"} : cnf' = [cnf EXCEPT ![p] = c]
  /\ UNCHANGED <<script, log>>

\* Proved, or interrupted after a second: both are an outcome, and exit 0.
Solve(p) ==
  /\ driver[p] = "dumped"
  /\ Become(p, "solved")
  /\ log' = [log EXCEPT ![p] = Append(@, "outcome")]
  /\ UNCHANGED <<script, cnf>>

Succeed(p) ==
  /\ driver[p] = "solved"
  /\ Become(p, "succeeded")
  /\ UNCHANGED <<script, cnf, log>>

\* A rejected recipe, a model found, or the process is killed.
FailDriver(p) ==
  /\ driver[p] \notin Ended \cup {"idle"}
  /\ Become(p, "failed")
  /\ UNCHANGED <<script, cnf, log>>

----------------------------------------------------------------------------
Script == \/ Refuse \/ Generate \/ Spawn \/ Wait \/ Archive \/ Reject \/ Stop \/ Seal

Driver(p) == OpenDump(p) \/ CloseDump(p) \/ Solve(p) \/ Succeed(p) \/ FailDriver(p)

EmitNext == Script \/ KillScript \/ \E p \in Partitions : Driver(p)

\* The script runs while it can; a driver has a one-second solver timeout.
Fairness == WF_emitVars(Script) /\ \A p \in Partitions : WF_emitVars(Driver(p))

EmitSpec == EmitInit /\ [][EmitNext]_emitVars /\ Fairness
----------------------------------------------------------------------------
(* Properties. *)

(***************************************************************************)
(* A passing gate returns the whole CNF of every partition, each from a    *)
(* driver that ended well and whose log shows the dump before the          *)
(* outcome; and the bundle describes the files as they still are (lines    *)
(* 32-40 and 42-126), whichever driver was killed or ran out of disk.      *)
(***************************************************************************)
PassIsComplete ==
  exit = 0 => \A p \in Partitions :
                /\ bundle[p] = <<"whole", <<"dump", "outcome">>>>
                /\ log[p] = bundle[p][2]
                /\ driver[p] = "succeeded"

(***************************************************************************)
(* A script that spawned all its drivers and was not killed leaves none    *)
(* behind (the loop of lines 32-36 waits for every one before the failure  *)
(* of line 39).  One that could not make a directory in the loop before    *)
(* (line 26) does: those spawned by then run on.                           *)
(***************************************************************************)
NoOrphans ==
  (place = "ended" /\ exit # Killed /\ \A p \in Partitions : driver[p] # "idle") =>
    \A p \in Partitions : driver[p] \in Ended

(***************************************************************************)
(* Every driver is waited for in turn, though later ones may end first or  *)
(* fail: the gate ends, and no driver outlives it for ever.                *)
(***************************************************************************)
GateEnds == <>[](place = "ended" /\ \A p \in Partitions : driver[p] \in Ended \cup {"idle"})
============================================================================
