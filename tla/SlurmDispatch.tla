--------------------------- MODULE SlurmDispatch ---------------------------
(***************************************************************************)
(* Dispatch of the long gates through Slurm: the launcher                  *)
(* scripts/slurm/run_zd_pair_synth.sh, the worker script it sends to a     *)
(* node, and the validator of what comes back.                             *)
(*                                                                         *)
(* Every worker of a node works in the same tree /tmp/zdtool, under an     *)
(* exclusive flock on descriptor 9.  The gate and everything it starts     *)
(* inherit the descriptor, so the lock is free when the last of them is    *)
(* gone, not when the worker shell is.  A job can be killed at any step,   *)
(* the time limit included, and what it left in the tree stays there.      *)
(*                                                                         *)
(* A payload or a receipt is the launch it was made by; a receipt records  *)
(* the launches whose gates wrote into it, and whether its SHA256SUMS      *)
(* still describe it.                                                      *)
(***************************************************************************)
EXTENDS Integers

CONSTANTS Launches, Nodes, Dirs,
          Dir,          \* the launch's OUT_DIR
          Identity,     \* the source commit and gate id of the launch
          Outcomes,     \* how a gate can end: code, and whether its log has
                        \* every pass marker and its artifacts are complete
          NoLaunch, NoNode, NoReceipt, Torn, NoVerdict

Codes  == 0 .. 255
Killed == 137           \* 128 + SIGKILL
NoRc   == -1

ASSUME LaunchAssumption ==
  /\ Dir \in [Launches -> Dirs]
  /\ NoLaunch \notin Launches /\ NoNode \notin Nodes
ASSUME OutcomeAssumption == Outcomes \subseteq [rc : Codes, complete : BOOLEAN]

Tree     == [payload : Launches \cup {NoLaunch}, run : Launches \cup {NoLaunch},
             rc : Codes \cup {NoRc}, complete : BOOLEAN,
             writers : SUBSET Launches, sealed : BOOLEAN]
ASSUME ReceiptAssumption ==
  NoReceipt \notin Tree /\ Torn \notin Tree /\ NoReceipt # Torn

EmptyTree == [payload |-> NoLaunch, run |-> NoLaunch, rc |-> NoRc,
              complete |-> FALSE, writers |-> {}, sealed |-> FALSE]

Pass     == [kind |-> "PASS", rc |-> 0]
Blocked  == [kind |-> "BLOCKED", rc |-> 42]
Abort    == [kind |-> "ABORT", rc |-> 1]
Fail(rc) == [kind |-> "FAIL", rc |-> rc]
Verdicts == {Pass, Blocked, Abort} \cup {Fail(rc) : rc \in Codes \ {0, 42}}
ASSUME VerdictAssumption == NoVerdict \notin Verdicts

LauncherSteps == {"claim", "prepare", "srun", "validate", "done"}
WorkerSteps   == {"none", "lock", "wipe", "unpack", "stage", "start", "gate", "seal",
                  "emit", "exit", "gone"}
\* The shell has wiped the tree and has not left it.
Inside        == {"unpack", "stage", "start", "gate", "seal", "emit", "exit"}

VARIABLES launcher,   \* where each launcher is
          claimed,    \* output directories that exist
          out,        \* the receipt extracted into each output directory
          verdict,
          node,       \* the node Slurm chose for the job
          worker,     \* where each worker shell is
          gateRc,     \* the worker's shell variable rc
          jobRc,      \* srun_rc
          line,       \* the result line in worker.out
          locks,      \* who holds the lock descriptor open and locked
          tree        \* /tmp/zdtool on each node

vars == <<launcher, claimed, out, verdict, node, worker, gateRc, jobRc, line, locks, tree>>
job  == <<node, worker, gateRc, jobRc, line, locks, tree>>
desk == <<launcher, claimed, out, verdict>>

\* Type correctness.
TypeOK ==
  /\ launcher \in [Launches -> LauncherSteps]
  /\ claimed \subseteq Dirs
  /\ out \in [Dirs -> Tree \cup {NoReceipt}]
  /\ verdict \in [Launches -> Verdicts \cup {NoVerdict}]
  /\ node \in [Launches -> Nodes \cup {NoNode}]
  /\ worker \in [Launches -> WorkerSteps]
  /\ gateRc \in [Launches -> Codes \cup {NoRc}]
  /\ jobRc \in [Launches -> Codes \cup {NoRc}]
  /\ line \in [Launches -> Tree \cup {NoReceipt, Torn}]
  /\ locks \subseteq Launches \X {"shell", "gate"}
  /\ tree \in [Nodes -> Tree]

Init ==
  /\ launcher = [l \in Launches |-> "claim"]
  /\ claimed = {}
  /\ out = [d \in Dirs |-> NoReceipt]
  /\ verdict = [l \in Launches |-> NoVerdict]
  /\ node = [l \in Launches |-> NoNode]
  /\ worker = [l \in Launches |-> "none"]
  /\ gateRc = [l \in Launches |-> NoRc]
  /\ jobRc = [l \in Launches |-> NoRc]
  /\ line = [l \in Launches |-> NoReceipt]
  /\ locks = {}
  /\ tree = [n \in Nodes |-> EmptyTree]

----------------------------------------------------------------------------
(* The launcher, up to srun. *)

Finish(l, v) ==
  /\ launcher' = [launcher EXCEPT ![l] = "done"]
  /\ verdict' = [verdict EXCEPT ![l] = v]

\* Mutant: mkdir -p, an existing directory is taken as well.
ClaimAnyway(l) ==
  /\ launcher[l] = "claim"
  /\ claimed' = claimed \cup {Dir[l]}
  /\ launcher' = [launcher EXCEPT ![l] = "prepare"]
  /\ UNCHANGED <<out, verdict, job>>

\* mkdir without -p: of two launches with one OUT_DIR the second is blocked.
Claim(l) ==
  /\ launcher[l] = "claim" /\ Dir[l] \notin claimed
  /\ claimed' = claimed \cup {Dir[l]}
  /\ launcher' = [launcher EXCEPT ![l] = "prepare"]
  /\ UNCHANGED <<out, verdict, job>>

Collide(l) ==
  /\ launcher[l] = "claim" /\ Dir[l] \in claimed
  /\ Finish(l, Blocked)
  /\ UNCHANGED <<claimed, out, job>>

\* A preflight check fails (BLOCKED), or set -e stops the packaging.
Withhold(l) ==
  /\ launcher[l] = "prepare"
  /\ \E v \in {Blocked, Abort} : Finish(l, v)
  /\ UNCHANGED <<claimed, out, job>>

Submit(l) ==
  /\ launcher[l] = "prepare"
  /\ launcher' = [launcher EXCEPT ![l] = "srun"]
  /\ \E n \in Nodes : node' = [node EXCEPT ![l] = n]
  /\ worker' = [worker EXCEPT ![l] = "lock"]
  /\ UNCHANGED <<claimed, out, verdict, gateRc, jobRc, line, locks, tree>>

----------------------------------------------------------------------------
(* The worker. *)

At(l, step)     == worker[l] = step
GoTo(l, step)   == worker' = [worker EXCEPT ![l] = step]
\* Mutant: flock -o, the gate does not inherit the descriptor.
HeldByShellOn(n) == {p \in locks : p[2] = "shell" /\ node[p[1]] = n}
HeldOn(n)       == {p \in locks : node[p[1]] = n}
SetTree(l, t)   == tree' = [tree EXCEPT ![node[l]] = t]
Here(l)         == tree[node[l]]

Lock(l) ==
  /\ At(l, "lock") /\ HeldOn(node[l]) = {}
  /\ locks' = locks \cup {<<l, "shell">>}
  /\ GoTo(l, "wipe")
  /\ UNCHANGED <<desk, node, gateRc, jobRc, line, tree>>

Wipe(l) ==
  /\ At(l, "wipe")
  /\ SetTree(l, EmptyTree)
  /\ GoTo(l, "unpack")
  /\ UNCHANGED <<desk, node, gateRc, jobRc, line, locks>>

\* The payload arrives and its toolchain, loader and repository digests agree.
Unpack(l) ==
  /\ At(l, "unpack")
  /\ SetTree(l, [Here(l) EXCEPT !.payload = l])
  /\ GoTo(l, "stage")
  /\ UNCHANGED <<desk, node, gateRc, jobRc, line, locks>>

\* request.txt and the metadata read from it are copied into the result.
Stage(l) ==
  /\ At(l, "stage")
  /\ SetTree(l, [Here(l) EXCEPT !.run = Here(l).payload])
  /\ GoTo(l, "start")
  /\ UNCHANGED <<desk, node, gateRc, jobRc, line, locks>>

StartGate(l) ==
  /\ At(l, "start")
  /\ locks' = locks \cup {<<l, "gate">>}
  /\ GoTo(l, "gate")
  /\ UNCHANGED <<desk, node, gateRc, jobRc, line, tree>>

\* A process of the gate writes a log or an artifact.
GateWrites(l) ==
  /\ <<l, "gate">> \in locks
  /\ SetTree(l, [Here(l) EXCEPT !.writers = @ \cup {l}, !.sealed = FALSE])
  /\ UNCHANGED <<desk, node, worker, gateRc, jobRc, line, locks>>

\* The gate script returns.  One that failed or was killed may leave drivers behind.
EndGate(l) ==
  /\ At(l, "gate")
  /\ \E o \in Outcomes :
       /\ gateRc' = [gateRc EXCEPT ![l] = o.rc]
       /\ SetTree(l, [Here(l) EXCEPT !.complete = o.complete,
                                     !.writers = @ \cup {l}])
       /\ \/ locks' = locks \ {<<l, "gate">>}
          \/ o.rc # 0 /\ UNCHANGED locks
  /\ GoTo(l, "seal")
  /\ UNCHANGED <<desk, node, jobRc, line>>

Seal(l) ==
  /\ At(l, "seal")
  /\ SetTree(l, [Here(l) EXCEPT !.rc = gateRc[l], !.sealed = TRUE])
  /\ GoTo(l, "emit")
  /\ UNCHANGED <<desk, node, gateRc, jobRc, line, locks>>

Emit(l) ==
  /\ At(l, "emit")
  /\ line' = [line EXCEPT ![l] = Here(l)]
  /\ GoTo(l, "exit")
  /\ UNCHANGED <<desk, node, gateRc, jobRc, locks, tree>>

\* The worker shell ends with code rc; its descriptor closes, the gate's need not.
Leave(l, rc) ==
  /\ jobRc' = [jobRc EXCEPT ![l] = rc]
  /\ GoTo(l, "gone")
  /\ \/ locks' = locks \ {<<l, "shell">>}
     \/ locks' = locks \ {<<l, "shell">>, <<l, "gate">>}

Exit(l) ==
  /\ At(l, "exit")
  /\ Leave(l, gateRc[l])
  /\ UNCHANGED <<desk, node, gateRc, line, tree>>

\* set -e stops the worker: damaged payload, wrong digest, tar of a moving tree.
Reject(l) ==
  /\ worker[l] \in {"unpack", "stage", "seal", "emit"}
  /\ Leave(l, 1)
  /\ UNCHANGED <<desk, node, gateRc, line, tree>>

\* scancel, the time limit, a crash.  A job cut off in mid-line leaves a torn line.
Kill(l) ==
  /\ worker[l] \notin {"none", "gone"}
  /\ Leave(l, Killed)
  /\ \/ UNCHANGED line
     \/ At(l, "emit") /\ line' = [line EXCEPT ![l] = Torn]
  /\ UNCHANGED <<desk, node, gateRc, tree>>

\* Slurm ends what the shell left behind, or it ends by itself.
Reap(l) ==
  /\ <<l, "gate">> \in locks /\ worker[l] # "gate"
  /\ locks' = locks \ {<<l, "gate">>}
  /\ UNCHANGED <<desk, node, worker, gateRc, jobRc, line, tree>>

----------------------------------------------------------------------------
(* The launcher, after srun. *)

\* Mutant: the exit codes of base64 and tar are ignored.
CollectTorn(l) ==
  /\ launcher[l] = "srun" /\ At(l, "gone") /\ line[l] # NoReceipt
  /\ out' = [out EXCEPT ![Dir[l]] = line[l]]
  /\ launcher' = [launcher EXCEPT ![l] = "validate"]
  /\ UNCHANGED <<claimed, verdict, job>>

\* The line decodes and unpacks into OUT_DIR.
Collect(l) ==
  /\ launcher[l] = "srun" /\ At(l, "gone") /\ line[l] \notin {NoReceipt, Torn}
  /\ out' = [out EXCEPT ![Dir[l]] = line[l]]
  /\ launcher' = [launcher EXCEPT ![l] = "validate"]
  /\ UNCHANGED <<claimed, verdict, job>>

\* No line is BLOCKED; a torn one stops the launcher in base64 or tar.
Miss(l) ==
  /\ launcher[l] = "srun" /\ At(l, "gone") /\ line[l] \in {NoReceipt, Torn}
  /\ Finish(l, IF line[l] = NoReceipt THEN Blocked ELSE Abort)
  /\ UNCHANGED <<claimed, out, job>>

\* Mutant: a blocked worker is reported as a failure.
ClassifyBlockedAsFailure(r, identity, rc) ==
  IF \/ ~r.sealed
     \/ Identity[r.run] # identity
     \/ r.rc # rc
     \/ r.rc = 0 /\ ~r.complete
  THEN Blocked
  ELSE IF r.rc = 0 THEN Pass ELSE Fail(r.rc)

\* A receipt that does not hold together is BLOCKED, whatever it reports.
Classify(r, identity, rc) ==
  IF \/ ~r.sealed
     \/ Identity[r.run] # identity
     \/ r.rc # rc
     \/ r.rc = 0 /\ ~r.complete
     \/ r.rc = 42
  THEN Blocked
  ELSE IF r.rc = 0 THEN Pass ELSE Fail(r.rc)

Validate(l) ==
  /\ launcher[l] = "validate"
  /\ Finish(l, Classify(out[Dir[l]], Identity[l], jobRc[l]))
  /\ UNCHANGED <<claimed, out, job>>

----------------------------------------------------------------------------
Launcher(l) == \/ Claim(l) \/ Collide(l) \/ Withhold(l) \/ Submit(l)
               \/ Collect(l) \/ Miss(l) \/ Validate(l)

Worker(l)   == \/ Lock(l) \/ Wipe(l) \/ Unpack(l) \/ Stage(l) \/ StartGate(l)
               \/ EndGate(l) \/ Seal(l) \/ Emit(l) \/ Exit(l) \/ Reject(l)

Next == \E l \in Launches :
          Launcher(l) \/ Worker(l) \/ GateWrites(l) \/ Kill(l) \/ Reap(l)

(***************************************************************************)
(* The launcher runs as long as it can; Slurm enforces the time limit.     *)
(* Nothing is assumed of the worker: the lock is not fair and a gate may   *)
(* take for ever, the limit ends both.                                     *)
(***************************************************************************)
Fairness == \A l \in Launches : WF_vars(Launcher(l)) /\ WF_vars(Kill(l))

Spec == Init /\ [][Next]_vars /\ Fairness

----------------------------------------------------------------------------
(* Properties. *)

(***************************************************************************)
(* Tree ownership: from its wipe to its last step a worker finds in        *)
(* /tmp/zdtool only what its own launch put there, although killed jobs    *)
(* leave their trees behind, orphans of a killed gate go on writing, and   *)
(* the tree is shared by every job of the node.  Rests on the descriptor   *)
(* the gate inherits and on the wipe under the lock.                       *)
(***************************************************************************)
OwnTree ==
  \A l \in Launches : worker[l] \in Inside =>
    /\ Here(l).payload \in {l, NoLaunch} /\ Here(l).run \in {l, NoLaunch}
    /\ Here(l).writers \subseteq {l}
    /\ worker[l] \in {"start", "gate", "seal", "emit", "exit"} => Here(l).run = l

(***************************************************************************)
(* Evidence: a launch passes only on a receipt of its own gate, run from   *)
(* its own payload and written by no other, unchanged since it was sealed, *)
(* of a gate and a job that both returned 0.  The validator compares       *)
(* commit and gate only: launches of one commit and gate are told apart by *)
(* the lock, the wipe and the output directory alone.                      *)
(***************************************************************************)
OwnReceipt ==
  \A l \in Launches : verdict[l] = Pass =>
    /\ gateRc[l] = 0 /\ jobRc[l] = 0
    /\ out[Dir[l]].run = l /\ out[Dir[l]].payload = l
    /\ out[Dir[l]].writers = {l}
    /\ out[Dir[l]].rc = 0 /\ out[Dir[l]].complete /\ out[Dir[l]].sealed

(***************************************************************************)
(* The dispatch keeps the promise of GateService: every launch ends, PASS  *)
(* and FAIL are what this launch's gate returned, 42 is never a FAIL.      *)
(***************************************************************************)
Service == INSTANCE GateService
             WITH Codes <- {o.rc : o \in Outcomes}, NotRun <- NoRc, ran <- gateRc
ImplementsGateService == Service!Spec
============================================================================
