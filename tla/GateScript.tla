---------------------------- MODULE GateScript ----------------------------
(***************************************************************************)
(* What the gate scripts (scripts/gate_zd_pair_*.sh) have in common: set   *)
(* -euo pipefail, steps under a wall-clock limit of the timeout command,   *)
(* and 42 for "blocked".                                                   *)
(***************************************************************************)
EXTENDS Integers, Sequences

VARIABLES
  step,      \* where the script is
  exit,      \* its exit code, once ended
  timer,     \* a step ran out of its time
  tools,     \* what the script found in its path
  printed    \* the markers on its standard output

script == <<step, exit, timer, tools, printed>>

Running  == 999
Killed   == 137
TimedOut == {124, 137}      \* timeout(1): it ended the step; it was killed itself

Start == step = "tools" /\ exit = Running /\ timer = FALSE /\ tools = "unknown" /\ printed = {}

GoTo(next)          == step' = next /\ UNCHANGED exit
Exit(code)          == step' = "ended" /\ exit' = code
Require(test, next) == IF test THEN GoTo(next) ELSE Exit(1)

\* A tool that is missing, or has another version than the pinned one.
CheckTools(next) ==
  /\ step = "tools"
  /\ tools' \in {"pinned", "unfit"}
  /\ IF tools' = "pinned" THEN GoTo(next) ELSE Exit(42)
  /\ UNCHANGED <<timer, printed>>

\* A step under timeout: out of time is blocked, any other failure fails.
Timed(code, test, next) ==
  /\ timer' = (code \in TimedOut)
  /\ IF code \in TimedOut THEN Exit(42) ELSE Require(code = 0 /\ test, next)
  /\ UNCHANGED <<tools, printed>>

\* The job ends, or somebody ends it.
Kill == step # "ended" /\ Exit(Killed) /\ UNCHANGED <<timer, tools, printed>>
=============================================================================
