-------------------------- MODULE MCSlurmDispatch --------------------------
(***************************************************************************)
(* Three launches of one gate and one commit on one node: two of them were *)
(* given the same OUT_DIR.  The gate can pass, fail, be blocked, or have   *)
(* its script killed.                                                      *)
(***************************************************************************)
EXTENDS SlurmDispatch
CONSTANTS a, b, c, here, there, n1

DirOf      == [l \in Launches |-> IF l = c THEN there ELSE here]
SameGate   == [l \in Launches |-> "synthesis"]
AllEndings == {[rc |-> 0, complete |-> TRUE], [rc |-> 1, complete |-> FALSE],
               [rc |-> 42, complete |-> FALSE], [rc |-> Killed, complete |-> FALSE]}
============================================================================
