----------------------------- MODULE SelfParity -----------------------------
(***************************************************************************)
(* A receipt of the self-parity probe on its way to the oracle: a probe,   *)
(* sound or with a defect, measures an operator under a lane map; fields   *)
(* of the receipt are altered; the oracle judges what arrives.             *)
(*                                                                         *)
(* main refuses a stride it cannot use, and prints no receipt then.  It    *)
(* takes any offset: one beyond the lanes is reduced, a negative one       *)
(* indexes its arrays out of range, and a great one overflows.             *)
(***************************************************************************)
EXTENDS SelfParityOracle

CONSTANTS Configs,    \* operators and lane maps measured
          IntMax,     \* INT_MAX
          Stray,      \* sets of lanes a probe may count after undefined behaviour
          MaxEdits    \* a bound: fields altered

\* The arguments for which main measures; an int has 16 bits at least, and the table has the
\* cell that is flipped.
ASSUME ConfigsAssumption ==
  /\ IntMax \in Nat /\ IntMax >= 32767
  /\ \A c \in Configs : /\ c.code \in Code /\ c.stride \in Lane /\ c.stride % 2 = 1
                         /\ c.offset \in (-IntMax - 1) .. IntMax
  /\ Stray \subseteq SUBSET Lane
  /\ Flipped \in Lane \X Lane

VARIABLES defect,     \* of the probe
          config,     \* what was measured
          receipt,
          edited,     \* fields that were altered
          verdict     \* "open", or "accepted" or "refused"

vars == <<defect, config, receipt, edited, verdict>>

Absent == <<"absent", 0>>

\* What can take a field's place; a count becomes zero, or one, or wraps.
Forgeries(f) ==
  {Str("forged")} \cup
  CASE f \in Extras     -> {}
    [] f \in BoolFields -> {Absent, Bool(TRUE), Bool(FALSE)}
    [] f \in IntFields  -> {Absent, Num(-1), Num(0), Num(1), Num(2^Bits)}
    [] f = "result"     -> {Absent, Str("PASS"), Str("FAIL")}
    [] f = "lowered_derivation" -> {Absent, Str("recomputed_per_term")}
    [] OTHER            -> {Absent}

\* No lane is negative, and no lane's place overflows.
Defined(c) == c.offset \in Nat /\ c.offset <= IntMax - (2^Bits - 1) * c.stride

\* What a probe can print; where its lane map is undefined, any lanes may disagree.
Printed(d, c) ==
  IF Defined(c) THEN {Measure(d, c)}
  ELSE {Receipt(c, plain, flipped, shifted, dropped) :
          plain, flipped, shifted, dropped \in Stray}

Init ==
  /\ defect \in Defects /\ config \in Configs
  /\ receipt \in Printed(defect, config)
  /\ edited = {}
  /\ verdict = "open"

Edit(f) ==
  /\ verdict = "open"
  /\ f \notin edited /\ Cardinality(edited) < MaxEdits
  /\ \E v \in Forgeries(f) :
       receipt' = [g \in (DOMAIN receipt \cup {f}) \ {h \in {f} : v = Absent} |->
                     IF g = f THEN v ELSE receipt[g]]
  /\ edited' = edited \cup {f}
  /\ UNCHANGED <<defect, config, verdict>>

Evaluate ==
  /\ verdict = "open"
  /\ verdict' = IF Reasons(receipt) = {} THEN "accepted" ELSE "refused"
  /\ UNCHANGED <<defect, config, receipt, edited>>

Next == Evaluate \/ \E f \in RequiredFields \cup Extras : Edit(f)
Spec == Init /\ [][Next]_vars

-----------------------------------------------------------------------------
(***************************************************************************)
(* A sound probe passes whenever its lane map is defined: the permutation  *)
(* is undone by its inverse, and each control breaks the parity, the twist *)
(* control exactly on twisted operators.  The oracle accepts what it       *)
(* reports iff the offset is a lane, which main leaves to its caller.      *)
(***************************************************************************)
SoundProbePasses ==
  edited = {} /\ defect = "none" /\ Defined(config) =>
    /\ receipt["result"] = Str("PASS")
    /\ verdict # "open" => (verdict = "accepted" <=> config.offset \in Lane)

(***************************************************************************)
(* No single alteration gets the receipt of a probe with a defect accepted *)
(* as a PASS; a probe that knows only the base is right about the base.    *)
(* What undefined behaviour printed is accepted only when its offset, and  *)
(* nothing else, was put right: the oracle then sees a lane map that was   *)
(* never measured.                                                         *)
(***************************************************************************)
SoundHere ==
  \/ defect = "none"
  \/ defect \in {"base in both paths", "base in the lowering"} /\ config.code = {}

OneEditForgesNoPass ==
  verdict = "accepted" /\ Cardinality(edited) <= 1 /\ receipt["result"] = Str("PASS") =>
    IF Defined(config) THEN SoundHere ELSE edited = {"lane_offset"}
=============================================================================
