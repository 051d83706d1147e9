------------------------------- MODULE Gates -------------------------------
(***************************************************************************)
(* One job runs one gate script, the one its request names                 *)
(* (scripts/slurm/run_zd_pair_synth.sh, lines 200-226).                    *)
(***************************************************************************)
EXTENDS GateScript

VARIABLES gate,                                                     \* request.txt
          edited, table, netlist, raw, refused,                     \* of the synthesis gate
          manifest, keeping, surface, now, code, log, cnf, kept, lost  \* of the formal gate

ofSynth  == <<edited, table, netlist, raw, refused>>
ofFormal == <<manifest, keeping, surface, now, code, log, cnf, kept, lost>>

Synth  == INSTANCE SynthGate
Formal == INSTANCE FormalGate

\* Files of the gate that does not run are as they should be.
Init ==
  /\ gate \in {"synth", "formal"} /\ Synth!Init /\ Formal!Init
  /\ gate = "synth" => manifest = "pinned" /\ ~keeping
  /\ gate = "formal" => edited = "nothing"

RunSynth  == gate = "synth"  /\ Synth!Next  /\ UNCHANGED <<gate, ofFormal>>
RunFormal == gate = "formal" /\ Formal!Next /\ UNCHANGED <<gate, ofSynth>>

Next == RunSynth \/ RunFormal
Spec == Init /\ [][Next]_<<script, gate, ofSynth, ofFormal>>

-----------------------------------------------------------------------------
(***************************************************************************)
(* No marker that was not earned: what the two pass markers of the         *)
(* synthesis gate and the candidate of the formal gate say is so, and an   *)
(* exit code of 0 comes with both pass markers, never from the formal gate.*)
(***************************************************************************)
MarkersAreEarned == Synth!PassIsEarned /\ Formal!CandidateIsEarned

(***************************************************************************)
(* Whichever of the clocks runs out, and whatever the process managed to   *)
(* write before, the verdict is blocked: 42, with no later marker.  The    *)
(* only other one is a failure of the formal gate that lost an artifact or *)
(* could not read what was left: a CNF a full disk cut short before the    *)
(* solver's own timeout, or a log without its geometry.  And 42 comes only *)
(* from a clock, an unfit tool or the candidate, never from a failed check.*)
(***************************************************************************)
Illegible ==
  IF cnf[now] # "whole" THEN code[now] = 1
  ELSE \E line \in {"map", "miter"} :
         (line = "map" => now = "state_step") /\ \A k \in DOMAIN log[now] : log[now][k] # line

TimeIsBlocked ==
  /\ timer => exit # 0 /\ printed \subseteq {"SYNTH_GATE_PASS"}
  /\ timer /\ exit = 1 => gate = "formal" /\ (lost \/ Illegible)
  /\ exit = 42 => tools = "unfit" \/ timer \/ "FORMAL_CANDIDATE" \in printed

EvidenceKept == Formal!EvidenceKept
RomMatchesRecursion == Synth!Basis!RomMatchesRecursion
SignsAreDoubling == Synth!Basis!SignsAreDoubling
=============================================================================
