---------------------------- MODULE FormalGate ----------------------------
(***************************************************************************)
(* scripts/gate_zd_pair_formal.sh and the surface gate it starts with:     *)
(* two runs of one recipe are compared, then Yosys tries two obligations.  *)
(* Each obligation is a process under two clocks, the wall clock of        *)
(* timeout(1) and the solver's own, and leaves a log and a CNF.  Every     *)
(* verdict keeps its evidence in the artifact directory.  The gate never   *)
(* passes: its best verdict is a candidate, which is blocked.              *)
(***************************************************************************)
EXTENDS GateScript

VARIABLES
  manifest,   \* spec/eisa_h/sedenion_zd_pair_formal_v1.json
  keeping,    \* EISA_H_FORMAL_ARTIFACT_DIR is set
  surface,    \* $TMP/{primary,replay}.log of the surface gate
  now,        \* the obligation being worked on
  code,       \* exit code of each obligation's process
  log, cnf,   \* what it left
  kept,       \* contents of the artifact directory
  lost        \* an artifact could not be written

evidence == <<manifest, keeping, surface, now, code, log, cnf, kept, lost>>

Obligations == {"reset_base", "state_step"}

Init ==
  /\ Start
  /\ manifest \in {"pinned", "other"} /\ keeping \in BOOLEAN
  /\ surface = [run \in {"primary", "replay"} |-> "none"]
  /\ now = "reset_base"
  /\ code = [o \in Obligations |-> Running]
  /\ log = [o \in Obligations |-> <<>>] /\ cnf = [o \in Obligations |-> "none"]
  /\ kept = [o \in Obligations \cup {"surface"} |-> <<>>] /\ lost = FALSE

-----------------------------------------------------------------------------
(* persist_obligation, persist_surface_logs: under set -e, so that a       *)
(* directory or file that cannot be written ends the gate.                 *)

Keep(what, found, after) ==
  \/ kept' = (IF keeping THEN [kept EXCEPT ![what] = found] ELSE kept) /\ after /\ UNCHANGED lost
  \/ keeping /\ lost' = TRUE /\ Exit(1) /\ UNCHANGED kept

-----------------------------------------------------------------------------
(* gate_zd_pair_formal_surface.sh *)

Contract ==
  /\ step = "contract"
  /\ Require(manifest = "pinned", "primary")
  /\ UNCHANGED <<timer, tools, printed, evidence>>

RunSurface(run, next) ==
  /\ step = run
  /\ \E c \in {0, 1} \cup TimedOut, text \in {"pinned", "other"} :
       /\ timer' = (c \in TimedOut)
       /\ surface' = [surface EXCEPT ![run] = text]
       /\ IF c = 0 THEN GoTo(next) /\ UNCHANGED <<kept, lost>>
          ELSE Keep("surface", surface', Exit(IF c \in TimedOut THEN 42 ELSE 1))
  /\ UNCHANGED <<tools, printed, manifest, keeping, now, code, log, cnf>>

\* The logs are kept before they are looked into.
CompareSurface ==
  /\ step = "surface"
  /\ Keep("surface", surface,
          Require(surface["primary"] = surface["replay"] /\ surface["primary"] = "pinned", "recipe"))
  /\ UNCHANGED <<timer, tools, printed, manifest, keeping, surface, now, code, log, cnf>>

-----------------------------------------------------------------------------
(* The process of an obligation: recipe, CNF dump, solver. *)

Log(line)  == log' = [log EXCEPT ![now] = @ \o line]
End(c)     == code' = [code EXCEPT ![now] = c] /\ GoTo("receipt")
unobserved == <<tools, printed, manifest, keeping, surface, now, kept, lost>>

Recipe ==
  /\ step = "recipe" /\ GoTo("dump")
  /\ \E map \in IF now = "state_step" THEN {<<"map">>, <<"bad map">>} ELSE {<<>>},
        miter \in {<<"miter">>, <<"bad miter">>} : Log(map \o miter)
  /\ UNCHANGED <<timer, code, cnf, unobserved>>

OpenDump ==
  /\ step = "dump" /\ GoTo("dumping")
  /\ \E c \in {"none", "partial"} : cnf' = [cnf EXCEPT ![now] = c]
  /\ UNCHANGED <<timer, code, log, unobserved>>

\* On a full disk Yosys goes on with what it could write.
CloseDump ==
  /\ step = "dumping" /\ GoTo("solve")
  /\ \E c \in {"partial", "whole"} : cnf' = [cnf EXCEPT ![now] = c]
  /\ UNCHANGED <<timer, code, log, unobserved>>

\* -verify: a model, and the solver's own timeout, make Yosys fail.
Solve ==
  /\ step = "solve" /\ GoTo("leave")
  /\ \E outcome \in {"success", "timeout", "model"} :
       Log(<<outcome>>) /\ timer' = (outcome = "timeout")
  /\ UNCHANGED <<code, cnf, unobserved>>

Leave ==
  /\ step = "leave"
  /\ End(IF log[now][Len(log[now])] = "success" THEN 0 ELSE 1)
  /\ UNCHANGED <<timer, log, cnf, unobserved>>

Processing == {"recipe", "dump", "dumping", "solve", "leave"}

Crash ==
  /\ step \in Processing
  /\ End(1)
  /\ UNCHANGED <<timer, log, cnf, unobserved>>

\* The wall clock, at any moment; of the log only what was flushed is left.
WallClock ==
  /\ step \in Processing
  /\ timer' = TRUE
  /\ \E c \in TimedOut : End(c)
  /\ \E flushed \in 0 .. Len(log[now]) : log' = [log EXCEPT ![now] = SubSeq(@, 1, flushed)]
  /\ UNCHANGED <<cnf, unobserved>>

-----------------------------------------------------------------------------
(* run_obligation, after the process. *)

Found      == <<log[now], cnf[now]>>
Count(m)   == Len(SelectSeq(log[now], LAMBDA line : line = m))
unjudged   == <<timer, tools, printed, manifest, keeping, surface, code, log, cnf>>

\* Mutant: a broken CNF ends the gate before anything is kept.
ReceiptUnkept ==
  /\ step = "receipt"
  /\ IF cnf[now] = "whole" THEN GoTo("geometry")
     ELSE Exit(IF code[now] \in TimedOut THEN 42 ELSE 1)
  /\ UNCHANGED <<unjudged, now, kept, lost>>

\* cnf_receipt: only a CNF with as many clauses as its header declares.
Receipt ==
  /\ step = "receipt"
  /\ IF cnf[now] = "whole" THEN GoTo("geometry") /\ UNCHANGED <<kept, lost>>
     ELSE Keep(now, Found, Exit(IF code[now] \in TimedOut THEN 42 ELSE 1))
  /\ UNCHANGED <<unjudged, now>>

Geometry ==
  /\ step = "geometry"
  /\ Keep(now, Found,
          Require(/\ now = "state_step" => Count("map") = 1
                  /\ Count("miter") = 1, "decide"))
  /\ UNCHANGED <<unjudged, now>>

Proceed == IF now = "reset_base" THEN now' = "state_step" /\ GoTo("recipe")
           ELSE UNCHANGED now /\ GoTo("candidate")

\* Mutant: the exit code is looked at before the log.
DecideByCode ==
  /\ step = "decide"
  /\ IF code[now] \in TimedOut THEN Exit(42) /\ UNCHANGED now
     ELSE IF code[now] = 0 /\ Count("success") = 1 THEN Proceed
     ELSE Exit(1) /\ UNCHANGED now
  /\ UNCHANGED <<unjudged, kept, lost>>

\* The solver's timeout, the wall clock, the exit code, the success marker.
Decide ==
  /\ step = "decide"
  /\ IF Count("timeout") > 0 \/ code[now] \in TimedOut THEN Exit(42) /\ UNCHANGED now
     ELSE IF code[now] = 0 /\ Count("success") = 1 THEN Proceed
     ELSE Exit(1) /\ UNCHANGED now
  /\ UNCHANGED <<unjudged, kept, lost>>

Candidate ==
  /\ step = "candidate" /\ Exit(42)
  /\ printed' = printed \cup {"FORMAL_CANDIDATE"}
  /\ UNCHANGED <<timer, tools, evidence>>

-----------------------------------------------------------------------------
Next ==
  \/ CheckTools("contract") /\ UNCHANGED evidence
  \/ Contract \/ RunSurface("primary", "replay") \/ RunSurface("replay", "surface") \/ CompareSurface
  \/ Recipe \/ OpenDump \/ CloseDump \/ Solve \/ Leave \/ Crash \/ WallClock
  \/ Receipt \/ Geometry \/ Decide \/ Candidate
  \/ Kill /\ UNCHANGED evidence

Spec == Init /\ [][Next]_<<script, evidence>>

-----------------------------------------------------------------------------
(***************************************************************************)
(* A candidate has both obligations proved: each process ended well, no    *)
(* clock ran out, its log has the pinned geometry and one success, its CNF *)
(* is whole; and the two surface runs agree (lines 174-241).               *)
(***************************************************************************)
CandidateIsEarned ==
  "FORMAL_CANDIDATE" \in printed =>
    /\ manifest = "pinned" /\ surface = [run \in {"primary", "replay"} |-> "pinned"]
    /\ \A o \in Obligations :
         /\ code[o] = 0 /\ cnf[o] = "whole"
         /\ log[o] = (IF o = "state_step" THEN <<"map">> ELSE <<>>) \o <<"miter", "success">>

(***************************************************************************)
(* However an obligation ended, its log and its CNF, whole or broken, are  *)
(* in the artifact directory when the gate gives its verdict; so are the   *)
(* surface logs.  Exceptions: no directory was asked for, writing it       *)
(* failed, which is itself a failure, or the gate was killed (persist_*,   *)
(* before lines 176, 188, 194, 199).                                       *)
(***************************************************************************)
EvidenceKept ==
  keeping /\ exit \notin {Running, Killed} =>
    \/ lost /\ exit = 1
    \/ /\ \A o \in Obligations : code[o] # Running => kept[o] = <<log[o], cnf[o]>>
       /\ surface["primary"] # "none" => kept["surface"] = surface
=============================================================================
