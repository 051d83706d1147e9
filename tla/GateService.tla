---------------------------- MODULE GateService ----------------------------
(***************************************************************************)
(* What dispatching a gate promises its caller, without nodes, files or    *)
(* receipts: every launch ends with one verdict; PASS and FAIL are the     *)
(* verdict of a gate that ran for this launch and returned that code; when *)
(* in doubt the launch is BLOCKED, or aborts without a verdict of its own. *)
(***************************************************************************)
CONSTANTS Launches,
          Codes,        \* return codes of a gate
          NotRun,       \* no gate ran for the launch
          NoVerdict

VARIABLES ran,      \* the code the launch's gate returned, or NotRun
          verdict   \* what the launch reported

vars == <<ran, verdict>>

PassVerdict      == [kind |-> "PASS", rc |-> 0]
BlockedVerdict   == [kind |-> "BLOCKED", rc |-> 42]
AbortVerdict     == [kind |-> "ABORT", rc |-> 1]
FailVerdict(rc)  == [kind |-> "FAIL", rc |-> rc]

Init ==
  /\ ran = [l \in Launches |-> NotRun]
  /\ verdict = [l \in Launches |-> NoVerdict]

Run(l) ==
  /\ verdict[l] = NoVerdict /\ ran[l] = NotRun
  /\ \E rc \in Codes : ran' = [ran EXCEPT ![l] = rc]
  /\ UNCHANGED verdict

Report(l) ==
  /\ verdict[l] = NoVerdict
  /\ \E v \in {BlockedVerdict, AbortVerdict}
               \cup (IF ran[l] = 0 THEN {PassVerdict} ELSE {})
               \cup {FailVerdict(rc) : rc \in {ran[l]} \ {NotRun, 0, 42}} :
       verdict' = [verdict EXCEPT ![l] = v]
  /\ UNCHANGED ran

Next == \E l \in Launches : Run(l) \/ Report(l)

Spec == Init /\ [][Next]_vars /\ \A l \in Launches : WF_vars(Report(l))
============================================================================
