------------------------ MODULE SlurmDispatchProof ------------------------
(***************************************************************************)
(* A launch passes only on the receipt of its own gate, for every number   *)
(* of launches, nodes and output directories.                              *)
(*                                                                         *)
(* OwnReceipt is not inductive.  Behind it stand, in this order: who can   *)
(* be where (Phases), whose processes hold the lock of a node (Locks),     *)
(* what the tree of the node therefore holds (Trees), what the result line *)
(* carries away (Lines), and which launch an output directory belongs to   *)
(* (Directories).                                                          *)
(***************************************************************************)
EXTENDS SlurmDispatch, TLAPS

Phases ==
  \A l \in Launches :
    /\ launcher[l] \in {"claim", "prepare"} => worker[l] = "none"
    /\ launcher[l] = "validate" => worker[l] = "gone"
    /\ launcher[l] = "done" => worker[l] \in {"none", "gone"}
    /\ worker[l] \notin {"seal", "emit", "exit", "gone"} => gateRc[l] = NoRc
    /\ worker[l] # "none" => node[l] \in Nodes
    /\ verdict[l] # NoVerdict => launcher[l] = "done"
    /\ verdict[l] = Pass => worker[l] = "gone"

\* Processes of two launches never hold the lock of one node.
Locks ==
  /\ \A l \in Launches :
       /\ worker[l] \in {"none", "lock"} =>
            <<l, "shell">> \notin locks /\ <<l, "gate">> \notin locks
       /\ worker[l] \in Inside \cup {"wipe"} => <<l, "shell">> \in locks
  /\ \A p, q \in locks : node[p[1]] = node[q[1]] => p[1] = q[1]

TreeOf(l) ==
  /\ worker[l] \in Inside => /\ Here(l).payload \in {l, NoLaunch}
                             /\ Here(l).run \in {l, NoLaunch}
                             /\ Here(l).writers \subseteq {l}
  /\ worker[l] \in Inside \ {"unpack"} => Here(l).payload = l
  /\ worker[l] \in Inside \ {"unpack", "stage"} => Here(l).run = l
  /\ worker[l] \in {"seal", "emit", "exit"} =>
       Here(l).writers = {l} /\ gateRc[l] \in Codes
  /\ worker[l] \in {"emit", "exit"} => Here(l).rc = gateRc[l]
Trees == \A l \in Launches : TreeOf(l)

Lines ==
  \A l \in Launches : line[l] \notin {NoReceipt, Torn} =>
    /\ worker[l] \in {"exit", "gone"}
    /\ line[l].payload = l /\ line[l].run = l /\ line[l].writers = {l}
    /\ line[l].rc = gateRc[l] /\ line[l].rc \in Codes

\* The launch that made its output directory and has not given up.
Owns(l) == launcher[l] \in {"prepare", "srun", "validate"} \/ verdict[l] = Pass

Directories ==
  /\ \A l \in Launches : Owns(l) => Dir[l] \in claimed
  /\ \A l, m \in Launches : Owns(l) /\ Owns(m) /\ Dir[l] = Dir[m] => l = m
  /\ \A l \in Launches : launcher[l] = "validate" \/ verdict[l] = Pass =>
       out[Dir[l]] = line[l] /\ line[l] \notin {NoReceipt, Torn}

Passes ==
  \A l \in Launches : verdict[l] = Pass =>
    line[l].sealed /\ line[l].complete /\ line[l].rc = 0 /\ jobRc[l] = 0

IInv == TypeOK /\ Phases /\ Locks /\ Trees /\ Lines /\ Directories /\ Passes

----------------------------------------------------------------------------
(* The steps, named once for the case splits below. *)
Before(l) == Claim(l) \/ Collide(l) \/ Withhold(l) \/ Submit(l)
Inner(l)  == Unpack(l) \/ Stage(l) \/ StartGate(l) \/ EndGate(l) \/ Seal(l) \/ Emit(l)
Ends(l)   == Exit(l) \/ Reject(l) \/ Kill(l) \/ Reap(l)
After(l)  == Collect(l) \/ Miss(l) \/ Validate(l)

\* Every step is one of them.
LEMMA StepCases ==
  ASSUME Next
  PROVE  \E l \in Launches : \/ Before(l) \/ Lock(l) \/ Wipe(l) \/ Inner(l)
                             \/ GateWrites(l) \/ Ends(l) \/ After(l)
BY DEF Next, Launcher, Worker, Before, Inner, Ends, After

LEMMA EmptyIsTree == EmptyTree \in Tree
BY DEF EmptyTree, Tree, NoRc

\* What the validator can answer, and what an answer of PASS takes.
LEMMA ClassifyVerdict ==
  ASSUME NEW r \in Tree, r.rc \in Codes, NEW identity, NEW rc
  PROVE  /\ Classify(r, identity, rc) \in Verdicts
         /\ Classify(r, identity, rc) = Pass =>
              r.sealed /\ r.complete /\ r.rc = 0 /\ rc = 0
<1>1. Classify(r, identity, rc) \in
        {Blocked, IF r.rc = 0 THEN Pass ELSE Fail(r.rc)}
  BY DEF Classify
<1>2. Classify(r, identity, rc) # Blocked =>
        r.sealed /\ r.rc = rc /\ (r.rc = 0 => r.complete) /\ r.rc # 42
  BY DEF Classify
<1>3. Pass # Blocked /\ \A c : Pass # Fail(c)
  BY DEF Pass, Blocked, Fail
<1>4. CASE Classify(r, identity, rc) = Blocked
  BY <1>3, <1>4 DEF Verdicts
<1>5. CASE Classify(r, identity, rc) # Blocked
  <2>1. CASE r.rc = 0
    BY <1>1, <1>2, <1>5, <2>1 DEF Verdicts
  <2>2. CASE r.rc # 0
    BY <1>1, <1>2, <1>3, <1>5, <2>2 DEF Verdicts
  <2> QED BY <2>1, <2>2
<1> QED BY <1>4, <1>5

----------------------------------------------------------------------------
\* Types: one group of steps after the other; what a group leaves alone keeps its type.
LEMMA TreeFields ==
  ASSUME NEW t \in Tree
  PROVE  /\ \A l \in Launches :
              /\ [t EXCEPT !.payload = l] \in Tree
              /\ [t EXCEPT !.run = t.payload] \in Tree
              /\ [t EXCEPT !.writers = @ \cup {l}, !.sealed = FALSE] \in Tree
              /\ \A c \in BOOLEAN :
                   [t EXCEPT !.complete = c, !.writers = @ \cup {l}] \in Tree
         /\ \A rc \in Codes \cup {NoRc} : [t EXCEPT !.rc = rc, !.sealed = TRUE] \in Tree
BY DEF Tree

LEMMA DeskTypes ==
  ASSUME IInv, NEW l \in Launches, Before(l) \/ After(l)
  PROVE  TypeOK'
<1> USE DEF TypeOK, IInv
<1>0. Blocked \in Verdicts /\ Abort \in Verdicts
  BY DEF Verdicts
<1>1. CASE Claim(l)
  <2>1. Dir[l] \in Dirs
    BY LaunchAssumption
  <2>2. claimed' \subseteq Dirs
    BY <1>1, <2>1 DEF Claim
  <2> QED BY <1>1, <2>2 DEF Claim, job, LauncherSteps
<1>2. CASE Collide(l)
  BY <1>0, <1>2 DEF Collide, job, Finish, LauncherSteps
<1>3. CASE Withhold(l)
  BY <1>0, <1>3 DEF Withhold, job, Finish, LauncherSteps
<1>4. CASE Submit(l)
  BY <1>4 DEF Submit, LauncherSteps, WorkerSteps
<1>5. CASE Collect(l)
  BY <1>5, LaunchAssumption DEF Collect, job, LauncherSteps
<1>6. CASE Miss(l)
  BY <1>0, <1>6 DEF Miss, job, Finish, LauncherSteps
<1>7. CASE Validate(l)
  <2>1. out[Dir[l]] \in Tree /\ out[Dir[l]].rc \in Codes
    BY <1>7 DEF Validate, Directories, Lines
  <2>2. Classify(out[Dir[l]], Identity[l], jobRc[l]) \in Verdicts
    BY <2>1, ClassifyVerdict
  <2> QED BY <1>7, <2>2 DEF Validate, job, Finish, LauncherSteps
<1> QED BY <1>1, <1>2, <1>3, <1>4, <1>5, <1>6, <1>7 DEF Before, After

LEMMA JobTypes ==
  ASSUME IInv, NEW l \in Launches,
         Lock(l) \/ Wipe(l) \/ Inner(l) \/ GateWrites(l) \/ Ends(l)
  PROVE  TypeOK'
<1> USE DEF TypeOK, IInv, desk, GoTo, WorkerSteps
<1>0. Here(l) \in Tree \/ node[l] \notin Nodes
  BY DEF Here
<1>1. CASE Lock(l)
  BY <1>1 DEF Lock
<1>2. CASE Wipe(l)
  BY <1>2, EmptyIsTree DEF Wipe, SetTree
<1>3. CASE Unpack(l)
  BY <1>0, <1>3, TreeFields DEF Unpack, SetTree
<1>4. CASE Stage(l)
  BY <1>0, <1>4, TreeFields DEF Stage, SetTree
<1>5. CASE StartGate(l)
  BY <1>5 DEF StartGate
<1>6. CASE EndGate(l)
  <2>1. PICK o \in Outcomes :
          /\ gateRc' = [gateRc EXCEPT ![l] = o.rc]
          /\ tree' = [tree EXCEPT ![node[l]] =
                [Here(l) EXCEPT !.complete = o.complete, !.writers = @ \cup {l}]]
          /\ locks' \subseteq locks
    BY <1>6 DEF EndGate, SetTree
  <2>2. o.rc \in Codes /\ o.complete \in BOOLEAN
    BY OutcomeAssumption
  <2>3. gateRc' \in [Launches -> Codes \cup {NoRc}]
    BY <2>1, <2>2
  <2>4. tree' \in [Nodes -> Tree]
    BY <1>0, <2>1, <2>2, TreeFields
  <2> QED BY <1>6, <2>1, <2>3, <2>4 DEF EndGate
<1>7. CASE Seal(l)
  BY <1>0, <1>7, TreeFields DEF Seal, SetTree
<1>8. CASE Emit(l)
  BY <1>0, <1>8 DEF Emit, At, Phases
<1>9. CASE GateWrites(l)
  BY <1>0, <1>9, TreeFields DEF GateWrites, SetTree
<1>10. CASE Ends(l)
  <2>1. Killed \in Codes /\ 1 \in Codes
    BY DEF Killed, Codes
  <2>2. CASE Exit(l)
    BY <2>2 DEF Exit, Leave
  <2>3. CASE Reject(l)
    BY <2>1, <2>3 DEF Reject, Leave
  <2>4. CASE Kill(l)
    BY <2>1, <2>4 DEF Kill, Leave
  <2>5. CASE Reap(l)
    BY <2>5 DEF Reap
  <2> QED BY <1>10, <2>2, <2>3, <2>4, <2>5 DEF Ends
<1> QED BY <1>1, <1>2, <1>3, <1>4, <1>5, <1>6, <1>7, <1>8, <1>9, <1>10 DEF Inner

----------------------------------------------------------------------------
\* What the frames of the two halves come to.
LEMMA PhasesStep ==
  ASSUME IInv, TypeOK', Next
  PROVE  Phases'
<1> USE DEF TypeOK, IInv, Phases
<1>1. PICK l \in Launches : \/ Before(l) \/ Lock(l) \/ Wipe(l) \/ Inner(l)
                            \/ GateWrites(l) \/ Ends(l) \/ After(l)
  BY StepCases
<1>2. Pass # NoVerdict /\ Blocked # Pass /\ Abort # Pass /\ Blocked # NoVerdict
      /\ Abort # NoVerdict
  BY VerdictAssumption DEF Verdicts, Pass, Blocked, Abort
<1>3. CASE Before(l)
  BY <1>2, <1>3 DEF Before, Claim, Collide, Withhold, Submit, job, Finish
<1>4. CASE Lock(l) \/ Wipe(l) \/ Inner(l) \/ GateWrites(l)
  <2>1. CASE EndGate(l)
    <3>1. /\ worker[l] = "gate" /\ worker'[l] = "seal" /\ UNCHANGED <<desk, node>>
          /\ \A m \in Launches \ {l} : gateRc'[m] = gateRc[m] /\ worker'[m] = worker[m]
      BY <2>1 DEF EndGate, At, GoTo
    <3> QED BY <3>1 DEF desk
  <2>2. CASE ~EndGate(l)
    BY <1>4, <2>2 DEF Lock, Wipe, Inner, Unpack, Stage, StartGate, Seal, Emit,
                      GateWrites, desk, GoTo, At
  <2> QED BY <2>1, <2>2
<1>5. CASE Ends(l)
  BY <1>5 DEF Ends, Exit, Reject, Kill, Reap, Leave, desk, GoTo, At
<1>6. CASE After(l)
  BY <1>2, <1>6 DEF After, Collect, Miss, Validate, job, Finish, At
<1> QED BY <1>1, <1>3, <1>4, <1>5, <1>6

LEMMA LocksStep ==
  ASSUME IInv, TypeOK', Next
  PROVE  Locks'
<1> USE DEF TypeOK, IInv, Phases, Locks
<1>1. PICK l \in Launches : \/ Before(l) \/ Lock(l) \/ Wipe(l) \/ Inner(l)
                            \/ GateWrites(l) \/ Ends(l) \/ After(l)
  BY StepCases
<1>2. CASE Before(l)
  <2>1. CASE Submit(l)
    <3>0. worker[l] = "none"
      BY <2>1 DEF Submit
    <3>1. \A p \in locks : p[1] # l
      <4>1. SUFFICES ASSUME NEW p \in locks, p[1] = l PROVE FALSE
        OBVIOUS
      <4>2. p = <<l, "shell">> \/ p = <<l, "gate">>
        BY <4>1
      <4>3. <<l, "shell">> \notin locks /\ <<l, "gate">> \notin locks
        BY <3>0
      <4> HIDE DEF TypeOK, IInv, Phases, Locks
      <4> QED BY <4>1, <4>2, <4>3
    <3>2. \A p \in locks : node'[p[1]] = node[p[1]]
      BY <2>1, <3>1 DEF Submit
    <3> QED BY <2>1, <3>1, <3>2 DEF Submit, Inside
  <2>2. CASE Claim(l) \/ Collide(l) \/ Withhold(l)
    BY <2>2 DEF Claim, Collide, Withhold, job
  <2> QED BY <1>2, <2>1, <2>2 DEF Before
<1>3. CASE Lock(l)
  <2>1. \A p \in locks : node[p[1]] # node[l]
    BY <1>3 DEF Lock, HeldOn
  <2> QED BY <1>3, <2>1 DEF Lock, At, GoTo, Inside
<1>4. CASE StartGate(l)
  <2>1. <<l, "shell">> \in locks
    BY <1>4 DEF StartGate, At, Inside
  <2>2. \A p \in locks' : \E q \in locks : q[1] = p[1]
    BY <1>4, <2>1 DEF StartGate
  <2> QED BY <1>4, <2>1, <2>2 DEF StartGate, At, GoTo, Inside
<1>5. CASE Wipe(l) \/ Unpack(l) \/ Stage(l) \/ EndGate(l) \/ Seal(l) \/ Emit(l)
           \/ GateWrites(l)
  <2>1. locks' \subseteq locks /\ node' = node
    BY <1>5 DEF Wipe, Unpack, Stage, EndGate, Seal, Emit, GateWrites
  <2>2. \A m \in Launches : <<m, "shell">> \in locks => <<m, "shell">> \in locks'
    <3>1. CASE EndGate(l)
      BY <3>1 DEF EndGate
    <3>2. CASE ~EndGate(l)
      BY <1>5, <3>2 DEF Wipe, Unpack, Stage, Seal, Emit, GateWrites
    <3> QED BY <3>1, <3>2
  <2>3. \A m \in Launches : \/ worker'[m] = worker[m]
                            \/ worker[m] \in Inside \cup {"wipe"} /\ worker'[m] \in Inside
    BY <1>5, ZenonT(60) DEF Wipe, Unpack, Stage, EndGate, Seal, Emit, GateWrites, At, GoTo, Inside
  <2> QED BY <2>1, <2>2, <2>3 DEF Inside
<1>6. CASE Ends(l)
  BY <1>6 DEF Ends, Exit, Reject, Kill, Reap, Leave, At, GoTo, Inside
<1>7. CASE After(l)
  BY <1>7 DEF After, Collect, Miss, Validate, job
<1> QED BY <1>1, <1>2, <1>3, <1>4, <1>5, <1>6, <1>7 DEF Inner

LEMMA LinesStep ==
  ASSUME IInv, TypeOK', Next
  PROVE  Lines'
<1> USE DEF TypeOK, IInv, Lines
<1>1. PICK l \in Launches : \/ Before(l) \/ Lock(l) \/ Wipe(l) \/ Inner(l)
                            \/ GateWrites(l) \/ Ends(l) \/ After(l)
  BY StepCases
<1>2. CASE Before(l) \/ After(l)
  BY <1>2 DEF Before, Claim, Collide, Withhold, Submit, After, Collect, Miss,
              Validate, job, Phases
<1>3. CASE Emit(l)
  BY <1>3 DEF Emit, At, GoTo, Trees, TreeOf, Inside
<1>4. CASE EndGate(l)
  <2>1. line[l] \in {NoReceipt, Torn} /\ line' = line
    BY <1>4 DEF EndGate, At
  <2>2. \A m \in Launches \ {l} : gateRc'[m] = gateRc[m] /\ worker'[m] = worker[m]
    BY <1>4 DEF EndGate, GoTo
  <2> QED BY <2>1, <2>2
<1>5. CASE Lock(l) \/ Wipe(l) \/ Unpack(l) \/ Stage(l) \/ StartGate(l) \/ Seal(l)
           \/ GateWrites(l)
  BY <1>5 DEF Lock, Wipe, Unpack, Stage, StartGate, Seal, GateWrites, At, GoTo
<1>6. CASE Ends(l)
  BY <1>6 DEF Ends, Exit, Reject, Kill, Reap, Leave, At, GoTo
<1> QED BY <1>1, <1>2, <1>3, <1>4, <1>5, <1>6 DEF Inner

----------------------------------------------------------------------------
\* Another launch inside the tree of l's node: then no process of l holds the lock.
LEMMA Alone ==
  ASSUME IInv, NEW l \in Launches, NEW m \in Launches, l # m,
         worker[m] \in Inside,
         \/ worker[l] \in Inside \cup {"wipe"}
         \/ <<l, "gate">> \in locks
  PROVE  node[l] # node[m]
<1>1. <<m, "shell">> \in locks
  BY DEF IInv, Locks
<1>2. <<l, "shell">> \in locks \/ <<l, "gate">> \in locks
  BY DEF IInv, Locks
<1> QED BY <1>1, <1>2 DEF IInv, Locks

\* A step of l that writes only the tree of its own node, while it may.
LEMMA OtherTrees ==
  ASSUME IInv, NEW l \in Launches, NEW t, SetTree(l, t),
         \/ worker[l] \in Inside \cup {"wipe"}
         \/ <<l, "gate">> \in locks
  PROVE  \A m \in Launches \ {l} : worker[m] \in Inside => tree[node[m]] = tree'[node[m]]
BY Alone DEF SetTree, IInv, TypeOK, Phases, Inside

LEMMA TreesStep ==
  ASSUME IInv, TypeOK', Next
  PROVE  Trees'
<1> USE DEF TypeOK, Trees, TreeOf
<1> IInv /\ TypeOK /\ Trees /\ Phases
  BY DEF IInv
<1>1. PICK l \in Launches : \/ Before(l) \/ Lock(l) \/ Wipe(l) \/ Inner(l)
                            \/ GateWrites(l) \/ Ends(l) \/ After(l)
  BY StepCases
<1>0. worker[l] # "none" => tree[node[l]] \in Tree /\ node[l] \in Nodes
  BY DEF Phases
<1>2. CASE Before(l) \/ After(l)
  <2>1. CASE Submit(l)
    BY <2>1 DEF Submit, Inside, Here, Phases
  <2>2. CASE ~Submit(l)
    BY <1>2, <2>2 DEF Before, Claim, Collide, Withhold, After, Collect, Miss,
                      Validate, job, Here
  <2> QED BY <2>1, <2>2
<1>3. CASE Lock(l) \/ Ends(l)
  <2>1. /\ tree' = tree /\ node' = node /\ gateRc' = gateRc
        /\ \A m \in Launches : worker'[m] \in Inside => worker'[m] = worker[m]
    BY <1>3 DEF Lock, Ends, Exit, Reject, Kill, Reap, Leave, GoTo, Inside
  <2> QED BY <2>1 DEF Here, Inside
<1>4. CASE StartGate(l) \/ Emit(l)
  <2>1. /\ tree' = tree /\ node' = node /\ gateRc' = gateRc
        /\ \A m \in Launches \ {l} : worker'[m] = worker[m]
    BY <1>4 DEF StartGate, Emit, GoTo
  <2>2. CASE StartGate(l)
    BY <2>1, <2>2 DEF StartGate, At, GoTo, Here, Inside
  <2>3. CASE Emit(l)
    BY <2>1, <2>3 DEF Emit, At, GoTo, Here, Inside
  <2> QED BY <1>4, <2>2, <2>3
<1>5. CASE Wipe(l) \/ Unpack(l) \/ Stage(l) \/ EndGate(l) \/ Seal(l) \/ GateWrites(l)
  <2>0. node' = node /\ tree[node[l]] \in Tree /\ node[l] \in Nodes
    BY <1>0, <1>5 DEF Wipe, Unpack, Stage, EndGate, Seal, GateWrites, At, IInv, Locks
  <2>1. \A m \in Launches \ {l} : worker'[m] = worker[m] /\ gateRc'[m] = gateRc[m]
    <3>1. CASE EndGate(l)
      BY <3>1 DEF EndGate, GoTo
    <3>2. CASE ~EndGate(l)
      BY <1>5, <3>2 DEF Wipe, Unpack, Stage, Seal, GateWrites, GoTo
    <3> QED BY <3>1, <3>2
  <2>2. \A m \in Launches \ {l} : worker[m] \in Inside => Here(m)' = Here(m)
    BY <1>5, <2>0, OtherTrees
    DEF Wipe, Unpack, Stage, EndGate, Seal, GateWrites, At, Inside, Here
  <2>3. \A m \in Launches \ {l} : TreeOf(m)'
    BY <2>1, <2>2 DEF Inside
  <2>4. SUFFICES TreeOf(l)'
    BY <2>3
  <2>5. CASE Wipe(l)
    <3>1. Here(l)' = EmptyTree /\ worker'[l] = "unpack"
      BY <2>0, <2>5 DEF Wipe, GoTo, SetTree, Here
    <3> QED BY <3>1 DEF EmptyTree, Inside
  <2>6. CASE Unpack(l)
    BY <2>0, <2>6 DEF Unpack, At, GoTo, SetTree, Here, Tree, Inside
  <2>7. CASE Stage(l)
    BY <2>0, <2>7 DEF Stage, At, GoTo, SetTree, Here, Tree, Inside
  <2>8. CASE EndGate(l)
    <3>1. PICK o \in Outcomes :
            /\ gateRc' = [gateRc EXCEPT ![l] = o.rc]
            /\ tree' = [tree EXCEPT ![node[l]] =
                  [Here(l) EXCEPT !.complete = o.complete, !.writers = @ \cup {l}]]
      BY <2>8 DEF EndGate, SetTree
    <3>2. Here(l)' = [Here(l) EXCEPT !.complete = o.complete, !.writers = @ \cup {l}]
      BY <2>0, <3>1 DEF Here
    <3>3. /\ Here(l)'.payload = Here(l).payload /\ Here(l)'.run = Here(l).run
          /\ Here(l)'.writers = Here(l).writers \cup {l}
      BY <2>0, <3>2 DEF Here, Tree
    <3>4. gateRc'[l] \in Codes
      BY <3>1, OutcomeAssumption
    <3>5. worker[l] = "gate" /\ worker'[l] = "seal"
      BY <2>8 DEF EndGate, At, GoTo
    <3> QED BY <3>3, <3>4, <3>5 DEF Inside
  <2>9. CASE Seal(l)
    BY <2>0, <2>9 DEF Seal, At, GoTo, SetTree, Here, Tree, Inside
  <2>10. CASE GateWrites(l)
    <3>1. /\ Here(l)'.payload = Here(l).payload /\ Here(l)'.run = Here(l).run
          /\ Here(l)'.writers = Here(l).writers \cup {l} /\ Here(l)'.rc = Here(l).rc
      BY <2>0, <2>10 DEF GateWrites, SetTree, Here, Tree
    <3> QED BY <2>10, <3>1 DEF GateWrites, Inside
  <2> QED BY <1>5, <2>5, <2>6, <2>7, <2>8, <2>9, <2>10
<1> QED BY <1>1, <1>2, <1>3, <1>4, <1>5 DEF Inner

----------------------------------------------------------------------------
\* Steps of the worker leave the launcher's files alone, and a line that was sent.
LEMMA JobKeepsDesk ==
  ASSUME IInv, NEW l \in Launches,
         Lock(l) \/ Wipe(l) \/ Inner(l) \/ GateWrites(l) \/ Ends(l)
  PROVE  /\ UNCHANGED desk
         /\ \A m \in Launches : worker[m] = "gone" =>
              line'[m] = line[m] /\ jobRc'[m] = jobRc[m] /\ worker'[m] = "gone"
<1> USE DEF IInv, TypeOK
<1>1. CASE Lock(l) \/ Wipe(l) \/ Inner(l) \/ GateWrites(l)
  BY <1>1 DEF Lock, Wipe, Inner, Unpack, Stage, StartGate, EndGate, Seal, Emit,
              GateWrites, At, GoTo, desk
<1>2. CASE Ends(l)
  BY <1>2 DEF Ends, Exit, Reject, Kill, Reap, Leave, At, GoTo, desk
<1> QED BY <1>1, <1>2

LEMMA DirectoriesStep ==
  ASSUME IInv, TypeOK', Next
  PROVE  Directories' /\ Passes'
<1> USE DEF TypeOK
<1> IInv /\ TypeOK /\ Phases /\ Directories /\ Passes /\ Lines
  BY DEF IInv
<1>1. PICK l \in Launches : \/ Before(l) \/ Lock(l) \/ Wipe(l) \/ Inner(l)
                            \/ GateWrites(l) \/ Ends(l) \/ After(l)
  BY StepCases
<1>2. Pass # NoVerdict /\ Blocked # Pass /\ Abort # Pass
  BY VerdictAssumption DEF Verdicts, Pass, Blocked, Abort
<1>3. CASE Claim(l)
  <2>1. \A m \in Launches : Owns(m)' => m = l \/ (Owns(m) /\ Dir[m] # Dir[l])
    BY <1>3 DEF Claim, Owns, Directories
  <2>2. \A m \in Launches : launcher'[m] = "validate" => launcher[m] = "validate"
    BY <1>3 DEF Claim
  <2> QED BY <1>3, <2>1, <2>2 DEF Claim, job, Directories, Passes, Owns
<1>4. CASE Collide(l) \/ Withhold(l) \/ Miss(l)
  <2>1. /\ \A m \in Launches \ {l} : launcher'[m] = launcher[m] /\ verdict'[m] = verdict[m]
        /\ launcher'[l] = "done" /\ verdict'[l] # Pass
        /\ UNCHANGED <<claimed, out, line, jobRc>>
    BY <1>2, <1>4 DEF Collide, Withhold, Miss, Finish, job
  <2> QED BY <2>1 DEF Directories, Passes, Owns
<1>5. CASE Submit(l)
  <2>1. /\ \A m \in Launches \ {l} : launcher'[m] = launcher[m]
        /\ launcher[l] = "prepare" /\ launcher'[l] = "srun"
        /\ UNCHANGED <<verdict, claimed, out, line, jobRc>>
    BY <1>5 DEF Submit
  <2> QED BY <2>1 DEF Directories, Passes, Owns
<1>6. CASE Collect(l)
  <2>1. /\ \A m \in Launches \ {l} : launcher'[m] = launcher[m]
        /\ launcher[l] = "srun" /\ launcher'[l] = "validate"
        /\ UNCHANGED <<verdict, claimed, line, jobRc>>
        /\ Dir[l] \in Dirs /\ out'[Dir[l]] = line[l] /\ line[l] \notin {NoReceipt, Torn}
        /\ \A d \in Dirs \ {Dir[l]} : out'[d] = out[d]
    BY <1>6, LaunchAssumption DEF Collect, job
  <2>2. \A m \in Launches : Owns(m)' = Owns(m)
    BY <2>1 DEF Owns
  <2>3. \A m \in Launches \ {l} : Owns(m) => out'[Dir[m]] = out[Dir[m]]
    BY <2>1, LaunchAssumption DEF Directories, Owns
  <2>4. \A m \in Launches : launcher'[m] = "validate" \/ verdict'[m] = Pass =>
          out'[Dir[m]] = line'[m] /\ line'[m] \notin {NoReceipt, Torn}
    BY <2>1, <2>3 DEF Directories, Owns
  <2> QED BY <2>1, <2>2, <2>4 DEF Directories, Passes
<1>7. CASE Validate(l)
  <2>1. /\ \A m \in Launches \ {l} : launcher'[m] = launcher[m] /\ verdict'[m] = verdict[m]
        /\ launcher[l] = "validate" /\ launcher'[l] = "done"
        /\ verdict'[l] = Classify(out[Dir[l]], Identity[l], jobRc[l])
        /\ UNCHANGED <<claimed, out, line, jobRc>>
    BY <1>7 DEF Validate, Finish, job
  <2>2. out[Dir[l]] = line[l] /\ line[l] \in Tree /\ line[l].rc \in Codes
    BY <2>1 DEF Directories, Lines
  <2>3. verdict'[l] = Pass => /\ line[l].sealed /\ line[l].complete /\ line[l].rc = 0
                              /\ jobRc[l] = 0
    BY <2>1, <2>2, ClassifyVerdict
  <2>4. \A m \in Launches : Owns(m)' => Owns(m)
    BY <2>1 DEF Owns
  <2> QED BY <2>1, <2>3, <2>4 DEF Directories, Passes
<1>8. CASE Lock(l) \/ Wipe(l) \/ Inner(l) \/ GateWrites(l) \/ Ends(l)
  <2>1. /\ UNCHANGED desk
        /\ \A m \in Launches : worker[m] = "gone" =>
             line'[m] = line[m] /\ jobRc'[m] = jobRc[m]
    BY <1>8, JobKeepsDesk
  <2> QED BY <2>1 DEF desk, Directories, Passes, Owns, Phases
<1> QED BY <1>1, <1>3, <1>4, <1>5, <1>6, <1>7, <1>8 DEF Before, After

----------------------------------------------------------------------------
LEMMA InitIInv == Init => IInv
<1> SUFFICES ASSUME Init PROVE IInv
  OBVIOUS
<1>0. Pass # NoVerdict
  BY VerdictAssumption DEF Verdicts
<1>1. TypeOK
  BY EmptyIsTree DEF Init, TypeOK, LauncherSteps, WorkerSteps
<1>2. Phases /\ Locks /\ Trees /\ Lines
  BY <1>0 DEF Init, Phases, Locks, Trees, TreeOf, Lines, Inside
<1>3. Directories /\ Passes
  BY <1>0 DEF Init, Directories, Passes, Owns
<1> QED BY <1>1, <1>2, <1>3 DEF IInv

LEMMA StepIInv == IInv /\ [Next]_vars => IInv'
<1> SUFFICES ASSUME IInv, [Next]_vars PROVE IInv'
  OBVIOUS
<1>1. CASE Next
  <2>1. TypeOK'
    <3>1. PICK l \in Launches : \/ Before(l) \/ Lock(l) \/ Wipe(l) \/ Inner(l)
                                \/ GateWrites(l) \/ Ends(l) \/ After(l)
      BY <1>1, StepCases
    <3> QED BY <3>1, DeskTypes, JobTypes
  <2> QED BY <1>1, <2>1, PhasesStep, LocksStep, TreesStep, LinesStep, DirectoriesStep
          DEF IInv
<1>2. CASE UNCHANGED vars
  BY <1>2 DEF vars, IInv, TypeOK, Phases, Locks, Trees, TreeOf, Here, Lines, Directories,
              Owns, Passes
<1> QED BY <1>1, <1>2

\* The strengthened invariant holds of every behaviour of the dispatch.
THEOREM DispatchInvariance == Spec => []IInv
BY InitIInv, StepIInv, PTL DEF Spec

\* The state of launchers, workers, lines, locks and trees is always well typed.
THEOREM DispatchTypes == Spec => []TypeOK
<1>1. IInv => TypeOK
  BY DEF IInv
<1> QED BY <1>1, DispatchInvariance, PTL

\* No worker ever works in a tree that another launch wrote into, on any number of
\* nodes, with any number of jobs killed at any step (lines 178-181 of the launcher).
THEOREM TreeIsOwn == Spec => []OwnTree
<1>1. IInv => OwnTree
  BY DEF IInv, Trees, TreeOf, OwnTree, Inside
<1> QED BY <1>1, DispatchInvariance, PTL

\* Whatever launches share a commit, a gate, a node or an output directory, a PASS
\* rests on the sealed receipt of the launch's own gate, which returned 0.
THEOREM ReceiptIsOwn == Spec => []OwnReceipt
<1>1. IInv => OwnReceipt
  BY DEF IInv, Directories, Lines, Passes, OwnReceipt
<1> QED BY <1>1, DispatchInvariance, PTL

----------------------------------------------------------------------------
\* Every step of the dispatch is a step of GateService, or none it can see.
LEMMA ServiceStep ==
  ASSUME IInv, IInv', [Next]_vars
  PROVE  [Service!Next]_(Service!vars)
<1> USE DEF TypeOK, Service!vars
<1> IInv /\ TypeOK /\ Phases
  BY DEF IInv
<1>1. CASE UNCHANGED vars
  BY <1>1 DEF vars
<1>2. ASSUME NEW l \in Launches,
             verdict[l] = NoVerdict, gateRc' = gateRc,
             \/ verdict' = [verdict EXCEPT ![l] = Blocked]
             \/ verdict' = [verdict EXCEPT ![l] = Abort]
             \/ gateRc[l] = 0 /\ verdict' = [verdict EXCEPT ![l] = Pass]
             \/ /\ gateRc[l] \notin {NoRc, 0, 42}
                /\ verdict' = [verdict EXCEPT ![l] = Fail(gateRc[l])]
      PROVE  Service!Next
  <2>1. /\ Service!BlockedVerdict = Blocked /\ Service!AbortVerdict = Abort
        /\ Service!PassVerdict = Pass /\ \A rc : Service!FailVerdict(rc) = Fail(rc)
    BY DEF Service!BlockedVerdict, Service!AbortVerdict, Service!PassVerdict,
           Service!FailVerdict, Blocked, Abort, Pass, Fail
  <2>2. Service!Report(l)
    BY <1>2, <2>1 DEF Service!Report
  <2> QED BY <2>2 DEF Service!Next
<1>3. CASE Next
  <2>1. PICK l \in Launches : \/ Before(l) \/ Lock(l) \/ Wipe(l) \/ Inner(l)
                              \/ GateWrites(l) \/ Ends(l) \/ After(l)
    BY <1>3, StepCases
  <2>2. CASE EndGate(l)
    <3>1. verdict[l] = NoVerdict /\ gateRc[l] = NoRc /\ UNCHANGED verdict
      BY <2>2 DEF EndGate, At, desk, Phases
    <3>2. PICK o \in Outcomes : gateRc' = [gateRc EXCEPT ![l] = o.rc]
      BY <2>2 DEF EndGate
    <3>3. Service!Run(l)
      BY <3>1, <3>2 DEF Service!Run
    <3> QED BY <3>3 DEF Service!Next
  <2>3. CASE Collide(l) \/ Withhold(l) \/ Miss(l)
    <3>1. verdict[l] = NoVerdict /\ gateRc' = gateRc
      BY <2>3 DEF Collide, Withhold, Miss, job, Phases
    <3>2. \/ verdict' = [verdict EXCEPT ![l] = Blocked]
          \/ verdict' = [verdict EXCEPT ![l] = Abort]
      BY <2>3 DEF Collide, Withhold, Miss, Finish
    <3> QED BY <1>2, <3>1, <3>2
  <2>4. CASE Validate(l)
    <3>1. verdict[l] = NoVerdict /\ gateRc' = gateRc
      BY <2>4 DEF Validate, job, Phases
    <3>2. /\ verdict' = [verdict EXCEPT ![l] = Classify(line[l], Identity[l], jobRc[l])]
          /\ line[l].rc = gateRc[l] /\ gateRc[l] \in Codes
      BY <2>4 DEF Validate, Finish, IInv, Directories, Lines
    <3>3. \/ Classify(line[l], Identity[l], jobRc[l]) = Blocked
          \/ /\ gateRc[l] = 0
             /\ Classify(line[l], Identity[l], jobRc[l]) = Pass
          \/ /\ gateRc[l] \notin {0, 42}
             /\ Classify(line[l], Identity[l], jobRc[l]) = Fail(gateRc[l])
      BY <3>2 DEF Classify
    <3>4. gateRc[l] # NoRc
      BY <3>2 DEF Codes, NoRc
    <3> QED BY <1>2, <3>1, <3>2, <3>3, <3>4
  <2>5. CASE \/ Claim(l) \/ Submit(l) \/ Collect(l) \/ Lock(l) \/ Wipe(l) \/ Unpack(l)
             \/ Stage(l) \/ StartGate(l) \/ Seal(l) \/ Emit(l) \/ GateWrites(l) \/ Ends(l)
    BY <2>5 DEF Claim, Submit, Collect, Lock, Wipe, Unpack, Stage, StartGate, Seal, Emit,
                GateWrites, Ends, Exit, Reject, Kill, Reap, desk, job
  <2> QED BY <2>1, <2>2, <2>3, <2>4, <2>5 DEF Before, Inner, After
<1> QED BY <1>1, <1>3

\* The dispatch reports what GateService lets it report: PASS and FAIL are the code
\* the launch's own gate returned, and 42 is never a FAIL (the safety part of
\* ImplementsGateService).
THEOREM DispatchIsService == Spec => Service!Init /\ [][Service!Next]_(Service!vars)
<1>1. Init => Service!Init
  BY DEF Init, Service!Init
<1>2. IInv /\ IInv' /\ [Next]_vars => [Service!Next]_(Service!vars)
  BY ServiceStep
<1> QED BY <1>1, <1>2, DispatchInvariance, PTL DEF Spec
============================================================================
