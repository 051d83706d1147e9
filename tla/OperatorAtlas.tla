---------------------------- MODULE OperatorAtlas ----------------------------
(***************************************************************************)
(* tools/eisa_h/pireus_operator_atlas_oracle.py: the atlas of bilinear     *)
(* phase operators.  A basis of the gauge space is reduced generator by    *)
(* generator; the matrices whose action on the signs stays inside that     *)
(* space are collected, with and without exchange of the operands; the     *)
(* quadratic forms they move onto one another are merged by union-find     *)
(* and the classes are numbered.                                           *)
(***************************************************************************)
EXTENDS GaugeSpace, SequencesExt

Generators ==
  [g \in 1 .. Bits * Bits + 2^Bits - 1 |->
     IF g <= Bits * Bits THEN BilinearUnit((g - 1) \div Bits, (g - 1) % Bits)
                         ELSE Coboundary(g - Bits * Bits)]

\* Mutant: v ^ b without the minimum.
ReduceAlways(v, b) == SymDiff(v, b)

\* min(v, v ^ b): the exclusive or is less iff b's leading bit is set in v.
ReduceBy(v, b) == IF Max(b) \in v THEN SymDiff(v, b) ELSE v

Reduced(v, list) ==
  LET r[n \in 0 .. Len(list)] == IF n = 0 THEN v ELSE ReduceBy(r[n - 1], list[n])
  IN  r[Len(list)]
InSpan(v, list) == Reduced(v, list) = {}

Exceeds(v, w) == v # w /\ Max(SymDiff(v, w)) \in v

\* basis.append(v); basis.sort(reverse=True)
Insert(v, list) ==
  InsertAt(list, 1 + Cardinality({n \in DOMAIN list : Exceeds(list[n], v)}), v)

\* keys = sorted(reps): tuples of bits, compared lane by lane from lane 0.
Precedes(k, l) == k # l /\ Min(SymDiff(k, l)) \in l
Rank == [key \in Key |-> Cardinality({k \in Key : Precedes(k, key)})]
KeySeq == [n \in 1 .. Cardinality(Key) |-> CHOOSE key \in Key : Rank[key] = n - 1]

-----------------------------------------------------------------------------
VARIABLES
  phase,       \* span, actions, merge, last, done
  basis,       \* span_basis: decreasing
  count,       \* generators, then matrices, then pairs dealt with so far
  maps,        \* admitted_actions, in the order they were found
  parent,      \* the forest over the keys
  left, right, \* where find(index[key]) and find(index[moved]) have got to
  classOf      \* affine_of

forest == <<parent, left, right>>
atlasVars == <<phase, basis, count, maps, parent, left, right, classOf>>

AtlasInit ==
  /\ phase = "span"
  /\ basis = <<>>
  /\ count = 0
  /\ maps = <<>>
  /\ parent = [key \in Key |-> key]
  /\ left = Head(KeySeq)
  /\ right = left
  /\ classOf = <<>>

\* The last step of a loop goes on to the next phase.
Count(total, next) ==
  /\ count' = IF count + 1 = total THEN 0 ELSE count + 1
  /\ phase' = IF count + 1 = total THEN next ELSE phase

SpanStep ==
  /\ phase = "span"
  /\ LET v == Reduced(Generators[count + 1], basis)
     IN  basis' = IF v = {} THEN basis ELSE Insert(v, basis)
  /\ Count(Len(Generators), "actions")
  /\ UNCHANGED <<maps, forest, classOf>>

ActionStep ==
  /\ phase = "actions"
  /\ LET admitted(exchange) ==
           IF count \in GeneralLinear /\ InSpan(Change(count, exchange), basis)
           THEN <<[matrix |-> count, exchange |-> exchange]>>
           ELSE <<>>
     IN  maps' = maps \o admitted(FALSE) \o admitted(TRUE)
  /\ Count(2^(Bits * Bits), "merge")
  /\ UNCHANGED <<basis, forest, classOf>>

CurrentMap == maps[(count \div Len(KeySeq)) + 1]
CurrentKey == KeySeq[(count % Len(KeySeq)) + 1]

\* Mutant: the pass over the keys is made for the first map only.
TakeOnePass ==
  /\ phase = "merge"
  /\ left = right /\ parent[left] = left
  /\ Moved(CurrentMap, CurrentKey) \in Key
  /\ left' = CurrentKey
  /\ right' = Moved(CurrentMap, CurrentKey)
  /\ Count(Len(KeySeq), "last")
  /\ UNCHANGED <<basis, maps, parent, classOf>>

\* find(index[key]) and find(index[moved]) begin; an unknown key has no index.
Take ==
  /\ phase = "merge"
  /\ left = right /\ parent[left] = left
  /\ Moved(CurrentMap, CurrentKey) \in Key
  /\ left' = CurrentKey
  /\ right' = Moved(CurrentMap, CurrentKey)
  /\ Count(Len(maps) * Len(KeySeq), "last")
  /\ UNCHANGED <<basis, maps, parent, classOf>>

HalveLeft ==
  /\ phase \in {"merge", "last"}
  /\ parent[left] # left
  /\ parent' = [parent EXCEPT ![left] = parent[parent[left]]]
  /\ left' = parent'[left]
  /\ UNCHANGED <<phase, basis, count, maps, right, classOf>>

\* Mutant: the key is not moved up.
HalveRightStays ==
  /\ phase \in {"merge", "last"}
  /\ parent[left] = left /\ parent[right] # right
  /\ parent' = [parent EXCEPT ![right] = parent[parent[right]]]
  /\ UNCHANGED <<phase, basis, count, maps, left, right, classOf>>

HalveRight ==
  /\ phase \in {"merge", "last"}
  /\ parent[left] = left /\ parent[right] # right
  /\ parent' = [parent EXCEPT ![right] = parent[parent[right]]]
  /\ right' = parent'[right]
  /\ UNCHANGED <<phase, basis, count, maps, left, classOf>>

\* Mutant: each root is hung under the other.
LinkBackwards ==
  /\ phase \in {"merge", "last"}
  /\ parent[left] = left /\ parent[right] = right /\ left # right
  /\ parent' = [parent EXCEPT ![left] = right, ![right] = left]
  /\ left' = right
  /\ UNCHANGED <<phase, basis, count, maps, right, classOf>>

Link ==
  /\ phase \in {"merge", "last"}
  /\ parent[left] = left /\ parent[right] = right /\ left # right
  /\ parent' = [parent EXCEPT ![left] = right]
  /\ left' = right
  /\ UNCHANGED <<phase, basis, count, maps, right, classOf>>

(***************************************************************************)
(* Classes are numbered by the least quadratic code of their members.      *)
(***************************************************************************)
Root[key \in Key] == IF parent[key] = key THEN key ELSE Root[parent[key]]

Number ==
  /\ phase = "last"
  /\ left = right /\ parent[left] = left
  /\ LET root == [key \in Key |-> Root[key]]
         roots == {root[key] : key \in Key}
         least == [r \in roots |-> Min({QuadraticOf[key] : key \in {k \in Key : root[k] = r}})]
     IN  classOf' = [key \in Key |->
           Cardinality({r \in roots : least[r] < least[root[key]]})]
  /\ phase' = "done"
  /\ UNCHANGED <<basis, count, maps, forest>>

Merge == Take \/ HalveLeft \/ HalveRight \/ Link \/ Number
AtlasNext == SpanStep \/ ActionStep \/ Merge

\* The earlier phases are loops of fixed length: only merging may not end.
Fairness == WF_atlasVars(Merge)
AtlasSpec == AtlasInit /\ [][AtlasNext]_atlasVars /\ Fairness

-----------------------------------------------------------------------------
(***************************************************************************)
(* The greedy reduction (lines 120-136) decides exactly membership in the  *)
(* gauge space: the admitted maps are those whose change of signs is a     *)
(* gauge by the definition that knows no basis.                            *)
(***************************************************************************)
AdmittedAreGauge ==
  phase = "merge" /\ count = 0 => ToSet(maps) = GaugeMaps

(***************************************************************************)
(* Two forms get the same class number iff one is reached from the other,  *)
(* and numbers follow the least quadratic code of an orbit.                *)
(***************************************************************************)
ClassesAreOrbits ==
  phase = "done" =>
    \A k, l \in Key :
      /\ (classOf[k] = classOf[l]) = (k \in OrbitOf[l])
      /\ classOf[k] = AffineClass[k]

(***************************************************************************)
(* Path halving finds a root: the forest has no cycles, the loops end.     *)
(***************************************************************************)
Terminates == phase = "merge" ~> phase = "done"

(***************************************************************************)
(* The forest is merged as UnionFind allows, and the orbits are an         *)
(* equivalence that no link and no search ever leaves: a moved form is     *)
(* again a form (line 200 never looks up a key that does not exist).       *)
(***************************************************************************)
SameOrbit == {pair \in Key \X Key : pair[2] \in OrbitOf[pair[1]]}
Merging == INSTANCE UnionFind WITH Element <- Key, Move <- Moves, Same <- SameOrbit
MergesOrbits == Merging!Spec /\ []Merging!LinksStayInside
=============================================================================
