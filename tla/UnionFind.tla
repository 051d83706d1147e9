----------------------------- MODULE UnionFind -----------------------------
(***************************************************************************)
(* Merging by union-find with path halving, as the operator atlas does it  *)
(* (tools/eisa_h/pireus_operator_atlas_oracle.py, lines 188-202), for any  *)
(* elements and any pairs to merge, in any order.                          *)
(***************************************************************************)
CONSTANTS Element,
          Move,      \* the pairs that are merged
          Same       \* an equivalence the merging must not leave

\* What the orbits of a group are, and the pairs of its moves are in.
SameIsClosed ==
  /\ Same \subseteq Element \X Element
  /\ \A x \in Element : <<x, x>> \in Same
  /\ \A x, y \in Element : <<x, y>> \in Same => <<y, x>> \in Same
  /\ \A x, y, z \in Element :
       <<x, y>> \in Same /\ <<y, z>> \in Same => <<x, z>> \in Same
  /\ Move \subseteq Same

VARIABLES parent,    \* the forest
          left,      \* where find(key) has got to
          right      \* where find(moved) has got to

vars == <<parent, left, right>>

Init ==
  /\ parent = [x \in Element |-> x]
  /\ left \in Element
  /\ right = left

\* The next pair is taken up when both finds of the last one are over.
Take ==
  /\ left = right
  /\ parent[left] = left
  /\ \E move \in Move : left' = move[1] /\ right' = move[2]
  /\ UNCHANGED parent

\* parent[a] = parent[parent[a]]; a = parent[a].
HalveLeft ==
  /\ parent[left] # left
  /\ parent' = [parent EXCEPT ![left] = parent[parent[left]]]
  /\ left' = parent'[left]
  /\ UNCHANGED right

HalveRight ==
  /\ parent[left] = left
  /\ parent[right] # right
  /\ parent' = [parent EXCEPT ![right] = parent[parent[right]]]
  /\ right' = parent'[right]
  /\ UNCHANGED left

\* parent[ra] = rb, for two different roots.
Link ==
  /\ parent[left] = left
  /\ parent[right] = right
  /\ left # right
  /\ parent' = [parent EXCEPT ![left] = right]
  /\ left' = right
  /\ UNCHANGED right

Next == Take \/ HalveLeft \/ HalveRight \/ Link
Spec == Init /\ [][Next]_vars

-----------------------------------------------------------------------------
TypeOK ==
  /\ parent \in [Element -> Element]
  /\ left \in Element
  /\ right \in Element

(***************************************************************************)
(* No link leaves the equivalence, and neither does a search: whatever is  *)
(* merged, in whatever order, belongs together.                            *)
(***************************************************************************)
LinksStayInside ==
  /\ \A x \in Element : <<x, parent[x]>> \in Same
  /\ <<left, right>> \in Same
=============================================================================
