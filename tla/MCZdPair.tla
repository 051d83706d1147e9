------------------------------ MODULE MCZdPair ------------------------------
(***************************************************************************)
(* Instances of the unit for TLC: four lanes (quaternions, the leading     *)
(* corner of the ROM) with every admissible pair up to the sign of each    *)
(* operand, and the sixteen lanes of the RTL with the testbench's named    *)
(* cases and a few spread over the ROM.  Lanes are 8 bits wide and the     *)
(* limit is 5, the largest magnitude whose products can be added four      *)
(* times in 8 bits, as 1518500249 is for 64.                               *)
(***************************************************************************)
EXTENDS ZdPairRefinement

CD == INSTANCE CayleyDickson

MCXor(a, b) == CD!IndexXor(a, b)
MCNegative(a, b) == CD!RomNegative(a, b)

\* u in lane a and v in lane b (a # b), zero elsewhere.
Two(a, u, b, v) == [k \in Lane |-> CASE k = a -> u [] k = b -> v [] OTHER -> 0]
One(a, u) == [k \in Lane |-> IF k = a THEN u ELSE 0]
All(u) == [k \in Lane |-> u]

\* Every operand of one or two units, up to its overall sign.
Sparse ==
  {One(a, 1) : a \in Lane}
    \cup {Two(a, 1, b, v) : a \in Lane, b \in {c \in Lane : c > 0}, v \in {-1, 1}}

\* Values at each boundary of validation, alone and beside other faults.
Faulty == {All(0), All(1), One(0, 2), One(1, Limit), One(1, -Limit), One(2, Limit + 1),
           One(2, -Limit - 1), One(3, -Half), One(3, Half - 1),
           [All(1) EXCEPT ![3] = Limit + 1], [All(1) EXCEPT ![3] = 2]}

Requests4 ==
  (Sparse \X Sparse)
    \cup (Faulty \X Faulty) \cup ({One(0, 1)} \X Faulty) \cup (Faulty \X {One(0, 1)})

\* Left lanes differ in bit 0 and right lanes in bit 1, so the four products
\* of a request land in four different lanes.
Spread ==
  {<<Two(a, 1, a + 1, 1), Two(b, 1, b + 2, 1)>> : a \in {0, 6, 12}, b \in {1, 8}}

ZeroDivisor == <<Two(3, 1, 10, 1), Two(6, 1, 15, -1)>>

Requests16 ==
  Spread
    \cup {ZeroDivisor, <<ZeroDivisor[2], ZeroDivisor[1]>>,
          <<Two(3, 1, 10, 1), Two(6, 1, 15, 1)>>, <<Two(3, -1, 10, -1), Two(6, 1, 15, -1)>>,
          <<One(1, -1), One(2, 1)>>, <<One(2, 1), One(1, 1)>>}
    \cup {<<All(0), One(0, 1)>>, <<One(0, 1), All(0)>>, <<All(0), One(0, -Limit - 1)>>}
    \cup {<<x, One(0, 1)>> : x \in Faulty}
=============================================================================
