---------------------------- MODULE GaugeSpace ----------------------------
(***************************************************************************)
(* Which changes of sign an operator atlas regards as mere changes of      *)
(* description, and the orbits of quadratic forms under them: what the     *)
(* atlas oracle (tools/eisa_h/pireus_operator_atlas_oracle.py) computes    *)
(* with, and a definition of its classes that computes nothing.            *)
(***************************************************************************)
EXTENDS PhaseAlgebra, Sequences, FiniteSetsExt

(***************************************************************************)
(* Vectors over the cells (i, j) of the sign table: sets of idx(i, j).     *)
(***************************************************************************)
Idx(i, j) == i * 2^Bits + j
Vector(test(_, _)) == {Idx(c[1], c[2]) : c \in {d \in Lane \X Lane : test(d[1], d[2])}}

BilinearUnit(p, q) == Vector(LAMBDA i, j : Bit(i, p) = 1 /\ Bit(j, q) = 1)
\* Of a function on the lanes, as the set of lanes where it is one.
CoboundaryOf(f) == Vector(LAMBDA i, j : ((i \in f) # (j \in f)) # (IndexXor(i, j) \in f))
Coboundary(z) == CoboundaryOf({z})

-----------------------------------------------------------------------------
(***************************************************************************)
(* Keys of the forest, and how an admitted matrix moves them.              *)
(***************************************************************************)
Diagonals == [code \in Code |-> Diagonal(code)]
Key == {Diagonals[code] : code \in Code}

GeneralLinear == {m \in Matrix : Invertible(m)}
Image == [m \in GeneralLinear |-> [x \in Lane |-> ApplyMatrix(m, x)]]

\* The cells where acting with m changes the sign (d and e of the code).
Change(m, exchange) ==
  Vector(LAMBDA i, j : LET gi == Image[m][i]
                           gj == Image[m][j]
                       IN  (IF exchange THEN Tau[gj][gi] ELSE Tau[gi][gj]) # Tau[i][j])

Correction == [m \in GeneralLinear |-> [exchange \in BOOLEAN |->
                 {x \in Lane : Idx(x, x) \in Change(m, exchange)}]]

Moved(map, key) ==
  {x \in Lane : (Image[map.matrix][x] \in key) # (x \in Correction[map.matrix][map.exchange])}

\* The cell of a bit of the integer.
Place(n) == <<n \div Bits, n % Bits>>

\* reps: the least code of a key; its quadratic code as an integer orders it.
Representative ==
  [key \in Key |->
     LET codes == {code \in Code : Diagonals[code] = key}
     IN  CHOOSE code \in codes :
           \A other \in codes : CodeNumber(code) <= CodeNumber(other)]
QuadraticNumber(code) == CodeNumber({Place(QuadraticBit(c)) : c \in QuadraticCode(code)})
QuadraticOf == [key \in Key |-> QuadraticNumber(Representative[key])]

\* Codes of the first grammar: diagonal matrices.
DiagonalCodes == {{<<t, t>> : t \in S} : S \in SUBSET Position}

-----------------------------------------------------------------------------
(***************************************************************************)
(* Membership in the gauge space without any basis: a change of signs is a *)
(* bilinear form up to the coboundary of a function on lanes, and such a   *)
(* function is only needed on lanes of three ones or more, as products of  *)
(* two coordinates have bilinear coboundaries.                             *)
(***************************************************************************)
IsBilinear(v) ==
  \A x, y, z \in Lane :
    /\ (Idx(IndexXor(x, y), z) \in v) = ((Idx(x, z) \in v) # (Idx(y, z) \in v))
    /\ (Idx(z, IndexXor(x, y)) \in v) = ((Idx(z, x) \in v) # (Idx(z, y) \in v))

IsGauge(v) ==
  \E f \in SUBSET {x \in Lane : Cardinality(Ones(x)) >= 3} :
    IsBilinear(SymDiff(v, CoboundaryOf(f)))

GaugeMaps ==
  {map \in [matrix : GeneralLinear, exchange : BOOLEAN] :
     IsGauge(Change(map.matrix, map.exchange))}

(***************************************************************************)
(* The orbits, as a graph would have them: what can be reached from a key. *)
(***************************************************************************)
Moves == {<<key, Moved(map, key)>> : key \in Key, map \in GaugeMaps}
Neighbours == [key \in Key |-> {m[2] : m \in {n \in Moves : n[1] = key}}]
OrbitOf ==
  [key \in Key |->
     LET grow[n \in 0 .. Cardinality(Key)] ==
           IF n = 0 THEN {key}
           ELSE LET reached == grow[n - 1]
                IN  reached \cup UNION {Neighbours[k] : k \in reached}
     IN  grow[Cardinality(Key)]]

\* classify(code): the number of its class, and whether the first grammar has it.
AffineClass ==
  [key \in Key |->
     LET least == [k \in Key |-> Min({QuadraticOf[o] : o \in OrbitOf[k]})]
     IN  Cardinality({n \in {least[k] : k \in Key} : n < least[key]})]
ClassOf(code) == AffineClass[Diagonals[code]]
V1Classes == {ClassOf(code) : code \in DiagonalCodes}
Novel(code) == ClassOf(code) \notin V1Classes
QuadraticId(code) == QuadraticOf[Diagonals[code]]
=============================================================================
