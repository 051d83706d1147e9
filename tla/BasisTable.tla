----------------------------- MODULE BasisTable -----------------------------
(***************************************************************************)
(* The sign table the contract hashes: basis_table_bytes of the oracle     *)
(* writes it cell by cell, the ROM check (tools/eisa_h/check_basis_rom.py) *)
(* rebuilds the same bytes from the Verilog literal.  Equality of SHA-256  *)
(* is equality of the tables.                                              *)
(***************************************************************************)
EXTENDS Integers, Sequences, CayleyDickson

Dimension == 2^MaxBits

VARIABLE table       \* the bytes written so far, row after row

\* Mutant: the recursion is asked for e_j e_i.
CellTransposed(i, j) == IF Sigma[MaxBits][j][i] = 1 THEN 1 ELSE 255

Cell(i, j) == IF Sigma[MaxBits][i][j] = 1 THEN 1 ELSE 255

\* The byte the ROM check derives from bit 16 i + j of the literal.
RomByte(i, j) == IF RomNegative(i, j) THEN 255 ELSE 1

Row(index)    == (index - 1) \div Dimension
Column(index) == (index - 1) % Dimension

Init == table = <<>>

WriteCell ==
  /\ Len(table) < Dimension * Dimension
  /\ table' = Append(table, Cell(Row(Len(table) + 1), Column(Len(table) + 1)))

Next == WriteCell
Spec == Init /\ [][Next]_table

-----------------------------------------------------------------------------
(***************************************************************************)
(* The table of the recursion is the table of the ROM, so that the one     *)
(* pinned hash binds both (check_basis_rom.py, lines 40-43): bit order of  *)
(* the literal, order of the indices and encoding of the sign agree.       *)
(***************************************************************************)
RomMatchesRecursion ==
  \A c \in DOMAIN table : table[c] = RomByte(Row(c), Column(c))

(***************************************************************************)
(* Every cell written is the sign of e_i e_j in the doubled algebra, which *)
(* is defined without any table: e_i e_j = sign e_(i xor j).               *)
(***************************************************************************)
SignsAreDoubling ==
  table # <<>> =>
    LET i == Row(Len(table))
        j == Column(Len(table))
        sign == IF table[Len(table)] = 1 THEN 1 ELSE -1
    IN  Doubling[MaxBits][BasisVector(MaxBits, i)][BasisVector(MaxBits, j)]
          = [k \in Index |-> IF k = IndexXor(i, j) THEN sign ELSE 0]
=============================================================================
