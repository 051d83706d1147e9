--------------------------- MODULE MCCrossEngine ---------------------------
EXTENDS CrossEngine
\* Code 0, and two others, one to be swapped for the other.
MCPhases   == {{}, {<<0, 1>>}, {<<1, 0>>}}
MCDeclared == [recorded |-> 3, operators |-> 2, distinct |-> 2]
=============================================================================
