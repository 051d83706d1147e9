SPECIFICATION Spec
CONSTANTS
  Bits = 2
  Described <- MCDescribed
  Strides = {1}
  Offsets = {1}
  MaxTampers = 2
INVARIANTS
  AcceptedIsHonest
  RefusalIsComplete
  VerdictIsGaugeInvariant
CHECK_DEADLOCK FALSE
