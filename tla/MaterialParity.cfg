SPECIFICATION ParitySpec
CONSTANTS
  Dimension = 2
  MaxEdits = 2
INVARIANTS
  TwoEditsForgeNoParity
PROPERTIES
  OneEditNeverFlips
CHECK_DEADLOCK FALSE
