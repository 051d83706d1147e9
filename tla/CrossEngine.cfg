SPECIFICATION Spec
CONSTANTS
  Bits = 2
  Phases <- MCPhases
  Declared <- MCDeclared
  MaxTampers = 2
INVARIANTS
  MatchBinds
  LateErrorsAreExcluded
CHECK_DEADLOCK FALSE
