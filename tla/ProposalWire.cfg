SPECIFICATION Spec
CONSTANTS
  Key <- MCKey
  ContextKey = "context"
  KindKey = "kind"
  PhaseKey = "phase"
  ContextOnly = {"capabilities"}
  Base = 3
  MaxDigits = 2
  HexLen = 2
  PhaseLimit = 4
INVARIANTS
  CountIsSeen
  ExtensionIsConservative
  AdmissibleIsExact
  OneEncoding
CHECK_DEADLOCK FALSE
