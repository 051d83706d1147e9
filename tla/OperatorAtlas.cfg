SPECIFICATION AtlasSpec
CONSTANT Bits = 3
INVARIANTS
  AdmittedAreGauge
  ClassesAreOrbits
PROPERTIES
  Terminates
  MergesOrbits
CHECK_DEADLOCK FALSE
