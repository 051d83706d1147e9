SPECIFICATION Spec
CONSTANTS
  Bits = 4
  Configs <- MCConfigs
  IntMax = 2147483647
  Stray <- MCStray
  MaxEdits = 2
INVARIANTS
  SoundProbePasses
  OneEditForgesNoPass
CHECK_DEADLOCK FALSE
