SPECIFICATION Spec
CONSTANTS
  Suite <- Names
  Of <- SuiteOf
INVARIANTS
  EvidenceIsSound
  MutationsBite
  LossIsNoticed
CHECK_DEADLOCK FALSE
