SPECIFICATION Spec
INVARIANTS
  RomMatchesRecursion
  SignsAreDoubling
  MarkersAreEarned
  TimeIsBlocked
  EvidenceKept
CHECK_DEADLOCK FALSE
