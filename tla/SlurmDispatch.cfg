SPECIFICATION Spec
CONSTANTS
  a = a
  b = b
  c = c
  here = here
  there = there
  n1 = n1
  Launches = {a, b, c}
  Nodes = {n1}
  Dirs = {here, there}
  Dir <- DirOf
  Identity <- SameGate
  Outcomes <- AllEndings
  NoLaunch = NoLaunch
  NoNode = NoNode
  NoReceipt = NoReceipt
  Torn = Torn
  NoVerdict = NoVerdict
INVARIANTS
  TypeOK
  OwnTree
  OwnReceipt
PROPERTY
  ImplementsGateService
CHECK_DEADLOCK FALSE
