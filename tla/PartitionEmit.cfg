SPECIFICATION EmitSpec
CONSTANTS
  latches = latches
  accumulator = accumulator
  product_and_alias = product_and_alias
  control = control
  Partitions = {latches, accumulator, product_and_alias, control}
  Order <- ScriptOrder
  Statuses = {1, 2, 123, 137}
INVARIANTS
  EmitTypeOK
  PassIsComplete
  NoOrphans
PROPERTY
  GateEnds
CHECK_DEADLOCK FALSE
