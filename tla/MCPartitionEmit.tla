-------------------------- MODULE MCPartitionEmit --------------------------
(***************************************************************************)
(* The four partitions of the state-step obligation, in the script's order.*)
(***************************************************************************)
EXTENDS PartitionEmit
CONSTANTS latches, accumulator, product_and_alias, control

ScriptOrder == <<latches, accumulator, product_and_alias, control>>
============================================================================
