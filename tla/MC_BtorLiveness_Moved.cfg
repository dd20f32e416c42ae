\* A debug build over the ite idiom followed by two operations: do moved reads keep their operands defined?
CONSTANTS
  Debug = TRUE
  Bodies <- IdiomBlocks
SPECIFICATION Spec
INVARIANT DefBeforeUse
\* The pass stops after the last operation of the block or an abort.
CHECK_DEADLOCK FALSE
