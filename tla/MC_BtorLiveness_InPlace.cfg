\* A debug build over every body of up to three operations: is an array overwritten whose old value is still used?
CONSTANTS
  Debug = TRUE
  Bodies <- AllBlocks
SPECIFICATION Spec
INVARIANT InPlaceSound
\* The pass stops after the last operation of the block or an abort.
CHECK_DEADLOCK FALSE
