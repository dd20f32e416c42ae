\* The pass in a debug build over every loop body of up to three operations.
CONSTANTS
  Debug = TRUE
  Bodies <- AllBlocks
SPECIFICATION Spec
INVARIANT TypeOK
INVARIANT IteReorderingSound
PROPERTY ImplementsInPlaceWrites
\* The pass stops after the last operation of the block or an abort.
CHECK_DEADLOCK FALSE
