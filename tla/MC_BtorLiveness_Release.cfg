\* A release build over the ite idiom followed by two reads or writes,
\* checked against the abstract in-place-write specification.
CONSTANTS
  Debug = FALSE
  Bodies <- IdiomBlocks
SPECIFICATION Spec
PROPERTY ImplementsInPlaceWrites
\* The pass stops after the last operation of the block.
CHECK_DEADLOCK FALSE
