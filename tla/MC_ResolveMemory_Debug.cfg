\* The first run of a debug build completes on bodies whose loads are all used and 64-bit.
CONSTANTS
  Debug = TRUE
  MaxRuns = 1
  Bodies <- UsedWideBodies
SPECIFICATION Spec
INVARIANT FirstRunCompletes
\* The pass stops after its last run or an abort.
CHECK_DEADLOCK FALSE
