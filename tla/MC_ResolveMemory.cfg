\* The pass in a release build, run twice, over every body of up to four operations.
CONSTANTS
  Debug = FALSE
  MaxRuns = 2
  Bodies <- AllBodies
SPECIFICATION Spec
INVARIANT TypeOK
INVARIANT DefBeforeUse
INVARIANT AddrOnlyFeedsMemory
PROPERTY WalkProgress
\* The pass stops after its last run or an abort.
CHECK_DEADLOCK FALSE
