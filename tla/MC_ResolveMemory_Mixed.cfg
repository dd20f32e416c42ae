\* Loads are resolved exactly as spec 4.2 classifies their uses (release build, one run, 64-bit loads with uses).
CONSTANTS
  Debug = FALSE
  MaxRuns = 1
  Bodies <- UsedWideBodies
SPECIFICATION Spec
INVARIANT ResolvedAsSpecified
\* The pass stops after its last run or an abort.
CHECK_DEADLOCK FALSE
