\* The return passes the r0 that the last block computes (debug build, one-slot instructions).
CONSTANTS
  NumRegs = 2
  Builds = {TRUE}
  Programs <- OneSlotPrograms
  MaxSections = 1
SPECIFICATION ImportSpec
INVARIANT ReturnsFinalR0
\* The import ends with the function added, an empty module or an abort, and stops there.
CHECK_DEADLOCK FALSE
