\* Every lifted block ends in exactly one terminator (release build, one-slot instructions).
CONSTANTS
  NumRegs = 2
  Builds = {FALSE}
  Programs <- OneSlotPrograms
  MaxSections = 1
SPECIFICATION ImportSpec
INVARIANT WellTerminated
\* The import ends with the function added, an empty module or an abort, and stops there.
CHECK_DEADLOCK FALSE
