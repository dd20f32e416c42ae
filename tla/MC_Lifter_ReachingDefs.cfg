\* Register operands are the values the IR gives those registers (release build, one-slot instructions).
CONSTANTS
  NumRegs = 2
  Builds = {FALSE}
  Programs <- OneSlotPrograms
  MaxSections = 1
SPECIFICATION ImportSpec
INVARIANT ReachingDefs
\* The import ends with the function added, an empty module or an abort, and stops there.
CHECK_DEADLOCK FALSE
