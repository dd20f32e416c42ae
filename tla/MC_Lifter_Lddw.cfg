\* Instructions land in the block owning their offset (release build, lddw and conditional jumps).
CONSTANTS
  NumRegs = 2
  Builds = {FALSE}
  Programs <- CondJumpPrograms
  MaxSections = 1
SPECIFICATION ImportSpec
INVARIANT InstructionInOwningBlock
\* The import ends with the function added, an empty module or an abort, and stops there.
CHECK_DEADLOCK FALSE
