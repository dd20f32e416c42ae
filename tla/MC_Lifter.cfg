\* The import in a debug and a release build: up to two programs in the file, each
\* failing to unmarshal or decoding to a section of up to four instructions, backward
\* jumps included.
CONSTANTS
  NumRegs = 2
  Builds = {TRUE, FALSE}
  Programs <- AllPrograms
  MaxSections = 2
SPECIFICATION ImportSpec
INVARIANT ImportTypeOK
INVARIANT DefBeforeUse
INVARIANT LoweredExactlyOnce
INVARIANT AbortsOnlyOnLddwOrBackJump
\* The import ends with the function added, an empty module or an abort, and stops there.
CHECK_DEADLOCK FALSE
