----------------------------- MODULE Translation -----------------------------
(***************************************************************************)
(* The import-ebpf translation, deserializeModule in src/unnamed/part_000: *)
(* parseModelIsSuccessful reads the ELF file's programs and unmarshals     *)
(* each into an instruction section, skipping those that fail; when at     *)
(* least one section was decoded, buildXDPFunction lifts the first one     *)
(* (the Lifter) and the function is added to the module, otherwise the     *)
(* module is returned without a function.                                 *)
(*                                                                         *)
(* read_elf and unmarshal are an external library: read_elf yields some    *)
(* number of raw programs, and unmarshal turns each into an error or a     *)
(* decoded instruction sequence of Programs.  Only m_sections.front() is   *)
(* read again, so m_sections is kept as the Lifter's prog (its front) and  *)
(* whether it is empty.  The Lifter's variables hold its entry-block       *)
(* state from the start and do not change before the lift begins.         *)
(***************************************************************************)
EXTENDS Lifter

CONSTANTS
  MaxSections  \* the most programs read_elf returns

ASSUME MaxSections \in Nat

VARIABLES
  stage,       \* "readElf", "unmarshal", "lift", "done" (function added)
               \* or "noFunction" (module returned empty)
  left,        \* raw programs the unmarshal loop has still to visit
  decoded      \* ~m_sections.empty()

importVars == <<stage, left, decoded>>
allVars == <<vars, importVars>>

ImportInit ==
  /\ debug \in Builds
  /\ prog = <<>>
  /\ EntryBlock
  /\ stage = "readElf"
  /\ left = 0
  /\ decoded = FALSE

(* read_elf: the file's programs (none when there is no file to read). *)
readElf ==
  /\ stage = "readElf"
  /\ left' \in 0 .. MaxSections
  /\ stage' = "unmarshal"
  /\ UNCHANGED <<vars, decoded>>

(* unmarshal returned an error string: report it and `continue`. *)
unmarshalFailed ==
  /\ stage = "unmarshal"
  /\ left > 0
  /\ left' = left - 1
  /\ UNCHANGED <<vars, stage, decoded>>

(* unmarshal returned an InstructionSeq: m_sections.push_back(prog).  The *)
(* first one pushed is the front the Lifter will lift.                    *)
unmarshalDecoded ==
  /\ stage = "unmarshal"
  /\ left > 0
  /\ left' = left - 1
  /\ decoded' = TRUE
  /\ \/ /\ ~decoded
        /\ \E p \in Programs : prog' = p
     \/ /\ decoded
        /\ UNCHANGED prog
  /\ UNCHANGED <<debug, pc, starts, bi, curOp, curBlock, lastBlock, regs, blocks, stage>>

(* parseModelIsSuccessful returns !m_sections.empty(): buildXDPFunction   *)
(* creates xdp_entry and lifts the front section ...                     *)
buildXDPFunction ==
  /\ stage = "unmarshal"
  /\ left = 0
  /\ decoded
  /\ stage' = "lift"
  /\ UNCHANGED <<vars, left, decoded>>

(* ... or deserializeModule returns the module without a function. *)
returnEmptyModule ==
  /\ stage = "unmarshal"
  /\ left = 0
  /\ ~decoded
  /\ stage' = "noFunction"
  /\ UNCHANGED <<vars, left, decoded>>

(* A step of the Lifter inside buildXDPFunction. *)
liftStep ==
  /\ stage = "lift"
  /\ Next
  /\ UNCHANGED importVars

(* buildXDPFunction has returned: the function goes into the module. *)
addFunction ==
  /\ stage = "lift"
  /\ pc = "done"
  /\ stage' = "done"
  /\ UNCHANGED <<vars, left, decoded>>

ImportNext ==
  \/ readElf
  \/ unmarshalFailed
  \/ unmarshalDecoded
  \/ buildXDPFunction
  \/ returnEmptyModule
  \/ liftStep
  \/ addFunction

ImportSpec == ImportInit /\ [][ImportNext]_allVars

-----------------------------------------------------------------------------
ImportTypeOK ==
  /\ TypeOK
  /\ stage \in {"readElf", "unmarshal", "lift", "done", "noFunction"}
  /\ left \in 0 .. MaxSections
  /\ decoded \in BOOLEAN

=============================================================================
