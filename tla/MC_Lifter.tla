----------------------------- MODULE MC_Lifter -----------------------------
(***************************************************************************)
(* Instantiates Translation, and with it the Lifter, for TLC: two        *)
(* registers and every section of up to MaxLen instructions (none         *)
(* included) over a small instruction alphabet whose jumps land on the    *)
(* start of an instruction, as the decoder guarantees.                    *)
(***************************************************************************)
EXTENDS Translation

MaxLen == 4

Bin(d, s) == [kind |-> "Bin", dst |-> d, src |-> s]
Un(d) == [kind |-> "Un", dst |-> d]
Load(b, v) == [kind |-> "Mem", isLoad |-> TRUE, base |-> b, val |-> v]
Store(b, v) == [kind |-> "Mem", isLoad |-> FALSE, base |-> b, val |-> v]
LoadMapFd(d) == [kind |-> "LoadMapFd", dst |-> d]
Jmp(t, c) == [kind |-> "Jmp", target |-> t, cond |-> c]
Unsupported == [kind |-> "Unsupported"]

(* Straight-line instructions: each register is read and written. *)
Straight == {Bin(0, 1), Bin(1, Imm), Un(0), Load(1, 0), Store(0, 1), Unsupported}
Jumps(conds) == {Jmp(t, c) : t \in 0 .. MaxLen + 1, c \in conds}

(* Forward jumps onto the start of a later instruction. *)
ValidJumps(p) ==
  \A i \in DOMAIN p :
    p[i].kind = "Jmp" => \E j \in DOMAIN p : j > i /\ Offset(p, j) = p[i].target

(* Jumps, backward ones included, onto the start of an instruction. *)
LandingJumps(p) ==
  \A i \in DOMAIN p :
    p[i].kind = "Jmp" => \E j \in DOMAIN p : Offset(p, j) = p[i].target

ProgramsOver(A, Valid(_)) ==
  {p \in UNION {[0 .. n - 1 -> A] : n \in 0 .. MaxLen} : Valid(p)}

(* Every kind of instruction, lddw included. *)
AllPrograms == ProgramsOver(Straight \cup {LoadMapFd(0)} \cup Jumps(BOOLEAN), LandingJumps)
(* One-slot instructions only: offsets and indices agree. *)
OneSlotPrograms == ProgramsOver(Straight \cup Jumps(BOOLEAN), ValidJumps)
(* lddw and conditional jumps only: every block falls through. *)
CondJumpPrograms == ProgramsOver(Straight \cup {LoadMapFd(0)} \cup Jumps({TRUE}), ValidJumps)

=============================================================================
