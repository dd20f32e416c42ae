------------------------------- MODULE Lifter -------------------------------
(***************************************************************************)
(* The eBPF-to-MLIR lifter, class Deserialize in src/unnamed/part_000      *)
(* (ebpfToebpfIRTranslation.cpp): collectBlocks discovers block starts     *)
(* from jump targets, buildFunctionBody walks them in order, translating   *)
(* every instruction with createMLIR while threading the abstract register *)
(* file m_registers, and buildXDPFunction appends the return.              *)
(*                                                                         *)
(* A program is a function from instruction index 0..n-1 to an            *)
(* instruction record, exactly as InstructionSeq is indexed by prog.at().  *)
(* Labels are slot offsets as the decoder produces them: a LoadMapFd       *)
(* (lddw) occupies two slots, every other instruction one.  Values are     *)
(* block parameters Param(b, r), results Res(i) of the operation lowered   *)
(* from instruction i, or the immediate ImmValue (constant operations are  *)
(* not kept as operations of their own).  Blocks are named by the offset   *)
(* they start at; the entry block is 0.                                    *)
(***************************************************************************)
EXTENDS Integers, Sequences, FiniteSets
LOCAL INSTANCE SequencesExt

CONSTANTS
  NumRegs,   \* m_ebpfRegisters
  Programs,  \* the instruction sequences the decoder may hand over
  Builds     \* the builds to check: TRUE for asserts compiled in (no NDEBUG)

ASSUME NumRegs \in Nat \ {0}
ASSUME Builds \subseteq BOOLEAN

Regs == 0 .. NumRegs - 1
R0 == 0                      \* REG::R0_RETURN_VALUE
Imm == -1                    \* an immediate source operand, or no register
NoBlock == -1

Param(b, r) == <<"param", b, r>>
Res(i) == <<"res", i>>
ImmValue == <<"imm">>

(* Slot width of an instruction: lddw is a 16-byte instruction. *)
Slots(ins) == IF ins.kind = "LoadMapFd" THEN 2 ELSE 1

Size(p) == Cardinality(DOMAIN p)

(* label.from of instruction i: the slots of the instructions before it. *)
RECURSIVE Offset(_, _)
Offset(p, i) == IF i = 0 THEN 0 ELSE Offset(p, i - 1) + Slots(p[i - 1])

(* An operation of the lifted IR.  src is the instruction it is lowered   *)
(* from (-1 for a synthesized one), dst the register whose slot receives  *)
(* its result, uses the register each argument was read from.             *)
Op(kind, src, dst, uses, args, succ) ==
  [op |-> kind, src |-> src, dst |-> dst, uses |-> uses, args |-> args,
   succ |-> succ]

IsTerminator(o) == o.op \in {"Br", "Ret"}
EndsInTerminator(ops) == ops # <<>> /\ IsTerminator(Last(ops))
Defines(o) == o.op \in {"Bin", "Un", "Load", "LoadMap"}
AllRegs == [k \in 1 .. NumRegs |-> k - 1]

VARIABLES
  debug,      \* the build: TRUE when asserts are compiled in
  prog,       \* m_sections.front()
  pc,         \* which step of collectBlocks / buildFunctionBody is next
  starts,     \* m_startOfNextBlock, sorted by collectBlocks
  bi,         \* position in starts of the boundary loop's `next`
  curOp,      \* cur_op
  curBlock,   \* the block the builder appends to
  lastBlock,  \* m_lastBlock
  regs,       \* m_registers
  blocks      \* m_jumpBlocks with each block's operations

vars == <<debug, prog, pc, starts, bi, curOp, curBlock, lastBlock, regs, blocks>>

ParamsOf(b) == [r \in Regs |-> Param(b, r)]
Emit(b, o) == [blocks EXCEPT ![b] = Append(@, o)]
(* m_registers as the argument vector of a branch. *)
RegVector == [k \in 1 .. NumRegs |-> regs[k - 1]]

(* buildXDPFunction up to buildFunctionBody: the entry block registered at *)
(* offset 0, m_lastBlock = body, registers bound to its parameters.        *)
EntryBlock ==
  /\ pc = "collectBlocks"
  /\ starts = <<>>
  /\ bi = 1
  /\ curOp = 0
  /\ curBlock = 0
  /\ lastBlock = 0
  /\ regs = ParamsOf(0)
  /\ blocks = [b \in {0} |-> <<>>]

(* Mutant: the slot after a conditional jump is recorded as a start, but *)
(* no block is created for it.                                            *)
collectBlocksNoFallthroughBlock ==
  LET jmps == {i \in DOMAIN prog : prog[i].kind = "Jmp"}
      T == {prog[i].target : i \in jmps}
      B == T \cup {Offset(prog, i) + 1 : i \in {j \in jmps : prog[j].cond}}
  IN /\ pc = "collectBlocks"
     /\ starts' = SetToSortSeq(B, <)
     /\ blocks' = [b \in DOMAIN blocks \cup T |->
                     IF b \in DOMAIN blocks THEN blocks[b] ELSE <<>>]
     /\ pc' = "nextBlock"
     /\ UNCHANGED <<debug, prog, bi, curOp, curBlock, lastBlock, regs>>

(* collectBlocks: every jump target starts a block, and so does the slot  *)
(* after a conditional jump; incrementBlocks deduplicates, then the       *)
(* starts are sorted.                                                     *)
collectBlocks ==
  LET jmps == {i \in DOMAIN prog : prog[i].kind = "Jmp"}
      B == {prog[i].target : i \in jmps}
           \cup {Offset(prog, i) + 1 : i \in {j \in jmps : prog[j].cond}}
  IN /\ pc = "collectBlocks"
     /\ starts' = SetToSortSeq(B, <)
     /\ blocks' = [b \in DOMAIN blocks \cup B |->
                     IF b \in DOMAIN blocks THEN blocks[b] ELSE <<>>]
     /\ pc' = "nextBlock"
     /\ UNCHANGED <<debug, prog, bi, curOp, curBlock, lastBlock, regs>>

(* Mutant: the trailing loop stops one instruction short. *)
LoopEndShort == IF pc = "body" THEN starts[bi] ELSE Size(prog) - 1

(* Mutant: the boundary loop runs while cur_op <= next. *)
LoopEndInclusive == IF pc = "body" THEN starts[bi] + 1 ELSE Size(prog)

(* The end of the translation loop running now: the next block start in  *)
(* the boundary loop, the program size in the trailing loop.             *)
LoopEnd == IF pc = "body" THEN starts[bi] ELSE Size(prog)

(* createBinaryOp: dst op= src, where src is a register or an immediate. *)
createBinaryOp(i) ==
  LET ins == prog[i]
      rhs == IF ins.src = Imm THEN ImmValue ELSE regs[ins.src]
  IN /\ ins.kind = "Bin"
     /\ blocks' = Emit(curBlock, Op("Bin", i, ins.dst, <<ins.dst, ins.src>>,
                                    <<regs[ins.dst], rhs>>, NoBlock))
     /\ regs' = [regs EXCEPT ![ins.dst] = Res(i)]
     /\ pc' = pc

(* createUnaryOp: the byte swaps and negation overwrite their register. *)
createUnaryOp(i) ==
  LET ins == prog[i]
  IN /\ ins.kind = "Un"
     /\ blocks' = Emit(curBlock, Op("Un", i, ins.dst, <<ins.dst>>,
                                    <<regs[ins.dst]>>, NoBlock))
     /\ regs' = [regs EXCEPT ![ins.dst] = Res(i)]
     /\ pc' = pc

(* createMemOp: a load writes the value register; a store (of a register *)
(* or an immediate) updates no register.  The width only picks the       *)
(* operation's name and is not kept.                                     *)
createMemOp(i) ==
  LET ins == prog[i]
      val == IF ins.val = Imm THEN ImmValue ELSE regs[ins.val]
  IN /\ ins.kind = "Mem"
     /\ \/ /\ ins.isLoad
           /\ blocks' = Emit(curBlock, Op("Load", i, ins.val, <<ins.base>>,
                                          <<regs[ins.base]>>, NoBlock))
           /\ regs' = [regs EXCEPT ![ins.val] = Res(i)]
        \/ /\ ~ins.isLoad
           /\ blocks' = Emit(curBlock, Op("Store", i, Imm, <<ins.base, ins.val>>,
                                          <<regs[ins.base], val>>, NoBlock))
           /\ UNCHANGED regs
     /\ pc' = pc

(* createLoadMapOp: the map descriptor combined with the register's value. *)
createLoadMapOp(i) ==
  LET ins == prog[i]
  IN /\ ins.kind = "LoadMapFd"
     /\ blocks' = Emit(curBlock, Op("LoadMap", i, ins.dst, <<ins.dst>>,
                                    <<regs[ins.dst]>>, NoBlock))
     /\ regs' = [regs EXCEPT ![ins.dst] = Res(i)]
     /\ pc' = pc

(* createJmpOp: the assert that the jump goes forward, then              *)
(* prog.at(target.from), which reads the target by INDEX and throws past  *)
(* the end, then the assert comparing its label with the offset.          *)
(* buildJmpOp branches to the target's block, passing the registers, for *)
(* an unconditional jump and lowers nothing for a conditional one.       *)
createJmpOp(i) ==
  LET ins == prog[i]
      t == ins.target
      forward == ~debug \/ t > Offset(prog, i)
  IN /\ ins.kind = "Jmp"
     /\ \/ /\ ~forward
           /\ pc' = "abort"
           /\ UNCHANGED blocks
        \/ /\ forward /\ t \notin DOMAIN prog
           /\ pc' = "abort"
           /\ UNCHANGED blocks
        \/ /\ forward /\ t \in DOMAIN prog
           /\ debug /\ Offset(prog, t) # t
           /\ pc' = "abort"
           /\ UNCHANGED blocks
        \/ /\ forward /\ t \in DOMAIN prog
           /\ ~debug \/ Offset(prog, t) = t
           /\ \/ /\ ~ins.cond
                 /\ blocks' = Emit(curBlock, Op("Br", i, Imm, AllRegs, RegVector, t))
              \/ /\ ins.cond
                 /\ UNCHANGED blocks
           /\ pc' = pc
     /\ UNCHANGED regs

(* Call, Callx, Exit, Packet, Assume, Atomic, Assert, IncrementLoopCounter *)
(* and Undefined: createMLIR returns without lowering anything.           *)
skipUnsupported(i) ==
  /\ prog[i].kind = "Unsupported"
  /\ UNCHANGED <<blocks, regs, pc>>

(* createMLIR(prog.at(cur_op)) inside either translation loop.  Once an *)
(* lddw has made offsets outrun indices, a block start can lie past the  *)
(* last index; prog.at(cur_op) then throws out_of_range and lifting is   *)
(* over.                                                                 *)
createMLIR ==
  /\ pc \in {"body", "tail"}
  /\ curOp < LoopEnd
  /\ \/ /\ curOp \notin DOMAIN prog
        /\ pc' = "abort"
        /\ UNCHANGED <<blocks, regs>>
     \/ /\ curOp \in DOMAIN prog
        /\ \/ createBinaryOp(curOp)
           \/ createUnaryOp(curOp)
           \/ createMemOp(curOp)
           \/ createLoadMapOp(curOp)
           \/ createJmpOp(curOp)
           \/ skipUnsupported(curOp)
  /\ curOp' = curOp + 1
  /\ UNCHANGED <<debug, prog, starts, bi, curBlock, lastBlock>>

(* Mutant: the loop head keeps the previous block's register values. *)
beginBlockNoReset ==
  /\ pc = "nextBlock"
  /\ bi <= Len(starts)
  /\ curBlock' = curOp
  /\ pc' = "body"
  /\ UNCHANGED <<debug, prog, starts, bi, curOp, lastBlock, blocks, regs>>

(* Head of the boundary loop: switch to the block at cur_op and reset the *)
(* register file to its parameters.                                       *)
beginBlock ==
  /\ pc = "nextBlock"
  /\ bi <= Len(starts)
  /\ curBlock' = curOp
  /\ regs' = ParamsOf(curOp)
  /\ pc' = "body"
  /\ UNCHANGED <<debug, prog, starts, bi, curOp, lastBlock, blocks>>

(* After [cur_op, next): unless the block already ends in a terminator,  *)
(* branch to the block at next with the current registers and make it    *)
(* m_lastBlock.                                                           *)
endBlock ==
  LET next == starts[bi]
      blk == blocks[curBlock]
  IN /\ pc = "body"
     /\ ~(curOp < LoopEnd)
     /\ \/ /\ ~EndsInTerminator(blk)
           /\ blocks' = Emit(curBlock, Op("Br", -1, Imm, AllRegs, RegVector, next))
           /\ lastBlock' = next
        \/ /\ EndsInTerminator(blk)
           /\ UNCHANGED <<blocks, lastBlock>>
     /\ bi' = bi + 1
     /\ pc' = "nextBlock"
     /\ UNCHANGED <<debug, prog, starts, curOp, curBlock, regs>>

(* After the boundary loop: instructions left past the last start are    *)
(* appended to m_lastBlock, registers reset to its parameters.           *)
beginTrailing ==
  /\ pc = "nextBlock"
  /\ bi > Len(starts)
  /\ curBlock' = IF curOp < Size(prog) THEN lastBlock ELSE curBlock
  /\ regs' = IF curOp < Size(prog) THEN ParamsOf(lastBlock) ELSE regs
  /\ pc' = "tail"
  /\ UNCHANGED <<debug, prog, starts, bi, curOp, lastBlock, blocks>>

(* buildXDPFunction after buildFunctionBody: r0 is set to m_lastBlock's  *)
(* first parameter and returned from m_lastBlock.                        *)
buildReturn ==
  /\ pc = "tail"
  /\ ~(curOp < LoopEnd)
  /\ regs' = [regs EXCEPT ![R0] = Param(lastBlock, R0)]
  /\ blocks' = Emit(lastBlock, Op("Ret", -1, Imm, <<R0>>,
                                  <<Param(lastBlock, R0)>>, NoBlock))
  /\ pc' = "done"
  /\ UNCHANGED <<debug, prog, starts, bi, curOp, curBlock, lastBlock>>

Next ==
  \/ collectBlocks
  \/ beginBlock
  \/ createMLIR
  \/ endBlock
  \/ beginTrailing
  \/ buildReturn

-----------------------------------------------------------------------------
(***************************************************************************)
(* Properties                                                              *)
(***************************************************************************)
Values == {Param(b, r) : b \in DOMAIN blocks, r \in Regs}
          \cup {Res(i) : i \in DOMAIN prog} \cup {ImmValue}

TypeOK ==
  /\ pc \in {"collectBlocks", "nextBlock", "body", "tail", "done", "abort"}
  /\ curBlock \in DOMAIN blocks /\ lastBlock \in DOMAIN blocks
  /\ regs \in [Regs -> Values]
  /\ \A b \in DOMAIN blocks : \A k \in 1 .. Len(blocks[b]) :
       /\ blocks[b][k].op \in {"Bin", "Un", "Load", "Store", "LoadMap", "Br", "Ret"}
       /\ Len(blocks[b][k].args) = Len(blocks[b][k].uses)
       /\ blocks[b][k].op = "Br" => blocks[b][k].succ \in DOMAIN blocks

(* The operations of block b lowered from instruction i. *)
LoweredAt(b, i) == {k \in 1 .. Len(blocks[b]) : blocks[b][k].src = i}
LoweredIn(i) == {b \in DOMAIN blocks : LoweredAt(b, i) # {}}

(* The value register r holds before the k-th operation of block b, read *)
(* off the IR: the last earlier result written to r, else b's parameter. *)
ReachingDef(b, k, r) ==
  LET defs == {j \in 1 .. k - 1 : Defines(blocks[b][j]) /\ blocks[b][j].dst = r}
  IN IF defs = {} THEN Param(b, r) ELSE Res(blocks[b][Max(defs)].src)

(* SSA well-formedness of the lifted body (spec section 3): every operand *)
(* of every operation is an immediate, a parameter of its own block, or  *)
(* the result of an operation earlier in the same block.  This is what   *)
(* the register reset at each block head (beginBlock, beginTrailing) and *)
(* the register-file updates of createMLIR guarantee.                    *)
DefBeforeUse ==
  \A b \in DOMAIN blocks : \A k \in 1 .. Len(blocks[b]) :
    \A a \in 1 .. Len(blocks[b][k].args) :
      LET v == blocks[b][k].args[a]
      IN \/ v = ImmValue
         \/ v \in {Param(b, r) : r \in Regs}
         \/ \E j \in 1 .. k - 1 : Defines(blocks[b][j]) /\ v = Res(blocks[b][j].src)

(* Once lifting is done, every lowered instruction (all but conditional  *)
(* jumps and the unsupported kinds) appears as exactly one operation and *)
(* the others as none: the boundary loop and the trailing loop together *)
(* cover the program once, whatever the block starts are.                *)
LoweredExactlyOnce ==
  pc = "done" =>
    \A i \in DOMAIN prog :
      LET ins == prog[i]
          n == IF \/ ins.kind \in {"Bin", "Un", "Mem", "LoadMapFd"}
                  \/ ins.kind = "Jmp" /\ ~ins.cond
               THEN 1 ELSE 0
      IN /\ Cardinality(LoweredIn(i)) <= 1
         /\ \A b \in LoweredIn(i) : Cardinality(LoweredAt(b, i)) = 1
         /\ Cardinality(LoweredIn(i)) = n

(* Every block of the lifted function ends in exactly one terminator and *)
(* has none before it (spec section 3 and the glossary's basic block).    *)
WellTerminated ==
  pc = "done" =>
    \A b \in DOMAIN blocks :
      /\ EndsInTerminator(blocks[b])
      /\ \A k \in 1 .. Len(blocks[b]) - 1 : ~IsTerminator(blocks[b][k])

(* Register-state handoff (spec 4.1): every register operand, the branch *)
(* arguments included, is the value the IR of its block gives that        *)
(* register at that point.                                                *)
ReachingDefs ==
  \A b \in DOMAIN blocks : \A k \in 1 .. Len(blocks[b]) :
    blocks[b][k].op # "Ret" =>
      \A a \in 1 .. Len(blocks[b][k].uses) :
        blocks[b][k].uses[a] # Imm =>
          blocks[b][k].args[a] = ReachingDef(b, k, blocks[b][k].uses[a])

(* eBPF returns r0: the return in the last block passes the value the   *)
(* IR of that block gives r0 at its end, as for any other register use.  *)
(* This is about the return buildXDPFunction appends to m_lastBlock.     *)
ReturnsFinalR0 ==
  \A b \in DOMAIN blocks : \A k \in 1 .. Len(blocks[b]) :
    blocks[b][k].op = "Ret" => blocks[b][k].args[1] = ReachingDef(b, k, R0)

(* Block of offset o: the greatest block start not above it. *)
OwningBlock(o) == Max({b \in DOMAIN blocks : b <= o})

(* Each lowered instruction sits in the block that owns its offset: the  *)
(* block boundaries found by collectBlocks are the ones the body obeys.  *)
InstructionInOwningBlock ==
  \A i \in DOMAIN prog :
    \A b \in LoweredIn(i) : b = OwningBlock(Offset(prog, i))

(* The lift throws only where the offsets of an lddw outrun the indices  *)
(* (prog.at past the end) or, in a debug build, at the assert against a  *)
(* backward jump.  Every other block start, the slot after a conditional *)
(* jump at the end included, keeps the boundary loop, the trailing loop  *)
(* and the jump-target lookup inside the program.                        *)
AbortsOnlyOnLddwOrBackJump ==
  pc = "abort" =>
    \/ \E i \in DOMAIN prog : prog[i].kind = "LoadMapFd"
    \/ debug /\ \E i \in DOMAIN prog :
                  prog[i].kind = "Jmp" /\ prog[i].target <= Offset(prog, i)

=============================================================================
