# TLA+ models of btor2mlir's lifter and rewrite passes

This directory holds TLA+ models of the three core parts of the repository
and the TLC configurations that check them. All three parts are sequential
computations over in-memory IR: there are no threads, no messages and no
persistence. What makes them hard is the order of operations: the block walk,
the use-list order MLIR keeps, an insertion point, a value read before a
rewrite and used after it. The models keep that order exactly and abstract
the data (names, constants, widths, types) down to what the properties can
tell apart.

## Inventory

| Part | Source | Module | Status |
|---|---|---|---|
| Lifter: eBPF instruction sequence → MLIR blocks | `src/unnamed/part_000` (`Deserialize::collectBlocks`, `buildFunctionBody`, `createMLIR`, `create*Op`, the return in `buildXDPFunction`) | `Lifter`, `MC_Lifter` | modelled |
| Address/scalar resolution pass | `src/lib/Dialect/ebpf/Transforms/ResolveMemory.cpp` | `ResolveMemory`, `MC_ResolveMemory` | modelled |
| Array-write liveness pass | `src/lib/Dialect/Btor/Transforms/BtorLiveness.cpp` | `BtorLiveness`, `MC_BtorLiveness`; abstract specification `InPlaceWrites` | modelled |
| Decoder and ELF reading (`parseModelIsSuccessful`) | `src/unnamed/part_000:364-389` | `Translation`, `MC_Lifter` | modelled: the loop over `read_elf`'s programs. `read_elf` and `unmarshal` are an external library, and their results are inputs |
| Module shell and registration (`deserializeModule`, `registerebpfTranslation`, the function signature) | `src/unnamed/part_000:330-350, 391-421` | `Translation`, `MC_Lifter` | partly: `deserializeModule` and the entry block are modelled. The registration with MLIR's registry and the signature are not |

Some code outside `src/` is modelled from `spec.md`. These definitions are marked `spec_modelled` in the map:

- slot offsets of labels (`Slots`, `Offset`);
- the operation record (`Op`);
- `incrementBlocks` (deduplicating);
- `buildJmpOp`, where a conditional jump lowers to nothing;
- the module handed to ResolveMemory (`Init`).

### How the parts interact

`deserializeModule` reads the ELF file's programs and unmarshals each into an
instruction section, skipping those that fail. The lifter turns the first
section into an `xdp_entry` function of blocks, and the function is added to
the module; with no section the module is returned empty. `Translation`
composes this with `Lifter`. Downstream tooling, outside this repository,
inlines that function into `main`. ResolveMemory then erases `xdp_entry` and
rewrites `main`'s loads. The btor liveness pass works on a btor function
instead: an entry block and a loop body (`nextBlock`), lowered from btor2.

The three are independent CFG→CFG transforms, and the spec calls them
independently invocable. Each model therefore takes the previous stage's
output as an input set, enumerated over small bounds: programs, main bodies,
loop bodies.

## Modules

### Lifter

There is one variable per piece of `Deserialize` state:

| Variable | Code |
|---|---|
| `prog` | `m_sections.front()` |
| `starts` | `m_startOfNextBlock` |
| `blocks` | `m_jumpBlocks` with each block's operations |
| `curOp` | `cur_op` |
| `curBlock` | the insertion block |
| `lastBlock` | `m_lastBlock` |
| `regs` | `m_registers` |
| `debug` | the build: asserts compiled in or not (`NDEBUG`) |

`pc` says which step of `buildFunctionBody` is next.

Values are block parameters `Param(b, r)`, results `Res(i)` of instruction
`i`, or `ImmValue`.

Each step of the code is an action:

- `collectBlocks` collects the jump targets and fallthroughs, sorts them, and creates their blocks.
- `beginBlock` is the head of the boundary loop.
- `createMLIR` handles one instruction. Its disjuncts are `createBinaryOp`, `createUnaryOp`, `createMemOp`, `createLoadMapOp`, `createJmpOp` and `skipUnsupported`.
- `endBlock` adds the fallthrough branch and updates `m_lastBlock`.
- `beginTrailing` is the register reset before the trailing loop.
- `buildReturn` appends the return.

`Translation`'s `ImportInit` picks the build from the constant set `Builds`, so one run can cover
both builds. The debug-only steps are these:
- `createJmpOp`'s forward-jump assert (line 23);
- its label assert (line 28).

`prog.at()` throws in either build. It can throw for a jump target (line 25)
or for a block start past the last instruction (line 277), and both happen
only once an lddw has made offsets outrun indices. The start after a
conditional jump that ends the program is one past the last index too, but
the boundary loop stops before it. In a release
build, a backward jump gives a block start at or before `cur_op`. The
boundary loop then runs that block empty.

### Translation

`Translation` extends `Lifter` with the import around it,
`deserializeModule` and the loop of `parseModelIsSuccessful`:

| Variable | Code |
|---|---|
| `stage` | where `deserializeModule` is: `readElf`, `unmarshal`, `lift`, then `done` (function added) or `noFunction` |
| `left` | the programs of `raw_progs` the loop has not visited |
| `decoded` | `!m_sections.empty()` |

`m_sections` itself is not kept: only its front is read again, and that is
the Lifter's `prog`.

The actions:

- `readElf` picks how many programs the file has, up to `MaxSections` (none when there is no file).
- `unmarshalFailed` is the `continue` after an unmarshal error.
- `unmarshalDecoded` is the `push_back`: the first section pushed becomes `prog`, any program of `Programs`.
- `buildXDPFunction` starts the lift when a section was decoded.
- `returnEmptyModule` returns the module without a function when none was.
- `liftStep` is a step of the Lifter's `Next`.
- `addFunction` adds the lifted function to the module.

The Lifter's variables hold its entry-block state (`EntryBlock`) from the
start and do not change before the lift begins.

### ResolveMemory

`main` is one sequence of operation records: id, kind, width and arguments.
The pass treats every block alike, so one sequence is enough.

`UseList(v)` orders the uses as MLIR does: newest first, and within one
operation the last operand first.

`ClassifyFrom` runs `ClassifyUse` over that list, one turn per use, like the
loop at lines 29-80. The `ok` field records the assert at line 79, and the
`used` field records the `use_empty` assert at line 28.

The actions are:

- `runOnOperation`: the two-function assert and the erasing of `xdp_entry`. The variable `funcs` counts the functions left.
- `replaceLoadWithLoadAddress`: five disjuncts, one for each outcome. They are the failed assert, `keepAsIs`, a narrow load in debug, a narrow load in release, and the LoadAddr inserted after the load with every use redirected to it.
- `visitOther`
- `finishRun`

`MaxRuns` lets the pass run again on its own output.

The walk goes on over operations the pass itself inserts: it visits each
LoadAddr right after its load, exactly as the range-for over the block's
operation list follows the inserted operation's link. `WalkProgress` is the
termination argument, stated as an action property. `WorkLeft` counts 2 for
each load still ahead of the walk and 1 for each other operation. Every step
inside a run must lower it; it would not if the operation built after a load
(`LoadAddrOf`) were itself a load the walk rewrites again.

### BtorLiveness

The loop body is a sequence of records: write (value, base, index), read,
ite, an integer operation, and the closing branch with the next A and B.

`resultIsLiveAfter`, `usedInITEPattern` and `moveReadOpsBefore` are operators
that return a status and the rewritten body. `MoveStep` is one turn of the
loop over the array's users.

The action `replaceWithWriteInPlace` models one visit to a write. It contains
the whole of `replaceWithWriteInPlace` and the assert on its status in
`runOnOperation`: abort, failure (moved reads stay moved), or success. On
success a WriteInPlace is inserted after the write and takes over its uses;
the write itself stays in the body.

Asserts are aborts when `Debug` holds. So is the `user_begin()` dereference
of an empty use list, which crashes in either build.

### InPlaceWrites, the abstract specification

`InPlaceWrites` states what spec.md section 4.3 promises of the pass. It
says nothing about how the pass walks the block.

- Each write is decided once, in block order, as `convertible` or
  `notConvertible`.
- A write is convertible exactly when the spec's liveness test holds. The
  test: one use, and that use is either the branch, or a select of the
  write and its base whose only use is the branch, with base used by reads
  alone after the select.
- Converting replaces the write by an in-place write with the same operands
  and moves the later reads of base to just before the select.
- Declining leaves the body unchanged.
- The pass may halt (an internal invariant failure, spec section 7) only at
  a write the test declines.

`BtorLiveness` maps onto it as follows:
- `body` is `ops` without the writes a WriteInPlace has replaced. Such a
  write is dead, but the code leaves it in place.
- A write's decision is `convertible` once its WriteInPlace exists,
  `notConvertible` once the walk is past it, and `untested` before that.
- `halted` is `pc = "abort"`.

The property `ImplementsInPlaceWrites` is `IPW!Spec` of that instance.

## Fairness

No run assumes fairness, and no run checks a liveness property. Every loop
the code runs is a range-for over a finished container or an index loop up to
a fixed bound, so that the import, and each pass, ends is not in question.
What the lifter run asks of its end instead is a safety question:
`AbortsOnlyOnLddwOrBackJump` says where the lift may throw.

The passes' walks go over a list the pass itself changes. For ResolveMemory
this is checked as a safety property: `WalkProgress` requires a variant to
fall at every step.

## Runs

No run checks for deadlock, because the lifter and both passes really do stop: the lifter after the return, a
pass after its last operation or an abort. Those cfgs therefore say
`CHECK_DEADLOCK FALSE`. No run assumes fairness; see above. All lifter runs check
the whole import (`ImportSpec`); the violation runs take one program per file.

| Run | Expect | What it shows |
|---|---|---|
| `lifter` (MC_Lifter.cfg) | pass | Debug and release builds. Each file has up to 2 programs, and each program fails to unmarshal or decodes to a section of up to 4 instructions (the empty section included, backward jumps included). The lifted blocks are SSA well-formed (`DefBeforeUse`). Each supported instruction is lowered exactly once (`LoweredExactlyOnce`). The lift throws only on a section with an lddw or, in a debug build, at a backward jump (`AbortsOnlyOnLddwOrBackJump`); the start after a conditional jump that ends the program, one past the last instruction, is reached without a throw. |
| `lifter_terminators` | violation | `[Jmp→1, X]`: the return is appended after the entry block's branch, because `m_lastBlock` is stale. Block 1 stays empty. |
| `lifter_reaching_defs` | violation | `[neg r0, Jmp→2, neg r0]`: the last instruction lands after the branch and negates the parameter r0 instead of the value the first one negated. |
| `lifter_lddw` | violation | `[lddw r0, Jcc→3, neg r0, X]`: the neg at offset 3 is lowered into block 0. |
| `lifter_return` | violation | `[neg r0]`: the return passes the entry block's r0 parameter instead of the negated value (`part_000:357`). |
| `resolve` (MC_ResolveMemory.cfg) | pass | Release build, two runs, every main body of up to 4 operations. Each LoadAddr is defined before its uses. Addresses only reach memory operations. Every step of a walk lowers `WorkLeft` (`WalkProgress`): the LoadAddr the walk visits next is never rewritten again. |
| `resolve_mixed` | violation | `ResolvedAsSpecified`, spec 4.2's rule in both directions, over 64-bit loads with uses: `[L = load p; store [L] = L]` is replaced, although one use stores L as an integer. |
| `resolve_debug` | violation | `[L1 = load p; L2 = load L1; store [L2] = L1]`: the assert at line 79 fails. |
| `liveness` (MC_BtorLiveness.cfg) | pass | Debug build, every loop body of up to 3 operations. The pass implements `InPlaceWrites` (`ImplementsInPlaceWrites`). After every ite-idiom conversion, no user of the overwritten array follows the ite (`IteReorderingSound`). |
| `liveness_inplace` | violation | `[w = write A; br (w, A)]`: A is overwritten in place by w, and its old value is also carried into the next iteration. |
| `liveness_moved` | violation | `[w; ite s, w, A; r3 = read A[s]; r4 = read A[r3]]`: after the moves, r4 precedes r3. |
| `liveness_release` | violation | `[w1 = write A; i = ite s, w1, A; write i; write i; br (i, B)]`: a release build converts w1, although the select has three uses. Its shape is checked by asserts alone (line 70). |

The findings in `PROJECT.json` explain each violation against the spec and the
code line it comes from.

Six more disagreements are recorded as hazards in `PROJECT.json` without a run of their own:

- Narrow loads used only as addresses are never resolved, because of the 64-bit `isa<LoadOp>` check at `ResolveMemory.cpp:84-85`. Over all bodies, `ResolvedAsSpecified` fails first on `[L = load32 p; store [L] = p]`.
- An unused load aborts a debug build at `ResolveMemory.cpp:28`. Over all bodies, `FirstRunCompletes` fails on `[L = load p]`. The spec calls such a load a caller error, but the lifter produces one whenever a loaded register is overwritten unread.
- A second run of ResolveMemory aborts (`ResolveMemory.cpp:114`), although spec section 8 calls the passes idempotent. The `resolve` run lets the pass run twice, and the abort is one of its final states.
- A program that fails to unmarshal is skipped silently (`part_000:379`). When it is the file's first, a later program is lifted as `xdp_entry`.
- When no program decodes, the module comes back without a function and without an error (`part_000:407`). Spec section 7 has malformed input bubble an error to the caller. The `lifter` run reaches this outcome, but no property is about the error channel.
- In a release build, a failing `moveReadOpsBefore` leaves the reads it already moved (`BtorLiveness.cpp:54`). The spec's decline step forbids that, but `liveness_release` meets the unchecked select shape first.

### Bounds

- **Lifter.** Two registers, files of up to 2 programs, sections of up to 4 instructions.
  - Two programs give a failing first program before a decoded one, and two decoded ones of which only the front is lifted.
  - The alphabet covers every instruction kind and both register roles.
  - Jumps land on the start of an instruction, forward or backward. The violation runs keep to forward jumps.
  - Both builds are explored in one run.
  - This is enough for:
    - a block after a jump target;
    - a fallthrough block after a conditional jump;
    - an instruction after an unconditional jump;
    - an lddw shifting offsets against indices.
  - 1,369,109 states, about 130 s.
- **ResolveMemory.** Bodies of up to 4 operations over one parameter, with loads of both widths, stores and integer operations.
  - Four operations give every pair of use kinds on a load, in both use-list orders.
  - Two runs show the rerun.
  - 88,464 states, about 30 s; the bodies are built op by op as a filtered product, each op drawing only on values defined before it.
- **BtorLiveness.** Block arguments A, B and s, bodies of up to 3 operations, and a branch carrying any two arrays.
  - Three operations give a write, its ite and a read after the ite, which is the whole idiom with a move.
  - The two scenarios that need four operations have their own input set, `IdiomBlocks`: the idiom followed by two reads or writes.
  - The debug run, with the refinement checked, reaches 57,772 states in about 15 s; the blocks are closed by filtering a product of the write-carrying prefixes and their array values.

## Not modelled

- **Sections after the front one.** They are pushed onto `m_sections` and never read again; the model keeps only whether `m_sections` is empty.
- **`read_elf` throwing.** An unreadable file makes the external library throw out of the import; the model starts from the programs it returns.
- **Multiple blocks of `main` in ResolveMemory.** The pass decides each load on its uses alone, so one sequence loses nothing the properties look at.
- **Operation names and widths.**
  - The lifter does not keep the 16 binary and 10 unary opcodes; they only choose the name of the emitted operation.
  - ResolveMemory does not keep store widths: all four store kinds classify their uses the same way.
- **Liveness.** Every loop of the code is bounded (see Fairness); that the walks make progress is checked as a safety property where it depends on the code.
- **A composition of the lifter with ResolveMemory.** The lifted bodies would need the external inliner's output, which this repository does not define.
