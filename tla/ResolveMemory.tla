---------------------------- MODULE ResolveMemory ----------------------------
(***************************************************************************)
(* The ebpf address/scalar resolution pass, ResolveMemoryPass in          *)
(* src/lib/Dialect/ebpf/Transforms/ResolveMemory.cpp.  runOnOperation     *)
(* erases the module's first function (xdp_entry) and walks the           *)
(* operations of the remaining one (main); every load is handed to        *)
(* replaceLoadWithLoadAddress, which classifies the load's uses and, when *)
(* none expects an integer, creates a LoadAddr right after the load and   *)
(* redirects every use to it.                                             *)
(*                                                                         *)
(* main's body is one sequence of operations: the pass treats blocks      *)
(* alike and decides each load on its uses alone.  An operation is a      *)
(* record with a creation stamp id, a kind, a width (loads) and its       *)
(* arguments; its result is Res(id).  A use is <<k, a>>: argument a of    *)
(* the k-th operation.  Address offsets are constants and are left out:   *)
(* argument 1 of a load or store is its base (lhs), argument 2 of a store *)
(* the stored value.                                                      *)
(***************************************************************************)
EXTENDS Integers, Sequences, FiniteSets
LOCAL INSTANCE SequencesExt

CONSTANTS
  Bodies,    \* the bodies of main the lifter may hand over
  Debug,     \* TRUE when asserts are compiled in (no NDEBUG)
  MaxRuns    \* how many times the pass is invoked on the module

ASSUME Debug \in BOOLEAN /\ MaxRuns \in Nat

Param == <<"param">>
Res(id) == <<"res", id>>

(* ebpf::LoadOp is the 64-bit load; Load32Op, Load16Op, Load8Op the rest. *)
Wide == 64

IsLoad(o) == o.kind = "Load"
(* The eight isa<> cases: the Store, Store32/16/8 and Load, Load32/16/8 ops. *)
IsMemOp(o) == o.kind \in {"Load", "Store"}
HasResult(o) == o.kind \in {"Load", "LoadAddr", "Other"}

VARIABLES
  orig,      \* main's body as the pass received it
  ops,       \* main's body now
  funcs,     \* functions left in the module (xdp_entry and main)
  pc,        \* "idle" between runs, "visit" inside one, "abort"
  pos,       \* the operation the walk of the body visits
  runs,      \* completed runs of the pass
  fresh      \* creation stamp of the next operation built

vars == <<orig, ops, funcs, pc, pos, runs, fresh>>

(* The uses of v, in MLIR use-list order: a new use goes to the head of  *)
(* the list, so the latest created operation, and within it the last     *)
(* argument, comes first.                                               *)
OperandUses(v, id) ==
  LET K == {k \in 1 .. Len(ops) : ops[k].id = id}
      k == CHOOSE k \in K : TRUE
  IN IF K = {} THEN <<>>
     ELSE SelectSeq(<<<<k, 3>>, <<k, 2>>, <<k, 1>>>>,
                    LAMBDA u : u[2] \in DOMAIN ops[k].args /\ ops[k].args[u[2]] = v)

RECURSIVE UsesFrom(_, _)
UsesFrom(v, id) == IF id = 0 THEN <<>> ELSE OperandUses(v, id) \o UsesFrom(v, id - 1)

UseList(v) == UsesFrom(v, fresh - 1)

(* One turn of the loop over the uses: a memory operation expects an     *)
(* address when its lhs is the load's result, an integer otherwise; any  *)
(* other owner expects an integer.  ok records the assert after the      *)
(* update of replaceWithMem and keepAsIs.                                *)
ClassifyUseDefaultAddr(v, acc, u) ==
  LET o == ops[u[1]]
      expectAddr == (IsMemOp(o) /\ o.args[1] = v) \/ ~IsMemOp(o)
      expectInt == ~expectAddr
      rwm == expectAddr /\ acc.rwm
  IN [acc EXCEPT !.rwm = rwm, !.keep = expectInt \/ acc.keep, !.used = TRUE,
                 !.ok = acc.ok /\ ((rwm /\ ~expectInt) \/ (~rwm /\ expectInt))]

ClassifyUse(v, acc, u) ==
  LET o == ops[u[1]]
      expectAddr == IsMemOp(o) /\ o.args[1] = v
      expectInt == ~expectAddr
      rwm == expectAddr /\ acc.rwm
  IN [acc EXCEPT !.rwm = rwm, !.keep = expectInt \/ acc.keep, !.used = TRUE,
                 !.ok = acc.ok /\ ((rwm /\ ~expectInt) \/ (~rwm /\ expectInt))]

(* The loop over the uses, one ClassifyUse per turn, in use-list order. *)
RECURSIVE ClassifyFrom(_, _, _)
ClassifyFrom(v, acc, us) ==
  IF us = <<>> THEN acc ELSE ClassifyFrom(v, ClassifyUse(v, acc, Head(us)), Tail(us))

Classify(v) ==
  ClassifyFrom(v, [rwm |-> TRUE, keep |-> FALSE, ok |-> TRUE, used |-> FALSE], UseList(v))

(* ops with every use of v redirected to w (replaceAllUsesWith). *)
ReplaceAllUses(v, w) ==
  [k \in 1 .. Len(ops) |->
     [ops[k] EXCEPT !.args = [a \in DOMAIN ops[k].args |->
                                IF ops[k].args[a] = v THEN w ELSE ops[k].args[a]]]]

(* The builder's insertion point right after the load: o becomes the     *)
(* operation following position p.                                       *)
InsertAtEnd(s, p, o) == Append(s, o)

InsertAfterValue(s, p, o) == InsertAt(s, p + 1, o)

(* Mutant: create<ebpf::LoadOp> in place of create<ebpf::LoadAddrOp>. *)
LoadAddrAsLoad(o, id) == [id |-> id, kind |-> "Load", w |-> Wide, of |-> o.id, args |-> o.args]

(* The LoadAddr built with the load's operands, remembering its load. *)
LoadAddrOf(o, id) == [id |-> id, kind |-> "LoadAddr", w |-> Wide, of |-> o.id, args |-> o.args]

(* runOnOperation: assert two functions, erase xdp_entry, walk main.     *)
(* With main alone left, the assert fails, or without asserts front() is *)
(* main itself and back() then reads an empty list.                      *)
runOnOperationEraseAlways ==
  /\ pc = "idle"
  /\ runs < MaxRuns
  /\ funcs > 0
  /\ funcs' = funcs - 1
  /\ pc' = "visit"
  /\ pos' = 1
  /\ UNCHANGED <<orig, ops, runs, fresh>>

runOnOperation ==
  /\ pc = "idle"
  /\ runs < MaxRuns
  /\ \/ /\ funcs = 2
        /\ funcs' = 1
        /\ pc' = "visit"
        /\ pos' = 1
     \/ /\ funcs # 2
        /\ pc' = "abort"
        /\ UNCHANGED <<funcs, pos>>
  /\ UNCHANGED <<orig, ops, runs, fresh>>

(* replaceLoadWithLoadAddress on the visited load: assert it has a use;  *)
(* classify the uses; keepAsIs wins; otherwise only the 64-bit LoadOp is *)
(* rebuilt (assert(isa<LoadOp>) first): a LoadAddr with the load's       *)
(* operands right after it takes over every use.  The load stays.       *)
replaceLoadWithLoadAddress ==
  LET o == ops[pos]
      v == Res(o.id)
      addr == LoadAddrOf(o, fresh)
  IN /\ pc = "visit"
     /\ pos <= Len(ops)
     /\ IsLoad(o)
     /\ \E c \in {Classify(v)} :
          LET asserted == Debug => c.used /\ c.ok
          IN \/ /\ ~asserted
                /\ pc' = "abort"
                /\ UNCHANGED <<ops, pos, fresh>>
             \/ /\ asserted /\ c.keep
                /\ pos' = pos + 1
                /\ UNCHANGED <<ops, pc, fresh>>
             \/ /\ asserted /\ ~c.keep /\ o.w # Wide /\ Debug
                /\ pc' = "abort"
                /\ UNCHANGED <<ops, pos, fresh>>
             \/ /\ asserted /\ ~c.keep /\ o.w # Wide /\ ~Debug
                /\ pos' = pos + 1
                /\ UNCHANGED <<ops, pc, fresh>>
             \/ /\ asserted /\ ~c.keep /\ o.w = Wide
                /\ ops' = InsertAfterValue(ReplaceAllUses(v, Res(fresh)), pos, addr)
                /\ fresh' = fresh + 1
                /\ pos' = pos + 1
                /\ UNCHANGED pc
  /\ UNCHANGED <<orig, funcs, runs>>

(* The TypeSwitch's Default: any other operation is left alone. *)
visitOther ==
  /\ pc = "visit"
  /\ pos <= Len(ops)
  /\ ~IsLoad(ops[pos])
  /\ pos' = pos + 1
  /\ UNCHANGED <<orig, ops, funcs, pc, runs, fresh>>

(* The walk has passed the last operation: the run is over. *)
finishRun ==
  /\ pc = "visit"
  /\ pos > Len(ops)
  /\ pc' = "idle"
  /\ runs' = runs + 1
  /\ UNCHANGED <<orig, ops, funcs, pos, fresh>>

Init ==
  /\ orig \in Bodies
  /\ ops = orig
  /\ funcs = 2
  /\ pc = "idle"
  /\ pos = 1
  /\ runs = 0
  /\ fresh = Len(orig) + 1

Next ==
  \/ runOnOperation
  \/ replaceLoadWithLoadAddress
  \/ visitOther
  \/ finishRun

Spec == Init /\ [][Next]_vars

-----------------------------------------------------------------------------
(***************************************************************************)
(* Properties                                                              *)
(***************************************************************************)
TypeOK ==
  /\ pc \in {"idle", "visit", "abort"}
  /\ funcs \in 1 .. 2 /\ runs \in 0 .. MaxRuns
  /\ pos \in 1 .. Len(ops) + 1
  /\ \A k \in 1 .. Len(ops) :
       ops[k].kind \in {"Load", "Store", "Other", "LoadAddr"}

(* Where argument a of operation o asks for an address: the base of a    *)
(* memory operation, and nothing else.                                   *)
BasePosition(o, a) == IsMemOp(o) /\ a = 1

(* Every argument is main's parameter or the result of an earlier        *)
(* operation: the LoadAddr is built before any use it takes over.        *)
DefBeforeUse ==
  \A k \in 1 .. Len(ops) : \A a \in DOMAIN ops[k].args :
    \/ ops[k].args[a] = Param
    \/ \E j \in 1 .. k - 1 : HasResult(ops[j]) /\ ops[k].args[a] = Res(ops[j].id)

(* A LoadAddr result only ever reaches memory operations: no arithmetic, *)
(* branch or return is handed an address by the pass.                    *)
AddrOnlyFeedsMemory ==
  \A k \in 1 .. Len(ops) : \A a \in DOMAIN ops[k].args :
    (\E j \in 1 .. Len(ops) : ops[j].kind = "LoadAddr" /\ ops[k].args[a] = Res(ops[j].id))
      => ops[k].kind \in {"Load", "Store", "LoadAddr"}

(* The original uses of load id, by position. *)
OrigUses(id) ==
  {<<k, a>> \in (1 .. Len(orig)) \X (1 .. 3) :
     a \in DOMAIN orig[k].args /\ orig[k].args[a] = Res(id)}

(* Spec 4.2, for a load with at least one use: it is replaced by an     *)
(* address-producing load exactly when every one of its uses is          *)
(* address-expected (the base of a memory load or store); a single      *)
(* integer-expected use (a store's value, any other operation) keeps it. *)
SpecResolves(id) == \A u \in OrigUses(id) : BasePosition(orig[u[1]], u[2])
Resolved(id) == \E k \in 1 .. Len(ops) : ops[k].kind = "LoadAddr" /\ ops[k].of = id

(* After a completed run, the loads replaced by replaceLoadWithLoadAddress *)
(* are exactly the loads spec 4.2's classification of their uses makes   *)
(* address loads: none with an integer use, none with only address uses *)
(* left behind.                                                           *)
ResolvedAsSpecified ==
  runs >= 1 =>
    \A k \in 1 .. Len(orig) :
      IsLoad(orig[k]) /\ OrigUses(orig[k].id) # {} =>
        (Resolved(orig[k].id) <=> SpecResolves(orig[k].id))

(* The work the walk has left at position p of body s: a load still to  *)
(* be visited counts twice, since visiting it may add one more operation *)
(* (its LoadAddr) ahead of the walk; any other operation counts once.    *)
WorkLeft(s, p) ==
  (Len(s) + 1 - p) + Cardinality({k \in p .. Len(s) : IsLoad(s[k])})

(* The walk of main terminates although it runs over a list the pass     *)
(* grows: every step inside a run strictly lowers the work left, so the   *)
(* operation built after a load is never itself a load the walk would   *)
(* visit and rewrite again.                                               *)
WalkProgress ==
  [][pc = "visit" /\ pc' = "visit" => WorkLeft(ops', pos') < WorkLeft(ops, pos)]_vars

(* The pass runs to completion on what the lifter produces: declining to *)
(* rewrite a load is a normal outcome, not a failure (spec section 7).   *)
FirstRunCompletes == runs = 0 => pc # "abort"

=============================================================================
