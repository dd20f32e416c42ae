----------------------------- MODULE BtorLiveness -----------------------------
(***************************************************************************)
(* The btor array-write liveness pass, BtorLivenessPass in                *)
(* src/lib/Dialect/Btor/Transforms/BtorLiveness.cpp.  runOnOperation walks *)
(* the operations of the function's second block (the loop body) and hands *)
(* every WriteOp to replaceWithWriteInPlace.  resultIsLiveAfter accepts a  *)
(* write whose only use is the loop-back branch, or an ite whose other     *)
(* operand is the write's base array (usedInITEPattern), after            *)
(* moveReadOpsBefore has moved the reads of that array that follow the ite *)
(* in front of it.  An accepted write gets a WriteInPlace with the same   *)
(* operands right after it, which takes over all its uses.                 *)
(*                                                                         *)
(* The block is a sequence of operation records with a creation stamp id, *)
(* a kind and the arguments in MLIR operand order: write (value, base,    *)
(* index), read (base, index), ite (condition, true value, false value),  *)
(* the branch (next-state arrays) and an integer operation (index).        *)
(***************************************************************************)
EXTENDS Integers, Sequences, FiniteSets
LOCAL INSTANCE SequencesExt

CONSTANTS
  Bodies,    \* the loop bodies the btor lowering may hand over
  Debug      \* TRUE when asserts are compiled in (no NDEBUG)

ASSUME Debug \in BOOLEAN

Param(x) == <<"param", x>>
Res(id) == <<"res", id>>

VARIABLES
  orig,      \* the block as the pass received it
  ops,       \* the block now
  pc,        \* "visit" while walking the block, then "done" or "abort"
  pos,       \* the operation the walk visits
  fresh      \* creation stamp of the next operation built

vars == <<orig, ops, pc, pos, fresh>>

PosOf(s, id) == CHOOSE k \in 1 .. Len(s) : s[k].id = id

(* The uses of v by the operation stamped id, last operand first. *)
OperandUses(s, v, id) ==
  LET o == s[PosOf(s, id)]
  IN SelectSeq(<<<<id, 3>>, <<id, 2>>, <<id, 1>>>>,
               LAMBDA u : u[2] \in DOMAIN o.args /\ o.args[u[2]] = v)

(* The uses of v by the operations stamped id or lower, in MLIR use-list *)
(* order: the newest use first.  Stamps are 1 .. Len(s).                 *)
RECURSIVE UsesBelow(_, _, _)
UsesBelow(s, v, id) ==
  IF id = 0 THEN <<>> ELSE OperandUses(s, v, id) \o UsesBelow(s, v, id - 1)

UsesIn(s, v) == UsesBelow(s, v, Len(s))

UseList(v) == UsesIn(ops, v)

(* opsMatch(value, WriteOp): v is defined by a write, not a block argument. *)
IsWriteResult(v) == \E k \in 1 .. Len(ops) : ops[k].kind = "Write" /\ v = Res(ops[k].id)
DefOf(v) == ops[CHOOSE k \in 1 .. Len(ops) : v = Res(ops[k].id)]

(* opsMatch(op, ReadOp): the operation is a read. *)
IsRead(o) == o.kind = "Read"

(* One turn of moveReadOpsBefore's loop over the users of the array: a  *)
(* user other than the ite and not before it must be a read, which is    *)
(* moved right in front of the ite; anything else stops the loop with   *)
(* failure, leaving the reads already moved where they are.              *)
MoveStepKeep(iteId, acc, u) ==
  LET s == acc.ops
      k == PosOf(s, u[1])
      p == PosOf(s, iteId)
  IN IF acc.failed \/ u[1] = iteId \/ k < p THEN acc
     ELSE IF ~IsRead(s[k]) THEN [acc EXCEPT !.failed = TRUE]
     ELSE acc

(* Mutant: a user that is not a read is stepped over instead of failing. *)
MoveStepIgnoreOthers(iteId, acc, u) ==
  LET s == acc.ops
      k == PosOf(s, u[1])
      p == PosOf(s, iteId)
  IN IF acc.failed \/ u[1] = iteId \/ k < p \/ ~IsRead(s[k]) THEN acc
     ELSE [acc EXCEPT !.ops = InsertAt(RemoveAt(s, k), p, s[k])]

MoveStep(iteId, acc, u) ==
  LET s == acc.ops
      k == PosOf(s, u[1])
      p == PosOf(s, iteId)
  IN IF acc.failed \/ u[1] = iteId \/ k < p THEN acc
     ELSE IF ~IsRead(s[k]) THEN [acc EXCEPT !.failed = TRUE]
     ELSE [acc EXCEPT !.ops = InsertAt(RemoveAt(s, k), p, s[k])]

moveReadOpsBefore(array, iteId) ==
  FoldLeft(LAMBDA acc, u : MoveStep(iteId, acc, u),
           [ops |-> ops, failed |-> FALSE],
           UseList(array))

(* usedInITEPattern as the outcome it yields: "abort" when an assert     *)
(* fails or user_begin() of an empty use list is dereferenced, otherwise *)
(* moveReadOpsBefore on the ite's operand that is not the write.          *)
usedInITEPattern(ite) ==
  LET iteUses == UseList(Res(ite.id))
      t == ite.args[2]
      f == ite.args[3]
      array == IF IsWriteResult(t) THEN f ELSE t
      w == IF IsWriteResult(t) THEN DefOf(t) ELSE DefOf(f)
      holds == /\ Len(iteUses) = 1
               /\ ops[PosOf(ops, iteUses[1][1])].kind = "Br"
               /\ Len(UseList(Res(w.id))) = 1
               /\ w.kind = "Write"
               /\ array = w.args[2]
      m == moveReadOpsBefore(array, ite.id)
  IN IF iteUses = <<>> \/ (Debug /\ ~holds)
     THEN [status |-> "abort", ops |-> ops]
     ELSE [status |-> IF m.failed THEN "failure" ELSE "success", ops |-> m.ops]

(* resultIsLiveAfter: exactly one use, by the branch or by an ite. *)
resultIsLiveAfter(w) ==
  LET us == UseList(Res(w.id))
      user == ops[PosOf(ops, us[1][1])]
  IN IF Len(us) # 1 THEN [status |-> "failure", ops |-> ops]
     ELSE IF user.kind = "Br" THEN [status |-> "success", ops |-> ops]
     ELSE IF user.kind = "Ite" THEN usedInITEPattern(user)
     ELSE [status |-> "failure", ops |-> ops]

(* s with every use of v redirected to x (replaceAllUsesWith). *)
ReplaceAllUses(s, v, x) ==
  [k \in 1 .. Len(s) |->
     [s[k] EXCEPT !.args = [a \in DOMAIN s[k].args |->
                              IF s[k].args[a] = v THEN x ELSE s[k].args[a]]]]

InsertReplacingNext(s, p, o) == [s EXCEPT ![p + 1] = o]

(* The builder's insertion point right after the write's result: o       *)
(* becomes the operation following position p.                          *)
InsertAfterValue(s, p, o) == InsertAt(s, p + 1, o)

(* The walk meets a write: replaceWithWriteInPlace, then the assert on   *)
(* its status in runOnOperation.  Reads moved by a failing               *)
(* moveReadOpsBefore stay moved.                                        *)
replaceWithWriteInPlace ==
  LET w == ops[pos]
      r == resultIsLiveAfter(w)
      wip == [id |-> fresh, kind |-> "WriteInPlace", args |-> w.args, of |-> w.id]
  IN /\ pc = "visit"
     /\ pos <= Len(ops)
     /\ w.kind = "Write"
     /\ \/ /\ r.status = "abort"
           /\ pc' = "abort"
           /\ UNCHANGED <<ops, pos, fresh>>
        \/ /\ r.status = "failure"
           /\ ops' = r.ops
           /\ IF Debug THEN pc' = "abort" /\ pos' = pos
                       ELSE pc' = pc /\ pos' = pos + 1
           /\ UNCHANGED fresh
        \/ /\ r.status = "success"
           /\ ops' = InsertAfterValue(ReplaceAllUses(r.ops, Res(w.id), Res(fresh)),
                                      PosOf(r.ops, w.id), wip)
           /\ fresh' = fresh + 1
           /\ pos' = pos + 1
           /\ UNCHANGED pc
  /\ UNCHANGED orig

(* The TypeSwitch's Default: any other operation succeeds untouched. *)
visitOther ==
  /\ pc = "visit"
  /\ pos <= Len(ops)
  /\ ops[pos].kind # "Write"
  /\ pos' = pos + 1
  /\ UNCHANGED <<orig, ops, pc, fresh>>

(* The walk has passed the block's last operation. *)
finish ==
  /\ pc = "visit"
  /\ pos > Len(ops)
  /\ pc' = "done"
  /\ UNCHANGED <<orig, ops, pos, fresh>>

Init ==
  /\ orig \in Bodies
  /\ ops = orig
  /\ pc = "visit"
  /\ pos = 1
  /\ fresh = Len(orig) + 1

Next ==
  \/ replaceWithWriteInPlace
  \/ visitOther
  \/ finish

Spec == Init /\ [][Next]_vars

-----------------------------------------------------------------------------
(***************************************************************************)
(* Properties                                                              *)
(***************************************************************************)
Kinds == {"Write", "Read", "Ite", "Other", "Br", "WriteInPlace"}

TypeOK ==
  /\ pc \in {"visit", "done", "abort"}
  /\ pos \in 1 .. Len(ops) + 1
  /\ \A k \in 1 .. Len(ops) : ops[k].kind \in Kinds
  /\ Len(ops) = fresh - 1

(* The operations that use v as an argument, by position. *)
UsersOf(s, v) == {k \in 1 .. Len(s) : \E a \in DOMAIN s[k].args : s[k].args[a] = v}

(* The original uses of write id. *)
OrigUseCount(id) == Len(UsesIn(orig, Res(id)))

(* The ite through which the WriteInPlace at position k is consumed, if  *)
(* any (a set of at most one position).                                 *)
PatternIte(k) == {j \in UsersOf(ops, Res(ops[k].id)) : ops[j].kind = "Ite"}

(* Spec section 8: after an ite-pattern rewrite, no operation after    *)
(* the ite reads the array the write overwrites: every such read was     *)
(* moved in front of the ite, so it sees the old value.                  *)
IteReorderingSound ==
  \A k \in 1 .. Len(ops) : \A i \in PatternIte(k) :
    ops[k].kind = "WriteInPlace" =>
      \A j \in UsersOf(ops, ops[k].args[2]) : j <= i

(* The point where the in-place update overwrites the base array: the   *)
(* ite of the pattern, or the WriteInPlace itself when the branch takes  *)
(* its result directly.                                                 *)
MutationPoint(k) ==
  IF PatternIte(k) = {} THEN k ELSE CHOOSE i \in PatternIte(k) : TRUE

(* Spec section 4.3: an array is updated destructively only where its   *)
(* old value is never observed again: after the mutation point no       *)
(* operation but the write itself and the pattern's ite uses the base   *)
(* array, and the branch does not carry it into the next iteration.     *)
InPlaceSound ==
  \A k \in 1 .. Len(ops) :
    ops[k].kind = "WriteInPlace" =>
      \A j \in UsersOf(ops, ops[k].args[2]) :
        j = k \/ j < MutationPoint(k) \/ j \in PatternIte(k)

(* Every argument is a block argument or the result of an earlier        *)
(* operation: moving reads in front of the ite never lifts a read above  *)
(* the definition of its index.                                         *)
DefBeforeUse ==
  \A k \in 1 .. Len(ops) : \A a \in DOMAIN ops[k].args :
    \/ ops[k].args[a][1] = "param"
    \/ \E j \in 1 .. k - 1 : ops[k].args[a] = Res(ops[j].id)


-----------------------------------------------------------------------------
(***************************************************************************)
(* Refinement: the pass implements InPlaceWrites, spec section 4.3.  The   *)
(* spec's body is the block without the writes that have been made in     *)
(* place (the code leaves them behind with no uses); a write of the       *)
(* original block is convertible once its WriteInPlace exists, not        *)
(* convertible once the walk has passed it without one, and untested      *)
(* before that; an abort is the spec's halt.                              *)
(***************************************************************************)
Converted(id) ==
  \E k \in 1 .. Len(ops) : ops[k].kind = "WriteInPlace" /\ ops[k].of = id

SpecBody == SelectSeq(ops, LAMBDA o : ~(o.kind = "Write" /\ Converted(o.id)))

OrigWrites == {orig[k].id : k \in {j \in 1 .. Len(orig) : orig[j].kind = "Write"}}

Decision(id) ==
  IF Converted(id) THEN "convertible"
  ELSE IF PosOf(ops, id) < pos THEN "notConvertible"
  ELSE "untested"

IPW == INSTANCE InPlaceWrites
         WITH body <- SpecBody,
              decided <- [id \in OrigWrites |-> Decision(id)],
              halted <- (pc = "abort")

(* Spec section 4.3: the pass decides each write once, in block order;   *)
(* it converts exactly the writes the spec's liveness test accepts,      *)
(* rewiring their uses and moving the later reads of the base in front  *)
(* of the select; it declines by leaving the block untouched; it stops   *)
(* only at a write the test declines.  This is what replaceWithWrite-    *)
(* InPlace, resultIsLiveAfter, usedInITEPattern and moveReadOpsBefore   *)
(* together implement.                                                   *)
ImplementsInPlaceWrites == IPW!Spec
=============================================================================
