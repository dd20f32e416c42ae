-------------------------- MODULE MC_BtorLiveness --------------------------
(***************************************************************************)
(* Instantiates BtorLiveness for TLC: every loop body of up to MaxOps     *)
(* operations over the block arguments (the array states A and B and the *)
(* scalar s), closed by the loop-back branch carrying the next A and B.   *)
(* Each operation takes its arguments from the block arguments and the   *)
(* results defined before it, of the type the operand asks for.          *)
(***************************************************************************)
EXTENDS BtorLiveness

MaxOps == 3

Mk(id, kind, args) == [id |-> id, kind |-> kind, args |-> args, of |-> 0]

ArrayValues(b) == {Param("A"), Param("B")}
                  \cup {Res(b[k].id) : k \in {j \in 1 .. Len(b) : b[j].kind \in {"Write", "Ite"}}}
ScalarValues(b) == {Param("s")}
                   \cup {Res(b[k].id) : k \in {j \in 1 .. Len(b) : b[j].kind \in {"Read", "Other"}}}

(* The operations that may follow body b; the written value and the ite *)
(* condition are the scalar argument s, which no rewrite touches.       *)
NextOps(b, kinds) ==
  LET id == Len(b) + 1
      AV == ArrayValues(b)
      SV == ScalarValues(b)
  IN {o \in
       {Mk(id, "Write", <<Param("s"), x, i>>) : x \in AV, i \in SV}
       \cup {Mk(id, "Read", <<x, i>>) : x \in AV, i \in SV}
       \cup {Mk(id, "Ite", <<Param("s"), xy[1], xy[2]>>) : xy \in {p \in AV \X AV : p[1] # p[2]}}
       \cup {Mk(id, "Other", <<i>>) : i \in SV \ {Param("s")}} : o.kind \in kinds}

Kinds4 == {"Write", "Read", "Ite", "Other"}

(* The bodies extending those of S by n more operations of the kinds K. *)
RECURSIVE Extend(_, _, _)
Extend(S, n, K) ==
  IF n = 0 THEN S
  ELSE UNION {{Append(b, o) : o \in NextOps(b, K)} : b \in Extend(S, n - 1, K)}

(* Every array a body may pass to the branch, and the bodies of S        *)
(* containing a write, closed by a branch over arrays they define.       *)
ArrayOperands == {Param("A"), Param("B")} \cup {Res(k) : k \in 1 .. MaxOps}

Close(S) ==
  {Append(p[1], Mk(Len(p[1]) + 1, "Br", p[2])) :
     p \in {q \in {c \in S : \E k \in 1 .. Len(c) : c[k].kind = "Write"}
                  \X (ArrayOperands \X ArrayOperands) :
              q[2][1] \in ArrayValues(q[1]) /\ q[2][2] \in ArrayValues(q[1])}}

AllBlocks == Close(UNION {Extend({<<>>}, m, Kinds4) : m \in 1 .. MaxOps})

(* Bodies opening with the idiom %w = write s, X[s]; %ite = ite s, %w, X *)
(* (either arm order), followed by two reads or writes, and the branch   *)
(* taking the ite's result as the next X.                                *)
IdiomStarts ==
  UNION {{<<Mk(1, "Write", <<Param("s"), x, Param("s")>>), Mk(2, "Ite", arms)>> :
            arms \in {<<Param("s"), Res(1), x>>, <<Param("s"), x, Res(1)>>}} :
           x \in {Param("A"), Param("B")}}

IdiomBlocks ==
  {Append(b, Mk(Len(b) + 1, "Br", <<Res(2), y>>)) :
     b \in Extend(IdiomStarts, 2, {"Read", "Write"}), y \in {Param("A"), Param("B")}}

=============================================================================
