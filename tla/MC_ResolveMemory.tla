-------------------------- MODULE MC_ResolveMemory --------------------------
(***************************************************************************)
(* Instantiates ResolveMemory for TLC: every body of up to MaxOps         *)
(* operations built as the lifter builds them, each operation taking its  *)
(* arguments from main's parameter and the results defined before it.     *)
(***************************************************************************)
EXTENDS ResolveMemory

MaxOps == 4
Narrow == 32

Mk(id, kind, w, args) == [id |-> id, kind |-> kind, w |-> w, of |-> 0, args |-> args]

ValuesOf(b) == {Param} \cup {Res(b[k].id) : k \in {j \in 1 .. Len(b) : HasResult(b[j])}}

(* The operations that may follow body b: loads of either width, 64-bit *)
(* stores and integer operations over the values b defines.             *)
AllValues == {Param} \cup {Res(k) : k \in 1 .. MaxOps}

OpsAt(id) ==
  {Mk(id, "Load", w, <<x>>) : w \in {Wide, Narrow}, x \in AllValues}
  \cup {Mk(id, "Store", Wide, <<x, y>>) : x \in AllValues, y \in AllValues}
  \cup {Mk(id, "Other", Wide, <<x>>) : x \in AllValues}

Follows(b, o) == \A a \in DOMAIN o.args : o.args[a] \in ValuesOf(b)

RECURSIVE BodiesOf(_)
BodiesOf(n) ==
  IF n = 0 THEN {<<>>}
  ELSE {Append(p[1], p[2]) :
          p \in {q \in BodiesOf(n - 1) \X OpsAt(n) : Follows(q[1], q[2])}}

AllBodies == UNION {BodiesOf(n) : n \in 1 .. MaxOps}

(* Bodies meeting the pass's stated precondition (every load has a use), *)
(* with 64-bit loads only.                                               *)
UsedWideBodies ==
  {b \in AllBodies :
     \A k \in 1 .. Len(b) :
        IsLoad(b[k]) => /\ b[k].w = Wide
                        /\ \E j \in 1 .. Len(b) : \E a \in DOMAIN b[j].args : b[j].args[a] = Res(b[k].id)}

=============================================================================
