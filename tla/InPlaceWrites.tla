---------------------------- MODULE InPlaceWrites ----------------------------
(***************************************************************************)
(* What spec.md section 4.3 promises of the array-write liveness pass on   *)
(* one loop body, with no reference to how the pass walks the block.       *)
(* Each write goes once from "untested" to "convertible" or               *)
(* "notConvertible", in block order (a one-shot decision, no retries).     *)
(* A write is convertible exactly when resultIsLiveAfter holds as the spec *)
(* words it: one use, by the loop-back branch or by the select idiom       *)
(* select(c, write(v, base, i), base) (either arm order), whose result's   *)
(* only use is the branch and after which base is used by reads only.     *)
(* Converting replaces the write by an in-place write with the same        *)
(* operands, rewires its uses, and moves the reads of base that follow the *)
(* select to just before it.  Declining leaves the body untouched.  An     *)
(* internal invariant failure (section 7) may stop the pass at a write the *)
(* test declines; the IR it leaves is then unspecified.                    *)
(*                                                                         *)
(* Operations are records [id, kind, args, of] as in BtorLiveness.         *)
(***************************************************************************)
EXTENDS Integers, Sequences, FiniteSets

VARIABLES
  body,      \* the loop body; a converted write is no longer part of it
  decided,   \* write id -> "untested", "convertible" or "notConvertible"
  halted     \* the pass stopped on an internal invariant failure

avars == <<body, decided, halted>>

Res(id) == <<"res", id>>
Pos(s, id) == CHOOSE k \in 1 .. Len(s) : s[k].id = id
Ids(s) == {s[k].id : k \in 1 .. Len(s)}

(* The uses of v in s as (position, operand) pairs, and their positions. *)
Uses(s, v) == {u \in (1 .. Len(s)) \X (1 .. 3) :
                 u[2] \in DOMAIN s[u[1]].args /\ s[u[1]].args[u[2]] = v}
Users(s, v) == {u[1] : u \in Uses(s, v)}
TheUser(s, v) == CHOOSE j \in Users(s, v) : TRUE

WriteIds(s) == {s[k].id : k \in {j \in 1 .. Len(s) : s[j].kind = "Write"}}

(* The select at position k is the idiom for write w: one arm is w, the  *)
(* other w's base; its result goes to the branch alone; and every user   *)
(* of base after it is a read.                                           *)
SelectIdiom(s, w, k) ==
  LET base == s[Pos(s, w)].args[2]
      sel == s[k]
  IN /\ sel.kind = "Ite"
     /\ {sel.args[2], sel.args[3]} = {Res(w), base}
     /\ Cardinality(Uses(s, Res(sel.id))) = 1
     /\ s[TheUser(s, Res(sel.id))].kind = "Br"
     /\ \A j \in Users(s, base) : j > k => s[j].kind = "Read"

LiveAfter(s, w) ==
  /\ Cardinality(Uses(s, Res(w))) = 1
  /\ \/ s[TheUser(s, Res(w))].kind = "Br"
     \/ SelectIdiom(s, w, TheUser(s, Res(w)))

(* The reads the conversion of w moves: those of base after the select. *)
MovedReads(s, w) ==
  LET j == TheUser(s, Res(w))
  IN IF s[j].kind = "Br" THEN {}
     ELSE {s[k].id : k \in {k \in Users(s, s[Pos(s, w)].args[2]) : k > j}}

Rewire(s, v, x) ==
  [k \in 1 .. Len(s) |->
     [s[k] EXCEPT !.args = [a \in DOMAIN s[k].args |->
                              IF s[k].args[a] = v THEN x ELSE s[k].args[a]]]]

(* w is the first write of the block still untested. *)
IsNextWrite(w) ==
  /\ decided[w] = "untested"
  /\ \A v \in DOMAIN decided : decided[v] = "untested" => Pos(body, w) <= Pos(body, v)

Convert(w) ==
  LET p == Pos(body, w)
      M == MovedReads(body, w)
      n == body'[p].id
      wip == [id |-> n, kind |-> "WriteInPlace", args |-> body[p].args, of |-> w]
      rewired == [Rewire(body, Res(w), Res(n)) EXCEPT ![p] = wip]
      Unmoved(s) == SelectSeq(s, LAMBDA o : o.id \notin M)
      q == Pos(body', body[TheUser(body, Res(w))].id)
  IN /\ ~halted
     /\ IsNextWrite(w)
     /\ LiveAfter(body, w)
     /\ Len(body') = Len(body)
     /\ n \notin Ids(body)
     /\ Unmoved(body') = Unmoved(rewired)
     /\ {body'[i] : i \in q - Cardinality(M) .. q - 1}
          = {rewired[Pos(rewired, m)] : m \in M}
     /\ decided' = [decided EXCEPT ![w] = "convertible"]
     /\ UNCHANGED halted

Decline(w) ==
  /\ ~halted
  /\ IsNextWrite(w)
  /\ ~LiveAfter(body, w)
  /\ decided' = [decided EXCEPT ![w] = "notConvertible"]
  /\ UNCHANGED <<body, halted>>

Halt(w) ==
  /\ ~halted
  /\ IsNextWrite(w)
  /\ ~LiveAfter(body, w)
  /\ halted' = TRUE
  /\ UNCHANGED decided

Init ==
  /\ decided = [w \in WriteIds(body) |-> "untested"]
  /\ halted = FALSE

Next == \E w \in DOMAIN decided : Convert(w) \/ Decline(w) \/ Halt(w)

Spec == Init /\ [][Next]_avars
=============================================================================
