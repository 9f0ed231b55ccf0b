------------------------------ MODULE SsaBlocks ------------------------------
(***************************************************************************)
(* A function in SSA form while CFGBuilder builds it, and the steps that   *)
(* its visitors take.  Block n of the model is BlockId(n - 1), value n is  *)
(* Value(n - 1); source locations and other types of data are left out.    *)
(***************************************************************************)
EXTENDS Integers, SequencesExt, TLC

CONSTANT Var   \* the program's variables, all of them parameters, in order

ASSUME VarAssumption == Var \in Seq(STRING)

Tmp == "bool_op_tmp"

(* Types, as far as the builder looks at them.                             *)
Unknown == [ty |-> "unknown"]
I64 == [ty |-> "i64"]
Bool == [ty |-> "bool"]
Pointer == [ty |-> "pointer"]
Literal(n) == [ty |-> "literal", n |-> n]

(* Instructions.                                                           *)
Phi(v) == [op |-> "phi", dest |-> v, args |-> <<>>]
ConstInt(v, n) == [op |-> "const", dest |-> v, n |-> n]
NoValue == 0   \* defined by an instruction that defines nothing
Arith(f, v, l, r) ==   \* exact: with the constraint (= dest (op l r)) over the integers
  [op |-> "arith", f |-> f, dest |-> v, l |-> l, r |-> r, exact |-> f # "div"]
Unary(f, v, s) == [op |-> "unary", f |-> f, dest |-> v, s |-> s]
ExcPointer == 1   \* the value that points to the exception of the call
Load(v) == [op |-> "load", dest |-> v]
Store(s) == [op |-> "store", dest |-> NoValue, s |-> s]
CallInst(v, f, arg) == [op |-> "call", dest |-> v, f |-> f, arg |-> arg]
AssertInst(v) == [op |-> "assert", dest |-> NoValue, test |-> v]
Jump(t) == [op |-> "jump", targets |-> <<t>>]
Branch(c, t, f) == [op |-> "branch", cond |-> c, targets |-> <<t, f>>]
Ret(v) == [op |-> "return", v |-> v, targets |-> <<>>]

IsTerminator(i) == i.op \in {"jump", "branch", "return"}

NoBlock == [insts |-> <<>>, preds |-> <<>>, succs |-> <<>>]

(* CFGBuilder::new: the entry block, sealed.  late is history: an edge was *)
(* added into a sealed block after a variable was looked up in it.         *)
New(pick) ==
  [blocks |-> <<NoBlock>>, cur |-> 1, types |-> <<>>,
   defs |-> [x \in Range(Var) \cup {Tmp} |-> <<>>],
   incomplete |-> {}, sealed |-> {1}, loops |-> <<>>, tries |-> <<>>,
   preconditions |-> <<>>, postconditions |-> <<>>, invariants |-> <<>>,
   error |-> "", late |-> FALSE, pick |-> pick]

Fail(b, e) == IF b.error = "" THEN [b EXCEPT !.error = e] ELSE b
-----------------------------------------------------------------------------
NextValue(b) == Len(b.types) + 1
NewValue(b, ty) == [b EXCEPT !.types = Append(@, ty)]

Newest(b) == Len(b.blocks)
CreateBlocks(b, n) == [b EXCEPT !.blocks = @ \o [k \in 1..n |-> NoBlock]]
StartBlock(b, k) == [b EXCEPT !.cur = k]

(* add_instruction_to_block: a phi goes to the front of its block.         *)
Emit(b, i) == [b EXCEPT !.blocks[b.cur].insts = Append(@, i)]
EmitPhi(b, k, v) == [b EXCEPT !.blocks[k].insts = <<Phi(v)>> \o @]

(* A new value of type ty, which the instruction i defines.                *)
Define(b, ty, i) == [b |-> Emit(NewValue(b, ty), i), v |-> i.dest]

Once(s, e) == IF Contains(s, e) THEN s ELSE Append(s, e)

Link(b, from, to) ==
  [b EXCEPT !.blocks[from].succs = Once(@, to),
            !.blocks[to].preds = Once(@, from),
            !.late = @ \/ /\ to \in b.sealed /\ ~Contains(b.blocks[to].preds, from)
                          /\ \E x \in DOMAIN b.defs : to \in DOMAIN b.defs[x]]

JumpTo(b, k) == Link(Emit(b, Jump(k)), b.cur, k)
BranchTo_OneLink(b, c, from, t, f) ==   \* mutant: no edge to the false target
  Link(Emit(b, Branch(c, t, f)), from, t)
BranchTo(b, c, from, t, f) == Link(Link(Emit(b, Branch(c, t, f)), from, t), from, f)

IsTerminated(b, k) ==
  b.blocks[k].insts # <<>> /\ IsTerminator(Last(b.blocks[k].insts))

FallThrough_Always(b, k) ==   \* mutant: also from a block that has ended
  JumpTo(b, k)
FallThrough(b, k) == IF IsTerminated(b, b.cur) THEN b ELSE JumpTo(b, k)
-----------------------------------------------------------------------------
Instructions(b) == UNION {Range(b.blocks[k].insts) : k \in DOMAIN b.blocks}

(* f, and g where f is not defined.                                        *)
Atop(f, g) == [x \in DOMAIN f \cup DOMAIN g |-> IF x \in DOMAIN f THEN f[x] ELSE g[x]]
With(f, x, e) == Atop([y \in {x} |-> e], f)

(* What next leads to from a set, the set included.                        *)
Closure(next, from) ==
  LET all == from \cup UNION {next[x] : x \in DOMAIN next}
      close[s \in [seen : SUBSET all, new : SUBSET all]] ==
        LET more == (UNION {next[x] : x \in s.new \cap DOMAIN next}) \ s.seen
        IN IF more = {} THEN s.seen ELSE close[[seen |-> s.seen \cup more, new |-> more]]
  IN close[[seen |-> from, new |-> from]]
=============================================================================
