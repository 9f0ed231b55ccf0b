------------------------------ MODULE Optimizer ------------------------------
(***************************************************************************)
(* The passes that run between builder and verifier: constant folding and  *)
(* dead code elimination.  Type propagation, tensor fusion and embedded    *)
(* intervals change only data that SsaBuilder leaves out.                  *)
(***************************************************************************)
EXTENDS SsaBlocks, PyValues, Intervals

(* A value that is a constant or is computed from constants, in the order  *)
(* of blocks and instructions, whatever the control flow.  Integers wrap,  *)
(* as those of a release build do.                                         *)
Learn_Neg(known, i) ==   \* mutant: a negated constant is the constant
  CASE i.op = "const" -> With(known, i.dest, i.n)
    [] i.op = "unary" /\ i.f = "neg" /\ i.s \in DOMAIN known ->
         With(known, i.dest, known[i.s])
    [] OTHER -> known
Learn(known, i) ==
  CASE i.op = "const" -> With(known, i.dest, i.n)
    [] i.op = "arith" /\ i.f \in {"add", "sub", "mul"} /\ {i.l, i.r} \subseteq DOMAIN known ->
         With(known, i.dest, Wrap(Binary(i.f, known[i.l], known[i.r])))
    [] i.op = "unary" /\ i.f = "neg" /\ i.s \in DOMAIN known ->
         With(known, i.dest, Wrap(-known[i.s]))
    [] OTHER -> known

Constants(b) ==
  FoldLeft(LAMBDA known, block : FoldLeft(Learn, known, block.insts), <<>>, b.blocks)

Fold(known, i) ==
  IF ~IsTerminator(i) /\ i.dest \in DOMAIN known THEN ConstInt(i.dest, known[i.dest]) ELSE i

FoldConstants(b) ==
  LET known == Constants(b)
      folded(block) == [block EXCEPT !.insts = [n \in DOMAIN @ |-> Fold(known, @[n])]]
  IN [b EXCEPT !.blocks = [k \in DOMAIN @ |-> folded(@[k])]]
-----------------------------------------------------------------------------
HasSideEffects(i) == IsTerminator(i) \/ i.op \in {"assert", "store", "call"}

Uses(i) ==
  CASE i.op = "arith" -> {i.l, i.r}
    [] i.op = "unary" -> {i.s}
    [] i.op = "assert" -> {i.test}
    [] i.op = "load" -> {ExcPointer}
    [] i.op = "store" -> {ExcPointer, i.s}
    [] i.op = "call" -> {ExcPointer, i.arg}
    [] i.op = "branch" -> {i.cond}
    [] i.op = "return" -> {i.v}
    [] OTHER -> {}

Operands_NoPhi(i) ==   \* mutant: what get_uses says of a phi
  Uses(i)
Operands(i) == IF i.op = "phi" THEN Range(i.args) ELSE Uses(i)

(* The values that used ones are computed from.                            *)
Used(insts, vs) ==
  LET pure == {i \in insts : ~HasSideEffects(i)}
      of == [v \in {i.dest : i \in pure} |->
               UNION {Operands(i) : i \in {i \in pure : i.dest = v}}]
  IN Closure(of, vs)

Live(b) ==
  LET insts == Instructions(b)
  IN Used(insts, UNION {Operands(i) : i \in {i \in insts : HasSideEffects(i)}})

Retain(live, insts) ==
  FoldLeft(LAMBDA kept, i : IF HasSideEffects(i) \/ i.dest \in live THEN Append(kept, i) ELSE kept,
           <<>>, insts)

EliminateDeadCode(b) ==
  LET live == Live(b)
      retained(block) == [block EXCEPT !.insts = Retain(live, @)]
  IN [b EXCEPT !.blocks = [k \in DOMAIN @ |-> retained(@[k])]]

Optimize(b) == EliminateDeadCode(FoldConstants(b))

(* transform: what could not be built is not optimised.                    *)
Transform(b) == IF b.error # "" THEN b ELSE Optimize(b)
=============================================================================
