-------------------------- MODULE IntervalAnalysis --------------------------
(***************************************************************************)
(* The interval analysis that the verifier takes facts from: ranges of     *)
(* values, and narrower ones in single blocks, found by going over the     *)
(* blocks until nothing changes.  Refinements and calls are left out.      *)
(***************************************************************************)
EXTENDS Optimizer, Intervals

(* The state of the analysis: an interval for some values, an interval for *)
(* some pairs of value and block, what the last round did.                 *)
Start(params) ==
  [ranges |-> [v \in 1..Len(params) + 1 |-> IF v = 1 THEN Everything ELSE OfType],
   narrow |-> <<>>, changed |-> TRUE, rounds |-> 0]

(* The intervals of v in block k, of which there is at most one.           *)
Known(a, v, k) ==
  CASE <<v, k>> \in DOMAIN a.narrow -> {a.narrow[<<v, k>>]}
    [] <<v, k>> \notin DOMAIN a.narrow /\ v \in DOMAIN a.ranges -> {a.ranges[v]}
    [] OTHER -> {}

(* update_interval: the new interval replaces the old one.                 *)
Update(a, v, is) ==
  IF is = {} \/ (v \in DOMAIN a.ranges /\ a.ranges[v] \in is) THEN a
  ELSE [a EXCEPT !.ranges = (v :> CHOOSE i \in is : TRUE) @@ @, !.changed = TRUE]

Combined(f, l, r, i, j) ==
  CASE f = "add" -> Add(i, j)
    [] f = "sub" -> Sub(i, j)
    [] f = "mul" -> IF l = r THEN [Mul(i, j) EXCEPT !.low = Greater(@, 0)] ELSE Mul(i, j)

JoinAll(is) == [low |-> Least({i.low : i \in is}), high |-> Greatest({i.high : i \in is})]

PhiRange_NoWiden(a, i) ==   \* mutant: ranges of loop counters grow by steps
  LET is == UNION {Known(a, i.args[p], p) : p \in DOMAIN i.args}
  IN IF is = {} THEN {} ELSE {JoinAll(is)}
PhiRange(a, i) ==
  LET is == UNION {Known(a, i.args[p], p) : p \in DOMAIN i.args}
      joined == JoinAll(is)
  IN IF is = {} THEN {}
     ELSE {IF a.rounds > 10 /\ i.dest \in DOMAIN a.ranges
           THEN Widen(a.ranges[i.dest], joined) ELSE joined}

(* An entry of its own is never replaced by an inherited one.              *)
Inherit(a, from, to) ==
  LET new == {p \in {<<q[1], to>> : q \in {q \in DOMAIN a.narrow : q[2] = from}} :
                p \notin DOMAIN a.narrow}
  IN IF new = {} THEN a
     ELSE [a EXCEPT !.narrow = [p \in new |-> a.narrow[<<p[1], from>>]] @@ @,
                    !.changed = TRUE]

(* narrow_branch_intervals, for the comparisons that SsaBuilder makes.     *)
RangeOf(a, v) == IF v \in DOMAIN a.ranges THEN a.ranges[v] ELSE Everything

Narrowing(p, is) == IF is = {} THEN <<>> ELSE p :> CHOOSE i \in is : TRUE

Narrowed(c, i, j, targets) ==
  Narrowing(<<c.r, targets[1]>>, IF c.f = "eq" THEN {Meet(i, j)} ELSE {})
  @@ Narrowing(<<c.l, targets[1]>>, WhenTrue(c.f, i, j))
  @@ Narrowing(<<c.l, targets[2]>>, WhenFalse(c.f, i, j))

NarrowBranch(b, a, k, i) ==
  LET comparisons == {c \in Range(b.blocks[k].insts) :
                        c.op = "arith" /\ c.f \in {"lt", "gt", "eq", "ne"} /\ c.dest = i.cond}
      c == CHOOSE c \in comparisons : TRUE
      new == Narrowed(c, RangeOf(a, c.l), RangeOf(a, c.r), i.targets)
  IN IF comparisons = {} THEN a ELSE [a EXCEPT !.narrow = new @@ @]

(* A round goes over the blocks and their instructions; what the single    *)
(* predecessor of a block knows is taken over on entering it.              *)
Enter == [op |-> "enter"]
Walk(b) ==
  FlattenSeq([k \in DOMAIN b.blocks |->
                [n \in 1..Len(b.blocks[k].insts) + 1 |->
                   <<k, IF n = 1 THEN Enter ELSE b.blocks[k].insts[n - 1]>>]])

Visit(b, a, k, i) ==
  CASE i.op = "enter" ->
         IF Len(b.blocks[k].preds) = 1 THEN Inherit(a, b.blocks[k].preds[1], k) ELSE a
    [] i.op = "const" -> Update(a, i.dest, {OfConst(i.n)})
    [] i.op = "arith" /\ i.f \in {"add", "sub", "mul"} ->
         Update(a, i.dest, {Clamp(Combined(i.f, i.l, i.r, x, y)) :
                              x \in Known(a, i.l, k), y \in Known(a, i.r, k)})
    [] i.op = "unary" /\ i.f = "neg" ->
         Update(a, i.dest, {Clamp(Negate(x)) : x \in Known(a, i.s, k)})
    [] i.op = "phi" -> Update(a, i.dest, PhiRange(a, i))
    [] i.op = "branch" -> NarrowBranch(b, a, k, i)
    [] i.op = "jump" -> Inherit(a, k, i.targets[1])
    [] OTHER -> a

Round(b, walk, a) ==
  FoldLeft(LAMBDA c, step : Visit(b, c, step[1], step[2]),
           [a EXCEPT !.changed = FALSE, !.rounds = @ + 1], walk)

MaxRounds == 50

RECURSIVE Rounds(_, _, _)
Rounds(b, walk, a) ==
  IF a.changed /\ a.rounds < MaxRounds THEN Rounds(b, walk, Round(b, walk, a)) ELSE a

Analyse(b) == Rounds(b, Walk(b), Start(Var))
=============================================================================
