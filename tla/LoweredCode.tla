----------------------------- MODULE LoweredCode -----------------------------
(***************************************************************************)
(* What the backend makes of a function, and the machine that runs it: a   *)
(* phi becomes a parameter of its block, which the jumps pass.             *)
(***************************************************************************)
EXTENDS Optimizer

None == [is |-> "none"]
Stuck == [is |-> "stuck"]
DivisionByZero == [is |-> "division by zero"]
Overflow == [is |-> "overflow"]

Targets(b, k) ==
  UNION {Range(i.targets) : i \in {i \in Range(b.blocks[k].insts) : IsTerminator(i)}}

Phis(b, k) == {i \in Range(b.blocks[k].insts) : i.op = "phi"}

(* The blocks that are lowered: those that successors lead to.             *)
ReachableFrom(b, ks) == Closure([k \in DOMAIN b.blocks |-> Range(b.blocks[k].succs)], ks)

(* Comparisons give masks, and not complements them.  sdiv traps.          *)
Complement(n) == -n - 1

Arithmetic(f, l, r) ==
  CASE f \in {"lt", "gt"} -> -Binary(f, l, r)
    [] f = "eq" -> IF l = r THEN -1 ELSE 0
    [] f = "ne" -> IF l = r THEN 0 ELSE -1
    [] f = "or" -> IF l = 0 THEN r ELSE l    \* of masks
    [] f = "div" -> Quotient(l, r)
    [] OTHER -> Wrap(Binary(f, l, r))

Trap(i, env) ==
  CASE i.f = "div" /\ env[i.r] = 0 -> DivisionByZero
    [] i.f = "div" /\ env[i.r] = -1 /\ env[i.l] = MinInt -> Overflow
    [] OTHER -> None

(* The values the machine has, the exception (0: none), the block it has   *)
(* run and the one it enters (0: none), its result, and the blocks left to *)
(* the bound.                                                              *)
Goto(m, i) ==
  [m EXCEPT !.to = IF i.op = "branch" /\ m.env[i.cond] = 0 THEN i.targets[2]
                   ELSE i.targets[1]]

Gets(m, v, n) == [m EXCEPT !.env = With(@, v, n)]

(* The other function's code, which is given the pointer to the exception, *)
(* and returns a dummy if it raises.                                       *)
RunCall(m, i, n) ==
  IF n \in i.f.raises THEN [Gets(m, i.dest, 0) EXCEPT !.exc = i.f.id] ELSE Gets(m, i.dest, n)

(* What the Python wrapper makes of a call.                                *)
Outcome(m, n) == IF m.exc # 0 THEN Raised(m.exc) ELSE Value(n)

(* What an instruction does of which all operands are there.               *)
Does(m, i) ==
  CASE i.op \in {"phi", "assert"} -> m
    [] i.op = "const" -> Gets(m, i.dest, i.n)
    [] i.op = "arith" /\ Trap(i, m.env) = None ->
         Gets(m, i.dest, Arithmetic(i.f, m.env[i.l], m.env[i.r]))
    [] i.op = "arith" /\ Trap(i, m.env) # None -> [m EXCEPT !.result = Trap(i, m.env)]
    [] i.op = "unary" ->
         Gets(m, i.dest, IF i.f = "neg" THEN Wrap(-m.env[i.s])
                         ELSE Complement(m.env[i.s]))
    [] i.op = "load" -> Gets(m, i.dest, m.exc)
    [] i.op = "store" -> [m EXCEPT !.exc = m.env[i.s]]
    [] i.op = "call" -> RunCall(m, i, m.env[i.arg])
    [] i.op = "return" -> [m EXCEPT !.result = Outcome(m, m.env[i.v])]
    [] i.op \in {"jump", "branch"} -> Goto(m, i)

RunInst(m, i) ==
  CASE m.to # 0 \/ m.result # None -> m
    [] m.to = 0 /\ m.result = None /\ ~(Uses(i) \subseteq DOMAIN m.env) ->
         [m EXCEPT !.result = Stuck]
    [] OTHER -> Does(m, i)

(* A jump passes one argument for each phi of its target that has an       *)
(* operand for the block the jump is in.                                   *)
Passed(m, phis) ==
  [v \in {i.dest : i \in phis} |->
     LET i == CHOOSE i \in phis : i.dest = v IN m.env[i.args[m.at]]]

StuckIfNoWayOut(m) ==
  IF m.to = 0 /\ m.result = None THEN [m EXCEPT !.result = Stuck] ELSE m

Enterable(b, m) ==
  /\ \A i \in Phis(b, m.to) : m.at \in DOMAIN i.args /\ i.args[m.at] \in DOMAIN m.env
  /\ m.to \in ReachableFrom(b, {1})

Into(b, m) ==
  [m EXCEPT !.env = Atop(Passed(m, Phis(b, m.to)), m.env), !.at = m.to, !.to = 0,
            !.left = m.left - 1]

RunBlock(b, m) ==
  IF ~Enterable(b, m) THEN [m EXCEPT !.result = Stuck]
  ELSE IF m.left = 0 THEN [m EXCEPT !.result = OutOfFuel]
  ELSE StuckIfNoWayOut(FoldLeft(RunInst, Into(b, m), b.blocks[m.to].insts))

(* The entry block takes the parameters: value 1 is the exception pointer. *)
Entry(args, left) ==
  [env |-> [v \in 1..Len(Var) + 1 |-> IF v = 1 THEN 0 ELSE args[Var[v - 1]]],
   exc |-> 0, at |-> 0, to |-> 1, result |-> None, left |-> left]
-----------------------------------------------------------------------------
(* The form of a function that lowering relies on.                         *)
Proper(i) ==
  CASE i.op \in {"phi", "const", "arith", "unary", "load", "call"} -> i.dest \in Nat \ {NoValue}
    [] i.op \in {"assert", "store"} -> i.dest = NoValue
    [] i.op = "return" -> i.targets = <<>>
    [] i.op = "jump" -> DOMAIN i.targets = 1..1
    [] i.op = "branch" -> DOMAIN i.targets = 1..2
    [] OTHER -> FALSE

IsFunction(b) ==
  LET insts == Instructions(b)
      ids == DOMAIN b.blocks
  IN /\ "blocks" \in DOMAIN b
     /\ b.blocks \in Seq([insts : Seq(insts), preds : Seq(ids), succs : Seq(ids)])
     /\ b.blocks # <<>>
     /\ \A i \in insts : Proper(i)

(* "Predecessors and successors track control-flow edges."                 *)
TracksEdges(b) ==
  \A k \in DOMAIN b.blocks :
    /\ Range(b.blocks[k].succs) = Targets(b, k)
    /\ Range(b.blocks[k].preds) = {j \in DOMAIN b.blocks : k \in Targets(b, j)}

EndsAtLast(insts) ==
  /\ insts # <<>> /\ IsTerminator(Last(insts))
  /\ \A n \in 1..Len(insts) - 1 : ~IsTerminator(insts[n])

(* One operand for each block that jumps here; the entry has no phis.      *)
PhisMatch(b) ==
  /\ Phis(b, 1) = {}
  /\ \A k \in DOMAIN b.blocks : \A i \in Phis(b, k) :
       DOMAIN i.args = {j \in DOMAIN b.blocks : k \in Targets(b, j)}

Params == 1..Len(Var) + 1

Defined(insts) == {i.dest : i \in {i \in insts : ~IsTerminator(i)}} \ {NoValue}
Dests(b, k) == Defined(Range(b.blocks[k].insts))
ValuesOf(b, ks) == Params \cup UNION {Dests(b, k) : k \in ks}

(* The blocks on every way to a block: those there is no way around.       *)
Dominators(b) ==
  LET ids == DOMAIN b.blocks
      next == [k \in ids |-> Targets(b, k)]
      around == [d \in ids |-> Closure(Restrict(next, ids \ {d}), {1} \ {d})]
  IN [k \in ids |-> {d \in ids : d = k \/ k \notin around[d]}]

(* Each value is defined once, and before each use on every way to it; the *)
(* operand of a phi is used where the jump is.                             *)
DefinedOnce(b) ==
  /\ \A j, k \in DOMAIN b.blocks : j # k => Dests(b, j) \cap Dests(b, k) = {}
  /\ \A k \in DOMAIN b.blocks : LET s == b.blocks[k].insts IN
       \A n \in DOMAIN s :
         IsTerminator(s[n]) \/ s[n].dest \notin Params \cup Defined({s[m] : m \in 1..n - 1})

DefinedBefore(b) ==
  LET dom == Dominators(b)
      after == [k \in DOMAIN b.blocks |-> ValuesOf(b, dom[k])]
  IN \A k \in DOMAIN b.blocks :
       LET s == b.blocks[k].insts
           before == ValuesOf(b, dom[k] \ {k})
       IN \A n \in DOMAIN s :
            IF s[n].op = "phi" THEN \A j \in DOMAIN s[n].args : s[n].args[j] \in after[j]
            ELSE Uses(s[n]) \subseteq before \cup Defined({s[m] : m \in 1..n - 1})

WellFormed(b) ==
  /\ IsFunction(b) /\ TracksEdges(b) /\ PhisMatch(b)
  /\ \A k \in DOMAIN b.blocks : EndsAtLast(b.blocks[k].insts)
  /\ DefinedOnce(b) /\ DefinedBefore(b)
=============================================================================
