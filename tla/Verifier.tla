------------------------------- MODULE Verifier -------------------------------
(***************************************************************************)
(* verify_with_context: what the solver is told of a function, what it is  *)
(* asked, and the verdict.  A model of the formula is a walk: the blocks   *)
(* that are true are those of one way from the entry, which ends at a      *)
(* return or with the edge back to a loop's header.  This needs a phi in   *)
(* every header, no loop in a loop, and divisions only in blocks that are  *)
(* translated after every block on a way to them; of other programs there  *)
(* are more models, and more alarms.  There are no calls and no refined    *)
(* types, conditions of if and while are of type Bool, and the facts of    *)
(* detect_equality, which the first trip of a loop implies, are left out.  *)
(***************************************************************************)
EXTENDS LoweredCode, IntervalAnalysis, SsaBuilder

(* type_propagation finds the rest of the comparisons to be of type Bool.  *)
IsBool(b, v) ==
  \/ b.types[v] = Bool
  \/ \E i \in Instructions(b) : i.op = "arith" /\ i.f \in {"lt", "gt"} /\ i.dest = v

InRange(n) == MinInt <= n /\ n <= MaxInt
-----------------------------------------------------------------------------
(* Refinement predicates.  Only comparisons and what and, or and not make  *)
(* of them are read as predicates; terms are integers without a bound.     *)
RECURSIVE Parses(_)
Parses(test) ==
  CASE test.is = "bin" -> test.op \in {"lt", "gt"}
    [] test.is = "unary" -> test.op = "not" /\ Parses(test.e)
    [] test.is = "bool" -> \A n \in DOMAIN test.values : Parses(test.values[n])
    [] OTHER -> FALSE

Holds(p, env) == Eval(p.test, [x \in DOMAIN p.of |-> env[p.of[x]]]) # 0

AllHold(ps, env) == \A n \in DOMAIN ps : Holds(ps[n], env)

Parsed(ps) == \A n \in DOMAIN ps : Parses(ps[n].test)
-----------------------------------------------------------------------------
(* is_strictly_positive, is_strictly_negative: no check of this divisor.   *)
NeverZero_FromZero(a, v) ==   \* mutant: low >= 0
  v \in DOMAIN a.ranges /\ (a.ranges[v].low >= 0 \/ a.ranges[v].high < 0)
NeverZero(a, v) == v \in DOMAIN a.ranges /\ (a.ranges[v].low > 0 \/ a.ranges[v].high < 0)

(* bvsdiv by zero.                                                         *)
DivBV(l, r) ==
  CASE r # 0 -> Quotient(l, r)
    [] r = 0 /\ l >= 0 -> -1
    [] OTHER -> 1

(* A walk: the values given so far, the block it is in and the one it      *)
(* enters (0: none), the blocks it has been in, how it has ended, and      *)
(* whether what has been asserted of it so far holds.                      *)
AtEntry_Any(b, args) ==   \* mutant: preconditions are not asserted
  [env |-> Entry(args, 0).env, at |-> 0, to |-> 1, seen |-> {}, end |-> "", result |-> 0,
   ok |-> TRUE]
AtEntry(b, args) ==
  LET env == Entry(args, 0).env
  IN [env |-> env, at |-> 0, to |-> 1, seen |-> {}, end |-> "", result |-> 0,
      ok |-> AllHold(b.preconditions, env)]

(* An integer operation wraps, but where its constraint says that it is    *)
(* that of the integers.                                                   *)
Exact(i) == i.op = "arith" => i.exact
Computes(w, i, n) ==
  [Gets(w, i.dest, Wrap(n)) EXCEPT !.ok = @ /\ (Exact(i) => InRange(n))]

WalkArith(a, w, i) ==
  LET l == w.env[i.l]
      r == w.env[i.r]
  IN CASE i.f = "div" /\ r = 0 /\ ~NeverZero(a, i.r) -> [w EXCEPT !.end = "division by zero"]
       [] i.f = "div" /\ (r # 0 \/ NeverZero(a, i.r)) -> Gets(w, i.dest, DivBV(l, r))
       [] i.f \in {"lt", "gt"} -> Gets(w, i.dest, Binary(i.f, l, r))
       [] OTHER -> Computes(w, i, Binary(i.f, l, r))

(* A condition is true if it is 1.  An assert is taken to hold from where  *)
(* it stands.                                                              *)
WalkInst(b, a, w, i) ==
  CASE w.to # 0 \/ w.end # "" \/ i.op = "phi" -> w
    [] OTHER ->
       CASE i.op = "const" -> Gets(w, i.dest, i.n)
         [] i.op = "arith" -> WalkArith(a, w, i)
         [] i.op = "unary" /\ i.f = "neg" -> Computes(w, i, -w.env[i.s])
         [] i.op = "unary" /\ i.f = "not" -> Gets(w, i.dest, 1 - w.env[i.s])
         [] i.op = "assert" -> [w EXCEPT !.ok = @ /\ w.env[i.test] = 1]
         [] i.op = "jump" -> [w EXCEPT !.to = i.targets[1]]
         [] i.op = "branch" -> [w EXCEPT !.to = i.targets[IF w.env[i.cond] = 1 THEN 1 ELSE 2]]
         [] i.op = "return" -> [w EXCEPT !.end = "returned", !.result = w.env[i.v]]

(* A phi of a loop is only told of the edges that enter the loop.  A phi   *)
(* within a loop, all of whose edges come from within, may be anything.    *)
Free(b, k) == {i \in Phis(b, k) : DOMAIN i.args \subseteq ReachableFrom(b, {k})}

Anything(b, vs) ==
  {f \in [vs -> MinInt..MaxInt] : \A v \in vs : IsBool(b, v) => f[v] \in {0, 1}}

WalkBlock(b, a, w) ==
  LET k == w.to
      free == Free(b, k)
      enter(f) == [w EXCEPT !.env = f @@ Passed(w, Phis(b, k) \ free) @@ @,
                            !.at = k, !.to = 0, !.seen = @ \cup {k}]
  IN {FoldLeft(LAMBDA v, i : WalkInst(b, a, v, i), enter(f), b.blocks[k].insts) :
        f \in Anything(b, {i.dest : i \in free})}

GoesBack(w) == w.end = "" /\ w.to \in w.seen

RECURSIVE WalksFrom(_, _, _)
WalksFrom(b, a, ws) ==
  LET ended == {w \in ws : w.end # "" \/ GoesBack(w)}
  IN IF ws = ended THEN ws
     ELSE ended \cup WalksFrom(b, a, UNION {WalkBlock(b, a, w) : w \in ws \ ended})

Arguments == [Range(Var) -> MinInt..MaxInt]
Walks(b, a) == WalksFrom(b, a, {AtEntry(b, args) : args \in Arguments})
-----------------------------------------------------------------------------
(* Loop invariants are asserted wherever the header is entered, so that    *)
(* the checks of the edges that enter the loop always pass.                *)
InvariantsHold(b, w) ==
  \A n \in DOMAIN b.invariants :
    b.invariants[n].header \in w.seen => Holds(b.invariants[n].p, w.env)

(* assert_derived_intervals: ranges of values, whether or not the walk has *)
(* them, and narrower ones in the walk's blocks.  A bound becomes an i64.  *)
AsInt(n) == Lesser(Greater(n, MinInt), MaxInt)
WithinFact(n, i) ==
  (Finite(i.low) => n >= AsInt(i.low)) /\ (Finite(i.high) => n <= AsInt(i.high))

FactsHold(a, w) ==
  \A v \in DOMAIN a.ranges \cup {q[1] : q \in DOMAIN a.narrow} :
    \E n \in IF v \in DOMAIN w.env THEN {w.env[v]} ELSE MinInt..MaxInt :
      /\ v \in DOMAIN a.ranges => WithinFact(n, a.ranges[v])
      /\ \A k \in w.seen : <<v, k>> \in DOMAIN a.narrow => WithinFact(n, a.narrow[<<v, k>>])

(* No instruction gives a value to a phi that only invariants name: it has *)
(* been removed.                                                           *)
Named(b) == UNION {Range(b.invariants[n].p.of) : n \in DOMAIN b.invariants}
Completed(b, w) ==
  {[w EXCEPT !.env = f @@ @] : f \in Anything(b, Named(b) \ DOMAIN w.env)}

Models(b, a, walks) ==
  {w \in UNION {Completed(b, w) : w \in walks} :
     /\ w.ok /\ w.end # "division by zero"
     /\ InvariantsHold(b, w) /\ FactsHold(a, w)}

(* An edge back: the invariant with the phis replaced by their operands,   *)
(* one phi after the other.                                                *)
Substituted_Not(b, p, header, from) ==   \* mutant: the phis are left as they are
  p
Substituted(b, p, header, from) ==
  LET phis == SelectSeq(b.blocks[header].insts,
                        LAMBDA i : i.op = "phi" /\ from \in DOMAIN i.args)
      replace(of, i) == [x \in DOMAIN of |-> IF of[x] = i.dest THEN i.args[from] ELSE of[x]]
  IN [p EXCEPT !.of = FoldLeft(replace, @, phis)]

NotPreserved(b, w) ==
  /\ GoesBack(w)
  /\ \E n \in DOMAIN b.invariants :
       /\ b.invariants[n].header = w.to
       /\ ~Holds(Substituted(b, b.invariants[n].p, w.to, w.at), w.env)

(* Each postcondition at each return; what is not read as a predicate is   *)
(* passed over.                                                            *)
WithResult(env, n) == (NoValue :> n) @@ env

PostconditionFails(b, w) ==
  /\ w.end = "returned"
  /\ \E n \in DOMAIN b.postconditions :
       /\ Parses(b.postconditions[n].test)
       /\ ~Holds(b.postconditions[n], WithResult(w.env, w.result))

HasRefinements(b) == b.preconditions # <<>> \/ b.postconditions # <<>> \/ b.invariants # <<>>

(* The constraint of "not n" of an integer n is not read either.           *)
Unreadable(b) ==
  \/ ~Parsed(b.preconditions)
  \/ ~Parsed([n \in DOMAIN b.invariants |-> b.invariants[n].p])
  \/ \E i \in Instructions(b) : i.op = "unary" /\ i.f = "not" /\ ~IsBool(b, i.s)

Proved == "proved"
Verdict(b, a) ==
  LET walks == Walks(b, a)
      models == Models(b, a, walks)
  IN CASE Unreadable(b) -> "unreadable predicate"
       [] ~Unreadable(b) /\ \E w \in walks : w.ok /\ w.end = "division by zero" ->
            "division by zero"
       [] OTHER ->
          CASE \E w \in models : NotPreserved(b, w) -> "invariant not preserved"
            [] \E w \in models : PostconditionFails(b, w) -> "postcondition violated"
            [] models = {} /\ HasRefinements(b) -> "logical contradiction"
            [] OTHER -> Proved
=============================================================================
