----------------------------- MODULE VerifiedCall -----------------------------
(***************************************************************************)
(* @verify: a function is built and optimised, analysed and verified, and  *)
(* called only if the verifier has accepted it.  The call runs without any *)
(* check of division, assert or invariant: the verdict is all there is.    *)
(***************************************************************************)
EXTENDS Verifier

CONSTANTS
  Programs,  \* records [params, body]: types of the parameters, statements
  MaxBlocks  \* bound on the blocks that a call runs

VARIABLES
  prog,     \* the program
  fn,       \* what it is compiled to, or None
  facts,    \* the interval analysis of fn, or None
  verdict,  \* what the verifier says of fn, or ""
  got,      \* the machine that runs a call, or None
  seen,     \* history: the blocks that the call has run
  broken    \* history: what the verifier relies on and the call does not keep

vars == <<prog, fn, facts, verdict, got, seen, broken>>
-----------------------------------------------------------------------------
Init ==
  /\ prog \in Programs
  /\ fn = None /\ facts = None /\ verdict = ""
  /\ got = None /\ seen = {} /\ broken = {}

Compile ==
  /\ fn = None
  /\ fn' = Transform(Build(prog.params, prog.body, "low"))
  /\ UNCHANGED <<prog, facts, verdict, got, seen, broken>>

(* verify_function.                                                        *)
Verify ==
  /\ fn # None /\ fn.error = ""
  /\ verdict = ""
  /\ facts' = Analyse(fn)
  /\ verdict' = Verdict(fn, facts')
  /\ UNCHANGED <<prog, fn, got, seen, broken>>

If_(condition, reason) == IF condition THEN {reason} ELSE {}

(* A call from compiled code, which enforces no precondition.              *)
Call ==
  /\ verdict = Proved /\ got = None
  /\ \E args \in Arguments :
       /\ got' = Entry(args, MaxBlocks)
       /\ broken' = If_(~AllHold(fn.preconditions, got'.env), "precondition")
  /\ seen' = {}
  /\ UNCHANGED <<prog, fn, facts, verdict>>

Running == got # None /\ got.result = None

(* What the verifier relies on where block k runs with the values env: the *)
(* first trip of a loop is every trip, conditions are 0 or 1, asserts and  *)
(* loop invariants hold, integers do not overflow, values lie in their     *)
(* intervals.                                                              *)
Overflows(i, env) ==
  CASE i.op = "arith" /\ i.f \in {"add", "sub", "mul"} ->
         i.exact /\ ~InRange(Binary(i.f, env[i.l], env[i.r]))
    [] i.op = "unary" /\ i.f = "neg" -> ~InRange(-env[i.s])
    [] OTHER -> FALSE

BreaksIn(b, i, env) ==
  If_(Overflows(i, env), "integer")
  \cup If_(i.op = "branch" /\ ~IsBool(b, i.cond) /\ env[i.cond] \notin {0, 1}, "condition")
  \cup If_(i.op = "assert" /\ env[i.test] # IF IsBool(b, i.test) THEN -1 ELSE 1, "assert")

InvariantsAt(b, k, env) ==
  \A n \in DOMAIN b.invariants : LET inv == b.invariants[n] IN
    inv.header = k /\ Range(inv.p.of) \subseteq DOMAIN env => Holds(inv.p, env)

IntervalsHold(a, k, env) ==
  \A v \in DOMAIN env :
    /\ v \in DOMAIN a.ranges => WithinFact(env[v], a.ranges[v])
    /\ <<v, k>> \in DOMAIN a.narrow => WithinFact(env[v], a.narrow[<<v, k>>])

Breaks(b, a, k, env) ==
  UNION {BreaksIn(b, i, env) : i \in {i \in Range(b.blocks[k].insts) : Uses(i) \subseteq DOMAIN env}}
  \cup If_(k \in seen, "trip")
  \cup If_(~InvariantsAt(b, k, env), "invariant")
  \cup If_(~IntervalsHold(a, k, env), "interval")

Execute ==
  /\ Running
  /\ got' = RunBlock(fn, got)
  /\ seen' = seen \cup {got.to}
  /\ broken' = broken \cup Breaks(fn, facts, got.to, got'.env)
  /\ UNCHANGED <<prog, fn, facts, verdict>>

GoOn ==
  /\ got # None /\ ~Running
  /\ got' = None /\ seen' = {} /\ broken' = {}
  /\ UNCHANGED <<prog, fn, facts, verdict>>

Next == Compile \/ Verify \/ Call \/ Execute \/ GoOn

Spec == Init /\ [][Next]_vars
-----------------------------------------------------------------------------
(* "Potential division by zero" is what the verifier refuses a function    *)
(* for: where what it relies on holds, no accepted one divides by zero,    *)
(* whether the divisor's check was made or skipped for its interval.       *)
NoDivisionByZero == got # None /\ broken = {} => got.result # DivisionByZero

(* "Proves postcondition asserts at function return boundaries": the       *)
(* result meets every assert that stands directly before a return, in      *)
(* whatever branch or loop.                                                *)
RECURSIVE Lists(_)
Lists(body) ==
  {body} \cup UNION {CASE s.is = "if" -> Lists(s.body) \cup Lists(s.orelse)
                       [] s.is \in {"while", "for"} -> Lists(s.body)
                       [] OTHER -> {} : s \in Range(body)}

Promised(body) ==
  UNION {{PostconditionAt(l, n) : n \in {n \in DOMAIN l : AsPostcondition(l, n)}} :
           l \in Lists(body)}

Meets(m, body) == \A p \in Promised(body) : Holds(p, WithResult(m.env, m.result.n))

Returned_(m) == m.result.is = "value"
PostconditionsHold ==
  got # None /\ broken = {} /\ Returned_(got) => Meets(got, prog.body)

(* "Verifies loop invariant asserts inductively": what holds on the first  *)
(* entry of a header holds when the loop comes back to it.                 *)
InvariantKept ==
  [][Running /\ broken = {} /\ got.to \in seen => "invariant" \notin broken']_vars

(* A function without loops and with comparisons for its conditions is     *)
(* refused for a reason: some call that meets its preconditions traps in a *)
(* division or breaks a postcondition.                                     *)
RECURSIVE Run(_, _)
Run(b, m) == IF m.result # None THEN m ELSE Run(b, RunBlock(b, m))

Calls == {Run(fn, m) : m \in {m \in {Entry(args, MaxBlocks) : args \in Arguments} :
                                AllHold(fn.preconditions, m.env)}}

LoopFree(b) == \A k \in DOMAIN b.blocks : k \notin ReachableFrom(b, Range(b.blocks[k].succs))

AlarmIsReal ==
  got = None /\ verdict \in {"division by zero", "postcondition violated"} /\ LoopFree(fn) =>
    \E m \in Calls : Returned_(m) => ~Meets(m, prog.body)

(* "Statically guarantee the absence of ... division by zero": of an       *)
(* accepted function, whose preconditions hold and no integer overflows.   *)
DivisionsSafe ==
  got # None /\ got.result = DivisionByZero => broken \cap {"precondition", "integer"} # {}
=============================================================================
