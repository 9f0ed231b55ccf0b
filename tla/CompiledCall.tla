----------------------------- MODULE CompiledCall -----------------------------
(***************************************************************************)
(* A Python function is built, optimised, analysed, lowered to blocks with *)
(* parameters, and called.  Each call runs block by block and is compared  *)
(* with what Python computes.  Of verification, which comes before         *)
(* lowering and changes nothing, there are the intervals it takes as facts.*)
(***************************************************************************)
EXTENDS CompiledRun, IntervalAnalysis, SsaBuilder

CONSTANTS
  Programs,  \* records [params, body]: types of the parameters, statements
  Args,      \* the argument tuples, as functions from Var to integers
  Fuel       \* bound on the Python steps of a call that is compared

VARIABLES
  prog,   \* the program
  facts,  \* the intervals of fn's values, or None
  want    \* what Python returns for the call that runs, or None

vars == <<prog, facts, want, run>>

(* No Python statement makes more than a few blocks run.                   *)
BlocksPerStep == 6
-----------------------------------------------------------------------------
Init == prog \in Programs /\ facts = None /\ want = None /\ InitRun

HasLiteral(p) == \E x \in Range(Var) : p.params[x].ty = "literal"

(* The order of a HashMap matters only where a type can be a literal.      *)
Compile ==
  /\ \E pick \in IF HasLiteral(prog) THEN {"low", "high"} ELSE {"low"} :
       CompileTo(Build(prog.params, prog.body, pick))
  /\ UNCHANGED <<prog, facts, want>>

(* verify_function, up to the facts it takes from the analysis.            *)
Verify ==
  /\ Compiled /\ facts = None
  /\ facts' = Analyse(fn)
  /\ UNCHANGED <<prog, want, run>>

(* Calls that Python ends within its fuel.  Python passes a Literal        *)
(* parameter its one value.                                                *)
Call ==
  /\ facts # None /\ got = None
  /\ \E args \in Args :
       /\ \A x \in Range(Var) :
            prog.params[x].ty = "literal" => args[x] = prog.params[x].n
       /\ want' = Interpret(args, prog.body, Fuel)
       /\ want' # OutOfFuel
       /\ BeginCall(args, BlocksPerStep * Fuel)
  /\ UNCHANGED <<prog, facts>>

Execute == Advance /\ UNCHANGED <<prog, facts, want>>

(* The caller goes on.                                                     *)
GoOn == Finish /\ want' = None /\ UNCHANGED <<prog, facts>>

Next == Compile \/ Verify \/ Call \/ Execute \/ GoOn

Spec == Init /\ [][Next]_vars
-----------------------------------------------------------------------------
(* The compiled function returns or raises what Python does: every read    *)
(* reaches the assignment that Python's control flow reaches, through      *)
(* phis, unrolled iterations, pruned branches, sealed loops, handlers,     *)
(* folded constants and removed code alike.                                *)
SameResult == got # None /\ ~Running => got.result = want

(* "A literal type carrying a concrete compile-time value": whatever the   *)
(* way taken, a value of type Literal[n] is n; branches are pruned and     *)
(* loops unrolled on the strength of it.                                   *)
LiteralHolds ==
  got # None =>
    \A v \in DOMAIN got.env :
      fn.types[v].ty = "literal" => got.env[v] = fn.types[v].n

(* "Known value ranges": whatever the way taken, a value lies in the range *)
(* the analysis gives it, which the verifier asserts as a fact and skips   *)
(* the checks of divisors and indices for.                                 *)
RangesHold ==
  got # None =>
    \A v \in DOMAIN got.env \cap DOMAIN facts.ranges : Within(got.env[v], facts.ranges[v])

(* "Until a fixed point is reached (or 50 iterations pass)": it is reached *)
(* first, though narrowings shrink ranges that phis widen.                 *)
AnalysisSettles == facts # None => ~facts.changed

(* "Attempted to read a variable before it was defined" is said of no      *)
(* program in which every variable is a parameter.                         *)
NoFalseUnbound == fn # None => fn.error # "UnboundVariable"

(* No variable is looked up in a sealed block before all its predecessors  *)
(* are known, and in the end every block is sealed: no operand is missing  *)
(* from a phi made before.                                                 *)
SealedMeansKnown ==
  Compiled /\ got = None => ~fn.late /\ fn.incomplete = {} /\ fn.sealed = DOMAIN fn.blocks
=============================================================================
