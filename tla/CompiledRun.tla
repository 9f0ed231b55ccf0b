----------------------------- MODULE CompiledRun -----------------------------
(***************************************************************************)
(* A function that has been built is optimised and called: its code runs   *)
(* block by block, and beside it, for comparison, the code as it was built.*)
(***************************************************************************)
EXTENDS LoweredCode

VARIABLES
  built,  \* a function as it was built, or None
  fn,     \* what it is compiled to, or None
  plain,  \* the machine that runs built, or None
  got     \* the machine that runs fn, or None

run == <<built, fn, plain, got>>

InitRun == built = None /\ fn = None /\ plain = None /\ got = None

Compiled == fn # None /\ fn.error = ""
Running == got # None /\ got.result = None

(* The first call compiles, and so does every one after a failure.         *)
CompileTo(b) ==
  /\ ~Compiled
  /\ built' = b /\ fn' = Transform(b)
  /\ UNCHANGED <<plain, got>>

BeginCall(args, left) ==
  /\ Compiled /\ got = None
  /\ got' = Entry(args, left) /\ plain' = Entry(args, left)
  /\ UNCHANGED <<built, fn>>

Advance ==
  /\ Running
  /\ got' = RunBlock(fn, got)
  /\ plain' = IF plain.result = None THEN RunBlock(built, plain) ELSE plain
  /\ UNCHANGED <<built, fn>>

Finish ==
  /\ got # None /\ ~Running
  /\ got' = None /\ plain' = None
  /\ UNCHANGED <<built, fn>>

(* Calls of any of the functions, one after the other.                     *)
NextRun(functions, calls, left) ==
  \/ \E b \in functions : CompileTo(b)
  \/ \E args \in calls : BeginCall(args, left)
  \/ Advance
  \/ Finish

SpecRun(functions, calls, left) == InitRun /\ [][NextRun(functions, calls, left)]_run
-----------------------------------------------------------------------------
(* Neither gets stuck - a value that is not there, a block without a way   *)
(* out - and optimised code does in each block what the code does that was *)
(* built, unless that traps: a division that is not used is removed.       *)
RunsAlike ==
  got # None =>
    /\ Stuck \notin {plain.result, got.result}
    /\ plain.result \notin {DivisionByZero, Overflow} =>
         /\ got.result = plain.result
         /\ got.at = plain.at /\ got.to = plain.to
         /\ got.exc = plain.exc

Form(P(_)) == Compiled /\ got = None => P(built) /\ P(fn)

(* "Predecessors and successors track control-flow edges": optimiser,      *)
(* interval analysis and verifier walk these lists and not the jumps.      *)
EdgesTracked == Form(TracksEdges)

(* "Control enters at the first instruction and leaves at the last one."   *)
LeavesAtLast ==
  Form(LAMBDA b : \A k \in DOMAIN b.blocks : EndsAtLast(b.blocks[k].insts))

(* A phi has one operand for each block that jumps to it and no other, so  *)
(* that lowered jumps and blocks agree on the number of arguments.         *)
PhiPerEdge == Form(PhisMatch)

(* "Strict SSA": each value is defined once, and on every way to a use of  *)
(* it, a phi's operand being used where the jump is; the backend looks     *)
(* values up and panics without a definition.                              *)
StrictSsa == Form(LAMBDA b : IsFunction(b) /\ DefinedOnce(b) /\ DefinedBefore(b))
=============================================================================
