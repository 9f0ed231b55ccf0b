---------------------------- MODULE IntervalPaths ----------------------------
(***************************************************************************)
(* One way through a function, as a machine takes it and as the interval   *)
(* analysis sees it: registers hold machine integers, each with the range  *)
(* of the value in it and, after branches, a narrower interval.  A way is  *)
(* followed up to the first operation that wraps around.  What another     *)
(* way leaves behind in the analysis is the matter of IntervalAnalysis.    *)
(***************************************************************************)
EXTENDS Intervals

CONSTANTS
  Reg,         \* the values that are alive, one register each
  Refinements  \* what parameters and results of callees are refined to

VARIABLES
  val,      \* the integer a register holds
  rng,      \* intervals: the range of that value
  near,     \* block_narrowing: its narrower interval here, if it has one
  wrapped   \* history: an operation has left the machine's integers

vars == <<val, rng, near, wrapped>>

Machine == MinInt..MaxInt
Interval == [low : {NegInf} \cup Machine, high : Machine \cup {PosInf}]

ASSUME RefinementsAssumption == Refinements \subseteq Interval

(* The narrower interval if there is one: what operations start from.      *)
Known(r) == IF near[r] = {} THEN {rng[r]} ELSE near[r]
-----------------------------------------------------------------------------
(* Parameters lie in the range of their type and in their refinement.      *)
Init ==
  /\ \E ref \in [Reg -> Refinements] :
       /\ rng = [r \in Reg |-> Meet(OfType, ref[r])]
       /\ val \in [Reg -> Machine]
       /\ \A r \in Reg : Within(val[r], ref[r])
  /\ near = [r \in Reg |-> {}]
  /\ wrapped = FALSE

(* A new value in d, of exact result n and with range i.                   *)
Set(d, n, i) ==
  /\ val' = [val EXCEPT ![d] = Wrap(n)]
  /\ rng' = [rng EXCEPT ![d] = i]
  /\ near' = [near EXCEPT ![d] = {}]
  /\ wrapped' = (n \notin Machine)

Const(d, n) == Set(d, n, OfConst(n))

(* A callee in the registry returns what its return refinement says.       *)
Call(d, n, ref) ==
  /\ Within(n, ref)
  /\ Set(d, n, Meet(OfType, ref))

Plus(d, l, r) ==
  \E i \in Known(l), j \in Known(r) : Set(d, val[l] + val[r], Clamp(Add(i, j)))

Minus(d, l, r) ==
  \E i \in Known(l), j \in Known(r) : Set(d, val[l] - val[r], Clamp(Sub(i, j)))

(* A square is not negative.                                               *)
Times(d, l, r) ==
  \E i \in Known(l), j \in Known(r) :
    LET p == Mul(i, j)
    IN Set(d, val[l] * val[r],
           Clamp(IF l = r THEN [p EXCEPT !.low = Greater(@, 0)] ELSE p))

Neg(d, s) == \E i \in Known(s) : Set(d, -val[s], Clamp(Negate(i)))

Abs(d, s) ==
  \E i \in Known(s) :
    Set(d, IF val[s] < 0 THEN -val[s] ELSE val[s], Clamp(Absolute(i)))

(* A phi takes its operand l; r stands for the operands of other ways.     *)
(* Late rounds widen the range that d has from the round before.           *)
Phi(d, l, r) ==
  \E i \in Known(l), j \in Known(r) :
    \/ Set(d, val[l], Join(i, j))
    \/ Set(d, val[l], Widen(rng[d], Join(i, j)))

Holds(f, m, n) ==
  CASE f = "lt" -> m < n
    [] f = "le" -> m <= n
    [] f = "gt" -> m > n
    [] f = "ge" -> m >= n
    [] f = "eq" -> m = n
    [] f = "ne" -> m # n

(* Into the block of the outcome, which inherits what it has no news of.   *)
News(r, is) == IF is = {} THEN near[r] ELSE is

Narrow(l, is) ==
  /\ near' = [near EXCEPT ![l] = News(l, is)]
  /\ UNCHANGED <<val, rng, wrapped>>

BranchTrue(f, l, r) ==
  /\ Holds(f, val[l], val[r]) /\ f # "eq"
  /\ Narrow(l, WhenTrue(f, rng[l], rng[r]))

BranchFalse(f, l, r) ==
  /\ ~Holds(f, val[l], val[r])
  /\ Narrow(l, WhenFalse(f, rng[l], rng[r]))

(* Equal operands narrow each other.                                       *)
BranchEqual(l, r) ==
  /\ val[l] = val[r]
  /\ near' = [near EXCEPT ![l] = {Meet(rng[l], rng[r])}, ![r] = {Meet(rng[r], rng[l])}]
  /\ UNCHANGED <<val, rng, wrapped>>

Comparison == {"lt", "le", "gt", "ge", "eq", "ne"}

Next ==
  /\ ~wrapped
  /\ \/ \E d \in Reg, n \in Machine : Const(d, n) \/ \E ref \in Refinements : Call(d, n, ref)
     \/ \E d, l, r \in Reg : Plus(d, l, r) \/ Minus(d, l, r) \/ Times(d, l, r) \/ Phi(d, l, r)
     \/ \E d, s \in Reg : Neg(d, s) \/ Abs(d, s)
     \/ \E l, r \in Reg, f \in Comparison : BranchTrue(f, l, r) \/ BranchFalse(f, l, r)
     \/ \E l, r \in Reg : BranchEqual(l, r)

Spec == Init /\ [][Next]_vars
-----------------------------------------------------------------------------
(* Bounds stay bounds of the machine's integers, or infinite.              *)
TypeOK ==
  /\ val \in [Reg -> Machine]
  /\ rng \in [Reg -> Interval]
  /\ near \in [Reg -> SUBSET Interval]
  /\ wrapped \in BOOLEAN

(* As long as nothing has wrapped, each value lies in its range and in its *)
(* narrower interval: what assert_derived_intervals asserts is true.       *)
InRange ==
  ~wrapped =>
    \A r \in Reg : Within(val[r], rng[r]) /\ \A i \in near[r] : Within(val[r], i)
=============================================================================
