------------------------------ MODULE Intervals ------------------------------
(***************************************************************************)
(* Interval arithmetic.  A bound is an integer strictly between NegInf and *)
(* PosInf, or one of the two, so that Bound::min and Bound::max are those  *)
(* of integers.  Integers of the compiled program are MinInt..MaxInt, and  *)
(* Inf is beyond what one operation makes of them.  The code computes with *)
(* f64, whose rounding is left out.                                        *)
(***************************************************************************)
EXTENDS Integers

CONSTANT MaxInt   \* the largest integer of the machine

ASSUME MaxIntAssumption == MaxInt \in Nat \ {0}

MinInt == -MaxInt - 1
Inf == 4 * (MaxInt + 1) * (MaxInt + 1)
PosInf == Inf
NegInf == -Inf
Finite(x) == NegInf < x /\ x < PosInf

(* Two's complement; sdiv and bvsdiv round to zero.                        *)
Wrap(n) == MinInt + ((n - MinInt) % (2 * (MaxInt + 1)))
Magnitude(n) == IF n < 0 THEN -n ELSE n
Quotient(l, r) ==
  LET q == Magnitude(l) \div Magnitude(r) IN Wrap(IF (l < 0) = (r < 0) THEN q ELSE -q)

Lesser(x, y) == IF x <= y THEN x ELSE y
Greater(x, y) == IF x >= y THEN x ELSE y

Least(S) == CHOOSE x \in S : \A y \in S : x <= y
Greatest(S) == CHOOSE x \in S : \A y \in S : x >= y

Everything == [low |-> NegInf, high |-> PosInf]
OfType == [low |-> MinInt, high |-> MaxInt]
OfConst(n) == [low |-> n, high |-> n]

Join(i, j) == [low |-> Lesser(i.low, j.low), high |-> Greater(i.high, j.high)]
Meet(i, j) == [low |-> Greater(i.low, j.low), high |-> Lesser(i.high, j.high)]

Widen(i, next) ==
  [low |-> IF next.low < i.low THEN NegInf ELSE i.low,
   high |-> IF next.high > i.high THEN PosInf ELSE i.high]

AddLow(x, y) ==
  CASE NegInf \in {x, y} -> NegInf
    [] NegInf \notin {x, y} /\ PosInf \in {x, y} -> PosInf
    [] OTHER -> x + y
AddHigh(x, y) ==
  CASE PosInf \in {x, y} -> PosInf
    [] PosInf \notin {x, y} /\ NegInf \in {x, y} -> NegInf
    [] OTHER -> x + y

Add(i, j) == [low |-> AddLow(i.low, j.low), high |-> AddHigh(i.high, j.high)]

Negate(i) == [low |-> -i.high, high |-> -i.low]

Absolute(i) ==
  [low |-> CASE i.low >= 0 -> i.low
             [] i.low < 0 /\ i.high <= 0 -> -i.high
             [] OTHER -> 0,
   high |-> IF Finite(i.low) /\ Finite(i.high) THEN Greatest({i.low, -i.low, i.high, -i.high})
            ELSE PosInf]

Sub_SameEnds(i, j) ==   \* mutant: low - low, high - high
  [low |-> AddLow(i.low, -j.low), high |-> AddHigh(i.high, -j.high)]
(* "If x >= 2 and y == 1, then x - y >= 1."                                *)
Sub(i, j) ==
  LET d == Add(i, Negate(j))
  IN IF Finite(i.low) /\ i.low >= 2 /\ j = OfConst(1)
     THEN [d EXCEPT !.low = Greater(@, 1)] ELSE d

(* A product with an infinite factor: only its sign is kept.               *)
MulLow(i, j) ==
  CASE Finite(i.low) /\ i.low > 0 /\ Finite(j.low) /\ j.low > 0 -> i.low * j.low
    [] Finite(i.low) /\ i.low >= 0 /\ Finite(j.low) /\ j.low >= 0
         /\ 0 \in {i.low, j.low} -> 0
    [] OTHER -> NegInf

Mul(i, j) ==
  LET products == {i.low * j.low, i.low * j.high, i.high * j.low, i.high * j.high}
  IN IF \A x \in {i.low, i.high, j.low, j.high} : Finite(x)
     THEN [low |-> Least(products), high |-> Greatest(products)]
     ELSE [low |-> MulLow(i, j), high |-> PosInf]

Clamp(i) ==
  [low |-> CASE Finite(i.low) /\ i.low < MinInt -> NegInf
             [] Finite(i.low) /\ i.low > MaxInt -> MaxInt
             [] OTHER -> i.low,
   high |-> CASE Finite(i.high) /\ i.high > MaxInt -> PosInf
              [] Finite(i.high) /\ i.high < MinInt -> MinInt
              [] OTHER -> i.high]

Within(n, i) == i.low <= n /\ n <= i.high
-----------------------------------------------------------------------------
(* narrow_branch_intervals: what a comparison tells of its left operand,   *)
(* whose interval is i: at most one new interval.                          *)
AtMost(i, n) == [i EXCEPT !.high = Lesser(@, n)]
AtLeast(i, n) == [i EXCEPT !.low = Greater(@, n)]

Under(i, j) == IF Finite(j.high) THEN {AtMost(i, j.high - 1)} ELSE {}
UpTo(i, j) == IF Finite(j.high) THEN {AtMost(i, j.high)} ELSE {}
Over(i, j) == IF Finite(j.low) THEN {AtLeast(i, j.low + 1)} ELSE {}
DownTo(i, j) == IF Finite(j.low) THEN {AtLeast(i, j.low)} ELSE {}

Singleton(j) == Finite(j.low) /\ j.low = j.high

Except(i, n) ==
  CASE i.low = n -> {[i EXCEPT !.low = n + 1]}
    [] i.low # n /\ i.high = n -> {[i EXCEPT !.high = n - 1]}
    [] OTHER -> {}

WhenTrue(f, i, j) ==
  CASE f = "lt" -> Under(i, j)
    [] f = "le" -> UpTo(i, j)
    [] f = "gt" -> Over(i, j)
    [] f = "ge" -> DownTo(i, j)
    [] f = "eq" -> {Meet(i, j)}
    [] f = "ne" -> IF Singleton(j) THEN Except(i, j.low) ELSE {}

WhenFalse(f, i, j) ==
  CASE f = "lt" -> DownTo(i, j)
    [] f = "le" -> Over(i, j)
    [] f = "gt" -> UpTo(i, j)
    [] f = "ge" -> Under(i, j)
    [] f = "eq" -> {}
    [] f = "ne" -> IF Singleton(j) THEN {j} ELSE {}
=============================================================================
