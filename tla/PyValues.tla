------------------------------- MODULE PyValues -------------------------------
(***************************************************************************)
(* Python's operators on integers, and what a call can end with.           *)
(***************************************************************************)
EXTENDS Integers

Binary(op, l, r) ==
  CASE op = "add" -> l + r
    [] op = "sub" -> l - r
    [] op = "mul" -> l * r
    [] op = "lt" -> IF l < r THEN 1 ELSE 0
    [] op = "gt" -> IF l > r THEN 1 ELSE 0

Value(n) == [is |-> "value", n |-> n]
Raised(id) == [is |-> "raised", id |-> id]
AssertionError == [is |-> "assertion error"]
OutOfFuel == [is |-> "out of fuel"]
=============================================================================
