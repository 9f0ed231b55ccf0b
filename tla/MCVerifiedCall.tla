---------------------------- MODULE MCVerifiedCall ----------------------------
(***************************************************************************)
(* Bounded programs for VerifiedCall.                                      *)
(***************************************************************************)
EXTENDS VerifiedCall

MCVar == <<"x", "y">>
x == Name("x")
y == Name("y")
Ints == [v \in Range(MCVar) |-> I64]
Programs_(bodies) == {[params |-> Ints, body |-> s] : s \in bodies}

Less(l, r) == BinOp("lt", l, r)
Greater_(l, r) == BinOp("gt", l, r)
Plus(l, r) == BinOp("add", l, r)
Minus(l, r) == BinOp("sub", l, r)
Over_(l, r) == BinOp("div", l, r)

(* Contracts, conditions, divisions.                                       *)
Tests == {Less(x, y), Greater_(y, Num(0)), Less(y, Num(0)),
          BoolOp("and", <<Less(x, Num(1)), Greater_(y, x)>>),
          BoolOp("or", <<Less(x, Num(0)), UnOp("not", Less(y, Num(1)))>>)}
Pre == {<<>>} \cup {<<AssertThat(t)>> : t \in Tests}
Divisors == {y, Minus(y, x), Plus(y, Num(1))}
Returns == {<<Return(Over_(x, d))>> : d \in Divisors} \cup {<<Return(x)>>}
           \cup {<<AssertThat(t), Return(y)>> : t \in {Less(x, y), Greater_(y, Num(0))}}
Updates == {Assign("y", Plus(y, Num(1))), Assign("x", Over_(x, y)), Assign("y", Num(0))}

Straight == {p \o u \o r : p \in Pre, u \in {<<>>} \cup {<<a>> : a \in Updates}, r \in Returns}
Branching == {p \o <<If(t, a, b)>> \o r :
                p \in Pre, t \in Tests, a \in Returns, b \in {<<>>} \cup {<<u>> : u \in Updates},
                r \in Returns}
Inv == {<<>>} \cup {<<AssertThat(t)>> : t \in {Less(x, y), Greater_(y, Num(0)), Less(x, Num(2))}}
Loops == {p \o <<While(t, i \o <<u, Assign("x", Plus(x, Num(1)))>>)>> \o r :
            p \in Pre, t \in {Less(x, y), Less(x, Num(1))}, i \in Inv, u \in Updates, r \in Returns}

MCPrograms == Programs_(Straight \cup Branching \cup Loops)

(* A divisor that a loop counts down, which starts above zero.             *)
Countdown(d) ==
  <<AssertThat(Greater_(y, Num(0))), While(Greater_(y, Num(0)), <<Assign("y", Minus(y, Num(1)))>>),
    Return(Over_(x, d))>>
MCCountdowns == Programs_({Countdown(d) : d \in {y, Plus(y, Num(1))}})
=============================================================================
