--------------------------- MODULE MCCompiledCall ---------------------------
(***************************************************************************)
(* Bounded programs for CompiledCall.  i is only ever a loop variable,     *)
(* read in the loop's body.                                                *)
(***************************************************************************)
EXTENDS CompiledCall

MCVar == <<"x", "y", "i">>
x == Name("x")
y == Name("y")
i == Name("i")

MCArgs == [{"x", "y"} -> 0..2]
WithI == {[v \in Range(MCVar) |-> IF v = "i" THEN 0 ELSE a[v]] : a \in MCArgs}

Ints == [v \in Range(MCVar) |-> I64]
XIs(n) == [Ints EXCEPT !["x"] = Literal(n)]

Less(l, r) == BinOp("lt", l, r)
Plus(l, r) == BinOp("add", l, r)
Minus(n) == UnOp("neg", Num(n))
Not(e) == UnOp("not", e)

UpX == Assign("x", Plus(x, Num(1)))
UpY == Assign("y", x)
Leaves == {Break, Continue, Return(y)}

(* Statement lists that end where they leave, and lists that do not leave. *)
Falling == {<<>>, <<UpX>>, <<UpY>>}
Arms(updates) == Falling \cup {<<l>> : l \in Leaves} \cup {<<u, l>> : u \in updates, l \in Leaves}

(* The values of an and/or are of one type: the backend takes no others.   *)
Tests == {Less(y, x), x, BoolOp("and", <<x, y>>),
          BoolOp("or", <<Not(Less(y, x)), Less(x, Num(1))>>)}

Ifs(updates) ==
  {If(c, t, e) : c \in Tests, t \in Arms(updates), e \in Falling}
  \cup {If(Less(y, x), e, t) : t \in Arms(updates), e \in Falling}

Whiles == {While(Less(x, Num(2)), <<s, UpX>>) : s \in Ifs({UpX, UpY})}

(* Counted loops up and down, with bounds known and unknown.               *)
Ranges(body) ==
  {For("i", Num(0), y, Num(1), body), For("i", y, x, Minus(1), body),
   For("i", Num(0), Num(2), Num(1), body), For("i", Num(2), Minus(1), Minus(2), body)}

Fors == UNION {Ranges(<<s, Assign("y", Plus(x, i))>>) : s \in Ifs({UpX})}

(* A loop in a loop: the inner one is left, or the outer one.              *)
Nested ==
  {While(Less(x, Num(2)), <<f, UpX>>) :
     f \in Ranges(<<If(Less(y, x), <<UpY>>, <<>>)>>)
           \cup UNION {Ranges(<<s>>) : s \in Ifs({UpY})}}
  \cup {For("i", Num(0), n, Num(1), <<While(Less(x, i), <<s, UpX>>), t>>) :
          n \in {Num(2), y}, s \in Ifs({}), t \in {UpY, If(x, <<Break>>, <<>>)}}

(* Two statements in a row, the first of which may return.                 *)
Heads == {If(c, t, e) : c \in Tests, t \in Falling \cup {<<Return(x)>>}, e \in Falling}
Pairs == {<<h, s>> : h \in Heads,
                     s \in {While(Less(x, Num(2)), <<UpY, UpX>>)}
                           \cup Ranges(<<UpX>>) \cup Heads}

Result == Return(Plus(x, Plus(y, y)))
Single(stmts) == {[params |-> Ints, body |-> <<s, Result>>] : s \in stmts}

Loops == Single(Whiles \cup Fors \cup Nested)
InARow == {[params |-> Ints, body |-> p \o <<Result>>] : p \in Pairs}

(* x is a Literal parameter that is never assigned: it prunes branches and *)
(* bounds ranges (BinOp sub included) at compile time.  It is the right    *)
(* operand of what is tested: x - 1 has the type of x, value included, see *)
(* MCDerived.  An arm that leaves the loop is under a test that is not     *)
(* known then.                                                             *)
AddI == Assign("y", Plus(y, i))
LitRanges(body) == {For("i", Num(0), n, Num(1), body) : n \in {x, BinOp("sub", Num(3), x), y}}
KnownTests == {x, BinOp("sub", Num(1), x)}
Bodies == {<<>>, <<Assign("y", Plus(y, x))>>, <<If(Less(y, x), <<UpY>>, <<Continue>>)>>}
LitIfs ==
  {If(c, t, e) : c \in KnownTests, t \in Bodies, e \in Bodies}
  \cup {If(c, t, e) : c \in {Less(y, x), BoolOp("or", <<Less(y, x), Less(x, y)>>)},
                      t \in Bodies \cup {<<l>> : l \in Leaves}, e \in Bodies}
LitLoops == UNION {LitRanges(<<AddI, s>>) : s \in LitIfs}
Literals(stmts, ns) == {[params |-> XIs(n), body |-> <<s, Result>>] : n \in ns, s \in stmts}

(* try and except.  Each try has a raise or a call that may raise, and     *)
(* what is behind it is reached: elsewhere reads are of no known variable. *)
(* A raise without a class is left out.                                    *)
AllClasses == <<1, 2, 3, 4, 5>>
F == [raises |-> {0}, id |-> 1]
G == [raises |-> {1, 2}, id |-> 2]
Raising ==
  {<<If(Less(y, x), <<UpX, Raise(1)>>, <<>>), UpY>>,
   <<UpX, CallOf("y", F, y), UpX>>,
   <<CallOf("x", F, y), If(Less(x, y), <<Raise(3)>>, <<UpY>>), CallOf("y", G, x)>>,
   <<If(Less(y, x), <<Return(x)>>, <<>>), CallOf("y", G, y)>>}
Handling(arms) ==
  {<<Handler(<<1>>, <<UpX>>)>>, <<Handler(<<3, 2>>, <<>>), Handler(<<1>>, <<UpY>>)>>}
  \cup {<<Handler(<<2>>, arm), Handler(AllClasses, <<UpX>>)>> : arm \in arms}
  \cup {<<Handler(<<1, 2>>, arm)>> : arm \in arms}
Elses == {<<>>, <<UpY>>, <<CallOf("y", G, x)>>}
Tries(arms) == {Try(b, h, e) : b \in Raising, h \in Handling(arms), e \in Elses}

ArmsOut == {<<Return(y)>>, <<UpX, Raise(4)>>, <<CallOf("x", F, x)>>}
TryTwice == {Try(<<t, CallOf("x", F, x)>>, h, <<UpX>>) : t \in Tries(ArmsOut),
               h \in {<<Handler(<<4>>, <<>>), Handler(<<1>>, <<UpY>>)>>,
                      <<Handler(AllClasses, <<CallOf("y", F, y)>>)>>}}
TryInLoop ==
  {While(Less(x, Num(2)), <<t, UpX>>) : t \in Tries({<<Break>>, <<UpX, Continue>>})}
  \cup {Try(<<For("i", Num(0), n, Num(1), <<CallOf("y", f, Plus(x, i)), If(y, <<t>>, <<UpY>>)>>)>>,
            h, <<UpY>>) :
          n \in {Num(2), x}, f \in {F, G}, t \in {Break, Raise(3)}, h \in Handling({})}

Exceptions ==
  Single(Tries(ArmsOut) \cup TryTwice \cup TryInLoop
         \cup {CallOf("x", F, y), If(x, <<Raise(5)>>, <<UpY>>)})

MCPrograms == Loops \cup InARow \cup Literals(LitLoops, 1..2) \cup Exceptions

(* A Literal parameter negated, reckoned with, or joined with a value that *)
(* is not known; and a loop whose phi has the type of the first definition *)
(* of y, or of the second.                                                 *)
Derived ==
  {<<Assign("y", e), If(y, <<UpX>>, <<>>), Result>> :
     e \in {UnOp("neg", x), BinOp("sub", x, Num(1)), BoolOp("and", <<x, y>>),
            BoolOp("or", <<x, y>>)}}
  \cup {<<If(Less(x, y), <<>>, <<UpY>>),
          While(y, <<If(y, <<Assign("y", BinOp("sub", y, Num(1)))>>, <<Break>>)>>), Result>>}
MCDerived == {[params |-> XIs(n), body |-> body] : n \in 0..2, body \in Derived}

(* Counted loops.                                                          *)
MCCounted == Single(Ranges(<<UpX>>))
=============================================================================
