-------------------------------- MODULE PyLang --------------------------------
(***************************************************************************)
(* The part of Python that SsaBuilder compiles, with its meaning: integer  *)
(* variables, and/or, if, while, for over range, break, continue, return,  *)
(* assert, raise, try, calls of a function that may raise.  An exception   *)
(* is known by its class, which is a number.                               *)
(* A statement or expression is a record whose field "is" names its kind.  *)
(* Interpret gives what CPython computes; the builder is checked against   *)
(* it.  Every variable is a parameter, so every read is of a bound one.    *)
(***************************************************************************)
EXTENDS PyValues, Sequences, TLC

Num(n) == [is |-> "num", n |-> n]
Name(x) == [is |-> "name", x |-> x]
BinOp(op, l, r) == [is |-> "bin", op |-> op, l |-> l, r |-> r]
UnOp(op, e) == [is |-> "unary", op |-> op, e |-> e]
BoolOp(op, values) == [is |-> "bool", op |-> op, values |-> values]

Assign(x, e) == [is |-> "assign", x |-> x, e |-> e]
If(test, body, orelse) == [is |-> "if", test |-> test, body |-> body, orelse |-> orelse]
While(test, body) == [is |-> "while", test |-> test, body |-> body]
For(x, start, stop, step, body) ==
  [is |-> "for", x |-> x, start |-> start, stop |-> stop, step |-> step, body |-> body]
Break == [is |-> "break"]
Continue == [is |-> "continue"]
Return(e) == [is |-> "return", e |-> e]
AssertThat(test) == [is |-> "assert", test |-> test]

\* x = f(e), of another compiled function f: f.raises are the arguments for
\* which it raises f.id, and it returns any other one.
CallOf(x, f, e) == [is |-> "call", x |-> x, f |-> f, e |-> e]
Raise(id) == [is |-> "raise", id |-> id]
Handler(ids, body) == [ids |-> ids, body |-> body]
Try(body, handlers, orelse) ==
  [is |-> "try", body |-> body, handlers |-> handlers, orelse |-> orelse]

RECURSIVE Eval(_, _)
Eval(e, env) ==
  CASE e.is = "num" -> e.n
    [] e.is = "name" -> env[e.x]
    [] e.is = "bin" -> Binary(e.op, Eval(e.l, env), Eval(e.r, env))
    [] e.is = "unary" ->
         IF e.op = "neg" THEN -Eval(e.e, env)
         ELSE IF Eval(e.e, env) = 0 THEN 1 ELSE 0
    [] e.is = "bool" ->
         LET first == Eval(Head(e.values), env)
             decided == IF e.op = "and" THEN first = 0 ELSE first # 0
         IN IF decided \/ Len(e.values) = 1 THEN first
            ELSE Eval([e EXCEPT !.values = Tail(@)], env)

(* A range that has been started: the iterator is not the loop variable.   *)
Iterate(x, next, stop, step, body) ==
  [is |-> "iterate", x |-> x, next |-> next, stop |-> stop, step |-> step, body |-> body]

(* What "break" leaves of the continuation k: the enclosing loop is the    *)
(* first statement of it that stands for a loop under way.                 *)
InLoop(s) == s.is \in {"again", "iterate"}
RECURSIVE ToLoop(_)
ToLoop(k) == IF InLoop(Head(k)) THEN k ELSE ToLoop(Tail(k))

(* What an exception leaves of k: the first try under way that has a       *)
(* handler for it goes on with that handler.                               *)
Guarded(s) == [is |-> "guarded", try |-> s]

CaughtBy(s, id) ==
  IF s.is # "guarded" THEN {}
  ELSE {n \in DOMAIN s.try.handlers :
          LET ids == s.try.handlers[n].ids IN \E m \in DOMAIN ids : ids[m] = id}

RECURSIVE ToHandler(_, _)
ToHandler(k, id) ==
  IF k = <<>> THEN <<>>
  ELSE LET ns == CaughtBy(Head(k), id)
           first == CHOOSE n \in ns : \A m \in ns : n <= m
       IN IF ns = {} THEN ToHandler(Tail(k), id)
          ELSE Head(k).try.handlers[first].body \o Tail(k)

(* One step: env maps variables to integers, k is what is left to do.      *)
Step(env, k) ==
  LET s == Head(k)
      rest == Tail(k)
      then(e, l) == [env |-> e, k |-> l, value |-> OutOfFuel]
      raise(id) == [env |-> env, k |-> ToHandler(rest, id), value |-> Raised(id)]
  IN CASE s.is = "assign" -> then([env EXCEPT ![s.x] = Eval(s.e, env)], rest)
       [] s.is = "if" ->
            then(env, (IF Eval(s.test, env) # 0 THEN s.body ELSE s.orelse) \o rest)
       [] s.is = "while" ->
            then(env, IF Eval(s.test, env) = 0 THEN rest
                      ELSE s.body \o <<[is |-> "again", loop |-> s]>> \o rest)
       [] s.is = "again" -> then(env, <<s.loop>> \o rest)
       [] s.is = "for" ->
            then(env, <<Iterate(s.x, Eval(s.start, env), Eval(s.stop, env),
                                Eval(s.step, env), s.body)>> \o rest)
       [] s.is = "iterate" ->
            IF Binary(IF s.step < 0 THEN "gt" ELSE "lt", s.next, s.stop) = 1
            THEN then([env EXCEPT ![s.x] = s.next],
                      s.body \o <<[s EXCEPT !.next = @ + s.step]>> \o rest)
            ELSE then(env, rest)
       [] s.is = "break" -> then(env, Tail(ToLoop(k)))
       [] s.is = "continue" -> then(env, ToLoop(k))
       [] s.is = "raise" -> raise(s.id)
       [] s.is = "try" -> then(env, s.body \o <<Guarded(s)>> \o rest)
       [] s.is = "guarded" -> then(env, s.try.orelse \o rest)
       [] s.is = "call" ->
            IF Eval(s.e, env) \in s.f.raises THEN raise(s.f.id)
            ELSE then([env EXCEPT ![s.x] = Eval(s.e, env)], rest)
       [] s.is = "return" -> [env |-> env, k |-> <<>>, value |-> Value(Eval(s.e, env))]
       [] s.is = "assert" /\ Eval(s.test, env) # 0 -> then(env, rest)
       [] s.is = "assert" /\ Eval(s.test, env) = 0 ->
            [env |-> env, k |-> <<>>, value |-> AssertionError]

(* What a call returns or raises, if fuel steps are enough.                *)
RECURSIVE Interpret(_, _, _)
Interpret(env, k, fuel) ==
  IF fuel = 0 THEN OutOfFuel
  ELSE LET c == Step(env, k)
       IN IF c.k = <<>> THEN c.value ELSE Interpret(c.env, c.k, fuel - 1)
=============================================================================
