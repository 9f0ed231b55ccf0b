---------------------------- MODULE MCDecorators ----------------------------
(***************************************************************************)
(* Small programs for Decorators: call graphs of one to three generic      *)
(* functions, and overloaded functions, each with values that make keys    *)
(* and names meet.                                                         *)
(***************************************************************************)
EXTENDS Decorators

T == {"T"}
TU == {"T", "U"}
One == <<"int", 1>>
Less == <<"int", -1>>
Two == <<"int", 2>>
Float == <<"float">>
Row == <<"shape", <<2>>>>
LongRow == <<"shape", <<3>>>>
Table == <<"shape", <<2, 3>>>>
S(version) == <<"object", "S", version>>
Under == <<"object", "_S", 1>>

MCPartsOf ==
  [n \in {"f", "g", "h", "o", "add", "i32", "i64", "f32"} |-> <<Letters(n)>>]
    @@ "S" :> <<Letters("S")>> @@ "_S" :> <<Letters("S")>>
    @@ "f64" :> <<<<"f", 64>>>> @@ "add_f64" :> <<Letters("add"), <<"f", 64>>>>
MCInOrder == <<"T", "U", "V">>

Functions(typevars, calls, strict, values, again) ==
  [typevars |-> typevars, calls |-> calls, overloads |-> <<>>,
   strict |-> strict, values |-> values, again |-> again]

(* Two functions: f calls g, and f or g itself, or they call each other.   *)
Pairs ==
  {Functions([f |-> T, g |-> T], [f |-> c[1], g |-> c[2]], strict, v[1], v[2]) :
     c \in {<<<<"g">>, <<>>>>, <<<<"g", "f">>, <<>>>>, <<<<"g">>, <<"f">>>>,
            <<<<"g">>, <<"g">>>>},
     strict \in {{}, {"g"}, {"f", "g"}},
     v \in {<<{One, Less}, {}>>, <<{One, Two}, {"g"}>>, <<{Row, LongRow}, {}>>, <<{S(1), S(2)}, {"S"}>>,
            <<{Float}, {"f", "g"}>>}}

(* f calls g and h, g calls h.                                             *)
Chains ==
  {Functions([x \in {"f", "g", "h"} |-> T],
             [f |-> <<"g", "h">>, g |-> <<"h">>, h |-> <<>>], strict, {Two}, {}) :
     strict \in {{}, {"h"}}}

(* Two type variables, one of which the callee has, or another one.        *)
Variables ==
  {Functions([f |-> TU, g |-> g], [f |-> <<"g">>, g |-> <<>>], {"g"}, v[1], v[2]) :
     g \in {T, {"V"}}, v \in {<<{One, Table}, {}>>, <<{Float, Less}, {"g"}>>, <<{S(1), S(2)}, {"S"}>>}}

(* Names that run together: add_f64 for an f64, add for two; S and _S; one *)
(* variable for another.                                                   *)
Blends ==
  {Functions([f |-> TU, add |-> TU, add_f64 |-> T],
             [f |-> calls, add |-> <<>>, add_f64 |-> <<>>], {}, {Float}, {}) :
     calls \in {<<"add", "add_f64">>, <<"add_f64", "add">>}}
  \cup {Functions([f |-> T, g |-> T], [f |-> <<"g">>, g |-> <<>>], {}, {S(1), Under}, {}),
        Functions([f |-> T, h |-> {"U"}, g |-> TU], [f |-> <<"g">>, h |-> <<"g">>, g |-> <<>>],
                  {}, {One}, {})}

Pred(op, n) == [op |-> op, n |-> n]
Shows(type, pred, text) == [type |-> type, pred |-> pred, text |-> text, returns |-> type]
Typed(type, pred) == Shows(type, pred, pred)
Positive == Pred(">", 0)
NotPositive == Pred("<=", 0)
NoName == Pred("NameError", 0)

(* Overloads that a predicate tells apart, that one type shadows, and for  *)
(* objects; predicates whose numbers differ in their sign, one with a name *)
(* that is not defined, two that are written on one line, and two without  *)
(* a source, of which one returns another type.                            *)
Overloads ==
  {[typevars |-> <<>>, calls |-> <<>>, overloads |-> [o |-> list], strict |-> strict,
    values |-> {One, Less, Float, Row, S(1), S(2)}, again |-> {"o", "S"}] :
     list \in {<<Typed("i64", Positive), Typed("i64", NotPositive), Typed("S", NoPred)>>,
               <<Typed("i32", NoPred), Typed("i64", NoPred), Typed("f32", NoPred), Typed("S", NoPred)>>},
     strict \in {{}, {"o"}}}
  \cup
  {[typevars |-> <<>>, calls |-> <<>>, overloads |-> [o |-> list], strict |-> {"o"},
    values |-> {Two, Less, <<"int", 0>>}, again |-> {}] :
     list \in {<<Typed("i64", Pred(">", 1)), Typed("i64", Pred(">", -1)), Typed("i64", NoName)>>,
               <<Shows("i64", Positive, Positive), Shows("i64", NotPositive, Positive)>>,
               <<Shows("i64", Positive, NoText),
                 [Shows("i64", NotPositive, NoText) EXCEPT !.returns = "f64"]>>}}

(* "Currently Lirien matches overloads based on base type names."          *)
(* (test_overloading.py:184).  They are matched by their predicates too:   *)
(* MCDecorators_bases.cfg shows a call that a later overload answers.      *)
MatchedByBaseType ==
  Idle /\ asked # <<>> /\ IsCode(answer) /\ asked.fn \in Overloaded =>
    LET list == prog.overloads[asked.fn]
        based == {i \in DOMAIN list : list[i].type \in TypeNames(asked.args["x"])}
    IN answer.of.sig = list[CHOOSE i \in based : \A j \in based : i <= j]

MCPrograms == Pairs \cup Chains \cup Variables \cup Blends \cup Overloads
=============================================================================
