---------------------------- MODULE MemoryBuilder ----------------------------
(***************************************************************************)
(* CFGBuilder's visitors for data: attributes, subscripts, slices, stores, *)
(* constructors and destructuring (expressions/access.rs, assignments.rs,  *)
(* expressions/calls.rs), over functions without branches, and the removal *)
(* of dead code behind them.                                               *)
(*                                                                         *)
(* Expressions:  <<"name", x>>  <<"int", n>>  <<"text", s>>  <<"attr", e, f>> *)
(*   <<"at", e, indices>>  <<"key", e, k>>  <<"slice", e, low, high, step>> *)
(*   <<"new", T, args>>  <<"make", N, variant, args>>  <<"is", e, variant>> *)
(*   <<"as", e, variant>>  <<"len", e>>  <<"tuple", es>>  <<"list", T>>    *)
(*   <<"append", e, x>>  <<"concat", l, r>>  <<"negate", e>>; an absent    *)
(*   bound of a slice is Absent.                                           *)
(* Statements:  <<"assign", target, e>>  <<"do", e>>  <<"return", e>>.     *)
(* A function is [params: sequence of [name, type, allowed], body].        *)
(***************************************************************************)
EXTENDS DataLayout, SequencesExt, TLC

Absent == <<"absent">>

\* A builder: the instructions so far, the type of each value, the value of
\* each variable, the value of the expression just visited, an error if any.
Start(fn) ==
  [code |-> <<>>,
   types |-> [i \in DOMAIN fn.params |-> fn.params[i].type],
   vars |-> [x \in {fn.params[i].name : i \in DOMAIN fn.params} |->
               CHOOSE i \in DOMAIN fn.params : fn.params[i].name = x],
   v |-> 0, error |-> ""]

Failed(b, why) == [b EXCEPT !.error = why]
Then(b, F(_)) == IF b.error # "" THEN b ELSE F(b)
TypeOf(b) == b.types[b.v]
TypesOf(b, vs) == [i \in DOMAIN vs |-> b.types[vs[i]]]

\* next_value, push_inst! and set_type: an instruction has operands a, a
\* number n and a type ty, and its value has type T.
Emit(b, op, a, n, ty, T) ==
  LET d == Len(b.types) + 1
  IN [b EXCEPT !.code = Append(@, [op |-> op, d |-> d, a |-> a, n |-> n, ty |-> ty]),
               !.types = Append(@, T), !.v = d]

EmitInt(b, n) == Emit(b, "ConstInt", <<>>, n, Unknown, Int64)

\* The constants that instructions say a value is, and get_constant_int.
Constants(b, v) ==
  {b.code[i].n : i \in {j \in DOMAIN b.code :
                          b.code[j].op = "ConstInt" /\ b.code[j].d = v}}

KnownInts(b, v) ==
  Constants(b, v) \cup
  UNION {{-n : n \in Constants(b, b.code[i].a[1])} :
           i \in {j \in DOMAIN b.code : b.code[j].op = "Neg" /\ b.code[j].d = v}}

The(S) == CHOOSE x \in S : TRUE

RECURSIVE Visit(_, _)

\* Several expressions, from left to right: their values are b.vs.
VisitAll(b, es) ==
  LET Put(c, vs) == ("vs" :> Append(vs, c.v)) @@ c
      Add(c, e) == Put(Visit(c, e), c.vs)
  IN FoldLeft(Add, ("vs" :> <<>>) @@ b, es)

-----------------------------------------------------------------------------
(* access.rs                                                               *)

\* A field of the value just visited; pointers are followed first.
RECURSIVE Attribute(_, _)
Attribute(b, f) ==
  LET T == TypeOf(b)
      Deref == Emit(b, "PointerLoad", <<b.v>>, 0, Unknown, T[2])
      op == IF Kind(T) = "struct" /\ IsComposite(FieldType(T, f))
            THEN "StructOffset" ELSE "StructLoad"
  IN CASE f = "val" /\ IsPointer(T) /\ Kind(T[2]) # "struct" -> Deref
       [] f = "val" /\ ~IsPointer(T) /\ Kind(T) # "struct" -> b
       [] Kind(T) \in {"struct", "ntuple"} ->
            IF Has(Structs[T[2]], f)
            THEN Emit(b, op, <<b.v>>, FieldOffset(T, f), Unknown, FieldType(T, f))
            ELSE Failed(b, "AttributeNotFound")
       [] IsPointer(T) -> Attribute(Deref, f)
       [] OTHER -> Failed(b, "not a struct")

\* A tuple is indexed by a constant, which is looked up in the code.
TupleIndex(b, tuple, idx) ==
  LET parts == b.types[tuple][2]
      i == The(Constants(b, idx)) + 1
  IN CASE Constants(b, idx) = {} -> Failed(b, "index must be a constant")
       [] i \notin DOMAIN parts -> Failed(b, "index out of bounds")
       [] OTHER -> Emit(b, "TupleExtract", <<tuple>>, i, Unknown, parts[i])

LoadOf == [array |-> "ArrayLoad", buffer |-> "BufferLoad", list |-> "ListLoad",
           tensor |-> "TensorLoad", str |-> "StrIndex"]
StoreOf == [array |-> "ArrayStore", buffer |-> "BufferStore",
            list |-> "ListStore", tensor |-> "TensorStore"]

WrongRank(T, indices) == Kind(T) = "tensor" /\ Len(indices) # Len(T[3])

Subscript(b, indices) ==
  LET T == TypeOf(b)
      Load(c) ==
        CASE WrongRank(T, indices) -> Failed(c, "rank mismatch")
          [] Kind(T) = "tuple" -> TupleIndex(c, b.v, c.v)
          [] OTHER -> Emit(c, LoadOf[Kind(T)], <<b.v>> \o c.vs, 0, Unknown,
                           IF Kind(T) = "str" THEN T ELSE T[2])
  IN Then(VisitAll(b, indices), Load)

Key(b, k) ==
  LET T == TypeOf(b)
  IN IF Has(Structs[T[2]], k)
     THEN Emit(b, "StructLoad", <<b.v>>, FieldOffset(T, k), Unknown, FieldType(T, k))
     ELSE Failed(b, "key not found")

\* The number of elements of a slice whose bounds are constants.
SliceLength(low, high, step) ==
  CASE step > 0 /\ high > low -> (high - low + step - 1) \div step
    [] step < 0 /\ low > high -> (low - high - step - 1) \div (- step)
    [] OTHER -> 0

OrInt(e, n) == IF e = Absent THEN <<"int", n>> ELSE e

\* The end is evaluated for its constant alone.
ArraySlice(b, low, high, step) ==
  LET T == TypeOf(b)
      bounds == <<OrInt(low, 0), OrInt(high, T[3]), OrInt(step, 1)>>
      Cut(c, l, h, s) ==
        LET by == IF KnownInts(c, s) = {} THEN 1 ELSE The(KnownInts(c, s))
            ends == Constants(c, l) \X Constants(c, h)
            n == IF ends = {} THEN Dynamic
                 ELSE SliceLength(The(ends)[1], The(ends)[2], by)
        IN IF by = 0 THEN Failed(c, "step cannot be zero")
           ELSE Emit(c, "ArraySlice", <<b.v, l, s>>, 0, Unknown, <<"array", T[2], n>>)
  IN CASE Kind(T) \notin {"array", "buffer"} -> Failed(b, "no slices")
       [] high = Absent /\ (Kind(T) = "buffer" \/ T[3] = Dynamic) ->
            Failed(b, "slice end required")
       [] OTHER -> Then(VisitAll(b, bounds),
                        LAMBDA c : Cut(c, c.vs[1], c.vs[2], c.vs[3]))

StringSlice(b, low, high) ==
  LET bounds == <<OrInt(low, 0)>> \o IF high = Absent THEN <<>> ELSE <<high>>
      End(c) == IF high # Absent THEN c
                ELSE Emit(c, "StrLen", <<b.v>>, 0, Unknown, Int64)
      Cut(c) == Emit(c, "StrSlice", <<b.v, c.vs[1], c.v>>, 0, Unknown, <<"str">>)
  IN Then(VisitAll(b, bounds), LAMBDA c : Cut(End(c)))

Slice(b, low, high, step) ==
  IF Kind(TypeOf(b)) = "str" THEN StringSlice(b, low, high)
                             ELSE ArraySlice(b, low, high, step)

-----------------------------------------------------------------------------
(* assignments.rs                                                          *)

\* The variable a chain of attributes begins at, and where it leads to.
RECURSIVE Path(_, _)
Path(b, e) ==
  CASE e[1] = "name" ->
         [root |-> e[2], at |-> 0, type |-> b.types[b.vars[e[2]]], error |-> ""]
    [] e[1] = "attr" /\ e[3] = "val" -> Path(b, e[2])
    [] e[1] = "attr" ->
         LET p == Path(b, e[2])
         IN CASE p.error # "" -> p
              [] Kind(p.type) # "struct" -> [p EXCEPT !.error = "not a struct"]
              [] ~Has(Structs[p.type[2]], e[3]) ->
                   [p EXCEPT !.error = "AttributeNotFound"]
              [] OTHER -> [p EXCEPT !.at = @ + FieldOffset(p.type, e[3]),
                                    !.type = FieldType(p.type, e[3])]
    [] OTHER -> [root |-> "", at |-> 0, type |-> Unknown, error |-> "invalid path"]

RECURSIVE BaseOf(_)
BaseOf(e) == IF e[1] = "attr" THEN BaseOf(e[2]) ELSE e

Bind(b, x, v) == [b EXCEPT !.vars = (x :> v) @@ @]

\* The result of a store is the variable's new value, if its base is a name.
Rebind(b, base) == IF base[1] = "name" THEN Bind(b, base[2], b.v) ELSE b

RECURSIVE Assign(_, _, _)

StoreAt(b, base, indices, value) ==
  LET Store(c, T) ==
        IF WrongRank(T, indices) THEN Failed(c, "rank mismatch")
        ELSE Rebind(Emit(c, StoreOf[Kind(T)], c.vs \o <<value>>, 0, T[2], T), base)
  IN Then(VisitAll(b, <<base>> \o indices), LAMBDA c : Store(c, c.types[c.vs[1]]))

StoreKey(b, base, k, value) ==
  LET Store(c, T) ==
        IF Has(Structs[T[2]], k)
        THEN Rebind(Emit(c, "StructSet", <<c.v, value>>, FieldOffset(T, k),
                         FieldType(T, k), T), base)
        ELSE Failed(c, "AttributeNotFound")
  IN Then(Visit(b, base), LAMBDA c : Store(c, TypeOf(c)))

\* e[i].f = value: the struct is loaded, changed and stored back.
StoreInElement(b, target, value) ==
  LET f == target[3]
      Back(c) == Assign(c, target[2], c.v)
      Store(c, T) ==
        CASE Kind(T) # "struct" -> Failed(c, "expected struct base")
          [] ~Has(Structs[T[2]], f) -> Failed(c, "AttributeNotFound")
          [] OTHER -> Back(Emit(c, "StructSet", <<c.v, value>>, FieldOffset(T, f),
                                FieldType(T, f), T))
  IN Then(Visit(b, target[2]), LAMBDA c : Store(c, TypeOf(c)))

\* x.f.g = value: one store, at the sum of the offsets.
StoreOnPath(b, target, value) ==
  LET p == Path(b, target)
      root == b.vars[p.root]
      c == Emit(b, "StructSet", <<root, value>>, p.at, p.type, b.types[root])
  IN IF p.error # "" THEN Failed(b, p.error) ELSE Bind(c, p.root, c.v)

Destructure(b, targets, value) ==
  LET T == b.types[value]
      Part(c, i) ==
        IF Kind(T) = "tuple"
        THEN Emit(c, "TupleExtract", <<value>>, i, Unknown, T[2][i])
        ELSE Emit(c, "StructLoad", <<value>>, OffsetOf(Parts(T), i), Unknown, Parts(T)[i])
      Give(c, i) == Assign(c, targets[i], c.v)
      Take(c, i) == Then(c, LAMBDA d : Give(Part(d, i), i))
  IN CASE ~InRegisters(T) -> Failed(b, "cannot unpack a non-tuple")
       [] Len(targets) # Len(Parts(T)) -> Failed(b, "cannot unpack")
       [] OTHER -> FoldLeft(Take, b, [i \in DOMAIN targets |-> i])

Assign(b, target, value) ==
  CASE target[1] = "name" -> Bind(b, target[2], value)
    [] target[1] = "at" -> StoreAt(b, target[2], target[3], value)
    [] target[1] = "key" -> StoreKey(b, target[2], target[3], value)
    [] target[1] = "attr" /\ BaseOf(target)[1] = "at" -> StoreInElement(b, target, value)
    [] target[1] = "attr" -> StoreOnPath(b, target, value)
    [] target[1] = "tuple" -> Destructure(b, target[2], value)
    [] OTHER -> Failed(b, "unsupported target")

-----------------------------------------------------------------------------
(* calls.rs, literals.rs                                                   *)

NewObject(b, T, args) ==
  Then(VisitAll(b, args), LAMBDA c : Emit(c, "StructCreate", c.vs, 0, T, T))

\* What is to lie behind a pointer is put into a block of its own.
Boxed(b, T) ==
  IF Kind(T) # "ptr" THEN b
  ELSE LET Fill(p) ==
             [Emit(p, "PointerStore", <<p.v, b.v>>, 0, Unknown, Unknown) EXCEPT !.v = p.v]
       IN Fill(Emit(b, "Alloc", <<>>, 0, T[2], T))

\* Several arguments make a tuple of what they are, not of what is declared.
MakeTuple(b) ==
  Emit(b, "TupleCreate", b.vs, 0, Unknown, <<"tuple", TypesOf(b, b.vs)>>)

\* The argument is boxed where what is declared is behind a pointer.
Packed(b, T, args) ==
  LET Box(c, i) == IF Kind(T) = "tuple" /\ i <= Len(T[2]) THEN Boxed(c, T[2][i]) ELSE c
      Put(c, vs) == [c EXCEPT !.vs = Append(vs, c.v)]
      Add(c, i) == Put(Box(Visit(c, args[i]), i), c.vs)
  IN MakeTuple(FoldLeft(Add, ("vs" :> <<>>) @@ b, [i \in DOMAIN args |-> i]))

MakeEnum(b, N, variant, args) ==
  LET E == <<"enum", N>>
      tag == Tag(E, variant)
      T == Payload(E, tag)
      Make(c) == Emit(c, "EnumCreate", <<c.v>>, tag, E, E)
  IN CASE args = <<>> -> Emit(b, "EnumCreate", <<>>, tag, E, E)
       [] Len(args) = 1 -> Then(Boxed(Visit(b, args[1]), T), Make)
       [] OTHER -> Then(Packed(b, T, args), Make)

IsVariant(b, variant) ==
  IF Has(Enums[TypeOf(b)[2]], variant)
  THEN Emit(b, "EnumIsVariant", <<b.v>>, Tag(TypeOf(b), variant), Unknown, Bool)
  ELSE Failed(b, "unknown variant")

AsVariant(b, variant) ==
  IF Has(Enums[TypeOf(b)[2]], variant)
  THEN LET tag == Tag(TypeOf(b), variant)
       IN Emit(b, "EnumExtract", <<b.v>>, tag, Unknown, Payload(TypeOf(b), tag))
  ELSE Failed(b, "unknown variant")

\* e.append(x) assigns the longer list to e.
AppendTo(b, e, x) ==
  LET Longer(c) == [Assign(c, e, c.v) EXCEPT !.v = c.v]
      Extend(c, T) == IF Kind(T) # "list" THEN Failed(c, "unknown method")
                      ELSE Longer(Emit(c, "ListAppend", c.vs, 0, Unknown, T))
  IN Then(VisitAll(b, <<e, x>>), LAMBDA c : Extend(c, c.types[c.vs[1]]))

Length(b) ==
  LET T == TypeOf(b)
      LenOf == [buffer |-> "BufferLen", list |-> "ListLen", str |-> "StrLen"]
  IN CASE Kind(T) \in DOMAIN LenOf -> Emit(b, LenOf[Kind(T)], <<b.v>>, 0, Unknown, Int64)
       [] Kind(T) = "array" /\ T[3] # Dynamic -> EmitInt(b, T[3])
       [] OTHER -> Failed(b, "no length")

\* An addition of strings, once type propagation has seen their types.
Concat(b, l, r) ==
  Then(VisitAll(b, <<l, r>>),
       LAMBDA c : Emit(c, "StrConcat", c.vs, 0, Unknown, <<"str">>))

Visit(b, e) ==
  LET With(F(_)) == Then(Visit(b, e[2]), F)
  IN CASE b.error # "" -> b
       [] e[1] = "name" -> [b EXCEPT !.v = b.vars[e[2]]]
       [] e[1] = "int" -> EmitInt(b, e[2])
       [] e[1] = "negate" -> With(LAMBDA c : Emit(c, "Neg", <<c.v>>, 0, Unknown, TypeOf(c)))
       [] e[1] = "text" -> Emit(b, "ConstStr", <<>>, 0, <<"chars", e[2]>>, <<"str">>)
       [] e[1] = "attr" -> With(LAMBDA c : Attribute(c, e[3]))
       [] e[1] = "at" -> With(LAMBDA c : Subscript(c, e[3]))
       [] e[1] = "key" -> With(LAMBDA c : Key(c, e[3]))
       [] e[1] = "slice" -> With(LAMBDA c : Slice(c, e[3], e[4], e[5]))
       [] e[1] = "is" -> With(LAMBDA c : IsVariant(c, e[3]))
       [] e[1] = "as" -> With(LAMBDA c : AsVariant(c, e[3]))
       [] e[1] = "len" -> With(Length)
       [] e[1] = "new" -> NewObject(b, e[2], e[3])
       [] e[1] = "make" -> MakeEnum(b, e[2], e[3], e[4])
       [] e[1] = "tuple" -> Then(VisitAll(b, e[2]), MakeTuple)
       [] e[1] = "list" -> Emit(b, "ListCreate", <<>>, 0, e[2], <<"list", e[2]>>)
       [] e[1] = "append" -> AppendTo(b, e[2], e[3])
       [] e[1] = "concat" -> Concat(b, e[2], e[3])

Statement(b, s) ==
  CASE b.error # "" -> b
    [] s[1] = "assign" -> Then(Visit(b, s[3]), LAMBDA c : Assign(c, s[2], c.v))
    [] s[1] = "do" -> Visit(b, s[2])
    [] s[1] = "return" ->
         Then(Visit(b, s[2]), LAMBDA c : Emit(c, "Return", <<c.v>>, 0, Unknown, Unknown))

-----------------------------------------------------------------------------
(* dce.rs                                                                  *)

HasSideEffects(i) ==
  i.op \in {"ArrayStore", "BufferStore", "ListCreate", "ListAppend", "ListStore",
            "TensorStore", "StructSet", "Alloc", "PointerStore", "Return"}

\* What the kept instructions use, and what these uses are made of.
RECURSIVE Live(_, _)
Live(code, used) ==
  LET more == UNION {Range(i.a) : i \in {j \in Range(code) : j.d \in used}}
  IN IF more \subseteq used THEN used ELSE Live(code, used \cup more)

EliminateDeadCode(code) ==
  LET used == Live(code, UNION {Range(i.a) : i \in {j \in Range(code) : HasSideEffects(j)}})
  IN SelectSeq(code, LAMBDA i : HasSideEffects(i) \/ i.d \in used)

\* A function's code; later passes of the optimiser find nothing to change.
Build(fn) ==
  LET Finish(b) == [code |-> EliminateDeadCode(b.code), types |-> b.types,
                    error |-> b.error, params |-> fn.params]
  IN Finish(FoldLeft(Statement, Start(fn), fn.body))
=============================================================================
