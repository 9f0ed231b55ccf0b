----------------------------- MODULE TypedMemory -----------------------------
(***************************************************************************)
(* What a function on data means, without layouts, addresses or            *)
(* instructions: objects are trees, and whatever refers to a part of one   *)
(* knows the way to it.  Structs, tuples and arrays that lie in memory are *)
(* views of it, as they are in ctypes; storing one copies it; slices are   *)
(* views ("zero-copy"); tuples and strings otherwise are values.           *)
(*                                                                         *)
(* Trees:   numbers and texts, <<"node", trees, class>>                    *)
(* Values:  numbers and texts, <<"null">>, <<"at", object, path>>,         *)
(*          <<"ptr", object, path>>, <<"view", object, path, positions>>,  *)
(*          <<"tuple", values, class>>                                     *)
(***************************************************************************)
EXTENDS MemoryBuilder

Number(n) == <<"n", n>>
Node(trees, class) == <<"node", trees, class>>
Nothing == <<"null">>

\* The meaning so far: objects, variables, the value of the expression just
\* evaluated, and whether an access went out of bounds.
Meaning(objects, names) == [objects |-> objects, vars |-> names, v |-> Nothing, ok |-> TRUE]

RECURSIVE At(_, _), Put(_, _, _)
At(tree, path) == IF path = <<>> THEN tree ELSE At(tree[2][Head(path)], Tail(path))
Put(tree, path, x) ==
  IF path = <<>> THEN x
  ELSE Node([tree[2] EXCEPT ![Head(path)] = Put(@, Tail(path), x)], tree[3])

TreeOf(r, ref) == At(r.objects[ref[2]], ref[3])

\* What a place holds: a part of an object, or the value that it contains.
Read(r, object, path) ==
  LET tree == At(r.objects[object], path)
  IN [r EXCEPT !.v = IF tree[1] = "node" THEN <<"at", object, path>> ELSE tree]

\* What a place holds after v is stored there.
RECURSIVE Contents(_, _)
Contents(r, v) ==
  CASE v[1] = "at" -> TreeOf(r, v)
    [] v[1] = "tuple" -> Node([i \in DOMAIN v[2] |-> Contents(r, v[2][i])], v[3])
    [] OTHER -> v

Update(r, object, path, v) ==
  [r EXCEPT !.objects[object] = Put(@, path, Contents(r, v))]

NewObjectOf(r, tree, kind) ==
  [r EXCEPT !.objects = Append(@, tree), !.v = <<kind, Len(r.objects) + 1, <<>>>>]

Outside(r) == [r EXCEPT !.ok = FALSE]

RECURSIVE Evaluate(_, _)

EvaluateAll(r, es) ==
  LET Add(acc, e) == LET s == Evaluate(acc.r, e) IN [r |-> s, vs |-> Append(acc.vs, s.v)]
  IN FoldLeft(Add, [r |-> r, vs |-> <<>>], es)

Field(class, f) == Position(Structs[class], f)

ReadField(r, f) ==
  LET v == r.v
      class == IF v[1] = "tuple" THEN v[3] ELSE TreeOf(r, v)[3]
  IN CASE v = Nothing -> Outside(r)
       [] v[1] = "ptr" /\ f = "val" -> Read(r, v[2], v[3])
       [] v[1] = "tuple" -> [r EXCEPT !.v = v[2][Field(class, f)]]
       [] OTHER -> Read(r, v[2], Append(v[3], Field(class, f)))

\* The elements of a view, by their positions in the array it looks at.
Positions(r, v) ==
  IF v[1] = "view" THEN v[4] ELSE [i \in DOMAIN TreeOf(r, v)[2] |-> i]

\* One place from indices, counted from zero; a tensor has rows of rows.
RECURSIVE PlaceOf(_, _, _)
PlaceOf(r, v, indices) ==
  LET ps == Positions(r, v)
      n == indices[1][2] + 1
      part == <<"at", v[2], Append(v[3], ps[n])>>
  IN IF n \notin DOMAIN ps THEN Nothing
     ELSE IF Len(indices) = 1 THEN part ELSE PlaceOf(r, part, Tail(indices))

ReadElement(r, v, indices) ==
  LET i == indices[1][2] + 1
      p == PlaceOf(r, v, indices)
  IN CASE v[1] = "s" ->
         IF i \in DOMAIN v[2] THEN [r EXCEPT !.v = <<"s", <<v[2][i]>>>>] ELSE Outside(r)
       [] v[1] = "tuple" -> [r EXCEPT !.v = v[2][i]]
       [] p = Nothing -> Outside(r)
       [] OTHER -> Read(r, p[2], p[3])

\* A negative bound counts from the end; then range(start, stop, step) over
\* what there is.
FromEnd(n, length) == IF n < 0 THEN n + length ELSE n

RECURSIVE Every(_, _, _)
Every(start, stop, step) ==
  IF (step > 0 /\ start >= stop) \/ (step < 0 /\ start <= stop) THEN <<>>
  ELSE <<start>> \o Every(start + step, stop, step)

CutFrom(s, low, high, step) ==
  LET ns == SelectSeq(Every(low, high, step), LAMBDA n : n + 1 \in DOMAIN s)
  IN [k \in DOMAIN ns |-> s[ns[k] + 1]]

EvaluateSlice(r, v, low, high, step) ==
  LET all == IF v[1] = "s" THEN v[2] ELSE Positions(r, v)
      Or(e, n) == IF e = Absent THEN <<"int", n>> ELSE e
      bounds == <<Or(low, 0), Or(high, Len(all)), Or(step, 1)>>
      Cut(n) == CutFrom(all, FromEnd(n[1][2], Len(all)), FromEnd(n[2][2], Len(all)), n[3][2])
      Part(s, n) == [s EXCEPT !.v = IF v[1] = "s" THEN <<"s", Cut(n)>>
                                    ELSE <<"view", v[2], v[3], Cut(n)>>]
      Sliced(x) == Part(x.r, x.vs)
  IN Sliced(EvaluateAll(r, bounds))

\* A payload that is declared to lie behind a pointer is an object of its own.
Box(r, v, T) ==
  IF Kind(T) = "ptr" THEN NewObjectOf(r, Contents(r, v), "ptr") ELSE [r EXCEPT !.v = v]

EvaluateVariant(r, N, variant, args) ==
  LET E == <<"enum", N>>
      tag == Tag(E, variant)
      T == Payload(E, tag)
      Boxes(acc, i) ==
        LET s == Evaluate(acc.r, args[i])
            b == Box(s, s.v, IF Len(args) = 1 THEN T ELSE T[2][i])
        IN [r |-> b, vs |-> Append(acc.vs, Contents(b, b.v))]
      all == FoldLeft(Boxes, [r |-> r, vs |-> <<>>], [i \in DOMAIN args |-> i])
      payload == IF Len(args) > 1 THEN <<Node(all.vs, "")>> ELSE all.vs
  IN NewObjectOf(all.r, Node(<<Number(tag)>> \o payload, N), "at")

\* An enumeration is a tag and, behind it, the payload of its variant.
IsOf(r, v, variant) ==
  LET tree == TreeOf(r, v)
  IN tree[2][1] = Number(Tag(<<"enum", tree[3]>>, variant))

Grow(r, list, v) ==
  LET tree == r.objects[list[2]]
  IN [r EXCEPT !.objects[list[2]] = Node(Append(tree[2], Contents(r, v)), tree[3]), !.v = list]

LengthOf(r, v) ==
  IF v[1] \in {"s", "tuple"} THEN Len(v[2]) ELSE Len(Positions(r, v))

Evaluate(r, e) ==
  LET With(F(_)) == LET s == Evaluate(r, e[2]) IN IF s.ok THEN F(s) ELSE s
      All(es, F(_)) == LET all == EvaluateAll(r, es) IN IF all.r.ok THEN F(all) ELSE all.r
      Second(s, F(_)) == LET x == Evaluate(s, e[3]) IN IF x.ok THEN F(x) ELSE x
  IN CASE ~r.ok -> r
       [] e[1] = "name" -> [r EXCEPT !.v = r.vars[e[2]]]
       [] e[1] = "int" -> [r EXCEPT !.v = Number(e[2])]
       [] e[1] = "text" -> [r EXCEPT !.v = <<"s", e[2]>>]
       [] e[1] = "negate" -> With(LAMBDA s : [s EXCEPT !.v = Number(- @[2])])
       [] e[1] \in {"attr", "key"} -> With(LAMBDA s : ReadField(s, e[3]))
       [] e[1] = "at" ->
            With(LAMBDA s : LET all == EvaluateAll(s, e[3])
                            IN IF all.r.ok THEN ReadElement(all.r, s.v, all.vs) ELSE all.r)
       [] e[1] = "slice" -> With(LAMBDA s : EvaluateSlice(s, s.v, e[3], e[4], e[5]))
       [] e[1] = "new" ->
            All(e[3], LAMBDA all :
                  LET tuple == <<"tuple", all.vs, e[2][2]>>
                  IN IF Kind(e[2]) = "ntuple" THEN [all.r EXCEPT !.v = tuple]
                     ELSE NewObjectOf(all.r, Contents(all.r, tuple), "at"))
       [] e[1] = "make" -> EvaluateVariant(r, e[2], e[3], e[4])
       [] e[1] = "is" ->
            With(LAMBDA s : [s EXCEPT !.v = Number(IF IsOf(s, @, e[3]) THEN 1 ELSE 0)])
       [] e[1] = "as" ->
            With(LAMBDA s : IF IsOf(s, s.v, e[3]) THEN Read(s, s.v[2], Append(s.v[3], 2))
                            ELSE Outside(s))
       [] e[1] = "len" -> With(LAMBDA s : [s EXCEPT !.v = Number(LengthOf(s, @))])
       [] e[1] = "tuple" ->
            All(e[2], LAMBDA all : [all.r EXCEPT !.v = <<"tuple", all.vs, "">>])
       [] e[1] = "list" -> NewObjectOf(r, Node(<<>>, ""), "ptr")
       [] e[1] = "append" -> With(LAMBDA s : Second(s, LAMBDA x : Grow(x, s.v, x.v)))
       [] e[1] = "concat" ->
            With(LAMBDA s : Second(s, LAMBDA x : [x EXCEPT !.v = <<"s", s.v[2] \o @[2]>>]))

-----------------------------------------------------------------------------
PartOf(r, v, i) ==
  IF v[1] = "tuple" THEN [r EXCEPT !.v = v[2][i]] ELSE Read(r, v[2], Append(v[3], i))

RECURSIVE Target(_, _, _)
Target(r, t, v) ==
  LET Give(q, i) == Target(q, t[2][i], q.v)
      One(acc, i) == Give(PartOf(acc, v, i), i)
      Place(s, p) == IF p = Nothing THEN Outside(s) ELSE Update(s, p[2], p[3], v)
      Element(all, of) ==
        IF all.r.ok THEN Place(all.r, PlaceOf(all.r, of, all.vs)) ELSE all.r
      Within(s) ==
        CASE ~s.ok \/ s.v = Nothing -> Outside(s)
          [] t[1] = "attr" /\ t[3] = "val" -> Update(s, s.v[2], s.v[3], v)
          [] t[1] \in {"attr", "key"} ->
               Update(s, s.v[2], Append(s.v[3], Field(TreeOf(s, s.v)[3], t[3])), v)
          [] OTHER -> Element(EvaluateAll(s, t[3]), s.v)
  IN CASE ~r.ok -> r
       [] t[1] = "name" -> [r EXCEPT !.vars = (t[2] :> v) @@ @]
       [] t[1] = "tuple" -> FoldLeft(One, r, [i \in DOMAIN t[2] |-> i])
       [] OTHER -> Within(Evaluate(r, t[2]))

Meant(r, s) ==
  CASE ~r.ok -> r
    [] s[1] = "assign" -> LET To(x) == Target(x, s[2], x.v) IN To(Evaluate(r, s[3]))
    [] OTHER -> Evaluate(r, s[2])

\* What a reader sees of a value, who follows every pointer.
RECURSIVE Seen(_, _)
Seen(r, v) ==
  CASE v[1] = "node" -> Node([i \in DOMAIN v[2] |-> Seen(r, v[2][i])], v[3])
    [] v[1] = "tuple" -> Node([i \in DOMAIN v[2] |-> Seen(r, v[2][i])], v[3])
    [] v[1] = "at" -> Seen(r, TreeOf(r, v))
    [] v[1] = "ptr" -> <<"ptr", Seen(r, TreeOf(r, v))>>
    [] OTHER -> v
=============================================================================
