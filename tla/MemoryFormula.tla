---------------------------- MODULE MemoryFormula ----------------------------
(***************************************************************************)
(* The verifier's formula of memory (verifier/memory.rs, tuples.rs) and    *)
(* what it refuses.  Each value has a number: an integer, the length of a  *)
(* buffer, list or string, the tag of an enumeration, or an address, 0 for *)
(* null and 1 for any other.  What lies in memory is an array of its own   *)
(* for each value that refers to it: what was stored, over a constant that *)
(* is `root`.  A world gives every constant of the formula a value as soon *)
(* as an instruction asks for it.                                          *)
(***************************************************************************)
EXTENDS MemoryMachine

CONSTANT Domain   \* the integers that constants range over

HasArray(T) == Kind(T) \in {"array", "ptr", "nptr", "struct", "tdict", "tuple", "tensor", "enum"}

\* init_values: what is asserted of every value of type T.
Admissible(T, n) ==
  CASE Kind(T) \in {"int", "array", "tuple", "ntuple", "nptr"} -> TRUE
    [] Kind(T) = "bool" -> n \in {0, 1}
    [] Kind(T) \in {"buffer", "list", "str"} -> n >= 0
    [] Kind(T) = "enum" -> n \in DOMAIN Enums[T[2]]
    [] OTHER -> n # 0

\* The numbers to try for a value that nothing else determines.
Possible(T) ==
  LET ns == IF Kind(T) \in {"int", "buffer", "list", "str"} THEN Domain
            ELSE IF Kind(T) = "enum" THEN DOMAIN Enums[T[2]] ELSE {0, 1}
  IN {n \in ns : Admissible(T, n)}

Constant(root) == [root |-> root, over |-> <<>>]
Stored(a, at, x) == [a EXCEPT !.over = (at :> x) @@ @]

\* What lies at `at`: a known number <<"n", k>> or a cell <<"c", root, at>>.
Select(a, at) == IF at \in DOMAIN a.over THEN a.over[at] ELSE <<"c", a.root, at>>
Known(n) == <<"n", n>>
Free == <<"free">>

\* In world w the value d, one of xs, equals what was selected, or is Free.
Define(w, d, T, xs, what) ==
  LET here == IF what[1] = "c" THEN <<what[2], what[3]>> ELSE <<>>
      fits == {x \in xs : Admissible(T, x) /\
                 CASE what[1] = "n" -> x = what[2]
                   [] here \in DOMAIN w.cells -> x = w.cells[here]
                   [] OTHER -> TRUE}
      With(x) ==
        [w EXCEPT !.bv = (d :> x) @@ @,
                  !.arr = IF HasArray(T) THEN (d :> Constant(d)) @@ @ ELSE @,
                  !.cells = IF what[1] = "c" THEN (here :> x) @@ @ ELSE @]
  IN {With(x) : x \in fits}

WithArray(ws, d, a) == {[w EXCEPT !.arr[d] = a] : w \in ws}

-----------------------------------------------------------------------------
(* Where an index leads, and the checks before it.                         *)
OffsetIn(w, v) == IF v \in DOMAIN w.offset THEN w.offset[v] ELSE 0
StepIn(w, v) == IF v \in DOMAIN w.stride THEN w.stride[v] ELSE 1

Dims(w, T) == [k \in DOMAIN T[3] |-> w.dims[T[3][k]]]

\* The index of the last dimension counts single elements.
Flattened(w, T, indices) ==
  LET dims == Dims(w, T)
      Inner(k) == FoldLeft(LAMBDA acc, n : acc * n, 1, SubSeq(dims, k + 1, Len(dims)))
  IN FoldLeft(LAMBDA acc, k : acc + w.bv[indices[k]] * Inner(k), 0,
              [k \in DOMAIN indices |-> k])

Place(w, types, v, indices) ==
  IF Kind(types[v]) = "tensor" THEN Flattened(w, types[v], indices)
  ELSE OffsetIn(w, v) + w.bv[indices[1]] * StepIn(w, v)

Within0_Closed(n, limit) == n >= 0 /\ n <= limit   \* mutant: the end is within

Within0(n, limit) == n >= 0 /\ n < limit

\* The places that an element's index is checked against, by kind of array.
InRange_(w, types, v, indices) ==
  LET T == types[v]
      n == w.bv[indices[1]]
  IN CASE Kind(T) = "array" -> T[3] # Dynamic => Within0(n, T[3])
       [] Kind(T) = "tensor" ->
            \A k \in DOMAIN indices : Within0(w.bv[indices[k]], Dims(w, T)[k])
       [] OTHER -> Within0(n, w.bv[v])

\* A slice of an array (a buffer has none in the formula) begins within it or
\* at its end, and its last element does not lie before it.
SliceInRange(w, types, i) ==
  LET T == types[i.a[1]]
      n == types[i.d][3]
      start == w.bv[i.a[2]]
  IN /\ Kind(T) = "array"
     /\ T[3] # Dynamic => start \in 0..T[3]
     /\ n > 0 => start + (n - 1) * w.bv[i.a[3]] >= 0

Safe(w, types, i) ==
  CASE i.op \in {"ArrayLoad", "BufferLoad", "TensorLoad", "ListLoad", "StrIndex"} ->
         InRange_(w, types, i.a[1], Tail(i.a))
    [] i.op \in {"ArrayStore", "BufferStore", "TensorStore", "ListStore"} ->
         InRange_(w, types, i.a[1], SubSeq(i.a, 2, Len(i.a) - 1))
    [] i.op = "ArraySlice" -> SliceInRange(w, types, i)
    [] i.op \in {"PointerLoad", "PointerStore"} -> w.bv[i.a[1]] # 0
    [] OTHER -> TRUE

-----------------------------------------------------------------------------
(* What an instruction asserts.                                            *)

\* The number or address that a value is known by in the formula.
Content(w, v) == Known(w.bv[v])

\* copy_composite: leaf by leaf from the array of v.
CopyLeaves(w, a, v, T, to) ==
  LET Leaf(acc, l) == Stored(acc, to + l[1], Select(w.arr[v], l[1]))
  IN IF v \in DOMAIN w.arr THEN FoldLeft(Leaf, a, SetToSeq(Leaves(T, 0))) ELSE a

Created(w, i) ==
  LET Ts == Parts(i.ty)
      Field(acc, k) ==
        IF IsComposite(Ts[k])
        THEN CopyLeaves(w, acc, i.a[k], Ts[k], OffsetOf(Ts, k))
        ELSE Stored(acc, OffsetOf(Ts, k), Content(w, i.a[k]))
  IN FoldLeft(Field, Constant(-i.d), [k \in DOMAIN i.a |-> k])

\* Where TupleExtract looks: the sizes before it are not aligned.
Unaligned(Ts, k) == FoldLeft(LAMBDA acc, T : acc + Size(T), 0, SubSeq(Ts, 1, k - 1))

\* What the new value equals.
Equal(w, types, i) ==
  LET v == i.a[1]
      rest == Tail(i.a)
  IN CASE i.op = "ConstInt" -> Known(i.n)
       [] i.op = "Neg" -> Known(- w.bv[v])
       [] i.op = "ConstStr" -> Known(Len(i.ty[2]))
       [] i.op \in {"ArrayLoad", "TensorLoad"} ->
            Select(w.arr[v], Place(w, types, v, rest))
       [] i.op \in {"BufferLen", "ListLen", "StrLen", "BufferStore", "ListStore"} -> Content(w, v)
       [] i.op = "ListCreate" -> Known(0)
       [] i.op = "ListAppend" -> Known(w.bv[v] + 1)
       [] i.op = "StructLoad" /\ Kind(types[v]) # "ntuple" -> Select(w.arr[v], i.n)
       [] i.op = "EnumCreate" -> Known(i.n)
       [] i.op = "EnumIsVariant" -> Known(IF w.bv[v] = i.n THEN 1 ELSE 0)
       [] i.op = "PointerLoad" /\ ~IsComposite(types[i.d]) -> Select(w.arr[v], 0)
       [] i.op = "TupleExtract" /\ ~IsComposite(types[i.d]) ->
            Select(w.arr[v], Unaligned(types[v][2], i.n))
       [] i.op = "StrConcat" -> Known(w.bv[v] + w.bv[i.a[2]])
       [] i.op = "StrIndex" -> Known(1)
       [] i.op = "StrSlice" ->
            Known(IF w.bv[i.a[3]] > w.bv[i.a[2]] THEN w.bv[i.a[3]] - w.bv[i.a[2]] ELSE 0)
       [] OTHER -> Free

\* What lies in memory behind the new value, if it is told.
Tells(types, i) ==
  LET part == \/ i.op = "EnumExtract"
              \/ i.op \in {"PointerLoad", "TupleExtract"} /\ IsComposite(types[i.d])
  IN \/ i.op \in {"ArrayStore", "TensorStore", "StructSet", "ArraySlice", "StructOffset"}
     \/ i.op = "StructCreate" /\ Kind(i.ty) # "ntuple"
     \/ i.op = "EnumCreate" /\ i.a # <<>>
     \/ part /\ HasArray(types[i.d])

Behind(w, types, i) ==
  LET v == i.a[1]
      n == Len(i.a)
  IN CASE i.op \in {"ArrayStore", "TensorStore"} ->
            Stored(w.arr[v], Place(w, types, v, SubSeq(i.a, 2, n - 1)), Content(w, i.a[n]))
       [] i.op = "StructSet" -> Stored(w.arr[v], i.n, Content(w, i.a[2]))
       [] i.op = "StructCreate" -> Created(w, i)
       [] i.op = "EnumCreate" ->
            CopyLeaves(w, Constant(-i.d), v, Payload(i.ty, i.n), WrittenAt(i.ty, i.n))
       [] OTHER -> w.arr[v]   \* the array of the whole, or of the pointer

\* A store through a pointer makes no new value: the pointer's array changes.
\* (No program stores a composite: the code asserts that it always lay there.)
StorePointer(w, i) == [w EXCEPT !.arr[i.a[1]] = Stored(@, 0, Content(w, i.a[2]))]

Sliced_Anew(w, i) ==   \* mutant: what is cut begins where the array does
  [w EXCEPT !.offset = (i.d :> w.bv[i.a[2]]) @@ @, !.stride = (i.d :> w.bv[i.a[3]]) @@ @]

\* A slice is the array itself, with an offset and a step; of its parent's
\* step nothing is left.
Sliced(w, i) ==
  [w EXCEPT !.offset = (i.d :> w.bv[i.a[2]] + OffsetIn(w, i.a[1])) @@ @,
            !.stride = (i.d :> w.bv[i.a[3]]) @@ @]

\* The worlds after an instruction, whose value is one of xs if it was seen.
Unseen == {}
Follow(w, types, i, xs) ==
  LET what == Equal(w, types, i)
      T == types[i.d]
      guesses == IF xs # Unseen THEN xs ELSE IF what[1] = "n" THEN {what[2]} ELSE Possible(T)
      ws == Define(w, i.d, T, guesses, what)
      told == IF Tells(types, i) THEN WithArray(ws, i.d, Behind(w, types, i)) ELSE ws
  IN CASE i.op = "Return" -> {w}
       [] i.op = "PointerStore" -> {StorePointer(w, i)}
       [] i.op = "ArraySlice" -> {Sliced(x, i) : x \in told}
       [] OTHER -> told

-----------------------------------------------------------------------------
(* Verification                                                            *)

\* Tensor dimensions of one name are one constant, and positive.
DimNames(params) ==
  UNION {IF Kind(p.type) = "tensor" THEN Range(p.type[3]) ELSE {} : p \in Range(params)}

World(dims) ==
  [bv |-> <<>>, arr |-> <<>>, cells |-> <<>>, offset |-> <<>>, stride |-> <<>>, dims |-> dims]

IsRefined(p) == p.where # {}

\* The worlds in which each parameter is one of xs[k], and meets its refinement.
Entered(params, dims, xs) ==
  LET Param(ws, k) ==
        LET p == params[k]
            ns == IF IsRefined(p) THEN xs[k] \cap p.where ELSE xs[k]
        IN UNION {Define(w, k, p.type, ns, Free) : w \in ws}
  IN FoldLeft(Param, {World(dims)}, [k \in DOMAIN params |-> k])

Proved == "proved"

\* Each check is made where it stands, over what was asserted before it; at
\* the end a function with refinements must have a world at all.
Verdict(fn) ==
  LET dims == [DimNames(fn.params) -> {n \in Domain : n > 0}]
      start == UNION {Entered(fn.params, d, [k \in DOMAIN fn.params |-> Possible(fn.params[k].type)]) :
                        d \in dims}
      Check(acc, i) ==
        CASE acc.verdict # Proved -> acc
          [] \E w \in acc.worlds : ~Safe(w, fn.types, i) -> [acc EXCEPT !.verdict = i.op]
          [] OTHER -> [acc EXCEPT !.worlds =
                         UNION {Follow(w, fn.types, i, Unseen) : w \in @}]
      end == FoldLeft(Check, [worlds |-> start, verdict |-> Proved], fn.code)
      refined == \E p \in Range(fn.params) : IsRefined(p)
  IN IF end.verdict = Proved /\ refined /\ end.worlds = {} THEN "contradiction"
     ELSE end.verdict
=============================================================================
