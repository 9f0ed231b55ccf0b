---------------------------- MODULE MemoryMachine ----------------------------
(***************************************************************************)
(* What an instruction on memory is lowered to (lower/memory.rs,           *)
(* lower/storage.rs, lower/tuples.rs), run on blocks of bytes.  A byte is  *)
(* <<x, k>>: the k-th of the value x stored there; a load finds x again    *)
(* where all its bytes lie side by side, and Junk where they do not.       *)
(* Strings cannot be changed and are values; the header of a list and its  *)
(* data are one block, which grows.                                        *)
(***************************************************************************)
EXTENDS MemoryBuilder

Num(n) == <<"n", n>>
Text(s) == <<"s", s>>
Junk == <<"junk">>
Pointer(block, off) == <<"p", block, off>>
Null == Pointer(0, 0)

IsAddress(x) == x[1] = "p"
IsNull(x) == IsAddress(x) /\ x[2] = 0
Plus(x, n) == IF IsAddress(x) THEN Pointer(x[2], x[3] + n) ELSE Junk

\* Memory that was never written holds no index that is within bounds.
IntOf(x) == IF x[1] = "n" THEN x[2] ELSE 1000

\* translate_type: what is not a number is held by its address.
Width(T) == IF IsNumber(T) THEN Size(T) ELSE 8

BytesOf(x, w) == [k \in 1..w |-> <<x, k>>]
Unset(n) == [k \in 1..n |-> <<Junk, 0>>]
ValueOf(bytes) ==
  IF bytes = BytesOf(bytes[1][1], Len(bytes)) THEN bytes[1][1] ELSE Junk

(* A machine: blocks and how often each was written; the maps of           *)
(* CodegenContext; by value, how often its block was written when the      *)
(* value was made; the slices that a store has made arrays again.          *)
Machine(types, mem) ==
  [types |-> types, mem |-> mem, version |-> [b \in DOMAIN mem |-> 0],
   values |-> <<>>, unpacked |-> <<>>, buffer_lengths |-> <<>>,
   array_strides |-> <<>>, tensor_dims |-> <<>>,
   seen |-> <<>>, rebased |-> {}, outcome |-> "run", result |-> <<>>]

Reaches(m, p, n) ==
  /\ IsAddress(p) /\ p[2] \in DOMAIN m.mem
  /\ p[3] >= 0 /\ p[3] + n <= Len(m.mem[p[2]])

Trap(m, why) == [m EXCEPT !.outcome = why]
Fault(m, p) == Trap(m, IF IsNull(p) THEN "null" ELSE "outside")
Unharmed(m, F(_)) == IF m.outcome # "run" THEN m ELSE F(m)

BytesAt(m, p, n) == SubSeq(m.mem[p[2]], p[3] + 1, p[3] + n)

Write(m, p, bytes) ==
  IF Reaches(m, p, Len(bytes))
  THEN [m EXCEPT !.version[p[2]] = @ + 1,
                 !.mem[p[2]] = [k \in DOMAIN @ |->
                                  IF k - p[3] \in DOMAIN bytes THEN bytes[k - p[3]] ELSE @[k]]]
  ELSE Fault(m, p)

\* The value of d is x.
Set(m, d, x) ==
  [m EXCEPT !.values = (d :> x) @@ @,
            !.seen = (d :> IF IsAddress(x) /\ ~IsNull(x) THEN m.version[x[2]] ELSE 0) @@ @]

\* The block that v points to was written through another value.
Stale(m, v) ==
  /\ v \in DOMAIN m.values
  /\ Reaches(m, m.values[v], 0)
  /\ m.seen[v] # m.version[m.values[v][2]]

\* The value of d is x, as old as what it was taken from.
SetLike(m, d, x, old, v) ==
  [Set(m, d, x) EXCEPT !.seen[d] = IF Stale(old, v) THEN -1 ELSE @]

NewBlock(m, n) ==
  [m EXCEPT !.mem = Append(@, Unset(n)), !.version = Append(@, 0)]
LastBlock(m) == Pointer(Len(m.mem), 0)

-----------------------------------------------------------------------------
(* storage.rs                                                              *)

\* store_recursive: where the registers of a flattened value go.
RECURSIVE Spread(_, _)
Spread(T, from) ==
  LET at == RoundUp(from, Align(T))
      Add(acc, P) == LET s == Spread(P, acc.end)
                     IN [pieces |-> acc.pieces \o s.pieces, end |-> s.end]
  IN IF InRegisters(T)
     THEN FoldLeft(Add, [pieces |-> <<>>, end |-> at], Parts(T))
     ELSE [pieces |-> <<[at |-> at, type |-> T]>>, end |-> at + Size(T)]

Copy(m, from, to, n) ==
  IF Reaches(m, from, n) THEN Write(m, to, BytesAt(m, from, n)) ELSE Fault(m, from)

StoreRegister(m, x, T, p) ==
  IF IsComposite(T) THEN Copy(m, x, p, Size(T)) ELSE Write(m, p, BytesOf(x, Width(T)))

\* store_to_memory, store_to_stack: a value is as wide as its own type.
StoreTo(m, v, p) ==
  LET T == m.types[v]
      pieces == Spread(T, 0).pieces
      Piece(acc, i) ==
        StoreRegister(acc, m.unpacked[v][i], pieces[i].type, Plus(p, pieces[i].at))
  IN IF v \in DOMAIN m.unpacked
     THEN FoldLeft(Piece, m, [i \in DOMAIN pieces |-> i])
     ELSE StoreRegister(m, m.values[v], T, p)

\* get_all_cl_values
Registers(m, v) ==
  IF InRegisters(m.types[v]) /\ v \in DOMAIN m.unpacked THEN m.unpacked[v]
                                                        ELSE <<m.values[v]>>

Unpack(m, d, regs) == [m EXCEPT !.unpacked = (d :> regs) @@ @]

RegistersOf(m, vs) == FlattenSeq([i \in DOMAIN vs |-> Registers(m, vs[i])])

\* A new block that holds the values vs one after the other.
InBlock(m, vs, size, Ts) ==
  LET b == NewBlock(m, size)
      Field(acc, i) == StoreTo(acc, vs[i], Plus(LastBlock(b), OffsetOf(Ts, i)))
  IN FoldLeft(Field, b, [i \in DOMAIN vs |-> i])

-----------------------------------------------------------------------------
(* memory.rs, tuples.rs                                                    *)

\* The address of a composite value, or the value at p; p was found with v.
LoadFrom(m, d, v, p) ==
  LET T == m.types[d]
  IN CASE IsComposite(T) -> SetLike(m, d, p, m, v)
       [] Reaches(m, p, Width(T)) -> Set(m, d, ValueOf(BytesAt(m, p, Width(T))))
       [] OTHER -> Fault(m, p)

\* A store through v, of which d is the result.  Only tensors convert to the
\* type of their elements.
StoreThrough(m, d, v, value, p) ==
  LET T == m.types[v]
      Same(s) == SetLike(s, d, m.values[v], m, IF Stale(m, value) THEN value ELSE v)
  IN Unharmed(CASE Kind(T) = "tensor" -> StoreRegister(m, m.values[value], T[2], p)
                [] Kind(T) = "list" ->
                     StoreRegister(m, m.values[value], m.types[value], p)
                [] OTHER -> StoreTo(m, value, p),
              Same)

ElementSize(m, v) == Size(m.types[v][2])
StrideOf(m, v) == IF v \in DOMAIN m.array_strides THEN IntOf(m.array_strides[v]) ELSE 1

\* The address of an element; a tensor's indices are row by row.
RowMajor(m, v, indices) ==
  LET dims == m.tensor_dims[v]
      Row(acc, i) == acc * dims[i] + IntOf(m.values[indices[i]])
  IN FoldLeft(Row, 0, [i \in DOMAIN indices |-> i])

ElementAt(m, v, indices, size) ==
  LET i == IF Kind(m.types[v]) = "tensor" THEN RowMajor(m, v, indices)
           ELSE IntOf(m.values[indices[1]]) * StrideOf(m, v)
  IN Plus(m.values[v], i * size)

\* What an array is known by besides its address; strides are forgotten.
Inherit(m, d, v) ==
  [m EXCEPT
     !.buffer_lengths = IF v \in DOMAIN @ THEN (d :> @[v]) @@ @ ELSE @,
     !.tensor_dims = IF v \in DOMAIN @ THEN (d :> @[v]) @@ @ ELSE @,
     !.rebased = IF v \in @ \cup DOMAIN m.array_strides THEN @ \cup {d} ELSE @]

LoadElement(m, i) ==
  LoadFrom(m, i.d, i.a[1], ElementAt(m, i.a[1], Tail(i.a), ElementSize(m, i.a[1])))

StoreElement(m, i) ==
  LET v == i.a[1]
      n == Len(i.a)
      size == IF i.op = "ListStore" THEN Size(m.types[i.a[n]]) ELSE ElementSize(m, v)
      p == ElementAt(m, v, SubSeq(i.a, 2, n - 1), size)
  IN Inherit(StoreThrough(m, i.d, v, i.a[n], p), i.d, v)

\* A slice begins at its start, whatever the stride of what it is a part of.
TakeSlice(m, i) ==
  LET v == i.a[1]
      p == Plus(m.values[v], IntOf(m.values[i.a[2]]) * ElementSize(m, v))
      step == StrideOf(m, v) * IntOf(m.values[i.a[3]])
  IN [SetLike(m, i.d, p, m, v) EXCEPT !.array_strides = (i.d :> Num(step)) @@ @]

ListLength(m, v) == Len(m.mem[m.values[v][2]]) \div ElementSize(m, v)

\* The items before the new one are taken to be as wide as it is.
AppendItem(m, i) ==
  LET list == m.values[i.a[1]]
      end == ListLength(m, i.a[1]) * Size(m.types[i.a[2]])
      longer == [m EXCEPT !.mem[list[2]] = @ \o Unset(ElementSize(m, i.a[1]))]
      s == StoreThrough(longer, i.d, i.a[1], i.a[2], Plus(list, end))
  IN IF IsNull(list) THEN Fault(m, list) ELSE s

CreateStruct(m, i) ==
  LET T == i.ty
      stale == \E v \in Range(i.a) : Stale(m, v)
      Made(s) == [Set(s, i.d, LastBlock(s)) EXCEPT !.seen[i.d] = IF stale THEN -1 ELSE @]
  IN IF Kind(T) = "ntuple" THEN Unpack(m, i.d, RegistersOf(m, i.a))
     ELSE Unharmed(InBlock(m, i.a, Size(T), Parts(T)), Made)

\* A field of a flattened value: the registers that get_field_info finds.
FieldRegisters(m, v, at, T) ==
  LET w == FieldWalk(m.types[v], at, Flat(T), 0, 0)
  IN SubSeq(m.unpacked[v], w.reg + 1, w.reg + Flat(T))

Extracted(m, d, regs) ==
  IF IsComposite(m.types[d]) THEN Unpack(m, d, regs) ELSE Set(m, d, regs[1])

LoadField(m, i) ==
  LET v == i.a[1]
  IN IF Kind(m.types[v]) = "ntuple"
     THEN Extracted(m, i.d, FieldRegisters(m, v, i.n, m.types[i.d]))
     ELSE LoadFrom(m, i.d, v, Plus(m.values[v], i.n))

CreateEnum(m, i) ==
  LET T == Payload(i.ty, i.n)
      v == i.a[1]
      Tagged(b) == Write(b, LastBlock(b), BytesOf(Num(i.n), 1))
      Place(b) == Plus(LastBlock(b), WrittenAt(i.ty, i.n))
      Put(b) == IF IsComposite(T) THEN Copy(b, m.values[v], Place(b), Size(T))
                ELSE Write(b, Place(b), BytesOf(m.values[v], Width(m.types[v])))
      Made(b) == SetLike(b, i.d, LastBlock(b), m, v)
      Filled(b) == IF i.a = <<>> THEN Set(b, i.d, LastBlock(b)) ELSE Unharmed(Put(b), Made)
  IN Filled(Tagged(NewBlock(m, EnumSize(i.ty))))

\* A match is a mask of ones.
TestVariant(m, i) ==
  LET p == m.values[i.a[1]]
  IN IF Reaches(m, p, 1)
     THEN Set(m, i.d, IF ValueOf(BytesAt(m, p, 1)) = Num(i.n) THEN Num(-1) ELSE Num(0))
     ELSE Fault(m, p)

CreateTuple(m, i) ==
  LET T == m.types[i.d]
      Made(s) == Unpack(Set(s, i.d, LastBlock(s)), i.d, RegistersOf(m, i.a))
  IN Unharmed(InBlock(m, i.a, Size(T), Parts(T)), Made)

Extract(m, i) ==
  LET v == i.a[1]
      Ts == Parts(m.types[v])
      first == Total(Ts, i.n - 1)
  IN IF v \in DOMAIN m.unpacked
     THEN Extracted(m, i.d, SubSeq(m.unpacked[v], first + 1, first + Flat(Ts[i.n])))
     ELSE LoadFrom(m, i.d, v, Plus(m.values[v], OffsetOf(Ts, i.n)))

Clamp(n, len) == IF n < 0 THEN 0 ELSE IF n > len THEN len ELSE n
SliceText(s, low, high) ==
  LET At(n) == Clamp(IF n < 0 THEN n + Len(s) ELSE n, Len(s))
  IN SubSeq(s, At(low) + 1, At(high))

OfString(m, i) ==
  LET X(k) == m.values[i.a[k]][2]
  IN CASE i.op = "StrLen" -> Set(m, i.d, Num(Len(X(1))))
       [] i.op = "StrConcat" -> Set(m, i.d, Text(X(1) \o X(2)))
       [] i.op = "StrSlice" -> Set(m, i.d, Text(SliceText(X(1), X(2), X(3))))
       [] X(2) \notin 0..Len(X(1)) - 1 -> Trap(m, "abort")
       [] OTHER -> Set(m, i.d, Text(<<X(1)[X(2) + 1]>>))

InNewBlock(m, d, n) ==
  LET Point(b) == Set(b, d, LastBlock(b)) IN Point(NewBlock(m, n))

\* One instruction.
Lowered(m, i) ==
  CASE i.op = "ConstInt" -> Set(m, i.d, Num(i.n))
    [] i.op = "Neg" -> Set(m, i.d, Num(- IntOf(m.values[i.a[1]])))
    [] i.op = "ConstStr" -> Set(m, i.d, Text(i.ty[2]))
    [] i.op \in {"ArrayLoad", "BufferLoad", "TensorLoad", "ListLoad"} ->
         LoadElement(m, i)
    [] i.op \in {"ArrayStore", "BufferStore", "TensorStore", "ListStore"} -> StoreElement(m, i)
    [] i.op = "ArraySlice" -> TakeSlice(m, i)
    [] i.op = "BufferLen" -> Set(m, i.d, m.buffer_lengths[i.a[1]])
    [] i.op = "ListCreate" -> InNewBlock(m, i.d, 0)
    [] i.op = "ListAppend" -> AppendItem(m, i)
    [] i.op = "ListLen" -> Set(m, i.d, Num(ListLength(m, i.a[1])))
    [] i.op = "StructCreate" -> CreateStruct(m, i)
    [] i.op = "StructLoad" -> LoadField(m, i)
    [] i.op = "StructOffset" ->
         SetLike(m, i.d, Plus(m.values[i.a[1]], i.n), m, i.a[1])
    [] i.op = "StructSet" ->
         StoreThrough(m, i.d, i.a[1], i.a[2], Plus(m.values[i.a[1]], i.n))
    [] i.op = "EnumCreate" -> CreateEnum(m, i)
    [] i.op = "EnumIsVariant" -> TestVariant(m, i)
    [] i.op = "EnumExtract" ->
         LoadFrom(m, i.d, i.a[1], Plus(m.values[i.a[1]], ReadAt(m.types[i.a[1]])))
    [] i.op = "Alloc" -> InNewBlock(m, i.d, Size(i.ty))
    [] i.op = "PointerLoad" -> LoadFrom(m, i.d, i.a[1], m.values[i.a[1]])
    [] i.op = "PointerStore" ->
         Unharmed(StoreTo(m, i.a[2], m.values[i.a[1]]),
                  LAMBDA s : SetLike(s, i.a[1], m.values[i.a[1]], m, i.a[1]))
    [] i.op = "TupleCreate" -> CreateTuple(m, i)
    [] i.op = "TupleExtract" -> Extract(m, i)
    [] i.op \in {"StrLen", "StrConcat", "StrSlice", "StrIndex"} -> OfString(m, i)
    [] i.op = "Return" -> [m EXCEPT !.outcome = "done", !.result = Registers(m, i.a[1])]

-----------------------------------------------------------------------------
(* Where the code promises less than it seems to: what an instruction does *)
(* that neither the checks nor the formula of the verifier take account of.*)
IsLoad(i) == i.op \in {"ArrayLoad", "BufferLoad", "TensorLoad", "ListLoad",
                       "StructLoad", "PointerLoad", "TupleExtract"}

ElementStored(m, i) ==
  CASE i.op \in {"ArrayStore", "BufferStore", "StructSet"} -> {<<i.a[Len(i.a)], i.ty>>}
    [] i.op \in {"ListStore", "ListAppend"} -> {<<i.a[Len(i.a)], m.types[i.a[1]][2]>>}
    [] i.op = "StructCreate" ->
         {<<i.a[k], Parts(i.ty)[k]>> : k \in DOMAIN i.a}
    [] i.op = "EnumCreate" /\ i.a # <<>> -> {<<i.a[1], Payload(i.ty, i.n)>>}
    [] OTHER -> {}

\* The elements of a slice, in its parent.
SliceIndices(m, i) ==
  LET n == m.types[i.d][3]
  IN {IntOf(m.values[i.a[2]]) + k * IntOf(m.values[i.a[3]]) : k \in 0..n - 1}

Doubt(m, i, why) ==
  LET v == i.a[1]
      T == m.types[v]
      D == m.types[i.d]
  IN CASE why = "stale" ->         \* read after a store under another name
            Stale(m, v) /\ (Kind(T) = "list" \/ (IsLoad(i) /\ ~IsComposite(D)))
       [] why = "width" ->         \* a value wider or narrower than its place
            \E s \in ElementStored(m, i) :
              ~IsComposite(s[2]) /\ Width(m.types[s[1]]) # Width(s[2])
       [] why = "unsized" ->       \* an array whose length no type tells
            i.op \in {"ArrayLoad", "ArrayStore"} /\ T[3] = Dynamic
       [] why = "end" ->           \* a slice that goes on behind its parent
            /\ i.op = "ArraySlice" /\ D[3] # Dynamic /\ T[3] # Dynamic
            /\ ~(SliceIndices(m, i) \subseteq 0..T[3] - 1)
       [] why = "restride" ->      \* a slice of a slice with a step
            i.op = "ArraySlice" /\ StrideOf(m, v) # 1
       [] why = "rebased" ->       \* a slice that was stored to
            i.op \in {"ArrayLoad", "ArrayStore", "ArraySlice"} /\ v \in m.rebased
       [] why = "unchecked" ->     \* p.val = x of a pointer that may be null
            i.op = "StructSet" /\ Kind(T) = "nptr"
       [] why = "offset" ->        \* a part whose formula is that of the whole
            /\ IsComposite(D)
            /\ \/ i.op = "StructOffset" /\ i.n # 0
               \/ i.op = "TupleExtract" /\ i.n # 1
               \/ i.op = "EnumExtract"
               \/ i.op = "StructLoad" /\ ~InRegisters(T)
       [] why = "aggregate" ->     \* a struct stored as if it were a number
            i.op = "StructSet" /\ IsComposite(i.ty)
       [] why = "untagged" ->      \* the payload of another variant
            i.op = "EnumExtract" /\ ValueOf(BytesAt(m, m.values[v], 1)) # Num(i.n)
       [] why = "payload" ->       \* a payload that is not read where it is written
            i.op = "EnumExtract" /\ WrittenAt(T, i.n) # ReadAt(T)
       [] why = "text" ->          \* bounds of a string beyond it
            /\ i.op = "StrSlice"
            /\ LET len == Len(m.values[v][2])
                   low == m.values[i.a[2]][2]
                   high == m.values[i.a[3]][2]
               IN ~(low \in 0..len /\ high \in 0..len)

Reasons == {"stale", "width", "unsized", "end", "restride", "rebased", "unchecked",
            "offset", "aggregate", "untagged", "payload", "text"}

\* Those after which the machine itself does not do what the source says.
Misread == {"width", "restride", "rebased", "payload"}

Doubts(m, i) == IF i.a = <<>> THEN {} ELSE {why \in Reasons : Doubt(m, i, why)}
=============================================================================
