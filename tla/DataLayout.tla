----------------------------- MODULE DataLayout -----------------------------
(***************************************************************************)
(* The types of Lirien's data and their place in memory (ir/types.rs,      *)
(* lower/signature.rs).  A type is a tuple that begins with its kind:      *)
(*   <<"int", bytes>>  <<"bool">>  <<"str">>  <<"list", T>>  <<"buffer", T>> *)
(*   <<"array", T, n>> (n = Dynamic: a pointer)  <<"tensor", T, dims>>     *)
(*   <<"struct", N>>  <<"tdict", N>>  <<"ntuple", N>>  <<"tuple", Ts>>     *)
(*   <<"ptr", T>>  <<"nptr", T>> (may be null)  <<"enum", N>>              *)
(***************************************************************************)
EXTENDS StructLayout

CONSTANTS
  Structs,   \* of each class: the sequence of its <<field, type>>
  Enums      \* of each enumeration: the sequence of its <<variant, type>>

Dynamic == -1
Int64 == <<"int", 8>>
Bool == <<"bool">>
Unknown == <<"unknown">>

Kind(T) == T[1]
IsNumber(T) == Kind(T) \in {"int", "bool"}
HasFields(T) == Kind(T) \in {"struct", "tdict", "ntuple"}
IsPointer(T) == Kind(T) \in {"ptr", "nptr"}
InRegisters(T) == Kind(T) \in {"ntuple", "tuple"}   \* passed flattened

\* is_composite: the value of such a type is an address.
IsComposite(T) ==
  \/ Kind(T) \in {"struct", "tdict", "ntuple", "tuple", "enum"}
  \/ Kind(T) = "array" /\ T[3] # Dynamic /\ ~IsNumber(T[2])

Column(pairs, k) == [i \in DOMAIN pairs |-> pairs[i][k]]
Position(pairs, name) == CHOOSE i \in DOMAIN pairs : pairs[i][1] = name
Has(pairs, name) == \E i \in DOMAIN pairs : pairs[i][1] = name

\* The types of what lies within a value of type T, one behind the other.
Parts(T) == IF Kind(T) = "tuple" THEN T[2] ELSE Column(Structs[T[2]], 2)

RECURSIVE Align(_), Size(_)

AlignsOf(Ts) == [i \in DOMAIN Ts |-> Align(Ts[i])]
SizesOf(Ts) == [i \in DOMAIN Ts |-> Size(Ts[i])]

Aligns(Ts) == Strictest(AlignsOf(Ts))

Align(T) ==
  CASE Kind(T) = "int" -> T[2]
    [] Kind(T) \in {"bool", "enum"} -> 1    \* enums are not in struct_layouts
    [] Kind(T) = "array" /\ T[3] # Dynamic -> Align(T[2])
    [] HasFields(T) \/ Kind(T) = "tuple" -> Aligns(Parts(T))
    [] OTHER -> 8

\* Where the k-th of values of types Ts begins.
OffsetOf(Ts, k) == Offsets(SizesOf(Ts), AlignsOf(Ts))[k]

Extent(Ts) == Room(SizesOf(Ts), AlignsOf(Ts))

Size(T) ==
  CASE Kind(T) = "int" -> T[2]
    [] Kind(T) = "bool" -> 1
    [] Kind(T) = "enum" -> 0                \* likewise
    [] Kind(T) = "array" /\ T[3] # Dynamic -> T[3] * Size(T[2])
    [] Kind(T) = "buffer" -> 16
    [] HasFields(T) \/ Kind(T) = "tuple" -> Extent(Parts(T))
    [] OTHER -> 8

FieldType(T, f) == Structs[T[2]][Position(Structs[T[2]], f)][2]
FieldOffset(T, f) == OffsetOf(Parts(T), Position(Structs[T[2]], f))

(* Enumerations: a tag of one byte, and the payload behind it.             *)
Payload(T, i) == Enums[T[2]][i][2]
Tag(T, variant) == Position(Enums[T[2]], variant)
Payloads(T) == Column(Enums[T[2]], 2)
PayloadAlign(T) == Aligns(Payloads(T))
EnumSize(T) ==
  RoundUp(RoundUp(1, PayloadAlign(T))
            + Largest({0} \cup {Size(Payload(T, i)) : i \in DOMAIN Enums[T[2]]}),
          PayloadAlign(T))

\* Where EnumCreate writes the payload, and where EnumExtract reads it.
WrittenAt(T, i) == RoundUp(1, Align(Payload(T, i)))
ReadAt(T) == RoundUp(1, PayloadAlign(T))

(* Values in registers (get_flattened_types, get_field_info)               *)
RECURSIVE Flat(_), Total(_, _)

Total(Ts, k) == IF k = 0 THEN 0 ELSE Total(Ts, k - 1) + Flat(Ts[k])

\* How many registers a value takes.
Flat(T) ==
  CASE InRegisters(T) -> Total(Parts(T), Len(Parts(T)))
    [] Kind(T) = "buffer" -> 2
    [] Kind(T) = "tensor" -> 1 + Len(T[3])
    [] OTHER -> 1

\* get_field_info walks over a flattened value with the offset `at` in
\* memory and the register `reg`, until `count` registers begin at `target`.
RECURSIVE FieldWalk(_, _, _, _, _), PartsWalk(_, _, _, _, _, _)

PartsWalk(Ts, k, target, count, at, reg) ==
  IF k > Len(Ts) THEN [found |-> FALSE, at |-> at, reg |-> reg]
  ELSE LET w == FieldWalk(Ts[k], target, count, at, reg)
       IN IF w.found THEN w
          ELSE PartsWalk(Ts, k + 1, target, count, w.at, w.reg)

FieldWalk(T, target, count, at0, reg) ==
  LET at == RoundUp(at0, Align(T))
  IN CASE at = target /\ Flat(T) = count ->
            [found |-> TRUE, at |-> at, reg |-> reg]
       [] InRegisters(T) -> PartsWalk(Parts(T), 1, target, count, at, reg)
       [] OTHER ->
            [found |-> FALSE,
             at |-> at + (IF Kind(T) = "tensor" THEN 8 + 8 * Len(T[3])
                                                ELSE Size(T)),
             reg |-> reg + Flat(T)]

\* The numbers and pointers a composite value consists of, as the verifier
\* copies them (get_leaf_offsets): pairs of offset and type.
RECURSIVE Leaves(_, _)

LeavesOf(Ts, base) ==
  UNION {Leaves(Ts[i], base + OffsetOf(Ts, i)) : i \in DOMAIN Ts}

Leaves(T, base) ==
  IF HasFields(T) \/ Kind(T) = "tuple" THEN LeavesOf(Parts(T), base)
                                       ELSE {<<base, T>>}
=============================================================================
