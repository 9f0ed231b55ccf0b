----------------------------- MODULE MemoryCall -----------------------------
(***************************************************************************)
(* A function on data is built, verified and called: its code runs on      *)
(* blocks of memory, and beside it runs what its source means.  Nothing is *)
(* checked at run time but the index of a string; the verdict is all there *)
(* is.                                                                     *)
(***************************************************************************)
EXTENDS MemoryFormula, TypedMemory

CONSTANT Programs   \* records [params, body, inputs]

VARIABLES
  prog,     \* the program
  fn,       \* what it is compiled to, or None
  verdict,  \* what the verifier says of fn, or ""
  input,    \* the arguments of the call, or None
  m,        \* the machine that runs the call, or None
  pc,       \* the next instruction
  want,     \* what the call is to do
  walks,    \* the worlds of the formula that agree with the run so far
  doubts    \* history: what the run did that the verifier takes no account of

vars == <<prog, fn, verdict, input, m, pc, want, walks, doubts>>

None == [none |-> TRUE]
-----------------------------------------------------------------------------
(* Arguments: objects with their types, and the value of each parameter.   *)
(* The k-th object lies in the k-th block, as ctypes lays it out: a field  *)
(* at the first place behind the one before it that its alignment allows.  *)
RECURSIVE Natural(_, _)
Natural(Ts, k) ==
  LET end == Natural(Ts, k - 1) + Size(Ts[k - 1])
      fits == {n \in end..end + 7 : n % Align(Ts[k]) = 0}
  IN IF k = 1 THEN 0 ELSE CHOOSE n \in fits : \A o \in fits : n <= o

Inside(T, tree) ==
  CASE Kind(T) \in {"array", "buffer"} ->
         [i \in DOMAIN tree[2] |-> <<(i - 1) * Size(T[2]), T[2]>>]
    [] Kind(T) = "enum" ->
         SubSeq(<<<<0, <<"int", 1>>>>, <<ReadAt(T), Payload(T, tree[2][1][2])>>>>,
                1, Len(tree[2]))
    [] OTHER -> [i \in DOMAIN tree[2] |-> <<Natural(Parts(T), i), Parts(T)[i]>>]

Held(v) ==
  CASE v[1] = "node" -> Junk   \* not in one place
    [] v[1] \in {"at", "ptr"} -> Pointer(v[2], 0)
    [] v[1] = "null" -> Null
    [] OTHER -> v

RECURSIVE Lay(_, _, _, _)
Lay(bytes, T, tree, base) ==
  LET inside == Inside(T, tree)
      Part(acc, i) == Lay(acc, inside[i][2], tree[2][i], base + inside[i][1])
  IN IF tree[1] = "node" THEN FoldLeft(Part, bytes, [i \in DOMAIN tree[2] |-> i])
     ELSE [k \in DOMAIN bytes |->
             IF k - base \in 1..Width(T) THEN <<Held(tree), k - base>> ELSE bytes[k]]

WholeSize(T) == IF Kind(T) = "enum" THEN EnumSize(T) ELSE Size(T)

Memory(in) ==
  [k \in DOMAIN in.types |-> Lay(Unset(WholeSize(in.types[k])), in.types[k], in.objects[k], 0)]

\* Buffers come with a length, tensors with their dimensions, tuples in
\* registers.
Entry(f, in) ==
  LET T(k) == f.params[k].type
      by(kind) == {k \in DOMAIN f.params : Kind(T(k)) \in kind}
      m0 == Machine(f.types, Memory(in))
      Value(acc, k) == Set(acc, k, Held(in.args[k]))
      entered == FoldLeft(Value, m0, [k \in DOMAIN f.params |-> k])
  IN [entered EXCEPT
        !.buffer_lengths = [k \in by({"buffer"}) |-> Num(Len(in.objects[in.args[k][2]][2]))],
        !.tensor_dims = [k \in by({"tensor"}) |->
                           [i \in DOMAIN T(k)[3] |-> in.dims[T(k)[3][i]]]],
        !.unpacked = [k \in by({"ntuple", "tuple"}) |->
                        [i \in DOMAIN in.args[k][2] |-> Held(in.args[k][2][i])]]]

\* What the source is given: flattened tuples are values.
MeaningOf(f, in) ==
  Meaning(in.objects, [x \in {p.name : p \in Range(f.params)} |->
                         in.args[CHOOSE k \in DOMAIN f.params : f.params[k].name = x]])

-----------------------------------------------------------------------------
(* What Python finds after the call.                                       *)
RECURSIVE TreeAt(_, _, _, _)

Shown(mem, T, x) ==
  CASE Kind(T) = "bool" -> IF x \in {Num(0), Junk} THEN x ELSE Num(1)
    [] Kind(T) \in {"int", "str"} -> x
    [] ~IsAddress(x) -> Junk
    [] IsNull(x) -> Nothing
    [] IsPointer(T) -> <<"ptr", TreeAt(mem, T[2], x[2], x[3])>>
    [] Kind(T) = "list" ->
         <<"ptr", TreeAt(mem, <<"array", T[2], Len(mem[x[2]]) \div Size(T[2])>>, x[2], x[3])>>
    [] OTHER -> TreeAt(mem, T, x[2], x[3])

TreeAt(mem, T, block, off) ==
  LET Word(n) == ValueOf(SubSeq(mem[block], off + 1, off + n))
      tag == Word(1)
      Sub(at, P) == TreeAt(mem, P, block, off + at)
  IN CASE Kind(T) = "array" ->
            Node([i \in 1..T[3] |-> Sub((i - 1) * Size(T[2]), T[2])], "")
       [] Kind(T) = "enum" ->
            Node(<<tag>> \o IF tag[1] # "n" \/ Payload(T, tag[2]) = Unknown THEN <<>>
                            ELSE <<Sub(ReadAt(T), Payload(T, tag[2]))>>, T[2])
       [] HasFields(T) \/ Kind(T) = "tuple" ->
            Node([i \in DOMAIN Parts(T) |-> Sub(Natural(Parts(T), i), Parts(T)[i])],
                 IF Kind(T) = "tuple" THEN "" ELSE T[2])
       [] OTHER -> Shown(mem, T, Word(Width(T)))

\* A list is longer than it was.
TypeNow(mem, in, k) ==
  LET T == in.types[k]
  IN IF Kind(T) = "array" THEN <<"array", T[2], Len(mem[k]) \div Size(T[2])>> ELSE T

ReturnType == fn.types[fn.code[Len(fn.code)].a[1]]

Result ==
  IF InRegisters(ReturnType)
  THEN Node([i \in DOMAIN m.result |-> Shown(m.mem, Parts(ReturnType)[i], m.result[i])],
            IF Kind(ReturnType) = "tuple" THEN "" ELSE ReturnType[2])
  ELSE Shown(m.mem, ReturnType, m.result[1])

Left == [k \in DOMAIN input.types |-> TreeAt(m.mem, TypeNow(m.mem, input, k), k, 0)]

\* What the formula has for the value of v.
Observed(mm, v) ==
  LET T == mm.types[v]
      x == mm.values[v]
  IN CASE InRegisters(T) -> 1
       [] x = Junk -> -1000
       [] Kind(T) = "bool" -> IF x = Num(0) THEN 0 ELSE 1
       [] Kind(T) = "int" -> x[2]
       [] Kind(T) = "buffer" -> IntOf(mm.buffer_lengths[v])
       [] Kind(T) = "str" -> Len(x[2])
       [] IsNull(x) -> 0
       [] Kind(T) = "list" -> ListLength(mm, v)
       [] Kind(T) = "enum" -> IntOf(ValueOf(BytesAt(mm, x, 1)))
       [] OTHER -> 1

-----------------------------------------------------------------------------
Init ==
  /\ prog \in Programs
  /\ fn = None /\ verdict = "" /\ input = None /\ m = None /\ pc = 0
  /\ want = None /\ walks = {} /\ doubts = {}

Compile ==
  /\ fn = None
  /\ fn' = Build(prog)
  /\ UNCHANGED <<prog, verdict, input, m, pc, want, walks, doubts>>

(* verify_function.                                                        *)
Verify ==
  /\ fn # None /\ fn.error = "" /\ verdict = ""
  /\ verdict' = Verdict(fn)
  /\ UNCHANGED <<prog, fn, input, m, pc, want, walks, doubts>>

\* The arguments meet what the parameters' types say of them.
Allowed(f, mm) ==
  \A k \in DOMAIN f.params : LET p == f.params[k] IN
    IsRefined(p) => Observed(mm, k) \in p.where

Call ==
  /\ verdict = Proved /\ m = None
  /\ \E in \in prog.inputs :
       /\ input' = in
       /\ m' = Entry(fn, in)
       /\ Allowed(fn, m')
       /\ want' = FoldLeft(Meant, MeaningOf(fn, in), prog.body)
       /\ walks' = Entered(fn.params, in.dims,
                           [k \in DOMAIN fn.params |-> {Observed(m', k)}])
  /\ pc' = 1
  /\ UNCHANGED <<prog, fn, verdict, doubts>>

Running == m # None /\ m.outcome = "run"

(* One instruction, in the machine and in the formula.                     *)
Execute ==
  /\ Running
  /\ LET i == fn.code[pc]
         seen == IF i.op \in {"Return", "PointerStore"} THEN Unseen ELSE {Observed(m', i.d)}
     IN /\ doubts' = doubts \cup Doubts(m, i)
        /\ m' = Lowered(m, i)
        /\ walks' = IF doubts' # {} \/ m'.outcome \notin {"run", "done"} THEN {}
                    ELSE UNION {Follow(w, fn.types, i, seen) : w \in walks}
  /\ pc' = pc + 1
  /\ UNCHANGED <<prog, fn, verdict, input, want>>

Next == Compile \/ Verify \/ Call \/ Execute

Spec == Init /\ [][Next]_vars
-----------------------------------------------------------------------------
(* "Statically guarantees" that no access is out of bounds: an accepted     *)
(* function leaves no object, follows no null pointer and does not abort,  *)
(* nor does its source - unless the run did what the verifier takes no     *)
(* account of (Doubts).                                                    *)
Ended == m # None /\ m.outcome # "run"
InBounds == Ended /\ doubts = {} => m.outcome = "done" /\ want.ok

(* The formula of an accepted function has a world for every run: what it  *)
(* says of a load, through slices, stores, copies and constructors, is     *)
(* what the load finds.                                                    *)
FormulaFollows == m # None /\ m.outcome \in {"run", "done"} /\ doubts = {} => walks # {}

(* A call that ends returns what its source means and leaves its arguments *)
(* so, whatever refers to them twice - unless it stored a value of another *)
(* width or went through one of the slices and payloads of Misread.        *)
SameAsReference ==
  Ended /\ m.outcome = "done" /\ want.ok /\ doubts \cap Misread = {} =>
    /\ Result = Seen(want, want.v)
    /\ \A k \in DOMAIN Left : Left[k] = Seen(want, want.objects[k])
=============================================================================
