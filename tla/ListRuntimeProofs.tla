-------------------------- MODULE ListRuntimeProofs --------------------------
(***************************************************************************)
(* Proofs about ListRuntime, for any number of lists, objects, threads and *)
(* elements and any first capacity.  ListRuntime implements GrowableLists: *)
(* every step of Python and of compiled code is an operation on sequences, *)
(* or none at all, whatever the memory goes through.                       *)
(***************************************************************************)
EXTENDS ListRuntime, SequenceTheorems, TLAPS

-----------------------------------------------------------------------------
(* The inductive invariant                                                 *)

\* Within an append there is room for the item, and nobody else is in one.
AppendsHaveRoom ==
  \A t \in Threads, h \in Headers :
    Appending(h, t) =>
      /\ header[h].data # Null
      /\ header[h].len < header[h].cap
      /\ \A u \in Threads : Appending(h, u) => u = t

\* A view's block was allocated; while it is the list's, the element exists.
ViewsMeanElements ==
  \A t \in Threads \cup {Python} :
    view[t] # Null => /\ ~Unused(view[t].block)
                      /\ Current(t) => view[t].at < header[view[t].header].len

\* A buffer that an object keeps is no other list's block.
BuffersAreOwn ==
  \A o \in Objects : object[o] # Null =>
    \A b \in object[o].buffers :
      /\ ~Unused(b)
      /\ \A h \in Headers : header[h].data = b => h = object[o].header

\* Whoever names a list names one that exists.
NamesExist ==
  /\ \A h \in Headers : ~Exists(h) => header[h].data = Null /\ header[h].len = 0
  /\ \A o \in Objects : object[o] # Null => Exists(object[o].header)
  /\ \A t \in Threads :
       call[t] # Null =>
         /\ call[t].header # Null => Exists(call[t].header)
         /\ call[t].header = Null => call[t].item = Null
  /\ \A t \in Threads \cup {Python} :
       view[t] # Null => Exists(view[t].header)

Live(h) == header[h].owner \in {"python", "native"}

\* What the rules of use keep true.
ObjectsInOrder ==
  \A o \in Objects : object[o] # Null =>
    /\ Live(object[o].header)
    /\ object[o].owns => header[object[o].header].owner = "python"
    /\ ~object[o].owns => object[o].buffers = {}

CallsInOrder ==
  \A t \in Threads, h \in Headers : InCall(h, t) =>
    Live(h) /\ \A u \in Threads : InCall(h, u) => u = t

ViewsInOrder ==
  \A t \in Threads \cup {Python} : view[t] # Null =>
    /\ Live(view[t].header)
    /\ Current(t)
    /\ t \in Threads => InCall(view[t].header, t)

BlocksInOrder ==
  \A h \in Headers : Live(h) /\ header[h].data # Null =>
    block[header[h].data].owner = header[h].owner

Order == ObjectsInOrder /\ CallsInOrder /\ ViewsInOrder /\ BlocksInOrder

PoliteInv == polite => Order /\ broken = "no"

Shape == /\ TypeOK
         /\ CapacityIsSize
         /\ AppendsHaveRoom
         /\ ViewsMeanElements
         /\ BuffersAreOwn
         /\ NamesExist

IInv == Shape /\ PoliteInv

-----------------------------------------------------------------------------
(* Blocks                                                                  *)

\* Lists that are not full fit the bound after they grow.
LEMMA NewCapBounds ==
  ASSUME NEW h \in Headers, TypeOK, CapacityIsSize, Full(h),
         header[h].len < MaxLen
  PROVE  /\ NewCap(h) \in 1 .. MaxCap
         /\ header[h].len < NewCap(h)
         /\ header[h].cap < NewCap(h)
<1>1. header[h].len \in Nat /\ header[h].cap \in Nat BY DEF TypeOK
<1> QED BY <1>1, ListConstants, SMT DEF NewCap, Full, MaxCap

LEMMA NoCellsType == NoCells \in Cells /\ DOMAIN NoCells = 0 .. -1
<1>1. NoCells \in [0 .. 0 - 1 -> Values \cup {Null}] BY SMT DEF NoCells
<1>2. 0 \in 0 .. MaxCap BY ListConstants, SMT DEF MaxCap
<1>3. NoCells \in Cells BY <1>1, <1>2, Zenon DEF Cells
<1> QED BY <1>3 DEF NoCells

\* The cells of a block of size n.
LEMMA CellsShape ==
  ASSUME NEW n \in Nat, NEW c \in Cells, DOMAIN c = 0 .. n - 1
  PROVE  c \in [0 .. n - 1 -> Values \cup {Null}]
<1>1. PICK m \in 0 .. MaxCap : c \in [0 .. m - 1 -> Values \cup {Null}]
  BY DEF Cells
<1> QED BY <1>1

LEMMA CellsIntro ==
  ASSUME NEW n \in 0 .. MaxCap, NEW c \in [0 .. n - 1 -> Values \cup {Null}]
  PROVE  c \in Cells
BY DEF Cells

LEMMA StoreKeeps ==
  ASSUME NEW c \in Cells, NEW i, NEW v \in Values \cup {Null}
  PROVE  [c EXCEPT ![i] = v] \in Cells /\ DOMAIN [c EXCEPT ![i] = v] = DOMAIN c
<1>1. PICK m \in 0 .. MaxCap : c \in [0 .. m - 1 -> Values \cup {Null}]
  BY DEF Cells
<1>2. [c EXCEPT ![i] = v] \in [0 .. m - 1 -> Values \cup {Null}] BY <1>1
<1> QED BY <1>1, <1>2, CellsIntro

LEMMA CopyShape ==
  ASSUME NEW c, NEW kept, NEW n, kept \in Nat, n \in 0 .. MaxCap,
         kept = 0 \/ c \in [0 .. kept - 1 -> Values \cup {Null}]
  PROVE  /\ Copied(c, kept, n) \in Cells
         /\ DOMAIN Copied(c, kept, n) = 0 .. n - 1
         /\ \A i \in 0 .. n - 1 : i < kept => Copied(c, kept, n)[i] = c[i]
<1>0. n \in Nat BY ListConstants, SMT DEF MaxCap
<1>1. Copied(c, kept, n) \in [0 .. n - 1 -> Values \cup {Null}]
  <2> SUFFICES ASSUME NEW i \in 0 .. n - 1
               PROVE  (IF i < kept THEN c[i] ELSE Null) \in Values \cup {Null}
    BY DEF Copied
  <2>1. CASE i < kept
    <3>1. i \in 0 .. kept - 1 BY <2>1, <1>0, SMT
    <3>2. kept # 0 BY <2>1, <1>0, SMT
    <3> QED BY <3>1, <3>2, <2>1
  <2>2. CASE ~(i < kept) BY <2>2
  <2> QED BY <2>1, <2>2
<1>2. Copied(c, kept, n) \in Cells BY <1>1, CellsIntro
<1> QED BY <1>1, <1>2 DEF Copied

-----------------------------------------------------------------------------
(* Types                                                                   *)

LEMMA TypeInit == ASSUME Init PROVE TypeOK
<1>1. NoCells \in Cells BY NoCellsType
<1>2. header \in [Headers -> [owner : Owners, data : Blocks \cup {Null},
                              len : Nat, cap : Nat]]
  BY DEF Init, Owners
<1>3. block \in [Blocks -> [owner : Owners, cells : Cells]]
  BY <1>1 DEF Init, Owners
<1> QED BY <1>2, <1>3 DEF Init, TypeOK

\* The block of a list that has one, and its cells.
LEMMA CellsOfType ==
  ASSUME TypeOK, CapacityIsSize, NEW h \in Headers, header[h].data # Null
  PROVE  /\ header[h].data \in Blocks
         /\ CellsOf(h) \in Cells
         /\ CellsOf(h) \in [0 .. header[h].cap - 1 -> Values \cup {Null}]
<1>1. header[h].data \in Blocks /\ header[h].cap \in Nat BY DEF TypeOK
<1>2. CellsOf(h) \in Cells BY <1>1 DEF TypeOK, CellsOf
<1>3. DOMAIN CellsOf(h) = 0 .. header[h].cap - 1 BY DEF CapacityIsSize
<1> QED BY <1>1, <1>2, <1>3, CellsShape

\* What a full list copies when it grows.
LEMMA GrownCells ==
  ASSUME TypeOK, CapacityIsSize, NEW h \in Headers, Full(h),
         header[h].len < MaxLen,
         NEW c, c = (IF header[h].data = Null THEN NoCells ELSE CellsOf(h)),
         NEW kept, kept = header[h].cap
  PROVE  /\ Copied(c, kept, NewCap(h)) \in Cells
         /\ DOMAIN Copied(c, kept, NewCap(h)) = 0 .. NewCap(h) - 1
         /\ \A i \in 0 .. NewCap(h) - 1 :
              i < kept => Copied(c, kept, NewCap(h))[i] = c[i]
<1>1. NewCap(h) \in 0 .. MaxCap BY NewCapBounds, SMT
<1>2. kept \in Nat BY DEF TypeOK
<1>3. kept = 0 \/ c \in [0 .. kept - 1 -> Values \cup {Null}]
  <2>1. CASE header[h].data = Null BY <2>1 DEF CapacityIsSize
  <2>2. CASE header[h].data # Null BY <2>2, CellsOfType
  <2> QED BY <2>1, <2>2
<1> QED BY <1>1, <1>2, <1>3, CopyShape

\* The types of the two variables that hold memory.
HeaderType == header \in [Headers -> [owner : Owners, data : Blocks \cup {Null},
                                      len : Nat, cap : Nat]]
BlockType == block \in [Blocks -> [owner : Owners, cells : Cells]]
MemoryType == HeaderType /\ BlockType

LEMMA TypeHasMemory == TypeOK => MemoryType
BY DEF TypeOK, MemoryType, HeaderType, BlockType

\* A store into any block.
LEMMA StoreType ==
  ASSUME MemoryType, NEW b \in Blocks, NEW i, NEW v \in Values \cup {Null},
         block' = [block EXCEPT ![b].cells[i] = v]
  PROVE  BlockType'
<1>1. [block[b].cells EXCEPT ![i] = v] \in Cells
  BY StoreKeeps DEF MemoryType, BlockType
<1> QED BY <1>1 DEF MemoryType, BlockType

LEMMA GrowType ==
  ASSUME TypeOK, CapacityIsSize, NEW h \in Headers, Full(h),
         header[h].len < MaxLen, Grow(h)
  PROVE  MemoryType'
<1> DEFINE c == IF header[h].data = Null THEN NoCells ELSE CellsOf(h)
<1>1. Copied(c, header[h].cap, NewCap(h)) \in Cells BY GrownCells
<1>2. NewCap(h) \in Nat BY NewCapBounds, ListConstants, SMT DEF MaxCap
<1>3. NoCells \in Cells BY NoCellsType
<1>4. MemoryType BY TypeHasMemory
<1>8. ASSUME NEW d \in Blocks
      PROVE  Regrown(h, d, header[h].len) \in
               [owner : Owners, data : Blocks \cup {Null}, len : Nat, cap : Nat]
  BY <1>2, <1>4 DEF MemoryType, HeaderType, Regrown
<1> HIDE DEF c
<1>5. ASSUME NEW b \in Blocks, Allocate(h, b) PROVE MemoryType'
  <2>1. header[h].data = Null BY <1>5 DEF Allocate
  <2>2. header[h].cap = 0 BY <2>1 DEF CapacityIsSize
  <2>3. Copied(NoCells, 0, NewCap(h)) \in Cells BY <1>1, <2>1, <2>2 DEF c
  <2>4. HeaderType' BY <1>4, <1>5, <1>8 DEF Allocate, MemoryType, HeaderType
  <2>5. BlockType'
    BY <1>4, <1>5, <2>3 DEF Allocate, MemoryType, BlockType, Owners
  <2> QED BY <2>4, <2>5 DEF MemoryType
<1>6. ASSUME NEW b \in Blocks, Move(h, b) PROVE MemoryType'
  <2>1. header[h].data # Null /\ header[h].data \in Blocks
    BY <1>6, <1>4 DEF Move, MemoryType, HeaderType
  <2>2. Copied(CellsOf(h), header[h].cap, NewCap(h)) \in Cells
    BY <1>1, <2>1 DEF c
  <2>3. HeaderType' BY <1>4, <1>6, <1>8 DEF Move, MemoryType, HeaderType
  <2> DEFINE old == [owner |-> "freed", cells |-> NoCells]
             new == [owner |-> "native",
                     cells |-> Copied(CellsOf(h), header[h].cap, NewCap(h))]
  <2>4. /\ old \in [owner : Owners, cells : Cells]
        /\ new \in [owner : Owners, cells : Cells]
    BY <2>2, <1>3 DEF Owners
  <2>5. block' = [block EXCEPT ![header[h].data] = old, ![b] = new]
    BY <1>6 DEF Move
  <2> HIDE DEF old, new
  <2>6. BlockType' BY <2>4, <2>5, <1>4 DEF MemoryType, BlockType
  <2> QED BY <2>3, <2>6 DEF MemoryType
<1>7. ASSUME Extend(h) PROVE MemoryType'
  <2>1. header[h].data # Null /\ header[h].data \in Blocks
    BY <1>7, <1>4 DEF Extend, MemoryType, HeaderType
  <2>2. Copied(CellsOf(h), header[h].cap, NewCap(h)) \in Cells
    BY <1>1, <2>1 DEF c
  <2>3. HeaderType'
    BY <1>4, <1>7, <1>8, <2>1 DEF Extend, MemoryType, HeaderType
  <2>4. BlockType'
    BY <1>4, <1>7, <2>1, <2>2 DEF Extend, CellsOf, MemoryType, BlockType, Owners
  <2> QED BY <2>3, <2>4 DEF MemoryType
<1> QED BY <1>5, <1>6, <1>7 DEF Grow

\* The types of what names lists.
NamesType ==
  /\ object \in [Objects -> [header : Headers, owns : BOOLEAN,
                             buffers : SUBSET Blocks] \cup {Null}]
  /\ call \in [Threads -> [object : Objects \cup {Null},
                           header : Headers \cup {Null},
                           item : Values \cup {Null}] \cup {Null}]
  /\ view \in [Threads \cup {Python} -> Views \cup {Null}]

LEMMA TypeParts ==
  TypeOK <=> MemoryType /\ NamesType /\ broken \in Reasons \cup {"no"}
             /\ polite \in BOOLEAN
BY DEF TypeOK, MemoryType, HeaderType, BlockType, NamesType

LEMMA PyAppendType ==
  ASSUME TypeOK, CapacityIsSize, NEW o \in Objects, NEW v \in Values,
         PyAppend(o, v)
  PROVE  MemoryType' /\ NamesType'
<1> DEFINE h == object[o].header
<1>1. MemoryType /\ NamesType BY TypeParts
<1>2. object[o] # Null /\ h \in Headers /\ header[h].len < MaxLen
  BY <1>1 DEF PyAppend, NamesType
<1>3. CASE \E b \in Blocks : PyAppendGrow(o, h, v, b)
  <2>1. PICK b \in Blocks : PyAppendGrow(o, h, v, b) BY <1>3
  <2> DEFINE n == header[h].len
             c == IF header[h].data = Null THEN NoCells ELSE CellsOf(h)
             new == [Copied(c, n, NewCap(h)) EXCEPT ![n] = v]
  <2>2. Full(h) /\ n = header[h].cap BY <2>1 DEF PyAppendGrow, Full
  <2>3. Copied(c, n, NewCap(h)) \in Cells BY <1>2, <2>2, GrownCells
  <2>4. NewCap(h) \in Nat /\ n \in Nat
    BY <1>1, <1>2, <2>2, NewCapBounds, ListConstants, SMT
       DEF MaxCap, MemoryType, HeaderType
  <2>5. new \in Cells
    <3> HIDE DEF c, n
    <3> QED BY <2>3, StoreKeeps
  <2>6. block' = [block EXCEPT ![b] = [owner |-> "python", cells |-> new]]
    BY <2>1 DEF PyAppendGrow
  <2>7. /\ header' = [header EXCEPT ![h] = Regrown(h, b, n + 1)]
        /\ object' = [object EXCEPT ![o].buffers = @ \cup {b}]
    BY <2>1 DEF PyAppendGrow
  <2>11. Regrown(h, b, n + 1) \in [owner : Owners, data : Blocks \cup {Null},
                                   len : Nat, cap : Nat]
    BY <1>1, <1>2, <2>4 DEF MemoryType, HeaderType, Regrown
  <2> HIDE DEF new, n, h
  <2>8. HeaderType' BY <1>1, <1>2, <2>7, <2>11 DEF MemoryType, HeaderType
  <2>9. BlockType' BY <1>1, <2>5, <2>6 DEF MemoryType, BlockType, Owners
  <2>10. NamesType' BY <1>1, <1>2, <2>7 DEF NamesType, PyAppend
  <2> QED BY <2>8, <2>9, <2>10 DEF MemoryType
<1>4. CASE PyAppendInPlace(h, v)
  <2>1. header[h].data \in Blocks
    BY <1>1, <1>2, <1>4
       DEF MemoryType, HeaderType, PyAppendInPlace, Full, CapacityIsSize
  <2>2. BlockType' BY <1>1, <1>4, <2>1, StoreType DEF PyAppendInPlace
  <2>3. HeaderType'
    BY <1>1, <1>2, <1>4 DEF MemoryType, HeaderType, PyAppendInPlace
  <2>4. NamesType' BY <1>1, <1>4 DEF PyAppendInPlace, PyAppend, NamesType
  <2> QED BY <2>2, <2>3, <2>4 DEF MemoryType
<1> QED BY <1>3, <1>4 DEF PyAppend

LEMMA PyType ==
  ASSUME Shape, PyStep
  PROVE  MemoryType' /\ NamesType'
<1>1. MemoryType /\ NamesType /\ TypeOK /\ CapacityIsSize
  BY TypeParts DEF Shape
<1>2. PICK o \in Objects :
        \/ \E h \in Headers : PyNew(o, h)
        \/ \E v \in Values : PyAppend(o, v)
        \/ \E i \in PyIndices : \/ PyGet(o, i) \/ PyView(o, i)
                                \/ \E v \in Values : PySet(o, i, v)
        \/ PyLen(o) \/ PyDrop(o)
  BY DEF PyStep
<1>3. ASSUME NEW h \in Headers, PyNew(o, h) PROVE MemoryType' /\ NamesType'
  BY <1>1, <1>3
     DEF PyNew, MemoryType, HeaderType, BlockType, NamesType, Owners
<1>4. CASE \E v \in Values : PyAppend(o, v) BY <1>1, <1>4, PyAppendType
<1>5. ASSUME NEW i \in PyIndices, PyGet(o, i) PROVE MemoryType' /\ NamesType'
  BY <1>1, <1>5 DEF PyGet, MemoryType, HeaderType, BlockType, NamesType
<1>6. ASSUME NEW i \in PyIndices, PyView(o, i) PROVE MemoryType' /\ NamesType'
  <2> DEFINE h == object[o].header
             w == [header |-> h, block |-> header[h].data, at |-> PyIndex(h, i)]
  <2>1. h \in Headers /\ InRange(h, PyIndex(h, i))
    BY <1>1, <1>6 DEF PyView, NamesType
  <2>2. header[h].len \in Nat /\ i \in Int
    BY <1>1, <2>1, ListConstants, SMT
       DEF MemoryType, HeaderType, PyIndices
  <2>3. PyIndex(h, i) \in Nat
    BY <2>1, <2>2, SMT DEF InRange, PyIndex
  <2>4. header[h].data \in Blocks
    BY <1>1, <2>1, <2>2, <2>3
       DEF InRange, CapacityIsSize, MemoryType, HeaderType
  <2>5. w \in Views BY <2>1, <2>3, <2>4 DEF Views
  <2>6. view' = [view EXCEPT ![Python] = w] BY <1>6 DEF PyView
  <2> HIDE DEF w, h
  <2>7. NamesType' BY <1>1, <1>6, <2>5, <2>6 DEF NamesType, PyView
  <2>8. MemoryType' BY <1>1, <1>6 DEF PyView, MemoryType, HeaderType, BlockType
  <2> QED BY <2>7, <2>8
<1>7. ASSUME NEW i \in PyIndices, NEW v \in Values, PySet(o, i, v)
      PROVE  MemoryType' /\ NamesType'
  <2> DEFINE h == object[o].header
  <2>1. h \in Headers BY <1>1, <1>7 DEF PySet, NamesType
  <2>2. BlockType'
    <3>1. CASE InRange(h, PyIndex(h, i))
      <4>1. header[h].data \in Blocks
        <5>1. header[h].len \in Nat /\ i \in Int
          BY <1>1, <2>1, ListConstants, SMT
             DEF MemoryType, HeaderType, PyIndices
        <5>2. PyIndex(h, i) \in Int BY <5>1, SMT DEF PyIndex
        <5> QED BY <1>1, <2>1, <3>1, <5>1, <5>2, SMT
                DEF InRange, CapacityIsSize, MemoryType, HeaderType
      <4> QED BY <1>1, <1>7, <3>1, <4>1, StoreType DEF PySet
    <3>2. CASE ~InRange(h, PyIndex(h, i))
      BY <1>1, <1>7, <3>2 DEF PySet, MemoryType, BlockType
    <3> QED BY <3>1, <3>2
  <2> QED BY <1>1, <1>7, <2>2 DEF PySet, MemoryType, HeaderType, NamesType
<1>8. CASE PyLen(o)
  BY <1>1, <1>8 DEF PyLen, MemoryType, HeaderType, BlockType, NamesType
<1>9. CASE PyDrop(o)
  <2>1. HeaderType'
    BY <1>1, <1>9 DEF PyDrop, MemoryType, HeaderType, NamesType, Owners
  <2>2. BlockType'
    BY <1>1, <1>9 DEF PyDrop, MemoryType, BlockType, Owners
  <2>3. NamesType' BY <1>1, <1>9 DEF PyDrop, NamesType
  <2> QED BY <2>1, <2>2, <2>3 DEF MemoryType
<1> QED BY <1>2, <1>3, <1>4, <1>5, <1>6, <1>7, <1>8, <1>9

LEMMA NativeType ==
  ASSUME Shape, NativeStep
  PROVE  MemoryType' /\ NamesType'
<1>1. MemoryType /\ NamesType /\ TypeOK /\ CapacityIsSize
  BY TypeParts DEF Shape
<1>2. PICK t \in Threads :
        \/ EnterEmpty(t) \/ ReturnOther(t)
        \/ \E o \in Objects : Enter(t, o) \/ Return(t, o)
        \/ \E h \in Headers :
             \/ NativeNew(t, h) \/ EndAppend(t, h) \/ NativeLen(t, h)
             \/ \E v \in Values : BeginAppend(t, h, v)
             \/ \E i \in 0 .. MaxLen :
                  \/ NativeGet(t, h, i) \/ NativeView(t, h, i)
                  \/ \E v \in Values : NativeSet(t, h, i, v)
  BY DEF NativeStep
<1> DEFINE CallType(c) == c \in [object : Objects \cup {Null},
                                 header : Headers \cup {Null},
                                 item : Values \cup {Null}] \cup {Null}
           ObjectType(c) == c \in [header : Headers, owns : BOOLEAN,
                                   buffers : SUBSET Blocks] \cup {Null}
<1>a. ASSUME NEW c, CallType(c), call' = [call EXCEPT ![t] = c],
             UNCHANGED <<header, block, object, view>>
      PROVE  MemoryType' /\ NamesType'
  BY <1>1, <1>a DEF MemoryType, HeaderType, BlockType, NamesType
<1>b. ASSUME NEW o \in Objects, NEW c, ObjectType(c),
             object' = [object EXCEPT ![o] = c] \/ UNCHANGED object,
             call' = [call EXCEPT ![t] = Null],
             view' = [view EXCEPT ![t] = Null],
             UNCHANGED <<header, block>>
      PROVE  MemoryType' /\ NamesType'
  BY <1>1, <1>b DEF MemoryType, HeaderType, BlockType, NamesType
<1>3. CASE EnterEmpty(t) \/ ReturnOther(t)
  <2>1. CASE EnterEmpty(t)
    <3>1. CallType([object |-> Null, header |-> Null, item |-> Null]) OBVIOUS
    <3> HIDE DEF CallType
    <3> QED BY <1>a, <2>1, <3>1 DEF EnterEmpty
  <2>2. CASE ReturnOther(t)
    BY <1>1, <2>2
       DEF ReturnOther, MemoryType, HeaderType, BlockType, NamesType
  <2> QED BY <1>3, <2>1, <2>2
<1>4. ASSUME NEW o \in Objects, Enter(t, o) \/ Return(t, o)
      PROVE  MemoryType' /\ NamesType'
  <2>1. CASE Enter(t, o)
    <3>1. CallType([object |-> o, header |-> object[o].header, item |-> Null])
      BY <1>1, <2>1 DEF Enter, NamesType
    <3> HIDE DEF CallType
    <3> QED BY <1>a, <2>1, <3>1 DEF Enter
  <2>2. CASE Return(t, o)
    <3>1. ObjectType([header |-> call[t].header, owns |-> FALSE,
                      buffers |-> {}])
      BY <1>1, <2>2 DEF Return, NamesType
    <3> HIDE DEF ObjectType
    <3> QED BY <1>b, <2>2, <3>1 DEF Return
  <2> QED BY <1>4, <2>1, <2>2
<1>5. ASSUME NEW h \in Headers, NativeNew(t, h) PROVE MemoryType' /\ NamesType'
  <2>1. MemoryType' BY <1>1, <1>5
    DEF NativeNew, MemoryType, HeaderType, BlockType, Owners
  <2>2. NamesType' BY <1>1, <1>5 DEF NativeNew, NamesType
  <2> QED BY <2>1, <2>2
<1>6. ASSUME NEW h \in Headers, EndAppend(t, h) PROVE MemoryType' /\ NamesType'
  <2>1. header[h].data \in Blocks
    BY <1>1, <1>6 DEF EndAppend, Shape, AppendsHaveRoom, MemoryType, HeaderType
  <2>2. call[t].item \in Values BY <1>1, <1>6
    DEF EndAppend, Appending, InCall, NamesType
  <2>3. BlockType' BY <1>1, <1>6, <2>1, <2>2, StoreType DEF EndAppend
  <2>4. HeaderType' BY <1>1, <1>6 DEF EndAppend, MemoryType, HeaderType
  <2>5. NamesType' BY <1>1, <1>6
    DEF EndAppend, Appending, InCall, NamesType
  <2> QED BY <2>3, <2>4, <2>5 DEF MemoryType
<1>7. ASSUME NEW h \in Headers, NativeLen(t, h) PROVE MemoryType' /\ NamesType'
  BY <1>1, <1>7 DEF NativeLen, MemoryType, HeaderType, BlockType, NamesType
<1>8. ASSUME NEW h \in Headers, NEW v \in Values, BeginAppend(t, h, v)
      PROVE  MemoryType' /\ NamesType'
  <2>1. MemoryType'
    <3>1. CASE Full(h) BY <1>1, <1>8, <3>1, GrowType DEF BeginAppend
    <3>2. CASE ~Full(h)
      BY <1>1, <1>8, <3>2 DEF BeginAppend, MemoryType, HeaderType, BlockType
    <3> QED BY <3>1, <3>2
  <2>2. NamesType' BY <1>1, <1>8
    DEF BeginAppend, Running, InCall, NamesType
  <2> QED BY <2>1, <2>2
<1>9. ASSUME NEW h \in Headers, NEW i \in 0 .. MaxLen, NativeGet(t, h, i)
      PROVE  MemoryType' /\ NamesType'
  BY <1>1, <1>9 DEF NativeGet, MemoryType, HeaderType, BlockType, NamesType
<1>10. ASSUME NEW h \in Headers, NEW i \in 0 .. MaxLen, InRange(h, i)
       PROVE  i \in Nat /\ header[h].data \in Blocks
  BY <1>1, <1>10, ListConstants, SMT
     DEF InRange, CapacityIsSize, MemoryType, HeaderType
<1>11. ASSUME NEW h \in Headers, NEW i \in 0 .. MaxLen, NativeView(t, h, i)
       PROVE  MemoryType' /\ NamesType'
  <2> DEFINE w == [header |-> h, block |-> header[h].data, at |-> i]
  <2>1. w \in Views BY <1>10, <1>11 DEF NativeView, Views
  <2>2. view' = [view EXCEPT ![t] = w] BY <1>11 DEF NativeView
  <2> HIDE DEF w
  <2>3. NamesType' BY <1>1, <1>11, <2>1, <2>2 DEF NamesType, NativeView
  <2> QED BY <1>1, <1>11, <2>3
          DEF NativeView, MemoryType, HeaderType, BlockType
<1>12. ASSUME NEW h \in Headers, NEW i \in 0 .. MaxLen, NEW v \in Values,
              NativeSet(t, h, i, v)
       PROVE  MemoryType' /\ NamesType'
  <2>1. BlockType' BY <1>1, <1>10, <1>12, StoreType DEF NativeSet
  <2> QED BY <1>1, <1>12, <2>1 DEF NativeSet, MemoryType, HeaderType, NamesType
<1> QED BY <1>2, <1>3, <1>4, <1>5, <1>6, <1>7, <1>8, <1>9, <1>11, <1>12

LEMMA ViewType ==
  ASSUME Shape, NEW t \in Threads \cup {Python}, NEW v \in Values, ViewSet(t, v)
  PROVE  MemoryType' /\ NamesType'
<1>1. MemoryType /\ NamesType BY TypeParts DEF Shape
<1>2. view[t].block \in Blocks
  BY <1>1 DEF ViewSet, Holds, NamesType, Views
<1>3. BlockType' BY <1>1, <1>2, StoreType DEF ViewSet
<1> QED BY <1>1, <1>3 DEF ViewSet, MemoryType, HeaderType, NamesType

\* The rest of what a step may change.
LEMMA RulesType ==
  ASSUME TypeOK, Next
  PROVE  broken' \in Reasons \cup {"no"} /\ polite' \in BOOLEAN
<1>1. broken \in Reasons \cup {"no"} /\ polite \in BOOLEAN BY DEF TypeOK
<1>2. CASE PyStep /\ UNCHANGED broken
  BY <1>1, <1>2 DEF PyStep, PyNew, PyAppend, PyGet, PyView, PySet, PyLen,
                    PyDrop, Rules
<1>3. CASE NativeStep /\ UNCHANGED broken
  <2>1. \E ok : Rules(ok)
    <3>1. ASSUME NEW t \in Threads, EnterEmpty(t) \/ ReturnOther(t)
          PROVE  \E ok : Rules(ok)
      BY <3>1 DEF EnterEmpty, ReturnOther
    <3>2. ASSUME NEW t \in Threads, NEW o \in Objects,
                 Enter(t, o) \/ Return(t, o)
          PROVE  \E ok : Rules(ok)
      BY <3>2 DEF Enter, Return
    <3>3. ASSUME NEW t \in Threads, NEW h \in Headers,
                 NativeNew(t, h) \/ EndAppend(t, h) \/ NativeLen(t, h)
          PROVE  \E ok : Rules(ok)
      BY <3>3 DEF NativeNew, EndAppend, NativeLen
    <3>4. ASSUME NEW t \in Threads, NEW h \in Headers, NEW v \in Values,
                 BeginAppend(t, h, v)
          PROVE  \E ok : Rules(ok)
      BY <3>4 DEF BeginAppend
    <3>5. ASSUME NEW t \in Threads, NEW h \in Headers, NEW i \in 0 .. MaxLen,
                 NativeGet(t, h, i) \/ NativeView(t, h, i)
          PROVE  \E ok : Rules(ok)
      BY <3>5 DEF NativeGet, NativeView
    <3>6. ASSUME NEW t \in Threads, NEW h \in Headers, NEW i \in 0 .. MaxLen,
                 NEW v \in Values, NativeSet(t, h, i, v)
          PROVE  \E ok : Rules(ok)
      BY <3>6 DEF NativeSet
    <3> QED BY <1>3, <3>1, <3>2, <3>3, <3>4, <3>5, <3>6 DEF NativeStep
  <2> QED BY <1>1, <1>3, <2>1 DEF Rules
<1>4. CASE ViewStep /\ UNCHANGED broken
  BY <1>1, <1>4 DEF ViewStep, ViewSet, Rules
<1>5. CASE BrokenStep
  BY <1>1, <1>5 DEF BrokenStep, UseFreed, Race, StaleView, ForeignRealloc,
     Panic, Meaningless, Rules, Reasons
<1> QED BY <1>2, <1>3, <1>4, <1>5 DEF Next

\* A step without a meaning changes nothing but `broken` and `polite`.
LEMMA BrokenKeeps ==
  ASSUME BrokenStep
  PROVE  /\ UNCHANGED <<header, block, object, call, view, result>>
         /\ broken' # "no"
BY DEF BrokenStep, UseFreed, Race, StaleView, ForeignRealloc, Panic,
       Meaningless

LEMMA TypeStep == ASSUME Shape, [Next]_vars PROVE TypeOK'
<1>1. CASE Next
  <2>1. broken' \in Reasons \cup {"no"} /\ polite' \in BOOLEAN
    BY <1>1, RulesType DEF Shape
  <2>2. MemoryType' /\ NamesType'
    <3>1. CASE PyStep BY <3>1, PyType
    <3>2. CASE NativeStep BY <3>2, NativeType
    <3>3. CASE ViewStep BY <3>3, ViewType DEF ViewStep
    <3>4. CASE BrokenStep
      <4>1. MemoryType /\ NamesType BY TypeParts DEF Shape
      <4> QED BY <3>4, <4>1, BrokenKeeps
              DEF MemoryType, HeaderType, BlockType, NamesType
    <3> QED BY <1>1, <3>1, <3>2, <3>3, <3>4 DEF Next
  <2> QED BY <2>1, <2>2 DEF TypeOK, MemoryType, HeaderType, BlockType, NamesType
<1>2. CASE UNCHANGED vars BY <1>2 DEF vars, Shape, TypeOK
<1> QED BY <1>1, <1>2

-----------------------------------------------------------------------------
(* What the actions do to memory                                           *)

\* Nothing changes but the contents of some cell.
Stores ==
  /\ UNCHANGED header
  /\ \/ UNCHANGED block
     \/ \E b \in Blocks, i \in Int, v \in Values :
          block' = [block EXCEPT ![b].cells[i] = v]

\* A header comes into use.
Creates(h) ==
  /\ ~Exists(h) /\ UNCHANGED block
  /\ \E who \in {"python", "native"} :
       header' = [header EXCEPT ![h].owner = who]

\* An item is stored after the last.
Extends(h, v) ==
  /\ header[h].data # Null /\ header[h].len < header[h].cap
  /\ header' = [header EXCEPT ![h].len = @ + 1]
  /\ block' = [block EXCEPT ![header[h].data].cells[header[h].len] = v]

\* The elements of `h` are the first of `cells`, which has room for more.
Holding(h, cells) ==
  /\ DOMAIN cells = 0 .. NewCap(h) - 1
  /\ header[h].len < NewCap(h)
  /\ \A i \in 0 .. header[h].len - 1 : cells[i] = CellsOf(h)[i]

\* The list moves to a block that was not in use; realloc frees the old one.
Relocates(h, b, n, new) ==
  /\ Full(h) /\ Unused(b)
  /\ n \in {header[h].len, header[h].len + 1}
  /\ new.owner \in {"python", "native"} /\ Holding(h, new.cells)
  /\ header' = [header EXCEPT ![h] = Regrown(h, b, n)]
  /\ \/ block' = [block EXCEPT ![b] = new]
     \/ /\ header[h].data # Null /\ n = header[h].len
        /\ block' = [block EXCEPT
                       ![header[h].data] = [owner |-> "freed",
                                            cells |-> NoCells],
                       ![b] = new]

\* The list's block grows where it is.
Widens(h, cells) ==
  /\ Full(h) /\ header[h].data # Null /\ Holding(h, cells)
  /\ header' = [header EXCEPT ![h] = Regrown(h, header[h].data, header[h].len)]
  /\ block' = [block EXCEPT ![header[h].data].cells = cells]

Grows(h) ==
  \/ \E b \in Blocks : \E new : Relocates(h, b, header[h].len, new)
  \/ \E cells : Widens(h, cells)

\* lirien_list_append on a full list.
LEMMA GrowEffect ==
  ASSUME TypeOK, CapacityIsSize, NEW h \in Headers, Full(h),
         header[h].len < MaxLen, Grow(h)
  PROVE  Grows(h)
<1> DEFINE c == IF header[h].data = Null THEN NoCells ELSE CellsOf(h)
           copy == Copied(c, header[h].cap, NewCap(h))
           new == [owner |-> "native", cells |-> copy]
<1>1. /\ DOMAIN copy = 0 .. NewCap(h) - 1
      /\ \A i \in 0 .. NewCap(h) - 1 :
           i < header[h].cap => copy[i] = c[i]
  BY GrownCells
<1>2. header[h].len < NewCap(h) BY NewCapBounds
<1>3. header[h].len = header[h].cap /\ header[h].len \in Nat
      /\ NewCap(h) \in Nat
  BY NewCapBounds, ListConstants, SMT DEF Full, TypeOK, MaxCap
<1> HIDE DEF c, copy
<1>5. Holding(h, copy)
  <2> SUFFICES ASSUME NEW i \in 0 .. header[h].len - 1
               PROVE  copy[i] = CellsOf(h)[i]
    BY <1>1, <1>2 DEF Holding
  <2>1. i \in 0 .. NewCap(h) - 1 /\ i < header[h].cap BY <1>2, <1>3, SMT
  <2>2. header[h].data # Null
    BY <1>3, SMT DEF CapacityIsSize
  <2> QED BY <1>1, <2>1, <2>2 DEF c
<1>6. ASSUME NEW b \in Blocks, Allocate(h, b) PROVE Grows(h)
  <2>1. header[h].data = Null /\ header[h].cap = 0
    BY <1>6 DEF Allocate, CapacityIsSize
  <2>2. copy = Copied(NoCells, 0, NewCap(h)) BY <2>1 DEF copy, c
  <2>3. block' = [block EXCEPT ![b] = new] BY <1>6, <2>2 DEF Allocate
  <2>4. header' = [header EXCEPT ![h] = Regrown(h, b, header[h].len)]
    BY <1>6 DEF Allocate
  <2>5. Relocates(h, b, header[h].len, new)
    BY <1>5, <1>6, <2>3, <2>4 DEF Allocate, Relocates
  <2> QED BY <2>5 DEF Grows
<1>7. ASSUME NEW b \in Blocks, Move(h, b) PROVE Grows(h)
  <2>1. header[h].data # Null BY <1>7 DEF Move
  <2>2. copy = Copied(CellsOf(h), header[h].cap, NewCap(h))
    BY <2>1 DEF copy, c
  <2>3. block' = [block EXCEPT
                    ![header[h].data] = [owner |-> "freed", cells |-> NoCells],
                    ![b] = new]
    BY <1>7, <2>2 DEF Move
  <2>4. header' = [header EXCEPT ![h] = Regrown(h, b, header[h].len)]
    BY <1>7 DEF Move
  <2>5. Relocates(h, b, header[h].len, new)
    BY <1>5, <1>7, <2>1, <2>3, <2>4 DEF Move, Relocates
  <2> QED BY <2>5 DEF Grows
<1>8. ASSUME Extend(h) PROVE Grows(h)
  <2>1. header[h].data # Null BY <1>8 DEF Extend
  <2>2. copy = Copied(CellsOf(h), header[h].cap, NewCap(h))
    BY <2>1 DEF copy, c
  <2>3. block' = [block EXCEPT ![header[h].data].cells = copy]
    BY <1>8, <2>2 DEF Extend, CellsOf
  <2>4. Widens(h, copy) BY <1>5, <1>8, <2>1, <2>3 DEF Extend, Widens
  <2> QED BY <2>4 DEF Grows
<1> QED BY <1>6, <1>7, <1>8 DEF Grow

\* List.append on a full list.
LEMMA PyGrowEffect ==
  ASSUME TypeOK, CapacityIsSize, NEW o \in Objects, NEW h \in Headers,
         NEW v \in Values, NEW b \in Blocks, header[h].len < MaxLen,
         PyAppendGrow(o, h, v, b)
  PROVE  \E new : /\ Relocates(h, b, header[h].len + 1, new)
                  /\ block' = [block EXCEPT ![b] = new]
                  /\ new.owner = "python"
                  /\ new.cells[header[h].len] = v
<1> DEFINE n == header[h].len
           c == IF header[h].data = Null THEN NoCells ELSE CellsOf(h)
           copy == Copied(c, n, NewCap(h))
           cells == [copy EXCEPT ![n] = v]
           new == [owner |-> "python", cells |-> cells]
<1>0. Full(h) /\ n = header[h].cap BY DEF PyAppendGrow, Full
<1>1. /\ DOMAIN copy = 0 .. NewCap(h) - 1
      /\ \A i \in 0 .. NewCap(h) - 1 : i < n => copy[i] = c[i]
  BY <1>0, GrownCells
<1>2. n < NewCap(h) BY <1>0, NewCapBounds
<1>3. n \in Nat /\ NewCap(h) \in Nat
  BY <1>0, NewCapBounds, ListConstants, SMT DEF TypeOK, MaxCap
<1>4. /\ block' = [block EXCEPT ![b] = new]
      /\ header' = [header EXCEPT ![h] = Regrown(h, b, n + 1)]
  BY DEF PyAppendGrow
<1> HIDE DEF copy
<1>5. /\ DOMAIN cells = 0 .. NewCap(h) - 1
      /\ \A i \in 0 .. n - 1 : cells[i] = copy[i]
      /\ cells[n] = v
  BY <1>1, <1>2, <1>3, SMT
<1> HIDE DEF cells, c
<1>6. Holding(h, cells)
  <2> SUFFICES ASSUME NEW i \in 0 .. n - 1 PROVE cells[i] = CellsOf(h)[i]
    BY <1>2, <1>5 DEF Holding
  <2>1. i \in 0 .. NewCap(h) - 1 /\ i < n BY <1>2, <1>3, SMT
  <2>2. header[h].data # Null BY <1>0, <1>3, SMT DEF CapacityIsSize
  <2> QED BY <1>1, <1>5, <2>1, <2>2 DEF c
<1>7. Relocates(h, b, header[h].len + 1, new)
  BY <1>0, <1>4, <1>6 DEF PyAppendGrow, Relocates
<1>8. new.owner = "python" /\ new.cells[n] = v BY <1>5
<1>9. block' = [block EXCEPT ![b] = new] BY <1>4
<1> HIDE DEF new
<1> QED BY <1>7, <1>8, <1>9

\* The collector frees buffers that an object kept, and its own header.
Frees(o) ==
  /\ header' \in {header, [header EXCEPT ![object[o].header].owner = "freed"]}
  /\ block' = [b \in Blocks |->
                 IF b \in object[o].buffers
                 THEN [block[b] EXCEPT !.owner = "freed"] ELSE block[b]]

\* Everything a step can do to memory.
Effects ==
  \/ Stores
  \/ \E h \in Headers : \/ Creates(h) \/ Grows(h)
                        \/ \E v \in Values : Extends(h, v)
                        \/ \E b \in Blocks : \E new :
                             Relocates(h, b, header[h].len + 1, new)
  \/ \E o \in Objects : object[o] # Null /\ Frees(o)

\* Where the cells of a list that is not empty are.
LEMMA InRangeHasData ==
  ASSUME TypeOK, CapacityIsSize, NEW h \in Headers, NEW i \in Int, InRange(h, i)
  PROVE  header[h].data \in Blocks /\ i \in 0 .. header[h].len - 1
BY SMT DEF TypeOK, InRange, CapacityIsSize

LEMMA PyIndexInt ==
  ASSUME TypeOK, NEW h \in Headers, NEW i \in PyIndices
  PROVE  PyIndex(h, i) \in Int
<1>1. header[h].len \in Nat BY DEF TypeOK
<1>2. i \in Int BY ListConstants, SMT DEF PyIndices
<1> QED BY <1>1, <1>2, SMT DEF PyIndex

LEMMA PyEffects == ASSUME Shape, PyStep PROVE Effects
<1>1. TypeOK /\ CapacityIsSize BY DEF Shape
<1>2. PICK o \in Objects :
        \/ \E h \in Headers : PyNew(o, h)
        \/ \E v \in Values : PyAppend(o, v)
        \/ \E i \in PyIndices : \/ PyGet(o, i) \/ PyView(o, i)
                                \/ \E v \in Values : PySet(o, i, v)
        \/ PyLen(o) \/ PyDrop(o)
  BY DEF PyStep
<1>3. object[o] # Null => object[o].header \in Headers BY <1>1 DEF TypeOK
<1>4. ASSUME NEW h \in Headers, PyNew(o, h) PROVE Effects
  BY <1>4 DEF PyNew, Creates, Effects
<1>5. ASSUME NEW v \in Values, PyAppend(o, v) PROVE Effects
  <2> DEFINE h == object[o].header
  <2>1. h \in Headers /\ header[h].len < MaxLen BY <1>3, <1>5 DEF PyAppend
  <2>2. ASSUME NEW b \in Blocks, PyAppendGrow(o, h, v, b) PROVE Effects
    <3>1. \E new : Relocates(h, b, header[h].len + 1, new)
      BY <1>1, <2>1, <2>2, PyGrowEffect
    <3> QED BY <2>1, <3>1 DEF Effects
  <2>3. CASE PyAppendInPlace(h, v)
    <3>1. header[h].len \in Nat /\ header[h].cap \in Nat BY <1>1, <2>1 DEF TypeOK
    <3>2. header[h].data # Null /\ header[h].len < header[h].cap
      BY <1>1, <2>1, <2>3, <3>1, SMT
         DEF PyAppendInPlace, Full, CapacityIsSize
    <3>3. Extends(h, v) BY <2>3, <3>2 DEF PyAppendInPlace, Extends
    <3> QED BY <2>1, <3>3 DEF Effects
  <2> QED BY <1>5, <2>2, <2>3 DEF PyAppend
<1>6. ASSUME NEW i \in PyIndices, PyGet(o, i) \/ PyView(o, i) PROVE Effects
  BY <1>6 DEF PyGet, PyView, Stores, Effects
<1>7. ASSUME NEW i \in PyIndices, NEW v \in Values, PySet(o, i, v) PROVE Effects
  <2> DEFINE h == object[o].header
             at == PyIndex(h, i)
  <2>1. h \in Headers BY <1>3, <1>7 DEF PySet
  <2>2. at \in Int BY <1>1, <2>1, PyIndexInt
  <2>3. CASE InRange(h, at)
    <3>1. header[h].data \in Blocks BY <1>1, <2>1, <2>2, <2>3, InRangeHasData
    <3>2. block' = [block EXCEPT ![header[h].data].cells[at] = v]
      BY <1>7, <2>3 DEF PySet
    <3> HIDE DEF at, h
    <3> QED BY <1>7, <2>2, <3>1, <3>2 DEF PySet, Stores, Effects
  <2>4. CASE ~InRange(h, at) BY <1>7, <2>4 DEF PySet, Stores, Effects
  <2> QED BY <2>3, <2>4
<1>8. CASE PyLen(o) BY <1>8 DEF PyLen, Stores, Effects
<1>9. CASE PyDrop(o) BY <1>9 DEF PyDrop, Frees, Effects
<1> QED BY <1>2, <1>4, <1>5, <1>6, <1>7, <1>8, <1>9

LEMMA NativeEffects == ASSUME Shape, NativeStep PROVE Effects
<1>1. TypeOK /\ CapacityIsSize BY DEF Shape
<1>2. PICK t \in Threads :
        \/ EnterEmpty(t) \/ ReturnOther(t)
        \/ \E o \in Objects : Enter(t, o) \/ Return(t, o)
        \/ \E h \in Headers :
             \/ NativeNew(t, h) \/ EndAppend(t, h) \/ NativeLen(t, h)
             \/ \E v \in Values : BeginAppend(t, h, v)
             \/ \E i \in 0 .. MaxLen :
                  \/ NativeGet(t, h, i) \/ NativeView(t, h, i)
                  \/ \E v \in Values : NativeSet(t, h, i, v)
  BY DEF NativeStep
<1>3. CASE EnterEmpty(t) \/ ReturnOther(t)
  BY <1>3 DEF EnterEmpty, ReturnOther, Stores, Effects
<1>4. ASSUME NEW o \in Objects, Enter(t, o) \/ Return(t, o) PROVE Effects
  BY <1>4 DEF Enter, Return, Stores, Effects
<1>5. ASSUME NEW h \in Headers, NativeNew(t, h) PROVE Effects
  BY <1>5 DEF NativeNew, Creates, Effects
<1>6. ASSUME NEW h \in Headers, EndAppend(t, h) PROVE Effects
  <2>1. header[h].data # Null /\ header[h].len < header[h].cap
    BY <1>6 DEF Shape, AppendsHaveRoom, EndAppend
  <2>2. call[t].item \in Values
    BY <1>1, <1>6 DEF EndAppend, Appending, InCall, TypeOK
  <2>3. Extends(h, call[t].item) BY <1>6, <2>1 DEF EndAppend, Extends
  <2> QED BY <2>2, <2>3 DEF Effects
<1>7. ASSUME NEW h \in Headers, NativeLen(t, h) PROVE Effects
  BY <1>7 DEF NativeLen, Stores, Effects
<1>8. ASSUME NEW h \in Headers, NEW v \in Values, BeginAppend(t, h, v)
      PROVE  Effects
  <2>1. CASE Full(h)
    <3>1. Grows(h) BY <1>1, <1>8, <2>1, GrowEffect DEF BeginAppend
    <3> QED BY <3>1 DEF Effects
  <2>2. CASE ~Full(h) BY <1>8, <2>2 DEF BeginAppend, Stores, Effects
  <2> QED BY <2>1, <2>2
<1>9. ASSUME NEW h \in Headers, NEW i \in 0 .. MaxLen,
             NativeGet(t, h, i) \/ NativeView(t, h, i)
      PROVE  Effects
  BY <1>9 DEF NativeGet, NativeView, Stores, Effects
<1>10. ASSUME NEW h \in Headers, NEW i \in 0 .. MaxLen, NEW v \in Values,
              NativeSet(t, h, i, v)
       PROVE  Effects
  <2>1. i \in Int BY ListConstants, SMT
  <2>2. header[h].data \in Blocks
    BY <1>1, <1>10, <2>1, InRangeHasData DEF NativeSet
  <2> QED BY <1>10, <2>1, <2>2 DEF NativeSet, Stores, Effects
<1> QED BY <1>2, <1>3, <1>4, <1>5, <1>6, <1>7, <1>8, <1>9, <1>10

LEMMA StepEffects == ASSUME Shape, [Next]_vars PROVE Effects
<1>1. CASE PyStep BY <1>1, PyEffects
<1>2. CASE NativeStep BY <1>2, NativeEffects
<1>3. CASE ViewStep
  <2>1. PICK t \in Threads \cup {Python}, v \in Values : ViewSet(t, v)
    BY <1>3 DEF ViewStep
  <2>2. view[t] \in Views BY <2>1 DEF Shape, TypeOK, ViewSet, Holds
  <2>3. view[t].block \in Blocks /\ view[t].at \in Int BY <2>2, SMT DEF Views
  <2> QED BY <2>1, <2>3 DEF ViewSet, Stores, Effects
<1>4. CASE BrokenStep BY <1>4, BrokenKeeps DEF Stores, Effects
<1>5. CASE UNCHANGED vars BY <1>5 DEF vars, Stores, Effects
<1> QED BY <1>1, <1>2, <1>3, <1>4, <1>5 DEF Next

-----------------------------------------------------------------------------
(* Capacities                                                              *)

\* CapacityIsSize of one list, for headers `hd` and blocks `bl`.
Fits(hd, bl, h) ==
  /\ hd[h].len <= hd[h].cap
  /\ hd[h].data = Null => hd[h].cap = 0
  /\ hd[h].data # Null =>
       /\ bl[hd[h].data].owner # "none"
       /\ DOMAIN bl[hd[h].data].cells = 0 .. hd[h].cap - 1
       /\ \A g \in Headers \ {h} : hd[g].data # hd[h].data

LEMMA CapacityFits ==
  /\ CapacityIsSize <=> \A h \in Headers : Fits(header, block, h)
  /\ CapacityIsSize' <=> \A h \in Headers : Fits(header', block', h)
BY DEF CapacityIsSize, Fits, Unused, CellsOf

\* A block that moved or widened: the other lists are where they were.
LEMMA RelocatesFits ==
  ASSUME Shape, NEW h \in Headers, NEW b \in Blocks, NEW n, NEW new,
         Relocates(h, b, n, new), NEW g \in Headers
  PROVE  Fits(header', block', g)
<1>1. MemoryType /\ \A f \in Headers : Fits(header, block, f)
  BY TypeParts, CapacityFits DEF Shape
<1>2. /\ header' = [header EXCEPT ![h] = Regrown(h, b, n)]
      /\ block[b].owner = "none" /\ new.owner # "none"
      /\ DOMAIN new.cells = 0 .. NewCap(h) - 1
      /\ header[h].len < NewCap(h)
      /\ n \in {header[h].len, header[h].len + 1}
      /\ Full(h)
  BY DEF Relocates, Unused, Holding
<1>3. \A f \in Headers : header[f].data # b
  <2> SUFFICES ASSUME NEW f \in Headers, header[f].data = b PROVE FALSE
    OBVIOUS
  <2>1. header[f].data # Null BY ListConstants
  <2> QED BY <1>1, <1>2, <2>1 DEF Fits
<1>4. CASE g = h
  <2>1. block'[b] = new
    BY <1>1 DEF Relocates, MemoryType, BlockType
  <2>2. header'[h] = Regrown(h, b, n) BY <1>1, <1>2 DEF MemoryType, HeaderType
  <2>3. \A f \in Headers \ {h} : header'[f].data # b
    BY <1>1, <1>2, <1>3 DEF MemoryType, HeaderType
  <2>4. n <= NewCap(h)
    <3>1. header[h].len \in Nat /\ header[h].cap \in Nat
      BY <1>1 DEF MemoryType, HeaderType
    <3>2. NewCap(h) \in Nat BY <3>1, ListConstants, SMT DEF NewCap
    <3> QED BY <1>2, <3>1, <3>2, SMT
  <2>5. b # Null BY ListConstants
  <2> QED BY <1>2, <1>4, <2>1, <2>2, <2>3, <2>4, <2>5 DEF Fits, Regrown
<1>5. CASE g # h
  <2>1. header'[g] = header[g] BY <1>1, <1>2, <1>5 DEF MemoryType, HeaderType
  <2>2. header[g].data # Null => header[g].data \in Blocks
    BY <1>1 DEF MemoryType, HeaderType
  <2>3. header[g].data # Null => block'[header[g].data] = block[header[g].data]
    BY <1>1, <1>3, <1>5, <2>2
       DEF Relocates, MemoryType, HeaderType, BlockType, Fits
  <2>4. \A f \in Headers : header'[f].data \in {header[f].data, b}
    BY <1>1, <1>2 DEF MemoryType, HeaderType, Regrown
  <2> QED BY <1>1, <1>3, <1>5, <2>1, <2>3, <2>4 DEF Fits
<1> QED BY <1>4, <1>5

LEMMA CapacityStep == ASSUME Shape, Effects PROVE CapacityIsSize'
<1>1. MemoryType /\ \A f \in Headers : Fits(header, block, f)
  BY TypeParts, CapacityFits DEF Shape
<1>2. SUFFICES ASSUME NEW g \in Headers PROVE Fits(header', block', g)
  BY CapacityFits
<1>3. header[g].data # Null => header[g].data \in Blocks
  BY <1>1 DEF MemoryType, HeaderType
<1>4. CASE Stores
  <2>1. header[g].data # Null =>
          /\ block'[header[g].data].owner = block[header[g].data].owner
          /\ DOMAIN block'[header[g].data].cells
               = DOMAIN block[header[g].data].cells
    BY <1>1, <1>3, <1>4 DEF Stores, MemoryType, BlockType
  <2> QED BY <1>1, <1>4, <2>1 DEF Stores, Fits
<1>5. ASSUME NEW h \in Headers, Creates(h) PROVE Fits(header', block', g)
  <2>1. \A f \in Headers : /\ header'[f].data = header[f].data
                           /\ header'[f].len = header[f].len
                           /\ header'[f].cap = header[f].cap
    BY <1>1, <1>5 DEF Creates, MemoryType, HeaderType
  <2> QED BY <1>1, <1>5, <2>1 DEF Creates, Fits
<1>6. ASSUME NEW h \in Headers, Grows(h) PROVE Fits(header', block', g)
  <2>1. ASSUME NEW b \in Blocks, NEW new, Relocates(h, b, header[h].len, new)
        PROVE  Fits(header', block', g)
    BY <2>1, RelocatesFits
  <2>2. ASSUME NEW cells, Widens(h, cells) PROVE Fits(header', block', g)
    <3>1. header'[h] = Regrown(h, header[h].data, header[h].len)
          /\ \A f \in Headers \ {h} : header'[f] = header[f]
      BY <1>1, <2>2 DEF Widens, MemoryType, HeaderType
    <3>2. header[h].data \in Blocks /\ header[h].data # Null
      BY <1>1, <2>2 DEF Widens, MemoryType, HeaderType
    <3>3. /\ block'[header[h].data].owner = block[header[h].data].owner
          /\ block'[header[h].data].cells = cells
          /\ \A c \in Blocks \ {header[h].data} : block'[c] = block[c]
      BY <1>1, <2>2, <3>2 DEF Widens, MemoryType, BlockType
    <3>4. DOMAIN cells = 0 .. NewCap(h) - 1 /\ header[h].len < NewCap(h)
      BY <2>2 DEF Widens, Holding
    <3>5. header[h].len <= NewCap(h)
      <4>1. header[h].len \in Nat /\ header[h].cap \in Nat
        BY <1>1 DEF MemoryType, HeaderType
      <4>2. NewCap(h) \in Nat BY <4>1, ListConstants, SMT DEF NewCap
      <4> QED BY <3>4, <4>1, <4>2, SMT
    <3>6. CASE g = h
      BY <1>1, <3>1, <3>2, <3>3, <3>4, <3>5, <3>6 DEF Fits, Regrown
    <3>7. CASE g # h
      BY <1>1, <1>3, <3>1, <3>2, <3>3, <3>7 DEF Fits, Regrown
    <3> QED BY <3>6, <3>7
  <2> QED BY <1>6, <2>1, <2>2 DEF Grows
<1>7. ASSUME NEW h \in Headers, NEW v \in Values, Extends(h, v)
      PROVE  Fits(header', block', g)
  <2>1. header[h].data \in Blocks /\ header[h].len \in Nat
        /\ header[h].cap \in Nat
    BY <1>1, <1>7 DEF Extends, MemoryType, HeaderType
  <2>2. \A c \in Blocks : /\ block'[c].owner = block[c].owner
                          /\ DOMAIN block'[c].cells = DOMAIN block[c].cells
    BY <1>1, <1>7, <2>1 DEF Extends, MemoryType, BlockType
  <2>3. \A f \in Headers : /\ header'[f].data = header[f].data
                           /\ header'[f].cap = header[f].cap
                           /\ f # h => header'[f].len = header[f].len
    BY <1>1, <1>7 DEF Extends, MemoryType, HeaderType
  <2>4. header'[h].len = header[h].len + 1
    BY <1>1, <1>7 DEF Extends, MemoryType, HeaderType
  <2>5. header'[h].len <= header[h].cap
    BY <1>7, <2>1, <2>4, SMT DEF Extends
  <2> QED BY <1>1, <1>3, <2>2, <2>3, <2>5 DEF Fits
<1>8. ASSUME NEW h \in Headers, NEW b \in Blocks, NEW new,
             Relocates(h, b, header[h].len + 1, new)
      PROVE  Fits(header', block', g)
  BY <1>8, RelocatesFits
<1>9. ASSUME NEW o \in Objects, object[o] # Null, Frees(o)
      PROVE  Fits(header', block', g)
  <2>1. object[o].header \in Headers BY <1>9 DEF Shape, TypeOK
  <2>2. \A f \in Headers : /\ header'[f].data = header[f].data
                           /\ header'[f].len = header[f].len
                           /\ header'[f].cap = header[f].cap
    BY <1>1, <1>9, <2>1 DEF Frees, MemoryType, HeaderType
  <2>3. \A c \in Blocks : /\ block'[c].cells = block[c].cells
                          /\ block[c].owner # "none" => block'[c].owner # "none"
    BY <1>1, <1>9 DEF Frees, MemoryType, BlockType
  <2> QED BY <1>1, <1>3, <2>2, <2>3 DEF Fits
<1> QED BY <1>4, <1>5, <1>6, <1>7, <1>8, <1>9 DEF Effects

-----------------------------------------------------------------------------
(* Appends                                                                 *)

\* Which lists a step leaves as long, and where, they are.
SameBut(H) ==
  \A h \in Headers \ H : /\ header'[h].data = header[h].data
                         /\ header'[h].len = header[h].len
                         /\ header'[h].cap = header[h].cap

LEMMA HeaderSame ==
  ASSUME MemoryType, NEW h \in Headers, NEW r,
         header' = [header EXCEPT ![h] = r]
  PROVE  SameBut({h}) /\ header'[h] = r
BY DEF MemoryType, HeaderType, SameBut

LEMMA OwnerSame ==
  ASSUME MemoryType, NEW h \in Headers, NEW who,
         header' = [header EXCEPT ![h].owner = who]
  PROVE  SameBut({})
BY DEF MemoryType, HeaderType, SameBut

\* A step, as far as appends are concerned.
LEMMA AppendCases ==
  ASSUME Shape, [Next]_vars
  PROVE  \/ /\ SameBut({})
            /\ \A t \in Threads, h \in Headers :
                 Appending(h, t)' => Appending(h, t)
         \/ \E o \in Objects, v \in Values : PyAppend(o, v)
         \/ \E t \in Threads, h \in Headers :
              EndAppend(t, h) \/ \E v \in Values : BeginAppend(t, h, v)
<1> DEFINE Quiet == /\ SameBut({})
                    /\ \A t \in Threads, h \in Headers :
                         Appending(h, t)' => Appending(h, t)
           Noisy == \/ \E o \in Objects, v \in Values : PyAppend(o, v)
                    \/ \E t \in Threads, h \in Headers :
                         EndAppend(t, h) \/ \E v \in Values : BeginAppend(t, h, v)
<1>1. MemoryType /\ NamesType /\ NamesExist BY TypeParts DEF Shape
<1>2. ASSUME UNCHANGED header PROVE SameBut({}) BY <1>2 DEF SameBut
<1>3. ASSUME UNCHANGED call
      PROVE  \A t \in Threads, h \in Headers : Appending(h, t)' => Appending(h, t)
  BY <1>3 DEF Appending, InCall
<1>4. ASSUME NEW t \in Threads,
             \A u \in Threads \ {t} : call'[u] = call[u],
             call'[t] # Null => call'[t].item = Null
      PROVE  \A u \in Threads, h \in Headers : Appending(h, u)' => Appending(h, u)
  BY <1>4 DEF Appending, InCall
<1>5. CASE PyStep
  <2>1. PICK o \in Objects :
          \/ \E h \in Headers : PyNew(o, h)
          \/ \E v \in Values : PyAppend(o, v)
          \/ \E i \in PyIndices : \/ PyGet(o, i) \/ PyView(o, i)
                                  \/ \E v \in Values : PySet(o, i, v)
          \/ PyLen(o) \/ PyDrop(o)
    BY <1>5 DEF PyStep
  <2>2. ASSUME NEW h \in Headers, PyNew(o, h) PROVE Quiet
    <3>1. header' = [header EXCEPT ![h].owner = "python"] BY <2>2 DEF PyNew
    <3>2. SameBut({}) BY <1>1, <3>1, OwnerSame
    <3> QED BY <1>3, <2>2, <3>2 DEF PyNew
  <2>3. ASSUME NEW i \in PyIndices, PyGet(o, i) \/ PyView(o, i) PROVE Quiet
    BY <1>2, <1>3, <2>3 DEF PyGet, PyView
  <2>4. ASSUME NEW i \in PyIndices, NEW v \in Values, PySet(o, i, v) PROVE Quiet
    BY <1>2, <1>3, <2>4 DEF PySet
  <2>5. CASE PyLen(o) BY <1>2, <1>3, <2>5 DEF PyLen
  <2>6. CASE PyDrop(o)
    <3>1. object[o].header \in Headers BY <1>1, <2>6 DEF PyDrop, NamesType
    <3>2. SameBut({})
      <4>1. CASE object[o].owns
        <5>1. header' = [header EXCEPT ![object[o].header].owner = "freed"]
          BY <2>6, <4>1 DEF PyDrop
        <5> QED BY <1>1, <3>1, <5>1, OwnerSame
      <4>2. CASE ~object[o].owns BY <1>2, <2>6, <4>2 DEF PyDrop
      <4> QED BY <4>1, <4>2
    <3> QED BY <1>3, <2>6, <3>2 DEF PyDrop
  <2> QED BY <2>1, <2>2, <2>3, <2>4, <2>5, <2>6
<1>6. CASE NativeStep
  <2>1. PICK t \in Threads :
          \/ EnterEmpty(t) \/ ReturnOther(t)
          \/ \E o \in Objects : Enter(t, o) \/ Return(t, o)
          \/ \E h \in Headers :
               \/ NativeNew(t, h) \/ EndAppend(t, h) \/ NativeLen(t, h)
               \/ \E v \in Values : BeginAppend(t, h, v)
               \/ \E i \in 0 .. MaxLen :
                    \/ NativeGet(t, h, i) \/ NativeView(t, h, i)
                    \/ \E v \in Values : NativeSet(t, h, i, v)
    BY <1>6 DEF NativeStep
  <2>2. CASE EnterEmpty(t) \/ ReturnOther(t)
    <3>1. UNCHANGED header BY <2>2 DEF EnterEmpty, ReturnOther
    <3>2. /\ \A u \in Threads \ {t} : call'[u] = call[u]
          /\ call'[t] # Null => call'[t].item = Null
      <4>1. CASE EnterEmpty(t) BY <1>1, <4>1 DEF EnterEmpty, NamesType
      <4>2. CASE ReturnOther(t) BY <1>1, <4>2 DEF ReturnOther, NamesType
      <4> QED BY <2>2, <4>1, <4>2
    <3> QED BY <1>2, <1>4, <3>1, <3>2
  <2>3. ASSUME NEW o \in Objects, Enter(t, o) \/ Return(t, o) PROVE Quiet
    <3>1. UNCHANGED header BY <2>3 DEF Enter, Return
    <3>2. /\ \A u \in Threads \ {t} : call'[u] = call[u]
          /\ call'[t] # Null => call'[t].item = Null
      <4>1. CASE Enter(t, o) BY <1>1, <4>1 DEF Enter, NamesType
      <4>2. CASE Return(t, o) BY <1>1, <4>2 DEF Return, NamesType
      <4> QED BY <2>3, <4>1, <4>2
    <3> QED BY <1>2, <1>4, <3>1, <3>2
  <2>4. ASSUME NEW h \in Headers, NativeNew(t, h) PROVE Quiet
    <3>4. header' = [header EXCEPT ![h].owner = "native"]
      BY <2>4 DEF NativeNew
    <3>1. SameBut({}) BY <1>1, <3>4, OwnerSame
    <3>2. /\ \A u \in Threads \ {t} : call'[u] = call[u]
          /\ call'[t].item = call[t].item
      BY <1>1, <2>4 DEF NativeNew, NamesType
    <3>3. call[t].item = Null BY <1>1, <2>4 DEF NativeNew, NamesExist
    <3> QED BY <1>4, <3>1, <3>2, <3>3
  <2>5. ASSUME NEW h \in Headers, NativeLen(t, h) PROVE Quiet
    BY <1>2, <1>3, <2>5 DEF NativeLen
  <2>6. ASSUME NEW h \in Headers, NEW i \in 0 .. MaxLen,
               NativeGet(t, h, i) \/ NativeView(t, h, i)
        PROVE  Quiet
    BY <1>2, <1>3, <2>6 DEF NativeGet, NativeView
  <2>7. ASSUME NEW h \in Headers, NEW i \in 0 .. MaxLen, NEW v \in Values,
               NativeSet(t, h, i, v)
        PROVE  Quiet
    BY <1>2, <1>3, <2>7 DEF NativeSet
  <2> HIDE DEF Quiet
  <2> QED BY <2>1, <2>2, <2>3, <2>4, <2>5, <2>6, <2>7 DEF Quiet
<1>7. CASE ViewStep BY <1>2, <1>3, <1>7 DEF ViewStep, ViewSet
<1>8. CASE BrokenStep BY <1>2, <1>3, <1>8, BrokenKeeps
<1>9. CASE UNCHANGED vars BY <1>2, <1>3, <1>9 DEF vars
<1> QED BY <1>5, <1>6, <1>7, <1>8, <1>9 DEF Next

\* What the three noisy steps do to the sizes of lists.
LEMMA PyAppendSizes ==
  ASSUME Shape, NEW o \in Objects, NEW v \in Values, PyAppend(o, v)
  PROVE  /\ object[o].header \in Headers
         /\ SameBut({object[o].header})
         /\ header'[object[o].header].len = header[object[o].header].len + 1
<1> DEFINE h == object[o].header
<1>1. MemoryType /\ NamesType /\ TypeOK /\ CapacityIsSize
  BY TypeParts DEF Shape
<1>2. h \in Headers /\ header[h].len < MaxLen BY <1>1 DEF PyAppend, NamesType
<1> HIDE DEF h
<1>3. ASSUME NEW b \in Blocks, PyAppendGrow(o, h, v, b)
      PROVE  SameBut({h}) /\ header'[h].len = header[h].len + 1
  <2>1. header' = [header EXCEPT ![h] = Regrown(h, b, header[h].len + 1)]
    BY <1>3 DEF PyAppendGrow
  <2>2. SameBut({h}) /\ header'[h] = Regrown(h, b, header[h].len + 1)
    BY <1>1, <1>2, <2>1, HeaderSame
  <2> QED BY <2>2 DEF Regrown
<1>4. ASSUME PyAppendInPlace(h, v)
      PROVE  SameBut({h}) /\ header'[h].len = header[h].len + 1
  BY <1>1, <1>2, <1>4
     DEF PyAppendInPlace, MemoryType, HeaderType, SameBut
<1> QED BY <1>2, <1>3, <1>4 DEF PyAppend, h

LEMMA BeginSizes ==
  ASSUME Shape, NEW t \in Threads, NEW h \in Headers, NEW v \in Values,
         BeginAppend(t, h, v)
  PROVE  /\ SameBut({h})
         /\ header'[h].len = header[h].len
         /\ header'[h].len < header'[h].cap
         /\ header'[h].data # Null
         /\ header'[h].owner = header[h].owner
         /\ \/ header'[h].data = header[h].data
            \/ Unused(header'[h].data)
<1>1. MemoryType /\ TypeOK /\ CapacityIsSize BY TypeParts DEF Shape
<1>2. header[h].len < MaxLen BY DEF BeginAppend
<1>3. CASE Full(h)
  <2>1. Grows(h) BY <1>1, <1>2, <1>3, GrowEffect DEF BeginAppend
  <2>2. \E d \in Blocks :
          /\ header' = [header EXCEPT ![h] = Regrown(h, d, header[h].len)]
          /\ d = header[h].data \/ Unused(d)
    <3>1. ASSUME NEW c, Widens(h, c)
          PROVE  /\ header[h].data \in Blocks
                 /\ header' = [header EXCEPT
                                 ![h] = Regrown(h, header[h].data, header[h].len)]
      BY <1>1, <3>1 DEF Widens, MemoryType, HeaderType
    <3>2. ASSUME NEW b \in Blocks, NEW new, Relocates(h, b, header[h].len, new)
          PROVE  /\ Unused(b)
                 /\ header' = [header EXCEPT ![h] = Regrown(h, b, header[h].len)]
      BY <3>2 DEF Relocates
    <3> QED BY <2>1, <3>1, <3>2 DEF Grows
  <2>3. PICK d \in Blocks :
          /\ header' = [header EXCEPT ![h] = Regrown(h, d, header[h].len)]
          /\ d = header[h].data \/ Unused(d)
    BY <2>2
  <2>4. header[h].len < NewCap(h) BY <1>1, <1>2, <1>3, NewCapBounds
  <2>5. d # Null BY ListConstants
  <2>6. SameBut({h}) /\ header'[h] = Regrown(h, d, header[h].len)
    BY <1>1, <2>3, HeaderSame
  <2> QED BY <2>3, <2>4, <2>5, <2>6 DEF Regrown
<1>4. CASE ~Full(h)
  <2>1. UNCHANGED header BY <1>4 DEF BeginAppend
  <2>2. header[h].len \in Nat /\ header[h].cap \in Nat
    BY <1>1 DEF MemoryType, HeaderType
  <2>3. header[h].len < header[h].cap
    BY <1>1, <1>4, <2>2, SMT DEF CapacityIsSize, Full
  <2>4. header[h].data # Null BY <1>1, <2>2, <2>3, SMT DEF CapacityIsSize
  <2> QED BY <2>1, <2>3, <2>4 DEF SameBut
<1> QED BY <1>3, <1>4

LEMMA EndSizes ==
  ASSUME Shape, NEW t \in Threads, NEW h \in Headers, EndAppend(t, h)
  PROVE  /\ SameBut({h})
         /\ header'[h].len = header[h].len + 1
         /\ header'[h].data = header[h].data
<1>1. MemoryType BY TypeParts DEF Shape
<1> QED BY <1>1 DEF EndAppend, MemoryType, HeaderType, SameBut

LEMMA AppendsStep == ASSUME Shape, [Next]_vars PROVE AppendsHaveRoom'
<1>1. NamesType BY TypeParts DEF Shape
<1>2. SUFFICES ASSUME NEW u \in Threads, NEW g \in Headers, Appending(g, u)'
               PROVE  /\ header'[g].data # Null
                      /\ header'[g].len < header'[g].cap
                      /\ \A w \in Threads : Appending(g, w)' => w = u
  BY DEF AppendsHaveRoom
<1>3. CASE /\ SameBut({})
           /\ \A t \in Threads, h \in Headers : Appending(h, t)' => Appending(h, t)
  BY <1>2, <1>3 DEF SameBut, Shape, AppendsHaveRoom
<1>4. ASSUME NEW o \in Objects, NEW v \in Values, PyAppend(o, v)
      PROVE  /\ header'[g].data # Null
             /\ header'[g].len < header'[g].cap
             /\ \A w \in Threads : Appending(g, w)' => w = u
  <2>1. \A t \in Threads, h \in Headers : Appending(h, t)' <=> Appending(h, t)
    BY <1>4 DEF PyAppend, Appending, InCall
  <2>2. u # Python BY ListConstants DEF Python
  <2>3. g # object[o].header
    BY <1>2, <1>4, <2>1, <2>2 DEF PyAppend, Sound, Racing
  <2>4. SameBut({object[o].header}) BY <1>4, PyAppendSizes
  <2> QED BY <1>2, <2>1, <2>3, <2>4 DEF SameBut, Shape, AppendsHaveRoom
<1>5. ASSUME NEW t \in Threads, NEW h \in Headers, EndAppend(t, h)
      PROVE  /\ header'[g].data # Null
             /\ header'[g].len < header'[g].cap
             /\ \A w \in Threads : Appending(g, w)' => w = u
  <2>1. \A w \in Threads, f \in Headers :
          Appending(f, w)' => Appending(f, w) /\ w # t
    BY <1>1, <1>5 DEF EndAppend, NamesType, Appending, InCall
  <2>2. g # h BY <1>2, <1>5, <2>1 DEF EndAppend, Shape, AppendsHaveRoom
  <2>3. SameBut({h}) BY <1>5, EndSizes
  <2> QED BY <1>2, <2>1, <2>2, <2>3 DEF SameBut, Shape, AppendsHaveRoom
<1>6. ASSUME NEW t \in Threads, NEW h \in Headers, NEW v \in Values,
             BeginAppend(t, h, v)
      PROVE  /\ header'[g].data # Null
             /\ header'[g].len < header'[g].cap
             /\ \A w \in Threads : Appending(g, w)' => w = u
  <2>1. \A w \in Threads \ {t}, f \in Headers :
          Appending(f, w)' <=> Appending(f, w)
    BY <1>1, <1>6 DEF BeginAppend, NamesType, Appending, InCall
  <2>2. \A f \in Headers : Appending(f, t)' => f = h
    BY <1>1, <1>6
       DEF BeginAppend, Running, InCall, NamesType, Appending
  <2>3. \A w \in Threads \ {t} : ~Appending(h, w)
    BY <1>6 DEF BeginAppend, Sound, Racing
  <2>4. SameBut({h}) /\ header'[h].len < header'[h].cap /\ header'[h].data # Null
    BY <1>6, BeginSizes
  <2>5. CASE g = h BY <1>2, <2>1, <2>3, <2>4, <2>5
  <2>6. CASE g # h
    <3>1. u # t BY <1>2, <2>2, <2>6
    <3>2. Appending(g, u) BY <1>2, <2>1, <3>1
    <3>3. \A w \in Threads : Appending(g, w)' => Appending(g, w)
      BY <2>1, <2>2, <2>6
    <3> QED BY <2>4, <2>6, <3>2, <3>3 DEF SameBut, Shape, AppendsHaveRoom
  <2> QED BY <2>5, <2>6
<1> QED BY <1>3, <1>4, <1>5, <1>6, AppendCases

-----------------------------------------------------------------------------
(* Views, buffers and names                                                *)

\* A list stays where it is and does not shrink, or moves to a block that
\* was not in use; what was in use, or existed, is not unused again.
LEMMA DataEffect ==
  ASSUME Shape, Effects
  PROVE  /\ \A h \in Headers :
              \/ /\ header'[h].data = header[h].data
                 /\ header'[h].len \in {header[h].len, header[h].len + 1}
              \/ header'[h].data \in Blocks /\ Unused(header'[h].data)
         /\ \A b \in Blocks : ~Unused(b) => ~Unused(b)'
         /\ \A h \in Headers : Exists(h) => Exists(h)'
<1>1. MemoryType /\ NamesType BY TypeParts DEF Shape
<1> DEFINE Goal == /\ \A h \in Headers :
                        \/ /\ header'[h].data = header[h].data
                           /\ header'[h].len \in {header[h].len, header[h].len + 1}
                        \/ header'[h].data \in Blocks /\ Unused(header'[h].data)
                   /\ \A b \in Blocks : ~Unused(b) => ~Unused(b)'
                   /\ \A h \in Headers : Exists(h) => Exists(h)'
<1>2. CASE Stores
  BY <1>1, <1>2 DEF Stores, MemoryType, BlockType, Unused, Exists
<1>3. ASSUME NEW h \in Headers, Creates(h) PROVE Goal
  BY <1>1, <1>3 DEF Creates, MemoryType, HeaderType, Unused, Exists
<1>4. ASSUME NEW h \in Headers, NEW b \in Blocks, NEW n, NEW new,
             Relocates(h, b, n, new)
      PROVE  Goal
  <2>1. header'[h] = Regrown(h, b, n) /\ \A g \in Headers \ {h} : header'[g] = header[g]
    BY <1>1, <1>4 DEF Relocates, MemoryType, HeaderType
  <2>2. Unused(b) /\ new.owner # "none" BY <1>4 DEF Relocates
  <2>3. \A c \in Blocks : block'[c] = block[c] \/ block'[c].owner # "none"
    BY <1>1, <1>4, <2>2 DEF Relocates, MemoryType, BlockType
  <2> QED BY <2>1, <2>2, <2>3 DEF Regrown, Unused, Exists
<1>5. ASSUME NEW h \in Headers, NEW cells, Widens(h, cells) PROVE Goal
  <2>1. header'[h] = Regrown(h, header[h].data, header[h].len)
        /\ \A g \in Headers \ {h} : header'[g] = header[g]
    BY <1>1, <1>5 DEF Widens, MemoryType, HeaderType
  <2>2. \A c \in Blocks : block'[c].owner = block[c].owner
    BY <1>1, <1>5 DEF Widens, MemoryType, BlockType
  <2> QED BY <2>1, <2>2 DEF Regrown, Unused, Exists
<1>6. ASSUME NEW h \in Headers, NEW v \in Values, Extends(h, v) PROVE Goal
  <2>1. \A g \in Headers : /\ header'[g].data = header[g].data
                           /\ header'[g].owner = header[g].owner
                           /\ header'[g].len \in {header[g].len, header[g].len + 1}
    BY <1>1, <1>6 DEF Extends, MemoryType, HeaderType
  <2>2. \A c \in Blocks : block'[c].owner = block[c].owner
    BY <1>1, <1>6 DEF Extends, MemoryType, BlockType
  <2> QED BY <2>1, <2>2 DEF Unused, Exists
<1>7. ASSUME NEW o \in Objects, object[o] # Null, Frees(o) PROVE Goal
  <2>0. object[o].header \in Headers BY <1>1, <1>7 DEF NamesType
  <2>1. \A g \in Headers : /\ header'[g].data = header[g].data
                           /\ header'[g].owner \in {header[g].owner, "freed"}
                           /\ header'[g].len = header[g].len
    BY <1>1, <1>7, <2>0 DEF Frees, MemoryType, HeaderType
  <2>2. \A c \in Blocks : block'[c].owner \in {block[c].owner, "freed"}
    BY <1>1, <1>7 DEF Frees, MemoryType, BlockType
  <2> QED BY <2>1, <2>2 DEF Unused, Exists
<1> HIDE DEF Goal
<1>8. Goal BY <1>2, <1>3, <1>4, <1>5, <1>6, <1>7 DEF Effects, Grows, Goal
<1> QED BY <1>8 DEF Goal

\* The list exists after the step.
Remains(h) == header'[h].owner # "none"

\* Where an object, a call and a view of the next state come from.
ObjectOrigin(o) ==
  object'[o] # Null =>
    \/ /\ object[o] # Null /\ object'[o].header = object[o].header
       /\ \A b \in object'[o].buffers \ object[o].buffers :
            /\ Unused(b) /\ block'[b].owner # "none"
            /\ b = header'[object[o].header].data
            /\ SameBut({object[o].header})
    \/ object'[o].buffers = {} /\ Remains(object'[o].header)

CallOrigin(t) ==
  call'[t] # Null =>
    /\ call'[t].header # Null => Remains(call'[t].header)
    /\ call'[t].header = Null => call'[t].item = Null

ViewOrigin(t) ==
  view'[t] # Null =>
    \/ view'[t] = view[t]
    \/ /\ UNCHANGED <<header, block>>
       /\ view'[t].header \in Headers /\ Exists(view'[t].header)
       /\ view'[t].block = header[view'[t].header].data
       /\ view'[t].block \in Blocks
       /\ view'[t].at < header[view'[t].header].len

Origins == /\ \A o \in Objects : ObjectOrigin(o)
           /\ \A t \in Threads : CallOrigin(t)
           /\ \A t \in Threads \cup {Python} : ViewOrigin(t)

LEMMA SameOrigins ==
  ASSUME Shape, Effects
  PROVE  /\ UNCHANGED object => \A o \in Objects : ObjectOrigin(o)
         /\ UNCHANGED call => \A t \in Threads : CallOrigin(t)
         /\ UNCHANGED view => \A t \in Threads \cup {Python} : ViewOrigin(t)
<1>1. \A h \in Headers : Exists(h) => Remains(h)
  BY DataEffect DEF Exists, Remains
<1>2. NamesType /\ NamesExist BY TypeParts DEF Shape
<1>3. UNCHANGED object => \A o \in Objects : ObjectOrigin(o)
  BY DEF ObjectOrigin
<1>4. UNCHANGED call => \A t \in Threads : CallOrigin(t)
  BY <1>1, <1>2 DEF CallOrigin, NamesType, NamesExist
<1>5. UNCHANGED view => \A t \in Threads \cup {Python} : ViewOrigin(t)
  BY DEF ViewOrigin
<1> QED BY <1>3, <1>4, <1>5

LEMMA PyOrigins == ASSUME Shape, PyStep PROVE Origins
<1>1. MemoryType /\ NamesType /\ TypeOK /\ CapacityIsSize /\ NamesExist
  BY TypeParts DEF Shape
<1>2. Effects BY PyEffects
<1>3. PICK o \in Objects :
        \/ \E h \in Headers : PyNew(o, h)
        \/ \E v \in Values : PyAppend(o, v)
        \/ \E i \in PyIndices : \/ PyGet(o, i) \/ PyView(o, i)
                                \/ \E v \in Values : PySet(o, i, v)
        \/ PyLen(o) \/ PyDrop(o)
  BY DEF PyStep
<1>4. \A p \in Objects \ {o} : object'[p] = object[p] => ObjectOrigin(p)
  BY DEF ObjectOrigin
<1>5. UNCHANGED call BY <1>3 DEF PyNew, PyAppend, PyGet, PyView, PySet, PyLen,
                                 PyDrop
<1>6. \A t \in Threads : CallOrigin(t) BY <1>2, <1>5, SameOrigins
<1>7. ASSUME NEW h \in Headers, PyNew(o, h) PROVE Origins
  <2>1. object'[o] = [header |-> h, owns |-> TRUE, buffers |-> {}]
        /\ \A p \in Objects \ {o} : object'[p] = object[p]
    BY <1>1, <1>7 DEF PyNew, NamesType
  <2>2. Remains(h) BY <1>1, <1>7 DEF PyNew, MemoryType, HeaderType, Remains
  <2>3. \A p \in Objects : ObjectOrigin(p)
    BY <1>4, <2>1, <2>2 DEF ObjectOrigin
  <2> QED BY <1>2, <1>6, <1>7, <2>3, SameOrigins DEF PyNew, Origins
<1>8. ASSUME NEW v \in Values, PyAppend(o, v) PROVE Origins
  <2> DEFINE h == object[o].header
  <2>1. h \in Headers /\ SameBut({h}) /\ object[o] # Null
    BY <1>8, PyAppendSizes DEF PyAppend
  <2>2. ASSUME NEW b \in Blocks, PyAppendGrow(o, h, v, b)
        PROVE  \A p \in Objects : ObjectOrigin(p)
    <3>1. /\ object'[o].header = h
          /\ object'[o].buffers = object[o].buffers \cup {b}
          /\ \A p \in Objects \ {o} : object'[p] = object[p]
      BY <1>1, <2>1, <2>2 DEF PyAppendGrow, NamesType
    <3>2. Unused(b) BY <2>2 DEF PyAppendGrow
    <3>3. block'[b].owner = "python"
      BY <1>1, <2>2 DEF PyAppendGrow, MemoryType, BlockType
    <3>4. header'[h] = Regrown(h, b, header[h].len + 1)
      BY <1>1, <2>1, <2>2 DEF PyAppendGrow, MemoryType, HeaderType
    <3>5. header'[h].data = b BY <3>4 DEF Regrown
    <3> QED BY <1>4, <2>1, <3>1, <3>2, <3>3, <3>5 DEF ObjectOrigin
  <2>3. ASSUME PyAppendInPlace(h, v) PROVE \A p \in Objects : ObjectOrigin(p)
    <3>1. UNCHANGED object BY <2>3 DEF PyAppendInPlace
    <3> QED BY <1>2, <3>1, SameOrigins
  <2>5. (\E b \in Blocks : PyAppendGrow(o, h, v, b)) \/ PyAppendInPlace(h, v)
    BY <1>8 DEF PyAppend
  <2>4. \A p \in Objects : ObjectOrigin(p)
    <3> HIDE DEF h
    <3> QED BY <2>2, <2>3, <2>5
  <2> QED BY <1>2, <1>6, <1>8, <2>4, SameOrigins DEF PyAppend, Origins
<1>9. ASSUME NEW i \in PyIndices, PyGet(o, i) PROVE Origins
  BY <1>2, <1>6, <1>9, SameOrigins DEF PyGet, Origins
<1>10. ASSUME NEW i \in PyIndices, PyView(o, i) PROVE Origins
  <2> DEFINE h == object[o].header
             at == PyIndex(h, i)
  <2>1. h \in Headers /\ Exists(h) /\ InRange(h, at)
    BY <1>1, <1>10 DEF PyView, NamesType, NamesExist
  <2>2. at \in Int BY <1>1, <2>1, PyIndexInt
  <2>3. header[h].data \in Blocks /\ at < header[h].len
    BY <1>1, <2>1, <2>2, InRangeHasData DEF InRange
  <2>4. \A t \in Threads \cup {Python} :
          view'[t] \in {view[t], [header |-> h, block |-> header[h].data, at |-> at]}
    BY <1>1, <1>10 DEF PyView, NamesType
  <2>5. UNCHANGED <<header, block, object>> BY <1>10 DEF PyView
  <2> HIDE DEF at, h
  <2>6. \A t \in Threads \cup {Python} : ViewOrigin(t)
    BY <2>1, <2>3, <2>4, <2>5 DEF ViewOrigin
  <2> QED BY <1>2, <1>6, <2>5, <2>6, SameOrigins DEF Origins
<1>11. ASSUME NEW i \in PyIndices, NEW v \in Values, PySet(o, i, v) PROVE Origins
  BY <1>2, <1>6, <1>11, SameOrigins DEF PySet, Origins
<1>12. CASE PyLen(o) BY <1>2, <1>6, <1>12, SameOrigins DEF PyLen, Origins
<1>13. CASE PyDrop(o)
  <2>1. object'[o] = Null /\ \A p \in Objects \ {o} : object'[p] = object[p]
    BY <1>1, <1>13 DEF PyDrop, NamesType
  <2>2. \A p \in Objects : ObjectOrigin(p) BY <1>4, <2>1 DEF ObjectOrigin
  <2> QED BY <1>2, <1>6, <1>13, <2>2, SameOrigins DEF PyDrop, Origins
<1> QED BY <1>3, <1>7, <1>8, <1>9, <1>10, <1>11, <1>12, <1>13

LEMMA NativeOrigins == ASSUME Shape, NativeStep PROVE Origins
<1>1. MemoryType /\ NamesType /\ TypeOK /\ CapacityIsSize /\ NamesExist
  BY TypeParts DEF Shape
<1>2. Effects BY NativeEffects
<1>3. PICK t \in Threads :
        \/ EnterEmpty(t) \/ ReturnOther(t)
        \/ \E o \in Objects : Enter(t, o) \/ Return(t, o)
        \/ \E h \in Headers :
             \/ NativeNew(t, h) \/ EndAppend(t, h) \/ NativeLen(t, h)
             \/ \E v \in Values : BeginAppend(t, h, v)
             \/ \E i \in 0 .. MaxLen :
                  \/ NativeGet(t, h, i) \/ NativeView(t, h, i)
                  \/ \E v \in Values : NativeSet(t, h, i, v)
  BY DEF NativeStep
<1>e. \A h \in Headers : Exists(h) => Remains(h)
  BY <1>2, DataEffect DEF Exists, Remains
<1>4. ASSUME \A u \in Threads \ {t} : call'[u] = call[u], CallOrigin(t)
      PROVE  \A u \in Threads : CallOrigin(u)
  <2>1. \A u \in Threads \ {t} : CallOrigin(u)
    BY <1>1, <1>4, <1>e DEF CallOrigin, NamesType, NamesExist
  <2> QED BY <1>4, <2>1
<1>5. ASSUME \A u \in (Threads \cup {Python}) \ {t} : view'[u] = view[u],
             view'[t] = Null
      PROVE  \A u \in Threads \cup {Python} : ViewOrigin(u)
  BY <1>5 DEF ViewOrigin
<1>6. CASE EnterEmpty(t)
  <2>1. call'[t] = [object |-> Null, header |-> Null, item |-> Null]
        /\ \A u \in Threads \ {t} : call'[u] = call[u]
    BY <1>1, <1>6 DEF EnterEmpty, NamesType
  <2>2. CallOrigin(t) BY <2>1 DEF CallOrigin
  <2> QED BY <1>2, <1>4, <1>6, <2>1, <2>2, SameOrigins DEF EnterEmpty, Origins
<1>7. CASE ReturnOther(t)
  <2>1. call'[t] = Null /\ \A u \in Threads \ {t} : call'[u] = call[u]
    BY <1>1, <1>7 DEF ReturnOther, NamesType
  <2>2. view'[t] = Null
        /\ \A u \in (Threads \cup {Python}) \ {t} : view'[u] = view[u]
    BY <1>1, <1>7 DEF ReturnOther, NamesType
  <2>3. CallOrigin(t) BY <2>1 DEF CallOrigin
  <2> QED BY <1>2, <1>4, <1>5, <1>7, <2>1, <2>2, <2>3, SameOrigins
          DEF ReturnOther, Origins
<1>8. ASSUME NEW o \in Objects, Enter(t, o) PROVE Origins
  <2>1. call'[t] = [object |-> o, header |-> object[o].header, item |-> Null]
        /\ \A u \in Threads \ {t} : call'[u] = call[u]
    BY <1>1, <1>8 DEF Enter, NamesType
  <2>2. CallOrigin(t)
    BY <1>1, <1>8, <1>e, <2>1 DEF CallOrigin, Enter, NamesType, NamesExist
  <2> QED BY <1>2, <1>4, <1>8, <2>1, <2>2, SameOrigins DEF Enter, Origins
<1>9. ASSUME NEW o \in Objects, Return(t, o) PROVE Origins
  <2>1. call'[t] = Null /\ \A u \in Threads \ {t} : call'[u] = call[u]
    BY <1>1, <1>9 DEF Return, NamesType
  <2>2. view'[t] = Null
        /\ \A u \in (Threads \cup {Python}) \ {t} : view'[u] = view[u]
    BY <1>1, <1>9 DEF Return, NamesType
  <2>3. object'[o] = [header |-> call[t].header, owns |-> FALSE, buffers |-> {}]
        /\ \A p \in Objects \ {o} : object'[p] = object[p]
    BY <1>1, <1>9 DEF Return, NamesType
  <2>4. Remains(call[t].header)
    BY <1>1, <1>9, <1>e DEF Return, NamesType, NamesExist
  <2>5. \A p \in Objects : ObjectOrigin(p)
    BY <2>3, <2>4 DEF ObjectOrigin
  <2>6. CallOrigin(t) BY <2>1 DEF CallOrigin
  <2> QED BY <1>4, <1>5, <2>1, <2>2, <2>5, <2>6 DEF Origins
<1>10. ASSUME NEW h \in Headers, NativeNew(t, h) PROVE Origins
  <2>1. call'[t].header = h /\ \A u \in Threads \ {t} : call'[u] = call[u]
    BY <1>1, <1>10 DEF NativeNew, NamesType
  <2>2. Remains(h)
    BY <1>1, <1>10 DEF NativeNew, MemoryType, HeaderType, Remains
  <2>3. h # Null BY ListConstants
  <2>4. CallOrigin(t) BY <2>1, <2>2, <2>3 DEF CallOrigin
  <2> QED BY <1>2, <1>4, <1>10, <2>1, <2>4, SameOrigins DEF NativeNew, Origins
<1>11. ASSUME NEW h \in Headers, EndAppend(t, h) PROVE Origins
  <2>1. /\ call'[t].header = h /\ call[t] # Null /\ call[t].header = h
        /\ \A u \in Threads \ {t} : call'[u] = call[u]
    BY <1>1, <1>11 DEF EndAppend, Appending, InCall, NamesType
  <2>2. h # Null BY ListConstants
  <2>3. CallOrigin(t)
    BY <1>1, <1>e, <2>1, <2>2 DEF CallOrigin, NamesExist
  <2> QED BY <1>2, <1>4, <1>11, <2>1, <2>3, SameOrigins DEF EndAppend, Origins
<1>12. ASSUME NEW h \in Headers, NEW v \in Values, BeginAppend(t, h, v)
       PROVE  Origins
  <2>1. /\ call'[t].header = h /\ call[t] # Null /\ call[t].header = h
        /\ \A u \in Threads \ {t} : call'[u] = call[u]
    BY <1>1, <1>12 DEF BeginAppend, Running, InCall, NamesType
  <2>2. h # Null BY ListConstants
  <2>3. CallOrigin(t)
    BY <1>1, <1>e, <2>1, <2>2 DEF CallOrigin, NamesExist
  <2> QED BY <1>2, <1>4, <1>12, <2>1, <2>3, SameOrigins DEF BeginAppend, Origins
<1>13. ASSUME NEW h \in Headers, NativeLen(t, h) PROVE Origins
  BY <1>2, <1>13, SameOrigins DEF NativeLen, Origins
<1>14. ASSUME NEW h \in Headers, NEW i \in 0 .. MaxLen, NativeGet(t, h, i)
       PROVE  Origins
  BY <1>2, <1>14, SameOrigins DEF NativeGet, Origins
<1>15. ASSUME NEW h \in Headers, NEW i \in 0 .. MaxLen, NEW v \in Values,
              NativeSet(t, h, i, v)
       PROVE  Origins
  BY <1>2, <1>15, SameOrigins DEF NativeSet, Origins
<1>16. ASSUME NEW h \in Headers, NEW i \in 0 .. MaxLen, NativeView(t, h, i)
       PROVE  Origins
  <2> DEFINE w == [header |-> h, block |-> header[h].data, at |-> i]
  <2>1. i \in Int BY ListConstants, SMT
  <2>2. header[h].data \in Blocks /\ i < header[h].len
    BY <1>1, <1>16, <2>1, InRangeHasData DEF NativeView, InRange
  <2>3. Exists(h)
    <3>1. call[t] # Null /\ call[t].header = h
      BY <1>16 DEF NativeView, Running, InCall
    <3>2. h # Null BY ListConstants
    <3> QED BY <1>1, <3>1, <3>2 DEF NamesExist
  <2>4. \A u \in Threads \cup {Python} : view'[u] \in {view[u], w}
    BY <1>1, <1>16 DEF NativeView, NamesType
  <2>5. UNCHANGED <<header, block, object, call>> BY <1>16 DEF NativeView
  <2>6. \A u \in Threads \cup {Python} : ViewOrigin(u)
    BY <2>2, <2>3, <2>4, <2>5 DEF ViewOrigin
  <2> QED BY <1>2, <2>5, <2>6, SameOrigins DEF Origins
<1> QED BY <1>3, <1>6, <1>7, <1>8, <1>9, <1>10, <1>11, <1>12, <1>13, <1>14,
           <1>15, <1>16

LEMMA StepOrigins == ASSUME Shape, [Next]_vars PROVE Origins
<1>1. Effects BY StepEffects
<1>2. CASE PyStep BY <1>2, PyOrigins
<1>3. CASE NativeStep BY <1>3, NativeOrigins
<1>4. CASE ViewStep BY <1>1, <1>4, SameOrigins DEF ViewStep, ViewSet, Origins
<1>5. CASE BrokenStep BY <1>1, <1>5, BrokenKeeps, SameOrigins DEF Origins
<1>6. CASE UNCHANGED vars BY <1>1, <1>6, SameOrigins DEF vars, Origins
<1> QED BY <1>2, <1>3, <1>4, <1>5, <1>6 DEF Next

LEMMA ViewsStep == ASSUME Shape, [Next]_vars PROVE ViewsMeanElements'
<1>1. Effects /\ Origins BY StepEffects, StepOrigins
<1>2. MemoryType /\ NamesType BY TypeParts DEF Shape
<1>3. SUFFICES ASSUME NEW t \in Threads \cup {Python}, view'[t] # Null
               PROVE  /\ block'[view'[t].block].owner # "none"
                      /\ view'[t].block = header'[view'[t].header].data =>
                           view'[t].at < header'[view'[t].header].len
  BY DEF ViewsMeanElements, Unused, Current
<1>4. ViewOrigin(t) BY <1>1 DEF Origins
<1>5. CASE view'[t] = view[t]
  <2>1. /\ view[t].block \in Blocks /\ view[t].header \in Headers
        /\ view[t].at \in Nat
    BY <1>2, <1>3, <1>5 DEF NamesType, Views
  <2>2. ~Unused(view[t].block)
        /\ (Current(t) => view[t].at < header[view[t].header].len)
    BY <1>3, <1>5 DEF Shape, ViewsMeanElements
  <2>3. block'[view[t].block].owner # "none"
    BY <1>1, <2>1, <2>2, DataEffect DEF Unused
  <2>4. ASSUME view[t].block = header'[view[t].header].data
        PROVE  view[t].at < header'[view[t].header].len
    <3>1. /\ header'[view[t].header].data = header[view[t].header].data
          /\ header'[view[t].header].len \in {header[view[t].header].len,
                                              header[view[t].header].len + 1}
      BY <1>1, <2>1, <2>2, <2>4, DataEffect
    <3>2. view[t].at < header[view[t].header].len
      BY <2>2, <2>4, <3>1 DEF Current
    <3>3. header[view[t].header].len \in Nat
      BY <1>2, <2>1 DEF MemoryType, HeaderType
    <3> QED BY <2>1, <3>1, <3>2, <3>3, SMT
  <2> QED BY <1>5, <2>3, <2>4
<1>6. CASE view'[t] # view[t]
  <2> DEFINE h == view'[t].header
  <2>1. /\ UNCHANGED <<header, block>>
        /\ h \in Headers
        /\ view'[t].block = header[h].data
        /\ view'[t].block \in Blocks
        /\ view'[t].at < header[h].len
    BY <1>3, <1>4, <1>6 DEF ViewOrigin
  <2>2. view'[t].block # Null BY <2>1, ListConstants
  <2>3. ~Unused(header[h].data) BY <2>1, <2>2 DEF Shape, CapacityIsSize
  <2> QED BY <2>1, <2>3 DEF Unused
<1> QED BY <1>5, <1>6

LEMMA BuffersStep == ASSUME Shape, [Next]_vars PROVE BuffersAreOwn'
<1>1. Effects /\ Origins BY StepEffects, StepOrigins
<1>2. MemoryType /\ NamesType /\ BuffersAreOwn BY TypeParts DEF Shape
<1>3. SUFFICES ASSUME NEW o \in Objects, object'[o] # Null,
                      NEW b \in object'[o].buffers
               PROVE  /\ block'[b].owner # "none"
                      /\ \A h \in Headers :
                           header'[h].data = b => h = object'[o].header
  BY DEF BuffersAreOwn, Unused
<1>4. /\ object[o] # Null /\ object'[o].header = object[o].header
      /\ b \notin object[o].buffers =>
           /\ Unused(b) /\ block'[b].owner # "none"
           /\ b = header'[object[o].header].data
           /\ SameBut({object[o].header})
  BY <1>1, <1>3 DEF Origins, ObjectOrigin
<1>5. CASE b \in object[o].buffers
  <2>1. b \in Blocks BY <1>2, <1>4, <1>5 DEF NamesType
  <2>2. ~Unused(b) /\ \A h \in Headers : header[h].data = b => h = object[o].header
    BY <1>2, <1>4, <1>5 DEF BuffersAreOwn
  <2>3. block'[b].owner # "none" BY <1>1, <2>1, <2>2, DataEffect DEF Unused
  <2>4. \A h \in Headers : header'[h].data = b => header[h].data = b
    BY <1>1, <2>2, DataEffect
  <2> QED BY <1>4, <2>2, <2>3, <2>4
<1>6. CASE b \notin object[o].buffers
  <2>1. Unused(b) /\ SameBut({object[o].header}) BY <1>4, <1>6
  <2>2. \A h \in Headers : header[h].data # b
    <3> SUFFICES ASSUME NEW h \in Headers, header[h].data = b PROVE FALSE
      OBVIOUS
    <3>1. CASE b = Null
      <4>1. object'[o].header \in Headers /\ b \in Blocks
        <5>1. NamesType' BY TypeStep, TypeParts
                         DEF TypeOK, NamesType
        <5> QED BY <1>3, <5>1 DEF NamesType
      <4> QED BY <3>1, <4>1, ListConstants
    <3>2. CASE b # Null BY <2>1, <3>2 DEF Shape, CapacityIsSize
    <3> QED BY <3>1, <3>2
  <2> QED BY <1>4, <1>6, <2>1, <2>2 DEF SameBut
<1> QED BY <1>5, <1>6

LEMMA NamesStep == ASSUME Shape, [Next]_vars PROVE NamesExist'
<1>1. Effects /\ Origins BY StepEffects, StepOrigins
<1>2. MemoryType /\ NamesType /\ NamesExist BY TypeParts DEF Shape
<1>3. \A h \in Headers : Exists(h) => Exists(h)' BY <1>1, DataEffect
<1>4. \A h \in Headers : ~Exists(h)' => header'[h].data = Null /\ header'[h].len = 0
  <2> SUFFICES ASSUME NEW h \in Headers, ~Exists(h)'
               PROVE  header'[h].data = Null /\ header'[h].len = 0
    OBVIOUS
  <2>1. ~Exists(h) /\ header[h].data = Null /\ header[h].len = 0
    BY <1>2, <1>3 DEF NamesExist
  <2>2. CASE SameBut({}) BY <2>1, <2>2 DEF SameBut
  <2>3. ASSUME NEW o \in Objects, NEW v \in Values, PyAppend(o, v)
        PROVE  header'[h].data = Null /\ header'[h].len = 0
    <3>1. Exists(object[o].header) BY <1>2, <2>3 DEF PyAppend, NamesExist
    <3> QED BY <2>1, <2>3, <3>1, PyAppendSizes DEF SameBut
  <2>4. ASSUME NEW t \in Threads, NEW g \in Headers,
               EndAppend(t, g) \/ \E v \in Values : BeginAppend(t, g, v)
        PROVE  header'[h].data = Null /\ header'[h].len = 0
    <3>1. call[t] # Null /\ call[t].header = g
      BY <2>4 DEF EndAppend, BeginAppend, Running, Appending, InCall
    <3>2. g # Null BY ListConstants
    <3>3. Exists(g) BY <1>2, <3>1, <3>2 DEF NamesExist
    <3> QED BY <2>1, <2>4, <3>3, EndSizes, BeginSizes DEF SameBut
  <2> QED BY <2>2, <2>3, <2>4, AppendCases
<1>6. \A o \in Objects : object'[o] # Null => header'[object'[o].header].owner # "none"
  <2> SUFFICES ASSUME NEW o \in Objects, object'[o] # Null
               PROVE  header'[object'[o].header].owner # "none"
    OBVIOUS
  <2>1. ObjectOrigin(o) BY <1>1 DEF Origins
  <2>2. CASE object[o] # Null /\ object'[o].header = object[o].header
    BY <1>2, <1>3, <2>2 DEF NamesExist, NamesType, Exists
  <2> QED BY <2>1, <2>2 DEF ObjectOrigin, Remains
<1>7. \A t \in Threads : call'[t] # Null =>
        /\ call'[t].header # Null => header'[call'[t].header].owner # "none"
        /\ call'[t].header = Null => call'[t].item = Null
  BY <1>1 DEF Origins, CallOrigin, Remains
<1>8. \A t \in Threads \cup {Python} : view'[t] # Null =>
        header'[view'[t].header].owner # "none"
  <2> SUFFICES ASSUME NEW t \in Threads \cup {Python}, view'[t] # Null
               PROVE  header'[view'[t].header].owner # "none"
    OBVIOUS
  <2>1. ViewOrigin(t) BY <1>1 DEF Origins
  <2>2. CASE view'[t] = view[t]
    <3>1. view[t].header \in Headers /\ Exists(view[t].header)
      BY <1>2, <2>2 DEF NamesExist, NamesType, Views
    <3> QED BY <1>3, <2>2, <3>1 DEF Exists
  <2> QED BY <2>1, <2>2 DEF ViewOrigin, Exists
<1> QED BY <1>4, <1>6, <1>7, <1>8 DEF NamesExist, Exists

\* Shape is an invariant.
LEMMA ShapeInit == ASSUME Init PROVE Shape
<1>1. TypeOK BY TypeInit
<1>2. CapacityIsSize BY DEF Init, CapacityIsSize
<1>3. AppendsHaveRoom BY DEF Init, AppendsHaveRoom, Appending, InCall
<1>4. ViewsMeanElements BY DEF Init, ViewsMeanElements
<1>5. BuffersAreOwn BY DEF Init, BuffersAreOwn
<1>6. NamesExist BY DEF Init, NamesExist
<1> QED BY <1>1, <1>2, <1>3, <1>4, <1>5, <1>6 DEF Shape

LEMMA ShapeStep == ASSUME Shape, [Next]_vars PROVE Shape'
<1>1. CapacityIsSize' BY StepEffects, CapacityStep
<1> QED BY <1>1, TypeStep, AppendsStep, ViewsStep, BuffersStep, NamesStep
        DEF Shape

LEMMA ShapeInvariant == Spec => []Shape
<1>1. Init => Shape BY ShapeInit
<1>2. Shape /\ [Next]_vars => Shape' BY ShapeStep
<1> QED BY <1>1, <1>2, PTL DEF Spec

\* Types, of every behaviour of the two implementations together.
THEOREM TypeCorrect == Spec => []TypeOK
BY ShapeInvariant, PTL DEF Shape

\* The size that realloc is told, and the room that an append relies on, are
\* those of the block, whoever allocated it and whatever interleaving of
\* Python and compiled code led there.
THEOREM CapacityCorrect == Spec => []CapacityIsSize
BY ShapeInvariant, PTL DEF Shape

\* The address of an element means an element while the list has not moved.
THEOREM ViewsCorrect == Spec => []ViewsInBounds
<1>1. Shape => ViewsInBounds
  BY DEF Shape, ViewsMeanElements, ViewsInBounds
<1> QED BY <1>1, ShapeInvariant, PTL

-----------------------------------------------------------------------------
(* The rules of use                                                        *)

\* The parts of Order after a step, said of the new values.
LiveNext(h) == header'[h].owner \in {"python", "native"}

LEMMA OrderNext ==
  /\ ObjectsInOrder' <=>
       \A o \in Objects : object'[o] # Null =>
         /\ LiveNext(object'[o].header)
         /\ object'[o].owns => header'[object'[o].header].owner = "python"
         /\ ~object'[o].owns => object'[o].buffers = {}
  /\ CallsInOrder' <=>
       \A t \in Threads, h \in Headers :
         call'[t] # Null /\ call'[t].header = h =>
           /\ LiveNext(h)
           /\ \A u \in Threads : call'[u] # Null /\ call'[u].header = h => u = t
  /\ ViewsInOrder' <=>
       \A t \in Threads \cup {Python} : view'[t] # Null =>
         /\ LiveNext(view'[t].header)
         /\ view'[t].block = header'[view'[t].header].data
         /\ t \in Threads => /\ call'[t] # Null
                             /\ call'[t].header = view'[t].header
  /\ BlocksInOrder' <=>
       \A h \in Headers : LiveNext(h) /\ header'[h].data # Null =>
         block'[header'[h].data].owner = header'[h].owner
BY DEF ObjectsInOrder, CallsInOrder, ViewsInOrder, BlocksInOrder, Live,
       LiveNext, InCall, Current

\* Nobody's name for a list changes, nor does who owns which block.
LEMMA QuietOrder ==
  ASSUME Shape, Order, UNCHANGED <<header, object, view>>,
         \A t \in Threads : /\ (call'[t] = Null) <=> (call[t] = Null)
                            /\ call'[t].header = call[t].header,
         \A b \in Blocks : block'[b].owner = block[b].owner
  PROVE  Order'
<1>1. MemoryType BY TypeParts DEF Shape
<1>2. ObjectsInOrder' /\ ViewsInOrder' /\ CallsInOrder'
  BY OrderNext DEF Order, ObjectsInOrder, CallsInOrder, ViewsInOrder, InCall,
                   Live, LiveNext, Current
<1>3. BlocksInOrder'
  BY <1>1, OrderNext
     DEF Order, BlocksInOrder, Live, LiveNext, MemoryType, HeaderType
<1> QED BY <1>2, <1>3 DEF Order

LEMMA StoreOwners ==
  ASSUME MemoryType, NEW b \in Blocks, NEW i, NEW v,
         block' = [block EXCEPT ![b].cells[i] = v]
  PROVE  \A c \in Blocks : block'[c].owner = block[c].owner
BY DEF MemoryType, BlockType

\* A list comes into use that nobody had a name for.
LEMMA FreshOrder ==
  ASSUME Shape, Order, NEW h \in Headers, ~Exists(h), UNCHANGED <<block, view>>,
         NEW who \in {"python", "native"},
         header' = [header EXCEPT ![h].owner = who]
  PROVE  /\ \A g \in Headers : Live(g) => g # h /\ header'[g] = header[g]
         /\ LiveNext(h) /\ header'[h].owner = who
         /\ BlocksInOrder'
<1>1. MemoryType /\ NamesExist BY TypeParts DEF Shape
<1>2. /\ header'[h].owner = who /\ header'[h].data = header[h].data
      /\ \A g \in Headers \ {h} : header'[g] = header[g]
  BY <1>1 DEF MemoryType, HeaderType
<1>3. header[h].data = Null BY <1>1 DEF NamesExist
<1>4. \A g \in Headers : Live(g) => g # h BY DEF Live, Exists
<1>5. BlocksInOrder'
  BY <1>2, <1>3, OrderNext DEF Order, BlocksInOrder, Live, LiveNext
<1> QED BY <1>2, <1>4, <1>5 DEF LiveNext

LEMMA PyNewOrder ==
  ASSUME Shape, Order, NEW o \in Objects, NEW h \in Headers, PyNew(o, h)
  PROVE  Order'
<1>1. NamesType BY TypeParts DEF Shape
<1>2. /\ \A g \in Headers : Live(g) => g # h /\ header'[g] = header[g]
      /\ LiveNext(h) /\ header'[h].owner = "python"
      /\ BlocksInOrder'
  BY FreshOrder DEF PyNew
<1>3. object'[o] = [header |-> h, owns |-> TRUE, buffers |-> {}]
      /\ \A p \in Objects \ {o} : object'[p] = object[p]
  BY <1>1 DEF PyNew, NamesType
<1>4. ObjectsInOrder'
  BY <1>1, <1>2, <1>3, OrderNext
     DEF Order, ObjectsInOrder, Live, LiveNext, NamesType
<1>5. UNCHANGED <<call, view>> BY DEF PyNew
<1>6. CallsInOrder'
  BY <1>2, <1>5, OrderNext DEF Order, CallsInOrder, InCall, Live, LiveNext
<1>7. ViewsInOrder'
  BY <1>1, <1>2, <1>5, OrderNext
     DEF Order, ViewsInOrder, InCall, Live, LiveNext, Current, NamesType, Views
<1> QED BY <1>2, <1>4, <1>6, <1>7 DEF Order

LEMMA NativeNewOrder ==
  ASSUME Shape, Order, NEW t \in Threads, NEW h \in Headers, NativeNew(t, h)
  PROVE  Order'
<1>1. NamesType /\ NamesExist BY TypeParts DEF Shape
<1>2. /\ \A g \in Headers : Live(g) => g # h /\ header'[g] = header[g]
      /\ LiveNext(h) /\ header'[h].owner = "native"
      /\ BlocksInOrder'
  BY FreshOrder DEF NativeNew
<1>3. /\ call[t] # Null /\ call[t].header = Null
      /\ call'[t] # Null /\ call'[t].header = h
      /\ \A u \in Threads \ {t} : call'[u] = call[u]
  <2>1. call[t] \in [object : Objects \cup {Null}, header : Headers \cup {Null},
                     item : Values \cup {Null}]
    BY <1>1 DEF NativeNew, NamesType
  <2>2. call' = [call EXCEPT ![t].header = h] BY DEF NativeNew
  <2>3. call'[t] = [call[t] EXCEPT !.header = h] BY <1>1, <2>2 DEF NamesType
  <2>4. call'[t].header = h /\ call'[t].item = call[t].item
    BY <2>1, <2>3
  <2>6. call'[t] # Null
    <3>2. call'[t] \in [object : Objects \cup {Null}, header : Headers \cup {Null},
                        item : Values \cup {Null}]
      BY <2>1, <2>3
    <3> QED BY <3>2, ListConstants
  <2> QED BY <1>1, <2>2, <2>4, <2>6 DEF NativeNew, NamesType
<1>4. UNCHANGED <<object, view>> BY DEF NativeNew
<1>5. ObjectsInOrder'
  BY <1>1, <1>2, <1>4, OrderNext
     DEF Order, ObjectsInOrder, Live, LiveNext, NamesType
<1>6. CallsInOrder'
  BY <1>2, <1>3, OrderNext DEF Order, CallsInOrder, InCall, Live, LiveNext
<1>7. view[t] = Null
  <2> SUFFICES ASSUME view[t] # Null PROVE FALSE OBVIOUS
  <2>1. call[t].header = view[t].header /\ view[t].header \in Headers
    BY <1>1 DEF Order, ViewsInOrder, InCall, NamesType, Views
  <2> QED BY <1>3, <2>1, ListConstants
<1>8. ViewsInOrder'
  BY <1>1, <1>2, <1>3, <1>4, <1>7, OrderNext
     DEF Order, ViewsInOrder, InCall, Live, LiveNext, Current, NamesType, Views
<1> QED BY <1>2, <1>5, <1>6, <1>8 DEF Order

LEMMA PyAppendOrder ==
  ASSUME Shape, Order, NEW o \in Objects, NEW v \in Values, PyAppend(o, v),
         object[o].owns, ~InCalls(object[o].header), ~Viewed(object[o].header)
  PROVE  Order'
<1> DEFINE h == object[o].header
<1>1. MemoryType /\ NamesType /\ TypeOK /\ CapacityIsSize
  BY TypeParts DEF Shape
<1>2. /\ object[o] # Null /\ h \in Headers /\ SameBut({h})
      /\ header[h].owner = "python" /\ header[h].len < MaxLen
  BY <1>1, PyAppendSizes
     DEF PyAppend, Order, ObjectsInOrder, NamesType
<1>3. UNCHANGED <<call, view>> BY DEF PyAppend
<1>4. \A t \in Threads \cup {Python} : view[t] # Null => view[t].header # h
  BY <1>1 DEF Viewed, NamesType
<1>5. (\E b \in Blocks : PyAppendGrow(o, h, v, b)) \/ PyAppendInPlace(h, v)
  BY DEF PyAppend
<1> HIDE DEF h
<1>6. ASSUME NEW b \in Blocks, PyAppendGrow(o, h, v, b) PROVE Order'
  <2>1. PICK new : /\ Relocates(h, b, header[h].len + 1, new)
                   /\ block' = [block EXCEPT ![b] = new]
                   /\ new.owner = "python"
    BY <1>1, <1>2, <1>6, PyGrowEffect
  <2>2. /\ header'[h] = Regrown(h, b, header[h].len + 1)
        /\ \A g \in Headers \ {h} : header'[g] = header[g]
        /\ block'[b].owner = "python"
        /\ \A c \in Blocks \ {b} : block'[c] = block[c]
        /\ Unused(b)
    BY <1>1, <1>2, <2>1
       DEF Relocates, MemoryType, HeaderType, BlockType
  <2>3. \A g \in Headers : header'[g].owner = header[g].owner
    BY <2>2 DEF Regrown
  <2>4. /\ \A p \in Objects \ {o} : object'[p] = object[p]
        /\ object'[o].header = h /\ object'[o].owns
    BY <1>1, <1>2, <1>6 DEF PyAppendGrow, PyAppend, NamesType, h
  <2>5. ObjectsInOrder'
    BY <1>1, <1>2, <2>3, <2>4, OrderNext
       DEF Order, ObjectsInOrder, Live, LiveNext, NamesType
  <2>6. CallsInOrder'
    BY <1>3, <2>3, OrderNext DEF Order, CallsInOrder, InCall, Live, LiveNext
  <2>7. ViewsInOrder'
    BY <1>1, <1>3, <1>4, <2>2, OrderNext
       DEF Order, ViewsInOrder, InCall, Live, LiveNext, Current, NamesType,
           Views
  <2>8. BlocksInOrder'
    <3> SUFFICES ASSUME NEW g \in Headers, LiveNext(g), header'[g].data # Null
                 PROVE  block'[header'[g].data].owner = header'[g].owner
      BY OrderNext
    <3>1. CASE g = h BY <1>2, <2>2, <2>3, <3>1 DEF Regrown
    <3>2. CASE g # h
      <4>1. header'[g] = header[g] /\ header[g].data \in Blocks
        BY <1>1, <2>2, <3>2 DEF MemoryType, HeaderType
      <4>2. header[g].data # b
        BY <1>1, <2>2, <4>1, ListConstants DEF CapacityIsSize
      <4> QED BY <2>2, <4>1, <4>2 DEF Order, BlocksInOrder, Live, LiveNext
    <3> QED BY <3>1, <3>2
  <2> QED BY <2>5, <2>6, <2>7, <2>8 DEF Order
<1>7. ASSUME PyAppendInPlace(h, v) PROVE Order'
  <2>1. header[h].data \in Blocks
    BY <1>1, <1>2, <1>7
       DEF MemoryType, HeaderType, PyAppendInPlace, Full, CapacityIsSize
  <2>2. \A c \in Blocks : block'[c].owner = block[c].owner
    BY <1>1, <1>7, <2>1, StoreOwners DEF PyAppendInPlace
  <2>3. \A g \in Headers : /\ header'[g].owner = header[g].owner
                           /\ header'[g].data = header[g].data
    BY <1>1, <1>7 DEF PyAppendInPlace, MemoryType, HeaderType
  <2>4. UNCHANGED object BY <1>7 DEF PyAppendInPlace
  <2>5. ObjectsInOrder'
    BY <1>1, <2>3, <2>4, OrderNext
       DEF Order, ObjectsInOrder, Live, LiveNext, NamesType
  <2>6. CallsInOrder'
    BY <1>3, <2>3, OrderNext DEF Order, CallsInOrder, InCall, Live, LiveNext
  <2>7. ViewsInOrder'
    BY <1>1, <1>3, <2>3, OrderNext
       DEF Order, ViewsInOrder, InCall, Live, LiveNext, Current, NamesType,
           Views
  <2>8. BlocksInOrder'
    BY <1>1, <2>2, <2>3, OrderNext
       DEF Order, BlocksInOrder, Live, LiveNext, MemoryType, HeaderType
  <2> QED BY <2>5, <2>6, <2>7, <2>8 DEF Order
<1> QED BY <1>5, <1>6, <1>7

LEMMA PyDropOrder ==
  ASSUME Shape, Order, NEW o \in Objects, PyDrop(o),
         object[o].owns =>
           /\ \A p \in Objects \ {o} :
                object[p] # Null => object[p].header # object[o].header
           /\ ~InCalls(object[o].header) /\ ~Viewed(object[o].header)
  PROVE  Order'
<1> DEFINE h == object[o].header
<1>1. MemoryType /\ NamesType /\ BuffersAreOwn BY TypeParts DEF Shape
<1>2. object[o] # Null /\ h \in Headers BY <1>1 DEF PyDrop, NamesType
<1>3. object'[o] = Null /\ \A p \in Objects \ {o} : object'[p] = object[p]
  BY <1>1 DEF PyDrop, NamesType
<1>4. UNCHANGED <<call, view>> BY DEF PyDrop
<1>5. CASE object[o].owns
  <2>1. /\ header'[h].owner = "freed"
        /\ \A g \in Headers \ {h} : header'[g] = header[g]
    BY <1>1, <1>2, <1>5 DEF PyDrop, MemoryType, HeaderType
  <2>2. \A p \in Objects \ {o} : object[p] # Null => object[p].header # h
    BY <1>5
  <2>3. \A t \in Threads : call[t] # Null => call[t].header # h
    BY <1>5 DEF InCalls, InCall
  <2>4. \A t \in Threads \cup {Python} : view[t] # Null => view[t].header # h
    BY <1>1, <1>5 DEF Viewed, NamesType
  <2>5. \A g \in Headers \ {h} : header[g].data # Null =>
          block'[header[g].data] = block[header[g].data]
    <3> SUFFICES ASSUME NEW g \in Headers \ {h}, header[g].data # Null
                 PROVE  block'[header[g].data] = block[header[g].data]
      OBVIOUS
    <3>1. header[g].data \in Blocks BY <1>1 DEF MemoryType, HeaderType
    <3>2. header[g].data \notin object[o].buffers
      BY <1>1, <1>2 DEF BuffersAreOwn
    <3> QED BY <3>1, <3>2 DEF PyDrop
  <2> HIDE DEF h
  <2>6. ObjectsInOrder'
    BY <1>1, <1>3, <2>1, <2>2, OrderNext
       DEF Order, ObjectsInOrder, Live, LiveNext, NamesType
  <2>7. CallsInOrder'
    BY <1>4, <2>1, <2>3, OrderNext
       DEF Order, CallsInOrder, InCall, Live, LiveNext
  <2>8. ViewsInOrder'
    BY <1>1, <1>4, <2>1, <2>4, OrderNext
       DEF Order, ViewsInOrder, InCall, Live, LiveNext, Current, NamesType,
           Views
  <2>9. BlocksInOrder'
    BY <2>1, <2>5, OrderNext DEF Order, BlocksInOrder, Live, LiveNext
  <2> QED BY <2>6, <2>7, <2>8, <2>9 DEF Order
<1>6. CASE ~object[o].owns
  <2>1. UNCHANGED header BY <1>6 DEF PyDrop
  <2>2. object[o].buffers = {} BY <1>2, <1>6 DEF Order, ObjectsInOrder
  <2>3. \A b \in Blocks : block'[b] = block[b] BY <2>2 DEF PyDrop
  <2>4. ObjectsInOrder'
    BY <1>3, <2>1, OrderNext DEF Order, ObjectsInOrder, Live, LiveNext
  <2>5. CallsInOrder'
    BY <1>4, <2>1, OrderNext DEF Order, CallsInOrder, InCall, Live, LiveNext
  <2>6. ViewsInOrder'
    BY <1>4, <2>1, OrderNext
       DEF Order, ViewsInOrder, InCall, Live, LiveNext, Current
  <2>7. BlocksInOrder'
    BY <1>1, <2>1, <2>3, OrderNext
       DEF Order, BlocksInOrder, Live, LiveNext, MemoryType, HeaderType
  <2> QED BY <2>4, <2>5, <2>6, <2>7 DEF Order
<1> QED BY <1>5, <1>6

LEMMA BeginOrder ==
  ASSUME Shape, Order, NEW t \in Threads, NEW h \in Headers, NEW v \in Values,
         BeginAppend(t, h, v), MayAppend(h)
  PROVE  Order'
<1>1. MemoryType /\ NamesType /\ TypeOK /\ CapacityIsSize
  BY TypeParts DEF Shape
<1>2. header[h].len < MaxLen /\ header[h].owner = "native"
  BY DEF BeginAppend, MayAppend
<1>3. \A u \in Threads \cup {Python} : view[u] # Null => view[u].header # h
  BY <1>1 DEF MayAppend, Viewed, NamesType
<1>4. UNCHANGED <<object, view>> BY DEF BeginAppend
<1>5. \A u \in Threads : /\ call[u] # Null <=> call'[u] # Null
                         /\ call'[u].header = call[u].header
  <2>1. call[t] # Null /\ call[t] \in [object : Objects \cup {Null},
            header : Headers \cup {Null}, item : Values \cup {Null}]
    BY <1>1 DEF BeginAppend, Running, InCall, NamesType
  <2>2. call'[t] = [call[t] EXCEPT !.item = v]
        /\ \A u \in Threads \ {t} : call'[u] = call[u]
    BY <1>1 DEF BeginAppend, NamesType
  <2>3. call'[t] \in [object : Objects \cup {Null},
            header : Headers \cup {Null}, item : Values \cup {Null}]
        /\ call'[t].header = call[t].header
    BY <2>1, <2>2
  <2> QED BY <2>1, <2>2, <2>3, ListConstants
<1>6. SameBut({h}) /\ header'[h].owner = header[h].owner BY BeginSizes
<1>7. \A g \in Headers : header'[g].owner = header[g].owner
  <2>1. CASE Full(h)
    <3>1. Grows(h) BY <1>1, <1>2, <2>1, GrowEffect DEF BeginAppend
    <3>2. \A g \in Headers \ {h} : header'[g] = header[g]
      BY <1>1, <3>1 DEF Grows, Relocates, Widens, MemoryType, HeaderType
    <3> QED BY <1>6, <3>2
  <2>2. CASE ~Full(h) BY <2>2 DEF BeginAppend
  <2> QED BY <2>1, <2>2
<1>8. ObjectsInOrder'
  BY <1>1, <1>4, <1>7, OrderNext
     DEF Order, ObjectsInOrder, Live, LiveNext, NamesType
<1>9. CallsInOrder'
  BY <1>5, <1>7, OrderNext DEF Order, CallsInOrder, InCall, Live, LiveNext
<1>10. ViewsInOrder'
  BY <1>1, <1>3, <1>4, <1>5, <1>6, <1>7, OrderNext
     DEF Order, ViewsInOrder, InCall, Live, LiveNext, Current, NamesType, Views,
         SameBut
<1>11. BlocksInOrder'
  <2>1. CASE ~Full(h)
    BY <2>1, OrderNext
       DEF BeginAppend, Order, BlocksInOrder, Live, LiveNext
  <2>2. CASE Full(h)
    <3>1. Grow(h) BY <2>2 DEF BeginAppend
    <3>2. \A g \in Headers \ {h} : header[g].data # Null =>
            block'[header[g].data].owner = block[header[g].data].owner
      <4> SUFFICES ASSUME NEW g \in Headers \ {h}, header[g].data # Null
                   PROVE  block'[header[g].data].owner
                            = block[header[g].data].owner
        OBVIOUS
      <4>1. /\ header[g].data \in Blocks /\ ~Unused(header[g].data)
            /\ header[g].data # header[h].data
        BY <1>1 DEF MemoryType, HeaderType, CapacityIsSize
      <4>2. ASSUME NEW b \in Blocks, Allocate(h, b)
            PROVE  block'[header[g].data] = block[header[g].data]
        BY <1>1, <4>1, <4>2 DEF Allocate, MemoryType, BlockType
      <4>3. ASSUME NEW b \in Blocks, Move(h, b)
            PROVE  block'[header[g].data] = block[header[g].data]
        BY <1>1, <4>1, <4>3 DEF Move, MemoryType, BlockType
      <4>4. ASSUME Extend(h)
            PROVE  block'[header[g].data] = block[header[g].data]
        BY <1>1, <4>1, <4>4 DEF Extend, MemoryType, BlockType
      <4> QED BY <3>1, <4>2, <4>3, <4>4 DEF Grow
    <3>3. block'[header'[h].data].owner = "native"
      <4>1. ASSUME NEW b \in Blocks, Allocate(h, b)
            PROVE  block'[header'[h].data].owner = "native"
        <5>1. header'[h] = Regrown(h, b, header[h].len)
          BY <1>1, <4>1 DEF Allocate, MemoryType, HeaderType
        <5>2. block'[b].owner = "native"
          BY <1>1, <4>1 DEF Allocate, MemoryType, BlockType
        <5> QED BY <5>1, <5>2 DEF Regrown
      <4>2. ASSUME NEW b \in Blocks, Move(h, b)
            PROVE  block'[header'[h].data].owner = "native"
        <5>1. header'[h] = Regrown(h, b, header[h].len)
          BY <1>1, <4>2 DEF Move, MemoryType, HeaderType
        <5>2. block'[b].owner = "native"
          BY <1>1, <4>2 DEF Move, MemoryType, BlockType
        <5> QED BY <5>1, <5>2 DEF Regrown
      <4>3. ASSUME Extend(h)
            PROVE  block'[header'[h].data].owner = "native"
        <5>1. header'[h] = Regrown(h, header[h].data, header[h].len)
          BY <1>1, <4>3 DEF Extend, MemoryType, HeaderType
        <5>2. header[h].data \in Blocks
          BY <1>1, <4>3 DEF Extend, MemoryType, HeaderType
        <5>3. block'[header[h].data].owner = "native"
          BY <1>1, <4>3, <5>2 DEF Extend, MemoryType, BlockType
        <5> QED BY <5>1, <5>3 DEF Regrown
      <4> QED BY <3>1, <4>1, <4>2, <4>3 DEF Grow
    <3> QED BY <1>2, <1>6, <1>7, <3>2, <3>3, OrderNext
            DEF Order, BlocksInOrder, Live, LiveNext, SameBut
  <2> QED BY <2>1, <2>2
<1> QED BY <1>8, <1>9, <1>10, <1>11 DEF Order

LEMMA EndOrder ==
  ASSUME Shape, Order, NEW t \in Threads, NEW h \in Headers, EndAppend(t, h)
  PROVE  Order'
<1>1. MemoryType /\ NamesType BY TypeParts DEF Shape
<1>2. header[h].data \in Blocks
  BY <1>1 DEF EndAppend, Shape, AppendsHaveRoom, MemoryType, HeaderType
<1>3. \A c \in Blocks : block'[c].owner = block[c].owner
  BY <1>1, <1>2, StoreOwners DEF EndAppend
<1>4. \A g \in Headers : /\ header'[g].owner = header[g].owner
                         /\ header'[g].data = header[g].data
  BY <1>1 DEF EndAppend, MemoryType, HeaderType
<1>5. UNCHANGED <<object, view>> BY DEF EndAppend
<1>6. \A u \in Threads : /\ call[u] # Null <=> call'[u] # Null
                         /\ call'[u].header = call[u].header
  <2>1. call[t] # Null /\ call[t] \in [object : Objects \cup {Null},
            header : Headers \cup {Null}, item : Values \cup {Null}]
    BY <1>1 DEF EndAppend, Appending, InCall, NamesType
  <2>2. call'[t] = [call[t] EXCEPT !.item = Null]
        /\ \A u \in Threads \ {t} : call'[u] = call[u]
    BY <1>1 DEF EndAppend, NamesType
  <2>3. call'[t] \in [object : Objects \cup {Null},
            header : Headers \cup {Null}, item : Values \cup {Null}]
        /\ call'[t].header = call[t].header
    BY <2>1, <2>2
  <2> QED BY <2>1, <2>2, <2>3, ListConstants
<1>7. ObjectsInOrder'
  BY <1>1, <1>4, <1>5, OrderNext
     DEF Order, ObjectsInOrder, Live, LiveNext, NamesType
<1>8. CallsInOrder'
  BY <1>4, <1>6, OrderNext DEF Order, CallsInOrder, InCall, Live, LiveNext
<1>9. ViewsInOrder'
  BY <1>1, <1>4, <1>5, <1>6, OrderNext
     DEF Order, ViewsInOrder, InCall, Live, LiveNext, Current, NamesType, Views
<1>10. BlocksInOrder'
  BY <1>1, <1>3, <1>4, OrderNext
     DEF Order, BlocksInOrder, Live, LiveNext, MemoryType, HeaderType
<1> QED BY <1>7, <1>8, <1>9, <1>10 DEF Order

LEMMA EnterOrder ==
  ASSUME Shape, Order, NEW t \in Threads, NEW o \in Objects, Enter(t, o),
         ~InCalls(object[o].header)
  PROVE  Order'
<1> DEFINE h == object[o].header
<1>1. MemoryType /\ NamesType BY TypeParts DEF Shape
<1>2. object[o] # Null /\ h \in Headers /\ Live(h)
  BY <1>1 DEF Enter, Order, ObjectsInOrder, NamesType
<1>3. /\ call[t] = Null /\ call'[t].header = h
      /\ \A u \in Threads \ {t} : call'[u] = call[u]
  BY <1>1 DEF Enter, NamesType
<1>4. UNCHANGED <<header, block, object, view>> BY DEF Enter
<1>5. \A u \in Threads : call[u] # Null => call[u].header # h
  BY DEF InCalls, InCall
<1>6. view[t] = Null BY <1>3 DEF Order, ViewsInOrder, InCall
<1> HIDE DEF h
<1>7. ObjectsInOrder'
  BY <1>4, OrderNext DEF Order, ObjectsInOrder, Live, LiveNext
<1>8. CallsInOrder'
  BY <1>2, <1>3, <1>4, <1>5, OrderNext
     DEF Order, CallsInOrder, InCall, Live, LiveNext
<1>9. ViewsInOrder'
  BY <1>3, <1>4, <1>6, OrderNext
     DEF Order, ViewsInOrder, InCall, Live, LiveNext, Current
<1>10. BlocksInOrder'
  BY <1>4, OrderNext DEF Order, BlocksInOrder, Live, LiveNext
<1> QED BY <1>7, <1>8, <1>9, <1>10 DEF Order

LEMMA EnterEmptyOrder ==
  ASSUME Shape, Order, NEW t \in Threads, EnterEmpty(t)
  PROVE  Order'
<1>1. NamesType BY TypeParts DEF Shape
<1>3. /\ call[t] = Null /\ call'[t].header = Null
      /\ \A u \in Threads \ {t} : call'[u] = call[u]
  BY <1>1 DEF EnterEmpty, NamesType
<1>4. UNCHANGED <<header, block, object, view>> BY DEF EnterEmpty
<1>6. view[t] = Null BY <1>3 DEF Order, ViewsInOrder, InCall
<1>7. ObjectsInOrder'
  BY <1>4, OrderNext DEF Order, ObjectsInOrder, Live, LiveNext
<1>8. CallsInOrder'
  BY <1>3, <1>4, ListConstants, OrderNext
     DEF Order, CallsInOrder, InCall, Live, LiveNext
<1>9. ViewsInOrder'
  BY <1>3, <1>4, <1>6, OrderNext
     DEF Order, ViewsInOrder, InCall, Live, LiveNext, Current
<1>10. BlocksInOrder'
  BY <1>4, OrderNext DEF Order, BlocksInOrder, Live, LiveNext
<1> QED BY <1>7, <1>8, <1>9, <1>10 DEF Order

\* A call ends: its thread names no list any more.
LEMMA LeaveOrder ==
  ASSUME Shape, Order, NEW t \in Threads, UNCHANGED <<header, block>>,
         call' = [call EXCEPT ![t] = Null], view' = [view EXCEPT ![t] = Null],
         ObjectsInOrder'
  PROVE  Order'
<1>1. NamesType BY TypeParts DEF Shape
<1>2. call'[t] = Null /\ \A u \in Threads \ {t} : call'[u] = call[u]
  BY <1>1 DEF NamesType
<1>3. view'[t] = Null
      /\ \A u \in (Threads \cup {Python}) \ {t} : view'[u] = view[u]
  BY <1>1 DEF NamesType
<1>4. CallsInOrder'
  BY <1>2, OrderNext DEF Order, CallsInOrder, InCall, Live, LiveNext
<1>5. ViewsInOrder'
  BY <1>2, <1>3, OrderNext
     DEF Order, ViewsInOrder, InCall, Live, LiveNext, Current
<1>6. BlocksInOrder' BY OrderNext DEF Order, BlocksInOrder, Live, LiveNext
<1> QED BY <1>4, <1>5, <1>6 DEF Order

LEMMA ReturnOrder ==
  ASSUME Shape, Order, NEW t \in Threads, NEW o \in Objects, Return(t, o)
  PROVE  Order'
<1>1. NamesType BY TypeParts DEF Shape
<1>2. call[t] # Null /\ call[t].header \in Headers
  BY <1>1 DEF Return, NamesType
<1>3. Live(call[t].header)
  BY <1>2 DEF Order, CallsInOrder, InCall
<1>4. object'[o] = [header |-> call[t].header, owns |-> FALSE, buffers |-> {}]
      /\ \A p \in Objects \ {o} : object'[p] = object[p]
  BY <1>1 DEF Return, NamesType
<1>5. ObjectsInOrder'
  BY <1>3, <1>4, OrderNext DEF Return, Order, ObjectsInOrder, Live, LiveNext
<1> QED BY <1>5, LeaveOrder DEF Return

LEMMA ReturnOtherOrder ==
  ASSUME Shape, Order, NEW t \in Threads, ReturnOther(t)
  PROVE  Order'
<1>1. ObjectsInOrder'
  BY OrderNext DEF ReturnOther, Order, ObjectsInOrder, Live, LiveNext
<1> QED BY <1>1, LeaveOrder DEF ReturnOther

\* The address of an element of a list that is live goes to whoever has it.
LEMMA NewViewOrder ==
  ASSUME Shape, Order, NEW t \in Threads \cup {Python}, NEW h \in Headers,
         NEW i, UNCHANGED <<header, block, object, call>>, Live(h),
         t \in Threads => InCall(h, t),
         view' = [view EXCEPT ![t] = [header |-> h, block |-> header[h].data,
                                      at |-> i]]
  PROVE  Order'
<1>1. NamesType BY TypeParts DEF Shape
<1>2. view'[t] = [header |-> h, block |-> header[h].data, at |-> i]
      /\ \A u \in (Threads \cup {Python}) \ {t} : view'[u] = view[u]
  BY <1>1 DEF NamesType
<1>3. ViewsInOrder'
  BY <1>2, OrderNext DEF Order, ViewsInOrder, InCall, Live, LiveNext, Current
<1>4. /\ ObjectsInOrder' <=> ObjectsInOrder
      /\ CallsInOrder' <=> CallsInOrder
      /\ BlocksInOrder' <=> BlocksInOrder
  BY OrderNext DEF ObjectsInOrder, CallsInOrder, BlocksInOrder, Live, LiveNext,
                   InCall
<1> QED BY <1>3, <1>4 DEF Order

LEMMA ViewOrder ==
  ASSUME Shape, Order
  PROVE  /\ \A o \in Objects, i \in PyIndices : PyView(o, i) => Order'
         /\ \A t \in Threads, h \in Headers, i \in 0 .. MaxLen :
              NativeView(t, h, i) => Order'
<1>1. NamesType BY TypeParts DEF Shape
<1>2. ASSUME NEW o \in Objects, NEW i \in PyIndices, PyView(o, i)
      PROVE  Order'
  <2> DEFINE h == object[o].header
  <2>1. h \in Headers /\ Live(h)
    BY <1>1, <1>2 DEF PyView, NamesType, Order, ObjectsInOrder
  <2>2. view' = [view EXCEPT ![Python] =
                   [header |-> h, block |-> header[h].data,
                    at |-> PyIndex(h, i)]]
        /\ UNCHANGED <<header, block, object, call>>
    BY <1>2 DEF PyView
  <2> HIDE DEF h
  <2> QED BY <2>1, <2>2, NewViewOrder, ListConstants DEF Python
<1>3. ASSUME NEW t \in Threads, NEW h \in Headers, NEW i \in 0 .. MaxLen,
             NativeView(t, h, i)
      PROVE  Order'
  <2>1. InCall(h, t) /\ Live(h)
    BY <1>3 DEF NativeView, Running, Order, CallsInOrder
  <2> QED BY <2>1, <1>3, NewViewOrder DEF NativeView
<1> QED BY <1>2, <1>3

LEMMA QuietSteps ==
  ASSUME Shape, Order
  PROVE  /\ \A o \in Objects :
              /\ PyLen(o) => Order'
              /\ \A i \in PyIndices : PyGet(o, i) => Order'
              /\ \A i \in PyIndices, v \in Values : PySet(o, i, v) => Order'
         /\ \A t \in Threads, h \in Headers :
              /\ NativeLen(t, h) => Order'
              /\ \A i \in 0 .. MaxLen : NativeGet(t, h, i) => Order'
              /\ \A i \in 0 .. MaxLen, v \in Values :
                   NativeSet(t, h, i, v) => Order'
         /\ \A t \in Threads \cup {Python}, v \in Values :
              ViewSet(t, v) => Order'
<1>1. MemoryType /\ NamesType /\ TypeOK /\ CapacityIsSize
  BY TypeParts DEF Shape
<1>2. ASSUME NEW o \in Objects, PyLen(o) PROVE Order'
  BY <1>2, QuietOrder DEF PyLen
<1>3. ASSUME NEW o \in Objects, NEW i \in PyIndices, PyGet(o, i) PROVE Order'
  BY <1>3, QuietOrder DEF PyGet
<1>4. ASSUME NEW o \in Objects, NEW i \in PyIndices, NEW v \in Values,
             PySet(o, i, v)
      PROVE  Order'
  <2> DEFINE h == object[o].header
             at == PyIndex(h, i)
  <2>1. UNCHANGED <<header, object, call, view>> BY <1>4 DEF PySet
  <2>2. CASE UNCHANGED block BY <2>1, <2>2, QuietOrder
  <2>3. CASE ~UNCHANGED block
    <3>1. InRange(h, at)
          /\ block' = [block EXCEPT ![header[h].data].cells[at] = v]
      BY <1>4, <2>3 DEF PySet
    <3>2. h \in Headers BY <1>1, <1>4 DEF PySet, NamesType
    <3>3. at \in Int BY <1>1, <3>2, PyIndexInt
    <3> HIDE DEF h, at
    <3>4. header[h].data \in Blocks
      BY <1>1, <3>1, <3>2, <3>3, InRangeHasData
         DEF MemoryType, HeaderType, Shape
    <3> QED BY <1>1, <2>1, <3>1, <3>4, StoreOwners, QuietOrder
  <2> QED BY <2>2, <2>3
<1>5. ASSUME NEW t \in Threads, NEW h \in Headers, NativeLen(t, h) PROVE Order'
  BY <1>5, QuietOrder DEF NativeLen
<1>6. ASSUME NEW t \in Threads, NEW h \in Headers, NEW i \in 0 .. MaxLen,
             NativeGet(t, h, i)
      PROVE  Order'
  BY <1>6, QuietOrder DEF NativeGet
<1>7. ASSUME NEW t \in Threads, NEW h \in Headers, NEW i \in 0 .. MaxLen,
             NEW v \in Values, NativeSet(t, h, i, v)
      PROVE  Order'
  <2>1. /\ UNCHANGED <<header, object, call, view>> /\ InRange(h, i)
        /\ block' = [block EXCEPT ![header[h].data].cells[i] = v]
    BY <1>7 DEF NativeSet
  <2>2. header[h].data \in Blocks
    BY <1>1, <2>1, InRangeHasData DEF MemoryType, HeaderType, Shape
  <2> QED BY <1>1, <2>1, <2>2, StoreOwners, QuietOrder
<1>8. ASSUME NEW t \in Threads \cup {Python}, NEW v \in Values, ViewSet(t, v)
      PROVE  Order'
  <2>1. /\ UNCHANGED <<header, object, call, view>>
        /\ block' = [block EXCEPT ![view[t].block].cells[view[t].at] = v]
    BY <1>8 DEF ViewSet
  <2>2. view[t].block \in Blocks
    BY <1>1, <1>8 DEF ViewSet, Holds, NamesType, Views
  <2> QED BY <1>1, <2>1, <2>2, StoreOwners, QuietOrder
<1> QED BY <1>2, <1>3, <1>4, <1>5, <1>6, <1>7, <1>8

\* A list that somebody can touch is live, and so is its block.
LEMMA ReachesLive ==
  ASSUME Shape, Order, NEW t \in Threads \cup {Python}, NEW h \in Headers,
         Reaches(t, h)
  PROVE  Live(h) /\ ~Dangling(h)
<1>1. MemoryType /\ NamesType BY TypeParts DEF Shape
<1>2. Live(h)
  BY <1>1 DEF Reaches, Order, CallsInOrder, ObjectsInOrder, ViewsInOrder, Holds,
              NamesType
<1>3. ~Dangling(h)
  BY <1>2 DEF Dangling, Live, Order, BlocksInOrder
<1> QED BY <1>2, <1>3

\* Under the rules no step without a meaning can be taken.
LEMMA OrderIsSound ==
  ASSUME Shape, Order, BrokenStep
  PROVE  ~polite'
<1>1. MemoryType /\ NamesType BY TypeParts DEF Shape
<1>2. ASSUME NEW t \in Threads \cup {Python}, UseFreed(t) PROVE FALSE
  <2>1. ASSUME NEW h \in Headers, Reaches(t, h), Dangling(h) PROVE FALSE
    BY <2>1, ReachesLive
  <2>2. ASSUME Holds(t), block[view[t].block].owner = "freed" PROVE FALSE
    <3>1. view[t].header \in Headers /\ view[t].block \in Blocks
      BY <1>1, <2>2 DEF Holds, NamesType, Views
    <3>2. Current(t) BY <2>2 DEF Holds, Order, ViewsInOrder
    <3>3. Reaches(t, view[t].header) BY <2>2 DEF Reaches
    <3>4. ~Dangling(view[t].header) BY <3>1, <3>3, ReachesLive
    <3> QED BY <2>2, <3>1, <3>2, <3>4, ListConstants DEF Current, Dangling
  <2> QED BY <1>2, <2>1, <2>2 DEF UseFreed
<1>3. ASSUME NEW t \in Threads \cup {Python}, Race(t) PROVE ~polite'
  <2>1. CASE t = Python BY <1>3, <2>1 DEF Race, Rules
  <2>2. CASE t # Python
    <3>1. PICK h \in Headers : Reaches(t, h) /\ Racing(h, t)
      BY <1>3 DEF Race
    <3>2. t \in Threads /\ InCall(h, t)
      BY <2>2, <3>1 DEF Reaches, Holds, Order, ViewsInOrder, Python
    <3>3. PICK u \in Threads \ {t} : InCall(h, u)
      BY <3>1 DEF Racing, Appending
    <3> QED BY <3>2, <3>3 DEF Order, CallsInOrder
  <2> QED BY <2>1, <2>2
<1>4. ASSUME NEW t \in Threads \cup {Python}, StaleView(t) PROVE FALSE
  BY <1>4 DEF StaleView, Holds, Order, ViewsInOrder
<1>5. ASSUME NEW t \in Threads, ForeignRealloc(t) PROVE ~polite'
  <2>1. PICK h \in Headers :
          /\ Running(t, h) /\ header[h].data # Null
          /\ block[header[h].data].owner = "python" /\ Rules(MayAppend(h))
    BY <1>5 DEF ForeignRealloc
  <2>2. Live(h) BY <2>1 DEF Running, Order, CallsInOrder
  <2>3. header[h].owner = "python" BY <2>1, <2>2 DEF Order, BlocksInOrder
  <2>4. ~MayAppend(h) BY <2>3 DEF MayAppend
  <2> QED BY <2>1, <2>4 DEF Rules
<1>6. ASSUME NEW t \in Threads, Panic(t) PROVE ~polite'
  BY <1>6 DEF Panic, Rules
<1> QED BY <1>2, <1>3, <1>4, <1>5, <1>6 DEF BrokenStep

LEMMA PoliteStep == ASSUME Shape, PoliteInv, [Next]_vars PROVE PoliteInv'
<1> SUFFICES ASSUME polite' PROVE Order' /\ broken' = "no" BY DEF PoliteInv
<1>1. CASE UNCHANGED vars
  <2>1. polite /\ Order /\ broken' = "no" BY <1>1 DEF vars, PoliteInv
  <2>2. Order' BY <1>1, <2>1, QuietOrder DEF vars
  <2> QED BY <2>1, <2>2
<1>2. CASE BrokenStep
  <2>1. polite
    BY <1>2 DEF BrokenStep, UseFreed, Race, StaleView, ForeignRealloc, Panic,
                Meaningless, Rules
  <2> QED BY <1>2, <2>1, OrderIsSound DEF PoliteInv
<1>3. CASE (PyStep \/ NativeStep \/ ViewStep) /\ broken = "no"
           /\ UNCHANGED broken
  <2>1. CASE PyStep
    <3>1. PICK o \in Objects :
            \/ \E h \in Headers : PyNew(o, h)
            \/ \E v \in Values : PyAppend(o, v)
            \/ \E i \in PyIndices : \/ PyGet(o, i) \/ PyView(o, i)
                                    \/ \E v \in Values : PySet(o, i, v)
            \/ PyLen(o) \/ PyDrop(o)
      BY <2>1 DEF PyStep
    <3>2. polite
      BY <3>1 DEF PyNew, PyAppend, PyGet, PySet, PyLen, PyView, PyDrop, Rules
    <3>3. Order BY <3>2 DEF PoliteInv
    <3>4. ASSUME NEW h \in Headers, PyNew(o, h) PROVE Order'
      BY <3>3, <3>4, PyNewOrder
    <3>5. ASSUME NEW v \in Values, PyAppend(o, v) PROVE Order'
      <4>1. /\ object[o].owns /\ ~InCalls(object[o].header)
            /\ ~Viewed(object[o].header)
        BY <3>5 DEF PyAppend, Rules
      <4> QED BY <3>3, <3>5, <4>1, PyAppendOrder
    <3>6. ASSUME PyDrop(o) PROVE Order'
      <4>1. object[o].owns =>
              /\ \A p \in Objects \ {o} :
                   object[p] # Null => object[p].header # object[o].header
              /\ ~InCalls(object[o].header) /\ ~Viewed(object[o].header)
        BY <3>6 DEF PyDrop, Rules
      <4> QED BY <3>3, <3>6, <4>1, PyDropOrder
    <3>7. Order' BY <3>1, <3>3, <3>4, <3>5, <3>6, QuietSteps, ViewOrder
    <3> QED BY <1>3, <3>7
  <2>2. CASE NativeStep
    <3>1. PICK t \in Threads :
            \/ EnterEmpty(t) \/ ReturnOther(t)
            \/ \E o \in Objects : Enter(t, o) \/ Return(t, o)
            \/ \E h \in Headers :
                 \/ NativeNew(t, h) \/ EndAppend(t, h) \/ NativeLen(t, h)
                 \/ \E v \in Values : BeginAppend(t, h, v)
                 \/ \E i \in 0 .. MaxLen :
                      \/ NativeGet(t, h, i) \/ NativeView(t, h, i)
                      \/ \E v \in Values : NativeSet(t, h, i, v)
      BY <2>2 DEF NativeStep
    <3>2. polite
      BY <3>1 DEF EnterEmpty, ReturnOther, Enter, Return, NativeNew, EndAppend,
                  NativeLen, BeginAppend, NativeGet, NativeView, NativeSet,
                  Rules
    <3>3. Order BY <3>2 DEF PoliteInv
    <3>4. ASSUME NEW o \in Objects, Enter(t, o) PROVE Order'
      <4>1. ~InCalls(object[o].header) BY <3>4 DEF Enter, Rules
      <4> QED BY <3>3, <3>4, <4>1, EnterOrder
    <3>5. ASSUME NEW h \in Headers, NEW v \in Values, BeginAppend(t, h, v)
          PROVE  Order'
      <4>1. MayAppend(h) BY <3>5 DEF BeginAppend, Rules
      <4> QED BY <3>3, <3>5, <4>1, BeginOrder
    <3>6. Order'
      BY <3>1, <3>3, <3>4, <3>5, QuietSteps, ViewOrder, EnterEmptyOrder,
         ReturnOrder, ReturnOtherOrder, NativeNewOrder, EndOrder
    <3> QED BY <1>3, <3>6
  <2>3. CASE ViewStep
    <3>1. PICK t \in Threads \cup {Python}, v \in Values : ViewSet(t, v)
      BY <2>3 DEF ViewStep
    <3>2. polite BY <3>1 DEF ViewSet, Rules
    <3> QED BY <1>3, <3>1, <3>2, QuietSteps DEF PoliteInv
  <2> QED BY <1>3, <2>1, <2>2, <2>3
<1> QED BY <1>1, <1>2, <1>3 DEF Next

\* Users that keep to the rules never meet a step without a meaning, however
\* many threads, lists and objects there are.
THEOREM PoliteCorrect == Spec => []PoliteIsSafe
<1>1. Init => IInv
  <2>1. ASSUME Init PROVE Order
    <3>1. /\ \A h \in Headers : header[h].data = Null
          /\ \A o \in Objects : object[o] = Null
          /\ \A t \in Threads : call[t] = Null
          /\ \A t \in Threads \cup {Python} : view[t] = Null
      BY <2>1 DEF Init
    <3> QED BY <3>1 DEF Order, ObjectsInOrder, CallsInOrder, ViewsInOrder,
                        BlocksInOrder, InCall
  <2> QED BY <2>1, ShapeInit DEF IInv, PoliteInv, Init
<1>2. IInv /\ [Next]_vars => IInv' BY ShapeStep, PoliteStep DEF IInv
<1>3. IInv => PoliteIsSafe BY DEF IInv, PoliteInv, PoliteIsSafe
<1> QED BY <1>1, <1>2, <1>3, PTL DEF Spec

-----------------------------------------------------------------------------
(* What the headers stand for                                              *)

Existing == {g \in Headers : Exists(g)}
AllLists == [h \in Existing |-> Contents(h)]

Items == Values \cup {Null}

\* The contents of a list are a sequence, of the list's length.
LEMMA ContentsAre ==
  ASSUME Shape, NEW h \in Headers
  PROVE  /\ header[h].len \in Nat
         /\ Contents(h) \in Seq(Items) /\ Len(Contents(h)) = header[h].len
         /\ \A i \in 1 .. header[h].len : Contents(h)[i] = CellsOf(h)[i - 1]
<1>1. header[h].len \in Nat /\ header[h].cap \in Nat /\ header[h].len <= header[h].cap
  BY DEF Shape, TypeOK, CapacityIsSize
<1>2. ASSUME NEW i \in 1 .. header[h].len PROVE CellsOf(h)[i - 1] \in Items
  <2>1. header[h].data # Null
    BY <1>1, <1>2 DEF Shape, CapacityIsSize
  <2>2. CellsOf(h) \in [0 .. header[h].cap - 1 -> Items]
    BY <2>1, CellsOfType DEF Shape, Items
  <2>. QED  BY <1>1, <1>2, <2>2
<1>. QED  BY <1>1, <1>2 DEF Contents

\* A header and the cells it reaches are untouched.
Untouched(h) ==
  /\ header'[h].len = header[h].len
  /\ header'[h].owner = "none" <=> header[h].owner = "none"
  /\ \A i \in 0 .. header[h].len - 1 :
       block'[header'[h].data].cells[i] = block[header[h].data].cells[i]

LEMMA UntouchedKeeps ==
  ASSUME Shape, NEW h \in Headers, Untouched(h)
  PROVE  Contents(h)' = Contents(h) /\ (Exists(h)' <=> Exists(h))
<1>1. header[h].len \in Nat
  BY ContentsAre
<1>2. ASSUME NEW i \in 1 .. header[h].len
      PROVE  block'[header'[h].data].cells[i - 1] = block[header[h].data].cells[i - 1]
  BY <1>1 DEF Untouched
<1>. QED  BY <1>2 DEF Contents, CellsOf, Exists, Untouched

\* A step that touches nothing and answers nothing.
LEMMA Stutters ==
  ASSUME Shape, \A h \in Headers : Untouched(h), UNCHANGED <<result, broken>>
  PROVE  UNCHANGED Lists!vars
<1>1. Existing' = Existing
  BY UntouchedKeeps DEF Existing
<1>2. AllLists' = AllLists
  BY <1>1, UntouchedKeeps DEF AllLists, Existing
<1>. QED  BY <1>2 DEF Lists!vars, AllLists, Existing

\* A step that touches one list.
LEMMA TouchesOne ==
  ASSUME Shape, NEW h \in Headers, Exists(h), Exists(h)', 
         \A g \in Headers \ {h} : Untouched(g)
  PROVE  AllLists' = [AllLists EXCEPT ![h] = Contents(h)']
<1>1. Existing' = Existing
  BY UntouchedKeeps DEF Existing
<1>2. \A g \in Existing \ {h} : Contents(g)' = Contents(g)
  BY UntouchedKeeps DEF Existing
<1>. QED  BY <1>1, <1>2 DEF AllLists
-----------------------------------------------------------------------------
(* Operations on one list                                                  *)

LEMMA Works ==
  ASSUME broken = "no", UNCHANGED broken, Lists!Work
  PROVE  Lists!Next
BY DEF Lists!Next

LEMMA AddIs ==
  ASSUME Shape, NEW h \in Headers, Exists(h), Exists(h)', NEW v \in Values,
         \A g \in Headers \ {h} : Untouched(g),
         header'[h].len = header[h].len + 1,
         \A i \in 0 .. header[h].len - 1 :
           block'[header'[h].data].cells[i] = block[header[h].data].cells[i],
         block'[header'[h].data].cells[header[h].len] = v,
         result' = <<"none">>
  PROVE  Lists!Work
<1>1. /\ header[h].len \in Nat
      /\ Contents(h) \in Seq(Items) /\ Len(Contents(h)) = header[h].len
      /\ \A i \in 1 .. header[h].len : Contents(h)[i] = block[header[h].data].cells[i - 1]
  BY ContentsAre DEF CellsOf
<1>2. Contents(h)' = [i \in 1 .. header[h].len + 1 |-> block'[header'[h].data].cells[i - 1]]
  BY DEF Contents, CellsOf
<1>3. Append(Contents(h), v) \in Seq(Items) /\ Len(Append(Contents(h), v)) = header[h].len + 1
  BY <1>1 DEF Items
<1>4. ASSUME NEW i \in 1 .. header[h].len + 1
      PROVE  Append(Contents(h), v)[i] = block'[header'[h].data].cells[i - 1]
  <2>1. CASE i = header[h].len + 1
    BY <1>1, <2>1
  <2>2. CASE i # header[h].len + 1
    <3>1. i \in 1 .. header[h].len /\ i - 1 \in 0 .. header[h].len - 1
      BY <1>1, <2>2
    <3>. QED  BY <1>1, <3>1
  <2>. QED  BY <2>1, <2>2
<1>5. Contents(h)' = Append(Contents(h), v)
  <2>1. \A i \in 1 .. header[h].len + 1 : Append(Contents(h), v)[i] \in Items
    BY <1>1, <1>3
  <2>2. Contents(h)' \in Seq(Items) /\ Len(Contents(h)') = header[h].len + 1
    <3>. DEFINE n == header[h].len + 1
                item(i) == block'[header'[h].data].cells[i - 1]
    <3>1. n \in Nat /\ \A i \in 1 .. n : item(i) \in Items
      BY <1>1, <1>4, <2>1
    <3>2. Contents(h)' = [i \in 1 .. n |-> item(i)]
      BY <1>2
    <3>. HIDE DEF n, item
    <3>3. [i \in 1 .. n |-> item(i)] \in Seq(Items) /\ Len([i \in 1 .. n |-> item(i)]) = n
      BY <3>1
    <3>. QED  BY <3>2, <3>3 DEF n
  <2>3. \A i \in 1 .. header[h].len + 1 : Contents(h)'[i] = Append(Contents(h), v)[i]
    BY <1>2, <1>4
  <2>. QED  BY <1>3, <2>2, <2>3, SeqEqual
<1>6. AllLists' = [AllLists EXCEPT ![h] = Append(AllLists[h], v)]
  <2>1. AllLists[h] = Contents(h)
    BY DEF AllLists, Existing
  <2>. QED  BY <1>5, <2>1, TouchesOne
<1>7. h \in Existing /\ DOMAIN AllLists = Existing
  BY DEF Existing, AllLists
<1>. QED  BY <1>6, <1>7 DEF Lists!Work, Lists!Add, AllLists, Existing

LEMMA SetIs ==
  ASSUME Shape, NEW h \in Headers, Exists(h), NEW v \in Values,
         NEW i \in 0 .. header[h].len - 1,
         UNCHANGED header, block' = [block EXCEPT ![header[h].data].cells[i] = v],
         result' = <<"none">>
  PROVE  Lists!Work
<1>1. /\ header[h].len \in Nat
      /\ Contents(h) \in Seq(Items) /\ Len(Contents(h)) = header[h].len
      /\ \A j \in 1 .. header[h].len : Contents(h)[j] = block[header[h].data].cells[j - 1]
  BY ContentsAre DEF CellsOf
<1>2. header[h].cap \in Nat /\ header[h].len <= header[h].cap
  BY DEF Shape, TypeOK, CapacityIsSize
<1>3. header[h].data # Null
  BY <1>1, <1>2 DEF Shape, CapacityIsSize
<1>4. /\ header[h].data \in Blocks /\ i \in DOMAIN CellsOf(h)
      /\ CellsOf(h) \in [0 .. header[h].cap - 1 -> Items]
  BY <1>1, <1>2, <1>3, CellsOfType DEF Shape, Items
<1>5. block \in [Blocks -> [owner : Owners, cells : Cells]]
  BY DEF Shape, TypeOK
<1>6. /\ block'[header[h].data].cells = [CellsOf(h) EXCEPT ![i] = v]
      /\ \A b : b # header[h].data => block'[b] = block[b]
  BY <1>4, <1>5 DEF CellsOf
<1>7. ASSUME NEW g \in Headers \ {h} PROVE Untouched(g)
  <2>1. CASE header[g].data = Null
    <3>1. header[g].len = 0
      BY <2>1 DEF Shape, TypeOK, CapacityIsSize
    <3>. QED  BY <3>1 DEF Untouched
  <2>2. CASE header[g].data # Null
    <3>1. header[g].data # header[h].data
      BY <2>2 DEF Shape, CapacityIsSize
    <3>. QED  BY <1>6, <3>1 DEF Untouched
  <2>. QED  BY <2>1, <2>2
<1>8. Contents(h)' = [Contents(h) EXCEPT ![i + 1] = v]
  <2>1. Contents(h)' = [j \in 1 .. header[h].len |-> block'[header[h].data].cells[j - 1]]
    BY DEF Contents, CellsOf
  <2>2. Contents(h) = [j \in 1 .. header[h].len |-> CellsOf(h)[j - 1]]
    BY DEF Contents
  <2>3. ASSUME NEW j \in 1 .. header[h].len
        PROVE  block'[header[h].data].cells[j - 1] = IF j = i + 1 THEN v ELSE CellsOf(h)[j - 1]
    <3>1. j - 1 \in 0 .. header[h].cap - 1 /\ (j - 1 = i <=> j = i + 1)
      BY <1>1, <1>2
    <3>2. [CellsOf(h) EXCEPT ![i] = v][j - 1] = IF j - 1 = i THEN v ELSE CellsOf(h)[j - 1]
      BY <1>4, <3>1
    <3>. QED  BY <1>6, <3>1, <3>2
  <2>. QED  BY <1>1, <2>1, <2>2, <2>3
<1>9. AllLists' = [AllLists EXCEPT ![h] = [AllLists[h] EXCEPT ![i + 1] = v]]
  <2>1. AllLists[h] = Contents(h)
    BY DEF AllLists, Existing
  <2>2. Exists(h)'
    BY DEF Exists
  <2>. QED  BY <1>7, <1>8, <2>1, <2>2, TouchesOne
<1>10. /\ h \in Existing /\ DOMAIN AllLists = Existing
       /\ i + 1 \in 1 .. Len(AllLists[h])
  BY <1>1 DEF Existing, AllLists
<1>. QED  BY <1>9, <1>10 DEF Lists!Work, Lists!Set, AllLists, Existing

\* What leaves memory alone and answers a question.
LEMMA AnswerIs ==
  ASSUME Shape, NEW h \in Headers, Exists(h), UNCHANGED <<header, block>>,
         \/ result' = <<"length", header[h].len>>
         \/ result' = <<"IndexError">>
         \/ \E i \in 0 .. header[h].len - 1 : result' = <<"value", CellsOf(h)[i]>>
  PROVE  Lists!Work
<1>1. /\ header[h].len \in Nat /\ Len(Contents(h)) = header[h].len
      /\ \A j \in 1 .. header[h].len : Contents(h)[j] = CellsOf(h)[j - 1]
  BY ContentsAre
<1>2. h \in Existing /\ DOMAIN AllLists = Existing /\ AllLists[h] = Contents(h)
  BY DEF Existing, AllLists
<1>3. AllLists' = AllLists
  BY DEF AllLists, Existing, Exists, Contents, CellsOf
<1>4. CASE result' = <<"length", header[h].len>>
  BY <1>1, <1>2, <1>3, <1>4 DEF Lists!Work, Lists!Size, AllLists, Existing
<1>5. CASE result' = <<"IndexError">>
  BY <1>2, <1>3, <1>5 DEF Lists!Work, Lists!NoSuchElement, AllLists, Existing
<1>6. ASSUME NEW i \in 0 .. header[h].len - 1, result' = <<"value", CellsOf(h)[i]>>
      PROVE  Lists!Work
  <2>1. i + 1 \in 1 .. Len(AllLists[h]) /\ AllLists[h][i + 1] = CellsOf(h)[i]
    BY <1>1, <1>2
  <2>. QED  BY <1>2, <1>3, <1>6, <2>1 DEF Lists!Work, Lists!Get, AllLists, Existing
<1>. QED  BY <1>4, <1>5, <1>6
-----------------------------------------------------------------------------
(* Growth                                                                  *)

\* A list that reaches none of the blocks that change.
LEMMA ApartKeeps ==
  ASSUME Shape, NEW g \in Headers, header'[g] = header[g],
         header[g].data # Null => block'[header[g].data].cells = block[header[g].data].cells
  PROVE  Untouched(g)
<1>1. CASE header[g].data = Null
  <2>1. header[g].len = 0
    BY <1>1 DEF Shape, TypeOK, CapacityIsSize
  <2>. QED  BY <2>1 DEF Untouched
<1>2. CASE header[g].data # Null
  BY <1>2 DEF Untouched
<1>. QED  BY <1>1, <1>2

\* The elements move along, and nobody else's do.
LEMMA RelocatesKeeps ==
  ASSUME Shape, NEW h \in Headers, NEW b \in Blocks, NEW n, NEW new, Relocates(h, b, n, new)
  PROVE  /\ \A g \in Headers \ {h} : Untouched(g)
         /\ header'[h].len = n /\ header'[h].owner = header[h].owner
         /\ header'[h].data = b /\ block'[b] = new
         /\ \A i \in 0 .. header[h].len - 1 :
              block'[b].cells[i] = block[header[h].data].cells[i]
<1>1. block \in [Blocks -> [owner : Owners, cells : Cells]]
      /\ header = [g \in Headers |-> header[g]]
  BY DEF Shape, TypeOK
<1>2. header' = [header EXCEPT ![h] = Regrown(h, b, n)]
  BY DEF Relocates
<1>3. header'[h] = Regrown(h, b, n) /\ \A g \in Headers \ {h} : header'[g] = header[g]
  BY <1>1, <1>2
<1>4. /\ block'[b] = new
      /\ \A c \in Blocks : c # b /\ c # header[h].data => block'[c] = block[c]
  BY <1>1 DEF Relocates
<1>5. ASSUME NEW g \in Headers \ {h} PROVE Untouched(g)
  <2>1. header[g].data # Null =>
          header[g].data \in Blocks /\ header[g].data # b /\ header[g].data # header[h].data
    BY DEF Relocates, Shape, TypeOK, CapacityIsSize
  <2>. QED  BY <1>3, <1>4, <2>1, ApartKeeps
<1>6. \A i \in 0 .. header[h].len - 1 : block'[b].cells[i] = block[header[h].data].cells[i]
  BY <1>4 DEF Relocates, Holding, CellsOf
<1>. QED  BY <1>3, <1>4, <1>5, <1>6 DEF Regrown

LEMMA GrowsKeeps ==
  ASSUME Shape, NEW h \in Headers, Grows(h)
  PROVE  \A g \in Headers : Untouched(g)
<1>1. ASSUME NEW b \in Blocks, NEW new, Relocates(h, b, header[h].len, new)
      PROVE  \A g \in Headers : Untouched(g)
  <2>1. /\ \A g \in Headers \ {h} : Untouched(g)
        /\ header'[h].len = header[h].len /\ header'[h].owner = header[h].owner
        /\ header'[h].data = b
        /\ \A i \in 0 .. header[h].len - 1 :
             block'[b].cells[i] = block[header[h].data].cells[i]
    BY <1>1, RelocatesKeeps
  <2>2. Untouched(h)
    BY <2>1 DEF Untouched
  <2>. QED  BY <2>1, <2>2
<1>2. ASSUME NEW cells, Widens(h, cells)
      PROVE  \A g \in Headers : Untouched(g)
  <2>1. block \in [Blocks -> [owner : Owners, cells : Cells]]
        /\ header = [g \in Headers |-> header[g]] /\ header[h].data \in Blocks
    BY <1>2 DEF Shape, TypeOK, Widens
  <2>2. /\ header'[h] = Regrown(h, header[h].data, header[h].len)
        /\ \A g \in Headers \ {h} : header'[g] = header[g]
        /\ block'[header[h].data].cells = cells
        /\ \A c \in Blocks : c # header[h].data => block'[c] = block[c]
    BY <1>2, <2>1 DEF Widens
  <2>3. Untouched(h)
    BY <1>2, <2>2 DEF Untouched, Widens, Holding, CellsOf, Regrown
  <2>4. ASSUME NEW g \in Headers \ {h} PROVE Untouched(g)
    <3>1. header[g].data # Null => header[g].data \in Blocks /\ header[g].data # header[h].data
      BY DEF Shape, TypeOK, CapacityIsSize
    <3>. QED  BY <2>2, <3>1, ApartKeeps
  <2>. QED  BY <2>3, <2>4
<1>. QED  BY <1>1, <1>2 DEF Grows
-----------------------------------------------------------------------------
(* Steps                                                                   *)

\* List() and lirien_list_new.
LEMMA NewIs ==
  ASSUME Shape, NEW h \in Headers, ~Exists(h), NEW who, who # "none",
         header' = [header EXCEPT ![h].owner = who], UNCHANGED block, result' = <<"none">>
  PROVE  Lists!Work
<1>1. header = [g \in Headers |-> header[g]] /\ header[h].len = 0
      /\ header[h] \in [owner : Owners, data : Blocks \cup {Null}, len : Nat, cap : Nat]
  BY DEF Shape, TypeOK, NamesExist
<1>2. /\ header'[h].owner = who /\ header'[h].len = 0
      /\ \A g \in Headers \ {h} : header'[g] = header[g]
  BY <1>1
<1>3. \A g \in Headers \ {h} : Untouched(g)
  BY <1>2, ApartKeeps
<1>4. Existing' = Existing \cup {h} /\ h \notin Existing
  <2>1. Exists(h)'
    BY <1>2 DEF Exists
  <2>2. \A g \in Headers \ {h} : Exists(g)' <=> Exists(g)
    BY <1>3, UntouchedKeeps
  <2>. QED  BY <2>1, <2>2 DEF Existing
<1>5. Contents(h)' = <<>>
  <2>1. Contents(h)' = [i \in 1 .. 0 |-> block'[header'[h].data].cells[i - 1]]
    BY <1>2 DEF Contents, CellsOf
  <2>. QED  BY <2>1
<1>6. \A g \in Existing : Contents(g)' = Contents(g)
  BY <1>3, <1>4, UntouchedKeeps DEF Existing
<1>7. AllLists' = [g \in Existing \cup {h} |-> IF g = h THEN <<>> ELSE AllLists[g]]
  BY <1>4, <1>5, <1>6 DEF AllLists
<1>8. DOMAIN AllLists = Existing
  BY DEF AllLists
<1>. QED  BY <1>4, <1>7, <1>8 DEF Lists!Work, Lists!New, AllLists, Existing

\* An item is stored behind the last one.
LEMMA StoreAtEnd ==
  ASSUME Shape, NEW h \in Headers, Exists(h), NEW v \in Values,
         header[h].data # Null, header[h].len < header[h].cap,
         block' = [block EXCEPT ![header[h].data].cells[header[h].len] = v],
         header' = [header EXCEPT ![h].len = @ + 1], result' = <<"none">>
  PROVE  Lists!Work
<1>. DEFINE n == header[h].len
            d == header[h].data
<1>1. /\ n \in Nat /\ header[h].cap \in Nat /\ d \in Blocks
      /\ header = [g \in Headers |-> header[g]]
      /\ header[h] \in [owner : Owners, data : Blocks \cup {Null}, len : Nat, cap : Nat]
      /\ block \in [Blocks -> [owner : Owners, cells : Cells]]
  BY DEF Shape, TypeOK
<1>2. CellsOf(h) \in [0 .. header[h].cap - 1 -> Items] /\ n \in 0 .. header[h].cap - 1
  BY <1>1, CellsOfType DEF Shape, Items
<1>3. /\ header'[h].len = n + 1 /\ header'[h].data = d /\ header'[h].owner = header[h].owner
      /\ \A g \in Headers \ {h} : header'[g] = header[g]
  BY <1>1
<1>4. /\ block'[d].cells = [CellsOf(h) EXCEPT ![n] = v]
      /\ \A c \in Blocks : c # d => block'[c] = block[c]
  BY <1>1 DEF CellsOf
<1>5. ASSUME NEW g \in Headers \ {h} PROVE Untouched(g)
  <2>1. header[g].data # Null => header[g].data \in Blocks /\ header[g].data # d
    BY DEF Shape, TypeOK, CapacityIsSize
  <2>. QED  BY <1>3, <1>4, <2>1, ApartKeeps
<1>6. block'[d].cells[n] = v /\ \A i \in 0 .. n - 1 : block'[d].cells[i] = block[d].cells[i]
  <2>1. \A i \in 0 .. n - 1 : i \in 0 .. header[h].cap - 1 /\ i # n
    BY <1>1, <1>2
  <2>2. \A i \in 0 .. header[h].cap - 1 :
          [CellsOf(h) EXCEPT ![n] = v][i] = IF i = n THEN v ELSE CellsOf(h)[i]
    BY <1>2
  <2>3. CellsOf(h) = block[d].cells
    BY DEF CellsOf
  <2>. HIDE DEF n, d
  <2>. QED  BY <1>2, <1>4, <2>1, <2>2, <2>3
<1>7. Exists(h)'
  BY <1>3 DEF Exists
<1>. QED  BY <1>3, <1>5, <1>6, <1>7, AddIs

\* The list moves, and an item is stored behind the last one.
LEMMA StoreAfterMove ==
  ASSUME Shape, NEW h \in Headers, Exists(h), NEW v \in Values, NEW b \in Blocks, NEW new,
         Relocates(h, b, header[h].len + 1, new), new.cells[header[h].len] = v,
         result' = <<"none">>
  PROVE  Lists!Work
<1>1. /\ \A g \in Headers \ {h} : Untouched(g)
      /\ header'[h].len = header[h].len + 1 /\ header'[h].owner = header[h].owner
      /\ header'[h].data = b /\ block'[b] = new
      /\ \A i \in 0 .. header[h].len - 1 :
           block'[b].cells[i] = block[header[h].data].cells[i]
  BY RelocatesKeeps
<1>2. Exists(h)'
  BY <1>1 DEF Exists
<1>. QED  BY <1>1, <1>2, AddIs

LEMMA PyAppendIs ==
  ASSUME Shape, NEW o \in Objects, NEW v \in Values, PyAppend(o, v)
  PROVE  Lists!Work
<1>. DEFINE h == object[o].header
<1>1. h \in Headers /\ Exists(h) /\ header[h].len < MaxLen /\ result' = <<"none">>
  BY DEF PyAppend, Shape, TypeOK, NamesExist
<1>2. ASSUME NEW b \in Blocks, PyAppendGrow(o, h, v, b) PROVE Lists!Work
  <2>1. PICK new : /\ Relocates(h, b, header[h].len + 1, new)
                   /\ new.cells[header[h].len] = v
    BY <1>1, <1>2, PyGrowEffect DEF Shape
  <2>. HIDE DEF h
  <2>. QED  BY <1>1, <2>1, StoreAfterMove
<1>3. ASSUME PyAppendInPlace(h, v) PROVE Lists!Work
  <2>1. /\ header[h].len \in Nat /\ header[h].cap \in Nat /\ header[h].len < header[h].cap
        /\ header[h].data \in Blocks /\ header[h].data # Null
    BY <1>1, <1>3 DEF PyAppendInPlace, Full, Shape, TypeOK, CapacityIsSize
  <2>2. /\ block' = [block EXCEPT ![header[h].data].cells[header[h].len] = v]
        /\ header' = [header EXCEPT ![h].len = @ + 1]
    BY <1>3 DEF PyAppendInPlace
  <2>. HIDE DEF h
  <2>. QED  BY <1>1, <2>1, <2>2, StoreAtEnd
<1>. QED  BY <1>2, <1>3 DEF PyAppend

\* Nothing that GrowableLists has is touched.
Quiet == (\A h \in Headers : Untouched(h)) /\ UNCHANGED result

LEMMA SameIsQuiet == ASSUME UNCHANGED <<header, block, result>> PROVE Quiet
BY DEF Quiet, Untouched

LEMMA PySetIs ==
  ASSUME Shape, NEW o \in Objects, NEW i \in PyIndices, NEW v \in Values, PySet(o, i, v)
  PROVE  Lists!Work
<1>. DEFINE h == object[o].header
            at == PyIndex(h, i)
<1>1. h \in Headers /\ Exists(h) /\ UNCHANGED header
  BY DEF PySet, Shape, TypeOK, NamesExist
<1>2. at \in Int
  BY <1>1, PyIndexInt DEF Shape
<1>3. CASE InRange(h, at)
  <2>1. block' = [block EXCEPT ![header[h].data].cells[at] = v] /\ result' = <<"none">>
    BY <1>3 DEF PySet
  <2>2. at \in 0 .. header[h].len - 1
    <3>. HIDE DEF h, at
    <3>. QED  BY <1>1, <1>2, <1>3, InRangeHasData DEF Shape
  <2>. HIDE DEF h, at
  <2>. QED  BY <1>1, <2>1, <2>2, SetIs
<1>4. CASE ~InRange(h, at)
  <2>1. UNCHANGED block /\ result' = <<"IndexError">>
    BY <1>4 DEF PySet
  <2>. HIDE DEF h
  <2>. QED  BY <1>1, <2>1, AnswerIs
<1>. QED  BY <1>3, <1>4

LEMMA PyGetIs ==
  ASSUME Shape, NEW o \in Objects, NEW i \in PyIndices, PyGet(o, i)
  PROVE  Lists!Work
<1>. DEFINE h == object[o].header
            at == PyIndex(h, i)
<1>1. h \in Headers /\ Exists(h) /\ UNCHANGED <<header, block>>
  BY DEF PyGet, Shape, TypeOK, NamesExist
<1>2. at \in Int
  BY <1>1, PyIndexInt DEF Shape
<1>3. result' = IF InRange(h, at) THEN <<"value", CellsOf(h)[at]>> ELSE <<"IndexError">>
  BY DEF PyGet
<1>4. InRange(h, at) => at \in 0 .. header[h].len - 1
  <2>. HIDE DEF h, at
  <2>. QED  BY <1>1, <1>2, InRangeHasData DEF Shape
<1>. HIDE DEF h, at
<1>. QED  BY <1>1, <1>3, <1>4, AnswerIs

LEMMA PyDropIs ==
  ASSUME Shape, NEW o \in Objects, PyDrop(o)
  PROVE  Quiet
<1>. DEFINE h == object[o].header
<1>1. /\ header' = header \/ header' = [header EXCEPT ![h].owner = "freed"]
      /\ block' = [b \in Blocks |-> IF b \in object[o].buffers
                                    THEN [block[b] EXCEPT !.owner = "freed"]
                                    ELSE block[b]]
      /\ UNCHANGED result
  BY DEF PyDrop
<1>2. /\ h \in Headers /\ Exists(h)
      /\ header \in [Headers -> [owner : Owners, data : Blocks \cup {Null}, len : Nat, cap : Nat]]
      /\ block \in [Blocks -> [owner : Owners, cells : Cells]]
  BY DEF PyDrop, Shape, TypeOK, NamesExist
<1>. HIDE DEF h
<1>3. \A b \in Blocks : block'[b].cells = block[b].cells
  BY <1>1, <1>2
<1>4. \A g \in Headers :
        /\ header'[g].len = header[g].len /\ header'[g].data = header[g].data
        /\ header'[g].owner = "none" <=> header[g].owner = "none"
  <2>1. CASE header' = header
    BY <2>1
  <2>2. CASE header' = [header EXCEPT ![h].owner = "freed"]
    BY <1>2, <2>2 DEF Exists
  <2>. QED  BY <1>1, <2>1, <2>2
<1>5. ASSUME NEW g \in Headers PROVE Untouched(g)
  <2>1. CASE header[g].data = Null
    <3>1. header[g].len = 0
      BY <2>1 DEF Shape, TypeOK, CapacityIsSize
    <3>. QED  BY <1>4, <3>1 DEF Untouched
  <2>2. CASE header[g].data # Null
    <3>1. header[g].data \in Blocks
      BY <1>2, <2>2
    <3>. QED  BY <1>3, <1>4, <3>1 DEF Untouched
  <2>. QED  BY <2>1, <2>2
<1>. QED  BY <1>1, <1>5 DEF Quiet

LEMMA PyIs == ASSUME Shape, PyStep PROVE Lists!Work \/ Quiet
<1>1. PICK o \in Objects :
        \/ \E h \in Headers : PyNew(o, h)
        \/ \E v \in Values : PyAppend(o, v)
        \/ \E i \in PyIndices : \/ PyGet(o, i) \/ PyView(o, i)
                                \/ \E v \in Values : PySet(o, i, v)
        \/ PyLen(o) \/ PyDrop(o)
  BY DEF PyStep
<1>2. ASSUME NEW h \in Headers, PyNew(o, h) PROVE Lists!Work
  BY <1>2, NewIs DEF PyNew
<1>3. ASSUME NEW i \in PyIndices, PyView(o, i) PROVE Quiet
  BY <1>3, SameIsQuiet DEF PyView
<1>4. ASSUME PyLen(o) PROVE Lists!Work
  <2>1. /\ object[o].header \in Headers /\ Exists(object[o].header)
        /\ UNCHANGED <<header, block>>
        /\ result' = <<"length", header[object[o].header].len>>
    BY <1>4 DEF PyLen, Shape, TypeOK, NamesExist
  <2>. QED  BY <2>1, AnswerIs
<1>. QED  BY <1>1, <1>2, <1>3, <1>4, PyAppendIs, PyGetIs, PySetIs, PyDropIs

LEMMA BeginIs ==
  ASSUME Shape, NEW t \in Threads, NEW h \in Headers, NEW v \in Values, BeginAppend(t, h, v)
  PROVE  Quiet
<1>1. CASE Full(h) /\ Grow(h)
  <2>1. Grows(h)
    BY <1>1, GrowEffect DEF BeginAppend, Shape
  <2>. QED  BY <2>1, GrowsKeeps DEF Quiet, BeginAppend
<1>2. CASE UNCHANGED <<block, header>>
  BY <1>2, SameIsQuiet DEF BeginAppend
<1>. QED  BY <1>1, <1>2 DEF BeginAppend

\* What compiled code runs on exists.
LEMMA InCallExists ==
  ASSUME Shape, NEW t \in Threads, NEW h \in Headers, InCall(h, t)
  PROVE  Exists(h)
<1>1. h # Null
  BY ListConstants
<1>. QED  BY <1>1 DEF InCall, Shape, NamesExist

LEMMA EndIs ==
  ASSUME Shape, NEW t \in Threads, NEW h \in Headers, EndAppend(t, h)
  PROVE  Lists!Work
<1>1. Appending(h, t) /\ Exists(h) /\ header[h].data # Null /\ header[h].len < header[h].cap
  BY InCallExists DEF EndAppend, Shape, AppendsHaveRoom, Appending
<1>2. call[t].item \in Values
  BY <1>1 DEF Appending, InCall, Shape, TypeOK
<1>3. /\ block' = [block EXCEPT ![header[h].data].cells[header[h].len] = call[t].item]
      /\ header' = [header EXCEPT ![h].len = @ + 1]
      /\ result' = <<"none">>
  BY DEF EndAppend
<1>. QED  BY <1>1, <1>2, <1>3, StoreAtEnd

LEMMA NativeIs == ASSUME Shape, NativeStep PROVE Lists!Work \/ Quiet
<1>1. PICK t \in Threads :
        \/ EnterEmpty(t) \/ ReturnOther(t)
        \/ \E o \in Objects : Enter(t, o) \/ Return(t, o)
        \/ \E h \in Headers :
             \/ NativeNew(t, h) \/ EndAppend(t, h) \/ NativeLen(t, h)
             \/ \E v \in Values : BeginAppend(t, h, v)
             \/ \E i \in 0 .. MaxLen : \/ NativeGet(t, h, i) \/ NativeView(t, h, i)
                                       \/ \E v \in Values : NativeSet(t, h, i, v)
  BY DEF NativeStep
<1>2. ASSUME EnterEmpty(t) \/ ReturnOther(t) \/ \E o \in Objects : Enter(t, o) \/ Return(t, o)
      PROVE  Quiet
  BY <1>2, SameIsQuiet DEF EnterEmpty, ReturnOther, Enter, Return
<1>3. ASSUME NEW h \in Headers, NativeNew(t, h) PROVE Lists!Work
  BY <1>3, NewIs DEF NativeNew
<1>4. ASSUME NEW h \in Headers, NativeLen(t, h) PROVE Lists!Work
  BY <1>4, InCallExists, AnswerIs DEF NativeLen, Running
<1>5. ASSUME NEW h \in Headers, NEW i \in 0 .. MaxLen, NativeGet(t, h, i) PROVE Lists!Work
  <2>1. Exists(h) /\ i \in Int /\ InRange(h, i) /\ UNCHANGED <<header, block>>
        /\ result' = <<"value", CellsOf(h)[i]>>
    BY <1>5, InCallExists DEF NativeGet, Running
  <2>2. i \in 0 .. header[h].len - 1
    BY <2>1, InRangeHasData DEF Shape
  <2>. QED  BY <2>1, <2>2, AnswerIs
<1>6. ASSUME NEW h \in Headers, NEW i \in 0 .. MaxLen, NativeView(t, h, i) PROVE Quiet
  BY <1>6, SameIsQuiet DEF NativeView
<1>7. ASSUME NEW h \in Headers, NEW i \in 0 .. MaxLen, NEW v \in Values, NativeSet(t, h, i, v)
      PROVE  Lists!Work
  <2>1. /\ Exists(h) /\ i \in Int /\ InRange(h, i) /\ UNCHANGED header
        /\ block' = [block EXCEPT ![header[h].data].cells[i] = v] /\ result' = <<"none">>
    BY <1>7, InCallExists DEF NativeSet, Running
  <2>2. i \in 0 .. header[h].len - 1
    BY <2>1, InRangeHasData DEF Shape
  <2>. QED  BY <2>1, <2>2, SetIs
<1>. QED  BY <1>1, <1>2, <1>3, <1>4, <1>5, <1>6, <1>7, BeginIs, EndIs

\* A store through an address is a store into the list it came from.
LEMMA ViewIs ==
  ASSUME Shape, NEW t \in Threads \cup {Python}, NEW v \in Values, ViewSet(t, v)
  PROVE  Lists!Work
<1>. DEFINE h == view[t].header
            at == view[t].at
<1>1. /\ h \in Headers /\ Exists(h) /\ at \in Nat /\ at < header[h].len
      /\ view[t].block = header[h].data
  BY DEF ViewSet, Holds, Current, Shape, TypeOK, Views, NamesExist, ViewsMeanElements
<1>2. at \in 0 .. header[h].len - 1
  <2>1. header[h].len \in Nat
    BY <1>1 DEF Shape, TypeOK
  <2>. HIDE DEF h, at
  <2>. QED  BY <1>1, <2>1
<1>3. /\ block' = [block EXCEPT ![header[h].data].cells[at] = v]
      /\ UNCHANGED header /\ result' = <<"none">>
  BY <1>1 DEF ViewSet
<1>. HIDE DEF h, at
<1>. QED  BY <1>1, <1>2, <1>3, SetIs
-----------------------------------------------------------------------------
LEMMA InitIs == ASSUME Init PROVE Lists!Init
<1>1. Existing = {} /\ broken = "no" /\ result = <<"none">>
  BY DEF Init, Existing, Exists
<1>2. AllLists = [r \in {} |-> <<>>]
  BY <1>1 DEF AllLists
<1>. QED  BY <1>1, <1>2 DEF Lists!Init, AllLists, Existing

LEMMA StepIs == ASSUME Shape, [Next]_vars PROVE [Lists!Next]_(Lists!vars)
<1>1. CASE UNCHANGED vars
  <2>1. Quiet /\ UNCHANGED broken
    BY <1>1, SameIsQuiet DEF vars
  <2>. QED  BY <2>1, Stutters DEF Quiet
<1>2. CASE broken = "no" /\ (PyStep \/ NativeStep \/ ViewStep) /\ UNCHANGED broken
  <2>1. Lists!Work \/ Quiet
    BY <1>2, PyIs, NativeIs, ViewIs DEF ViewStep
  <2>. QED  BY <1>2, <2>1, Works, Stutters DEF Quiet
<1>3. CASE broken = "no" /\ BrokenStep
  <2>1. UNCHANGED <<header, block, result>> /\ broken' # "no"
    BY <1>3, BrokenKeeps
  <2>2. AllLists' = AllLists
    BY <2>1 DEF AllLists, Existing, Exists, Contents, CellsOf
  <2>3. Lists!Break
    BY <2>1, <2>2 DEF Lists!Break, AllLists, Existing
  <2>. QED  BY <1>3, <2>3 DEF Lists!Next
<1>. QED  BY <1>1, <1>2, <1>3 DEF Next

(* Python and compiled code together keep the promise of List[T], however  *)
(* many lists, objects and threads there are and wherever the elements     *)
(* move: to its users a list is a sequence (cranelift/mod.rs:444 and       *)
(* types/memory.py:297), until a step without a meaning is taken.          *)
THEOREM ListsAreSequences == Spec => ImplementsLists
<1>1. Init => Lists!Init
  BY InitIs
<1>2. Shape /\ [Next]_vars => [Lists!Next]_(Lists!vars)
  BY StepIs
<1>. QED  BY <1>1, <1>2, ShapeInvariant, PTL DEF Spec, ImplementsLists, Lists!Spec
=============================================================================
