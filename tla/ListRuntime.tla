----------------------------- MODULE ListRuntime -----------------------------
(***************************************************************************)
(* The two implementations of List[T] and the memory they share.  Python   *)
(* (types/memory.py, class List) and compiled code (lirien_list_* in       *)
(* cranelift/mod.rs) operate on one header {data, len, cap}; each          *)
(* allocates, grows and frees with its own allocator, and neither knows    *)
(* who made the block it finds.  Compiled code runs in threads without the *)
(* interpreter's lock (README.md:169), so its append is two steps here.    *)
(*                                                                         *)
(* Elements have one size; memory that was freed is never given out again, *)
(* so that every use of it is seen.  A step that C or Rust give no meaning *)
(* is an action of its own, sets `broken` and ends the behaviour.          *)
(***************************************************************************)
EXTENDS Integers, FiniteSets

CONSTANTS
  Headers, Blocks,     \* addresses of headers, and of blocks of elements
  Objects,             \* Python objects of class List
  Threads,             \* threads that may run compiled code
  Values, Null,
  FirstCap,            \* the first capacity (4 in the code)
  MaxLen               \* bound: elements in a list

ASSUME ListConstants ==
  /\ FirstCap \in Nat \ {0}
  /\ MaxLen \in Nat
  /\ Null \notin Headers \cup Blocks \cup Objects \cup Threads \cup Values
  /\ Null \notin [object : Objects \cup {Null}, header : Headers \cup {Null},
                  item : Values \cup {Null}]

VARIABLES
  header,   \* of each address: [owner, data, len, cap]
  block,    \* of each address: [owner, cells]
  object,   \* of each Python object: [header, owns, buffers], or Null
  call,     \* of each thread: [object, header, item] while it runs
            \* compiled code, or Null; item # Null within an append
  view,     \* of each thread, and of Python: a pointer to an element
            \* (list elements that are structs are handed out by address)
  result,   \* what the last operation answered
  broken,   \* why the behaviour has no meaning, if it has none
  polite    \* so far the users kept to the rules of `Rules` below

vars == <<header, block, object, call, view, result, broken, polite>>

Python == Null                      \* names Python's own view
Owners == {"none", "python", "native", "freed"}
Reasons == {"freed", "race", "foreign", "stale", "panic"}

\* A block's elements; Null where nothing was stored.
MaxCap == 2 * MaxLen + FirstCap
Cells == UNION {[0 .. n - 1 -> Values \cup {Null}] : n \in 0 .. MaxCap}
Views == [header : Headers, block : Blocks, at : Nat]

TypeOK ==
  /\ header \in [Headers -> [owner : Owners, data : Blocks \cup {Null},
                             len : Nat, cap : Nat]]
  /\ block \in [Blocks -> [owner : Owners, cells : Cells]]
  /\ object \in [Objects -> [header : Headers, owns : BOOLEAN,
                             buffers : SUBSET Blocks] \cup {Null}]
  /\ call \in [Threads -> [object : Objects \cup {Null},
                           header : Headers \cup {Null},
                           item : Values \cup {Null}] \cup {Null}]
  /\ view \in [Threads \cup {Python} -> Views \cup {Null}]
  /\ broken \in Reasons \cup {"no"}
  /\ polite \in BOOLEAN

NoCells == [i \in 0 .. -1 |-> Null]

Init ==
  /\ header = [h \in Headers |-> [owner |-> "none", data |-> Null,
                                  len |-> 0, cap |-> 0]]
  /\ block = [b \in Blocks |-> [owner |-> "none", cells |-> NoCells]]
  /\ object = [o \in Objects |-> Null]
  /\ call = [t \in Threads |-> Null]
  /\ view = [t \in Threads \cup {Python} |-> Null]
  /\ result = <<"none">>
  /\ broken = "no"
  /\ polite = TRUE

-----------------------------------------------------------------------------
(* Memory                                                                  *)

Exists(h) == header[h].owner # "none"
CellsOf(h) == block[header[h].data].cells
Full(h) == header[h].len = header[h].cap

\* `n` cells that begin with the first `kept` of `cells`.
Copied(cells, kept, n) ==
  [i \in 0 .. n - 1 |-> IF i < kept THEN cells[i] ELSE Null]

\* Growth doubles, from FirstCap.
NewCap(h) == IF header[h].cap = 0 THEN FirstCap ELSE 2 * header[h].cap

Regrown_NoCap(h, b, n) ==   \* mutant: the capacity is not recorded
  [header[h] EXCEPT !.data = b, !.len = n]

\* The header of a list that has grown into block `b`.
Regrown(h, b, n) == [owner |-> header[h].owner, data |-> b, len |-> n,
                     cap |-> NewCap(h)]

Unused(b) == block[b].owner = "none"

InCall(h, t) == call[t] # Null /\ call[t].header = h
Appending(h, t) == InCall(h, t) /\ call[t].item # Null
InCalls(h) == \E t \in Threads : InCall(h, t)
Viewed(h) == \E t \in DOMAIN view : view[t] # Null /\ view[t].header = h

\* Another thread than `t` is in the middle of an append to `h`.
Racing(h, t) == \E u \in Threads \ {t} : Appending(h, u)

\* The header of `h`, or the block it points to, was freed.
Dangling(h) ==
  \/ header[h].owner = "freed"
  \/ header[h].data # Null /\ block[header[h].data].owner = "freed"

\* Thread `t` (Null is the interpreter) may touch list `h`.
Sound(h, t) == ~Dangling(h) /\ ~Racing(h, t)

\* The rules of use: `ok` is what a step asks of the user beyond its guard.
Rules(ok) == polite' = (polite /\ ok)

-----------------------------------------------------------------------------
(* Python: types/memory.py, class List                                     *)

\* List(): a header that belongs to the object.
PyNew(o, h) ==
  /\ object[o] = Null /\ ~Exists(h)
  /\ header' = [header EXCEPT ![h].owner = "python"]
  /\ object' = [object EXCEPT ![o] = [header |-> h, owns |-> TRUE,
                                      buffers |-> {}]]
  /\ result' = <<"none">>
  /\ Rules(TRUE)
  /\ UNCHANGED <<block, call, view>>

PyAppendGrow_NoCopy(o, h, v, b) ==   \* mutant: the elements stay behind
  /\ Full(h) /\ Unused(b)
  /\ LET n == header[h].len
     IN /\ block' = [block EXCEPT ![b] =
                       [owner |-> "python",
                        cells |-> [Copied(NoCells, 0, NewCap(h))
                                     EXCEPT ![n] = v]]]
        /\ header' = [header EXCEPT ![h] = Regrown(h, b, n + 1)]
        /\ object' = [object EXCEPT ![o].buffers = @ \cup {b}]

PyAppendGrow_Unkept(o, h, v, b) ==   \* mutant: nobody keeps the buffer
  /\ Full(h) /\ Unused(b)
  /\ LET n == header[h].len
         cells == IF header[h].data = Null THEN NoCells ELSE CellsOf(h)
     IN /\ block' = [block EXCEPT ![b] =
                       [owner |-> "freed",
                        cells |-> [Copied(cells, n, NewCap(h))
                                     EXCEPT ![n] = v]]]
        /\ header' = [header EXCEPT ![h] = Regrown(h, b, n + 1)]
        /\ UNCHANGED object

\* append: a full list moves to a buffer that this object keeps.
PyAppendGrow(o, h, v, b) ==
  /\ Full(h) /\ Unused(b)
  /\ LET n == header[h].len
         cells == IF header[h].data = Null THEN NoCells ELSE CellsOf(h)
     IN /\ block' = [block EXCEPT ![b] =
                       [owner |-> "python",
                        cells |-> [Copied(cells, n, NewCap(h))
                                     EXCEPT ![n] = v]]]
        /\ header' = [header EXCEPT ![h] = Regrown(h, b, n + 1)]
        /\ object' = [object EXCEPT ![o].buffers = @ \cup {b}]

PyAppendInPlace(h, v) ==
  /\ ~Full(h)
  /\ block' = [block EXCEPT ![header[h].data].cells[header[h].len] = v]
  /\ header' = [header EXCEPT ![h].len = @ + 1]
  /\ UNCHANGED object

PyAppend(o, v) ==
  /\ object[o] # Null
  /\ LET h == object[o].header
     IN /\ Sound(h, Python) /\ header[h].len < MaxLen
        /\ \/ \E b \in Blocks : PyAppendGrow(o, h, v, b)
           \/ PyAppendInPlace(h, v)
        /\ Rules(object[o].owns /\ ~InCalls(h) /\ ~Viewed(h))
  /\ result' = <<"none">>
  /\ UNCHANGED <<call, view>>

\* A negative index counts from the end.
PyIndex(h, i) == IF i < 0 THEN i + header[h].len ELSE i
InRange(h, i) == 0 <= i /\ i < header[h].len
PyIndices == (- MaxLen - 1) .. MaxLen

PyGet(o, i) ==
  /\ object[o] # Null
  /\ LET h == object[o].header
         at == PyIndex(h, i)
     IN /\ Sound(h, Python)
        /\ result' = IF InRange(h, at) THEN <<"value", CellsOf(h)[at]>>
                                       ELSE <<"IndexError">>
        /\ Rules(~InCalls(h))
  /\ UNCHANGED <<header, block, object, call, view>>

PySet(o, i, v) ==
  /\ object[o] # Null
  /\ LET h == object[o].header
         at == PyIndex(h, i)
     IN /\ Sound(h, Python)
        /\ IF InRange(h, at)
           THEN /\ block' = [block EXCEPT ![header[h].data].cells[at] = v]
                /\ result' = <<"none">>
           ELSE UNCHANGED block /\ result' = <<"IndexError">>
        /\ Rules(~InCalls(h))
  /\ UNCHANGED <<header, object, call, view>>

PyLen(o) ==
  /\ object[o] # Null
  /\ Sound(object[o].header, Python)
  /\ result' = <<"length", header[object[o].header].len>>
  /\ Rules(~InCalls(object[o].header))
  /\ UNCHANGED <<header, block, object, call, view>>

PyView_Raw(o, i) ==   \* mutant: the index that was checked is not the one used
  /\ object[o] # Null
  /\ LET h == object[o].header
     IN /\ Sound(h, Python) /\ InRange(h, PyIndex(h, i))
        /\ view' = [view EXCEPT ![Python] =
                      [header |-> h, block |-> header[h].data, at |-> i]]
        /\ Rules(~InCalls(h))
  /\ UNCHANGED <<header, block, object, call, result>>

PyView_Last(o, i) ==   \* mutant: the element after the last has an address
  /\ object[o] # Null
  /\ LET h == object[o].header
         at == PyIndex(h, i)
     IN /\ Sound(h, Python) /\ 0 <= at /\ at <= header[h].len
        /\ view' = [view EXCEPT ![Python] =
                      [header |-> h, block |-> header[h].data, at |-> at]]
        /\ Rules(~InCalls(h))
  /\ UNCHANGED <<header, block, object, call, result>>

\* __getitem__ of a list of structs: the wrapper keeps the address.
PyView(o, i) ==
  /\ object[o] # Null
  /\ LET h == object[o].header
         at == PyIndex(h, i)
     IN /\ Sound(h, Python) /\ InRange(h, at)
        /\ view' = [view EXCEPT ![Python] =
                      [header |-> h, block |-> header[h].data, at |-> at]]
        /\ Rules(~InCalls(h))
  /\ UNCHANGED <<header, block, object, call, result>>

\* The collector takes an object that no call has as its argument: the
\* header goes if it belongs to the object, and so do the buffers it keeps.
PyDrop(o) ==
  /\ object[o] # Null
  /\ \A t \in Threads : call[t] # Null => call[t].object # o
  /\ LET h == object[o].header
     IN /\ header' = IF object[o].owns
                     THEN [header EXCEPT ![h].owner = "freed"] ELSE header
        /\ block' = [b \in Blocks |->
                       IF b \in object[o].buffers
                       THEN [block[b] EXCEPT !.owner = "freed"]
                       ELSE block[b]]
        /\ Rules(object[o].owns =>
                   /\ \A p \in Objects \ {o} :
                        object[p] # Null => object[p].header # h
                   /\ ~InCalls(h) /\ ~Viewed(h))
  /\ object' = [object EXCEPT ![o] = Null]
  /\ UNCHANGED <<call, view, result>>

-----------------------------------------------------------------------------
(* Compiled code: lower/memory.rs and lirien_list_* in cranelift/mod.rs    *)

\* A call takes a list, or none; the caller's frame keeps the object.
Enter(t, o) ==
  /\ call[t] = Null /\ object[o] # Null
  /\ call' = [call EXCEPT ![t] = [object |-> o, header |-> object[o].header,
                                  item |-> Null]]
  /\ Rules(~InCalls(object[o].header))
  /\ UNCHANGED <<header, block, object, view, result>>

EnterEmpty(t) ==
  /\ call[t] = Null
  /\ call' = [call EXCEPT ![t] = [object |-> Null, header |-> Null,
                                  item |-> Null]]
  /\ Rules(TRUE)
  /\ UNCHANGED <<header, block, object, view, result>>

\* lirien_list_new: a header nobody frees.
NativeNew(t, h) ==
  /\ call[t] # Null /\ call[t].header = Null /\ ~Exists(h)
  /\ header' = [header EXCEPT ![h].owner = "native"]
  /\ call' = [call EXCEPT ![t].header = h]
  /\ result' = <<"none">>
  /\ Rules(TRUE)
  /\ UNCHANGED <<block, object, view>>

\* The thread runs compiled code on list `h` and is not within an append.
Running(t, h) == InCall(h, t) /\ call[t].item = Null

\* lirien_list_append: no block yet, one that stays where it is, or one
\* that moves and whose old place is freed.
Allocate(h, b) ==
  /\ header[h].data = Null /\ Unused(b)
  /\ block' = [block EXCEPT ![b] = [owner |-> "native",
                                    cells |-> Copied(NoCells, 0, NewCap(h))]]
  /\ header' = [header EXCEPT ![h] = Regrown(h, b, header[h].len)]

Extend(h) ==
  /\ header[h].data # Null /\ block[header[h].data].owner = "native"
  /\ block' = [block EXCEPT ![header[h].data].cells =
                              Copied(@, header[h].cap, NewCap(h))]
  /\ header' = [header EXCEPT ![h] = Regrown(h, header[h].data, header[h].len)]

Move(h, b) ==
  /\ header[h].data # Null /\ block[header[h].data].owner = "native"
  /\ Unused(b)
  /\ block' = [block EXCEPT
                 ![header[h].data] = [owner |-> "freed", cells |-> NoCells],
                 ![b] = [owner |-> "native",
                         cells |-> Copied(CellsOf(h), header[h].cap,
                                          NewCap(h))]]
  /\ header' = [header EXCEPT ![h] = Regrown(h, b, header[h].len)]

Grow(h) == \/ \E b \in Blocks : Allocate(h, b) \/ Move(h, b)
           \/ Extend(h)

\* What the rules ask of compiled code that appends.
MayAppend(h) == header[h].owner = "native" /\ ~Viewed(h)

BeginAppend(t, h, v) ==
  /\ Running(t, h) /\ Sound(h, t) /\ header[h].len < MaxLen
  /\ IF Full(h) THEN Grow(h) ELSE UNCHANGED <<block, header>>
  /\ call' = [call EXCEPT ![t].item = v]
  /\ Rules(MayAppend(h))
  /\ UNCHANGED <<object, view, result>>

EndAppend(t, h) ==
  /\ Appending(h, t) /\ Sound(h, t)
  /\ block' = [block EXCEPT ![header[h].data].cells[header[h].len] =
                              call[t].item]
  /\ header' = [header EXCEPT ![h].len = @ + 1]
  /\ call' = [call EXCEPT ![t].item = Null]
  /\ result' = <<"none">>
  /\ Rules(TRUE)
  /\ UNCHANGED <<object, view>>

NativeGet(t, h, i) ==
  /\ Running(t, h) /\ Sound(h, t) /\ InRange(h, i)
  /\ result' = <<"value", CellsOf(h)[i]>>
  /\ Rules(TRUE)
  /\ UNCHANGED <<header, block, object, call, view>>

NativeSet(t, h, i, v) ==
  /\ Running(t, h) /\ Sound(h, t) /\ InRange(h, i)
  /\ block' = [block EXCEPT ![header[h].data].cells[i] = v]
  /\ result' = <<"none">>
  /\ Rules(TRUE)
  /\ UNCHANGED <<header, object, call, view>>

NativeLen(t, h) ==
  /\ Running(t, h) /\ Sound(h, t)
  /\ result' = <<"length", header[h].len>>
  /\ Rules(TRUE)
  /\ UNCHANGED <<header, block, object, call, view>>

\* ListLoad of a struct: the address of the element is the value.
NativeView(t, h, i) ==
  /\ Running(t, h) /\ Sound(h, t) /\ InRange(h, i)
  /\ view' = [view EXCEPT ![t] = [header |-> h, block |-> header[h].data,
                                  at |-> i]]
  /\ Rules(TRUE)
  /\ UNCHANGED <<header, block, object, call, result>>

\* The call returns its list, which _wrap_return_value puts into an object
\* that owns nothing, or it returns something else.
Return(t, o) ==
  /\ call[t] # Null /\ call[t].item = Null /\ call[t].header # Null
  /\ object[o] = Null
  /\ object' = [object EXCEPT ![o] = [header |-> call[t].header,
                                      owns |-> FALSE, buffers |-> {}]]
  /\ call' = [call EXCEPT ![t] = Null]
  /\ view' = [view EXCEPT ![t] = Null]
  /\ Rules(TRUE)
  /\ UNCHANGED <<header, block, result>>

ReturnOther(t) ==
  /\ call[t] # Null /\ call[t].item = Null
  /\ call' = [call EXCEPT ![t] = Null]
  /\ view' = [view EXCEPT ![t] = Null]
  /\ Rules(TRUE)
  /\ UNCHANGED <<header, block, object, result>>

-----------------------------------------------------------------------------
(* Pointers to elements, and the steps without a meaning                   *)

\* Who may still use its view: the interpreter, and a call in progress.
Holds(t) == view[t] # Null /\ (t # Python => call[t].item = Null)

\* The view points into the block the list has now.
Current(t) == view[t].block = header[view[t].header].data

\* x.field = v through the address of an element.
ViewSet(t, v) ==
  /\ Holds(t) /\ Current(t) /\ Sound(view[t].header, t)
  /\ block' = [block EXCEPT ![view[t].block].cells[view[t].at] = v]
  /\ result' = <<"none">>
  /\ Rules(t = Python => ~InCalls(view[t].header))
  /\ UNCHANGED <<header, object, call, view>>

\* The lists a thread, or the interpreter, can touch next.
Reaches(t, h) ==
  \/ t # Python /\ InCall(h, t)
  \/ t = Python /\ \E o \in Objects : object[o] # Null /\ object[o].header = h
  \/ Holds(t) /\ view[t].header = h

Meaningless(why) ==
  /\ broken' = why
  /\ UNCHANGED <<header, block, object, call, view, result, polite>>

UseFreed(t) ==
  /\ \/ \E h \in Headers : Reaches(t, h) /\ Dangling(h)
     \/ Holds(t) /\ block[view[t].block].owner = "freed"
  /\ Meaningless("freed")

\* (Python's own touch of a list in a call is against the rules already.)
Race(t) ==
  /\ \E h \in Headers : Reaches(t, h) /\ Racing(h, t)
  /\ broken' = "race" /\ Rules(t # Python)
  /\ UNCHANGED <<header, block, object, call, view, result>>

\* realloc of a block that ctypes allocated.
ForeignRealloc(t) ==
  /\ \E h \in Headers :
       /\ Running(t, h) /\ Sound(h, t) /\ Full(h)
       /\ header[h].data # Null /\ block[header[h].data].owner = "python"
       /\ Rules(MayAppend(h))
  /\ broken' = "foreign"
  /\ UNCHANGED <<header, block, object, call, view, result>>

\* A store into a block the list has left: nobody will read it.
StaleView(t) == Holds(t) /\ ~Current(t) /\ Meaningless("stale")

\* lirien_list_get and lirien_list_set abort on an index out of range;
\* asking for one is against the rules, and the verifier refuses to.
Panic(t) ==
  /\ \E h \in Headers, i \in 0 .. MaxLen :
       Running(t, h) /\ Sound(h, t) /\ ~InRange(h, i)
  /\ broken' = "panic" /\ Rules(FALSE)
  /\ UNCHANGED <<header, block, object, call, view, result>>

PyStep ==
  \E o \in Objects :
    \/ \E h \in Headers : PyNew(o, h)
    \/ \E v \in Values : PyAppend(o, v)
    \/ \E i \in PyIndices : \/ PyGet(o, i) \/ PyView(o, i)
                            \/ \E v \in Values : PySet(o, i, v)
    \/ PyLen(o) \/ PyDrop(o)

NativeStep ==
  \E t \in Threads :
    \/ EnterEmpty(t) \/ ReturnOther(t)
    \/ \E o \in Objects : Enter(t, o) \/ Return(t, o)
    \/ \E h \in Headers :
         \/ NativeNew(t, h) \/ EndAppend(t, h) \/ NativeLen(t, h)
         \/ \E v \in Values : BeginAppend(t, h, v)
         \/ \E i \in 0 .. MaxLen : \/ NativeGet(t, h, i) \/ NativeView(t, h, i)
                                   \/ \E v \in Values : NativeSet(t, h, i, v)

ViewStep == \E t \in Threads \cup {Python}, v \in Values : ViewSet(t, v)

BrokenStep ==
  \/ \E t \in Threads \cup {Python} : UseFreed(t) \/ Race(t) \/ StaleView(t)
  \/ \E t \in Threads : ForeignRealloc(t) \/ Panic(t)

Next ==
  /\ broken = "no"
  /\ \/ (PyStep \/ NativeStep \/ ViewStep) /\ UNCHANGED broken
     \/ BrokenStep

Spec == Init /\ [][Next]_vars

-----------------------------------------------------------------------------
(* Properties                                                              *)

\* The list a header stands for.
Contents(h) == [i \in 1 .. header[h].len |-> CellsOf(h)[i - 1]]

\* Whoever appends, grows, stores or reads, in whatever order, every list
\* is the sequence of what was put into it, and every answer is right, until
\* a step without a meaning is taken (lirien_list_append at
\* cranelift/mod.rs:444 and List.append at types/memory.py:297 agree on the
\* header and on the block).
Lists == INSTANCE GrowableLists WITH
  Refs <- Headers,
  lists <- [h \in {g \in Headers : Exists(g)} |-> Contents(h)],
  chaos <- broken # "no"

ImplementsLists == Lists!Spec

\* No list is longer than its block, the capacity in the header is the size
\* of the allocation, whichever side made it, and no two lists share a block
\* (realloc at cranelift/mod.rs:453 is told the size that the header records).
CapacityIsSize ==
  \A h \in Headers :
    /\ header[h].len <= header[h].cap
    /\ header[h].data = Null => header[h].cap = 0
    /\ header[h].data # Null =>
         /\ ~Unused(header[h].data)
         /\ DOMAIN CellsOf(h) = 0 .. header[h].cap - 1
         /\ \A g \in Headers \ {h} : header[g].data # header[h].data

\* What the two sides may do with each other's lists.  If Python appends
\* only to lists it made and keeps, compiled code only to lists it made, no
\* address of an element outlives an append, and a list in a call is left
\* alone meanwhile, then no step is without a meaning: in particular compiled
\* code may store into Python's lists, and Python into compiled code's.
PoliteIsSafe == polite => broken = "no"

\* The address of an element that was handed out points to an element for as
\* long as the list stays in its block: the list never shrinks (ListLoad of a
\* struct, lower/memory.rs:319; List.__getitem__, types/memory.py:337).
ViewsInBounds ==
  \A t \in Threads \cup {Python} :
    view[t] # Null /\ Current(t) =>
      view[t].at < header[view[t].header].len
=============================================================================
