---------------------------- MODULE MCMemoryCall ----------------------------
(***************************************************************************)
(* Short functions on data and the objects they are called with: each kind *)
(* of data, each way to read and to change it, with all the elements,      *)
(* bounds and aliases that tell them apart.                                *)
(***************************************************************************)
EXTENDS MemoryCall

I8 == <<"int", 8>>
I4 == <<"int", 4>>
B == <<"bool">>
Str == <<"str">>
Arr(T, n) == <<"array", T, n>>
Struct(N) == <<"struct", N>>
Ptr(T) == <<"ptr", T>>
Nptr(T) == <<"nptr", T>>

MCStructs ==
  [Point |-> <<<<"x", I8>>, <<"y", I8>>>>,
   Mark  |-> <<<<"on", B>>, <<"k", I4>>, <<"z", I4>>>>,
   Line  |-> <<<<"on", B>>, <<"from", Struct("Point")>>, <<"to", Struct("Point")>>>>,
   Cell  |-> <<<<"on", B>>, <<"to", Ptr(I8)>>, <<"next", Nptr(I8)>>>>,
   Conf  |-> <<<<"on", B>>, <<"n", I8>>>>,
   Head  |-> <<<<"n", I8>>, <<"at", Struct("Point")>>>>,
   Foot  |-> <<<<"at", Struct("Point")>>, <<"n", I8>>>>,
   Pair  |-> <<<<"a", I8>>, <<"b", I8>>>>]

MCEnums ==
  [Shape |-> <<<<"Dot", Unknown>>, <<"Disc", I8>>, <<"Box", <<"tuple", <<I8, I8>>>>>>, <<"Ref", Ptr(I8)>>>>,
   Flag  |-> <<<<"Off", B>>, <<"On", I8>>>>]

MCDomain == -1..3

\* Expressions.
X(x) == <<"name", x>>
C(n) == <<"int", n>>
At1(e, i) == <<"at", e, <<i>>>>
At2(e, i, j) == <<"at", e, <<i, j>>>>
F(e, f) == <<"attr", e, f>>
K(e, f) == <<"key", e, f>>
Cut2(e, l, h) == <<"slice", e, l, h, Absent>>
Cut3(e, l, h, s) == <<"slice", e, l, h, s>>
Set_(t, e) == <<"assign", t, e>>
Ret(e) == <<"return", e>>
Do(e) == <<"do", e>>

P(name, T) == [name |-> name, type |-> T, where |-> {}]
W(name, T, S) == [name |-> name, type |-> T, where |-> S]

Tuple(es) == <<"tuple", es>>

\* Arguments.
N(n) == Number(n)
Ints(s) == Node([i \in DOMAIN s |-> N(s[i])], "")
Obj(k) == <<"at", k, <<>>>>
Ref(k) == <<"ptr", k, <<>>>>
In(types, objects, args) == [types |-> types, objects |-> objects, args |-> args, dims |-> <<>>]
Prog(params, body, inputs) == [params |-> params, body |-> body, inputs |-> inputs]
Three == Arr(I8, 3)
A3 == <<Three>>
O3 == <<Ints(<<1, 2, 3>>)>>

Bounds == 0..2
ArgsIX == {<<N(i), N(x)>> : i \in Bounds, x \in {1, 3}}

\* Arrays: an index that is known to be within, one that is not, a store
\* before a read, two names of one array, an array of unknown length.
OnArray(body) ==
  Prog(<<P("a", Three), W("i", I8, Bounds), P("x", I8)>>, body,
       {In(A3, O3, <<Obj(1)>> \o ix) : ix \in ArgsIX})

Arrays ==
  {OnArray(<<Ret(At1(X("a"), X("i")))>>),
   OnArray(<<Ret(At1(X("a"), X("x")))>>),
   OnArray(<<Set_(At1(X("a"), X("i")), X("x")), Ret(At1(X("a"), C(1)))>>),
   OnArray(<<Set_(At1(X("a"), C(3)), X("x")), Ret(X("x"))>>),
   OnArray(<<Set_(X("b"), X("a")), Set_(At1(X("b"), C(0)), X("x")), Ret(At1(X("a"), C(0)))>>),
   OnArray(<<Set_(At1(X("a"), X("i")), At1(X("a"), C(2))), Ret(At1(X("a"), X("i")))>>),
   Prog(<<P("a", Three), P("b", Three)>>,
        <<Set_(At1(X("a"), C(0)), C(9)), Ret(At1(X("b"), C(0)))>>,
        {In(A3, O3, <<Obj(1), Obj(1)>>), In(A3 \o A3, O3 \o O3, <<Obj(1), Obj(2)>>)}),
   Prog(<<P("a", Three), P("b", Three)>>,
        <<Set_(At1(X("b"), C(0)), C(0)), Set_(At1(X("a"), C(0)), C(9)),
          Ret(At1(X("b"), At1(X("b"), C(0))))>>,
        {In(A3, O3, <<Obj(1), Obj(1)>>), In(A3 \o A3, O3 \o O3, <<Obj(1), Obj(2)>>)}),
   Prog(<<P("a", Arr(I8, Dynamic)), P("i", I8)>>, <<Ret(At1(X("a"), X("i")))>>,
        {In(A3, O3, <<Obj(1), N(i)>>) : i \in {-1, 0, 2, 3}}),
   Prog(<<P("a", Arr(B, 3)), P("x", B)>>,
        <<Set_(At1(X("a"), C(1)), X("x")), Ret(At1(X("a"), C(1)))>>,
        {In(<<Arr(B, 3)>>, <<Ints(<<0, 1, 1>>)>>, <<Obj(1), N(x)>>) : x \in {0, 1}}),
   Prog(<<P("a", Arr(I4, 3)), P("x", I4)>>,
        <<Set_(At1(X("a"), C(1)), X("x")), Set_(At1(X("a"), C(0)), C(5)), Ret(At1(X("a"), C(1)))>>,
        {In(<<Arr(I4, 3)>>, O3, <<Obj(1), N(7)>>)})}

\* Slices: with every kind of step, stored to, cut again, read beyond.
OnSlice(low, high, step, body) == OnArray(<<Set_(X("b"), Cut3(X("a"), low, high, step))>> \o body)

Slices ==
  {OnSlice(C(1), C(3), Absent, <<Ret(At1(X("b"), C(1)))>>),
   OnSlice(Absent, Absent, C(2), <<Ret(At1(X("b"), C(1)))>>),
   OnSlice(C(2), C(0), <<"negate", C(1)>>, <<Ret(At1(X("b"), C(1)))>>),
   OnSlice(C(0), C(0), <<"negate", C(1)>>, <<Ret(At1(X("b"), C(0)))>>),
   OnSlice(C(1), Absent, Absent, <<Set_(At1(X("b"), C(0)), X("x")), Ret(At1(X("a"), C(1)))>>),
   OnSlice(Absent, Absent, C(2), <<Set_(At1(X("b"), C(0)), X("x")), Ret(At1(X("b"), C(1)))>>),
   OnSlice(Absent, Absent, C(2), <<Set_(X("c"), Cut3(X("b"), C(1), C(2), Absent)),
                                   Ret(At1(X("c"), C(0)))>>),
   OnSlice(C(1), C(3), Absent, <<Set_(X("c"), Cut3(X("b"), C(1), C(2), Absent)),
                                 Ret(Tuple(<<At1(X("c"), C(0)), At1(X("a"), C(1))>>))>>),
   OnSlice(C(1), C(5), Absent, <<Ret(At1(X("b"), C(3)))>>),
   OnSlice(C(1), X("x"), Absent, <<Ret(At1(X("b"), X("i")))>>),
   OnSlice(C(0), C(2), C(0), <<Ret(C(0))>>),
   OnSlice(X("i"), C(3), Absent, <<Ret(At1(X("b"), C(0)))>>)}

\* Buffers, whose length is told by a refinement or by nothing.
OnBuffer(S, body) ==
  Prog(<<W("b", <<"buffer", I8>>, S), P("x", I8)>>, body,
       {In(<<Arr(I8, k)>>, <<Ints(SubSeq(<<1, 2, 3>>, 1, k))>>, <<Obj(1), N(7)>>) : k \in 1..3})

Buffers ==
  {OnBuffer({2, 3}, <<Set_(At1(X("b"), C(1)), X("x")), Ret(<<"len", X("b")>>)>>),
   OnBuffer({2, 3}, <<Set_(At1(X("b"), C(0)), At1(X("b"), C(1))), Ret(At1(X("b"), C(0)))>>),
   OnBuffer({}, <<Ret(At1(X("b"), C(1)))>>),
   OnBuffer({2, 3}, <<Set_(At1(X("b"), C(2)), X("x")), Ret(X("x"))>>),
   OnBuffer({}, <<Set_(X("s"), Cut2(X("b"), C(0), C(2))), Ret(At1(X("s"), C(1)))>>),
   OnBuffer({}, <<Set_(X("s"), Cut2(X("b"), C(0), Absent)), Ret(C(0))>>)}

\* Tensors.
TwoByThree == Arr(Three, 2)
Rows == Node(<<Ints(<<1, 2, 3>>), Ints(<<4, 5, 6>>)>>, "")
OnTensor(body) ==
  Prog(<<P("t", <<"tensor", I8, <<"M", "N">>>>), P("i", I8)>>, body,
       {[In(<<TwoByThree>>, <<Rows>>, <<Obj(1), N(i)>>) EXCEPT !.dims = [M |-> 2, N |-> 3]] : i \in {0, 2}})

Tensors ==
  {OnTensor(<<Set_(At2(X("t"), C(0), C(0)), X("i")), Ret(At2(X("t"), C(0), C(0)))>>),
   OnTensor(<<Ret(At2(X("t"), C(0), X("i")))>>),
   OnTensor(<<Ret(At1(X("t"), C(0)))>>),
   \* b[0] is taken to be 0, and is 1 if a is b
   Prog(<<P("t", <<"tensor", I8, <<"M", "N">>>>), P("a", Three), P("b", Three)>>,
        <<Set_(At1(X("b"), C(0)), C(0)), Set_(At1(X("a"), C(0)), C(1)),
          Set_(At2(X("t"), At1(X("b"), C(0)), C(0)), C(9)),
          Ret(At2(X("t"), At1(X("b"), C(0)), At1(X("b"), C(0))))>>,
        {[In(<<TwoByThree, Three, Three>>, <<Rows>> \o O3 \o O3, <<Obj(1), Obj(2), Obj(k)>>)
            EXCEPT !.dims = [M |-> 2, N |-> 3]] : k \in {2, 3}})}

\* Structs and typed dicts.
PointAt(x, y) == Node(<<N(x), N(y)>>, "Point")
Points == Arr(Struct("Point"), 2)
OnPoints(body) ==
  Prog(<<P("a", Points), W("i", I8, {0, 1}), P("x", I8)>>, body,
       {In(<<Points>>, <<Node(<<PointAt(1, 2), PointAt(3, 4)>>, "")>>, <<Obj(1), N(i), N(7)>>) :
          i \in {0, 1}})

LineTree == Node(<<N(1), PointAt(1, 2), PointAt(3, 4)>>, "Line")
OnLine(body) ==
  Prog(<<P("l", Struct("Line")), P("x", I8)>>, body,
       {In(<<Struct("Line")>>, <<LineTree>>, <<Obj(1), N(7)>>)})

Point(x, y) == <<"new", Struct("Point"), <<x, y>>>>
Element(i) == At1(X("a"), i)

StructsOf ==
  {OnPoints(<<Set_(F(Element(X("i")), "x"), X("x")), Ret(F(Element(C(1)), "x"))>>),
   OnPoints(<<Set_(Element(C(0)), Element(C(1))), Set_(F(Element(C(1)), "x"), X("x")),
              Ret(F(Element(C(0)), "x"))>>),
   OnPoints(<<Set_(X("q"), Element(C(1))), Set_(F(Element(C(1)), "x"), X("x")), Ret(F(X("q"), "x"))>>),
   OnPoints(<<Set_(X("q"), Point(X("x"), X("i"))), Set_(F(X("q"), "x"), C(5)),
              Set_(Element(X("i")), X("q")), Ret(F(X("q"), "y"))>>),
   OnPoints(<<Set_(F(Element(X("i")), "z"), X("x")), Ret(X("x"))>>),
   OnLine(<<Ret(F(F(X("l"), "to"), "x"))>>),
   OnLine(<<Set_(F(F(X("l"), "to"), "x"), X("x")), Ret(F(F(X("l"), "from"), "y"))>>),
   OnLine(<<Set_(F(F(X("l"), "from"), "y"), F(F(X("l"), "to"), "y")), Ret(F(X("l"), "on"))>>),
   OnLine(<<Set_(F(X("l"), "from"), Point(X("x"), C(5))), Ret(F(X("l"), "on"))>>),
   OnLine(<<Set_(X("q"), F(X("l"), "from")), Set_(F(X("q"), "x"), X("x")),
            Ret(F(F(X("l"), "from"), "x"))>>),
   OnLine(<<Set_(X("k"), <<"new", Struct("Line"), <<F(X("l"), "on"), Point(X("x"), C(5)),
                                                    F(X("l"), "from")>>>>),
            Ret(F(F(X("k"), "from"), "y"))>>),
   Prog(<<P("h", Struct("Head")), P("a", Three)>>,
        <<Set_(F(X("h"), "n"), C(0)), Ret(At1(X("a"), F(F(X("h"), "at"), "x")))>>,
        {In(<<Struct("Head"), Three>>, <<Node(<<N(1), PointAt(x, 2)>>, "Head")>> \o O3,
            <<Obj(1), Obj(2)>>) : x \in {1, 3}}),
   Prog(<<P("h", Struct("Foot"))>>,
        <<Set_(F(X("h"), "at"), Point(C(3), C(4))), Ret(F(F(X("h"), "at"), "x"))>>,
        {In(<<Struct("Foot")>>, <<Node(<<PointAt(1, 2), N(1)>>, "Foot")>>, <<Obj(1)>>)}),
   Prog(<<P("c", Struct("Mark")), P("x", I4)>>,
        <<Set_(F(X("c"), "k"), X("x")), Set_(F(X("c"), "z"), F(X("c"), "k")), Ret(F(X("c"), "z"))>>,
        {In(<<Struct("Mark")>>, <<Node(<<N(1), N(2), N(3)>>, "Mark")>>, <<Obj(1), N(7)>>)}),
   Prog(<<P("c", Struct("Mark"))>>, <<Set_(F(X("c"), "k"), C(5)), Ret(F(X("c"), "z"))>>,
        {In(<<Struct("Mark")>>, <<Node(<<N(1), N(2), N(3)>>, "Mark")>>, <<Obj(1)>>)}),
   Prog(<<P("c", <<"tdict", "Conf">>), P("x", I8)>>,
        <<Set_(K(X("c"), "n"), X("x")), Ret(K(X("c"), "on"))>>,
        {In(<<<<"tdict", "Conf">>>>, <<Node(<<N(1), N(2)>>, "Conf")>>, <<Obj(1), N(7)>>)}),
   Prog(<<P("c", <<"tdict", "Conf">>)>>, <<Ret(K(X("c"), "none"))>>, {})}

\* Tuples and named tuples, in registers and in memory.
Two(T) == <<"tuple", <<T, T>>>>
OnPair(body) ==
  Prog(<<P("p", <<"ntuple", "Pair">>), P("x", I8)>>, body,
       {In(<<>>, <<>>, <<<<"tuple", <<N(1), N(2)>>, "Pair">>, N(7)>>)})
Twos == Arr(Two(I8), 2)
OnTwos(body) ==
  Prog(<<P("a", Twos), P("x", I8)>>, body,
       {In(<<Twos>>, <<Node(<<Ints(<<1, 2>>), Ints(<<3, 4>>)>>, "")>>, <<Obj(1), N(7)>>)})

Tuples ==
  {OnPair(<<Ret(F(X("p"), "b"))>>),
   OnPair(<<Set_(X("q"), <<"new", <<"ntuple", "Pair">>, <<X("x"), F(X("p"), "a")>>>>), Ret(X("q"))>>),
   OnPair(<<Set_(Tuple(<<X("u"), X("v")>>), X("p")), Set_(Tuple(<<X("u"), X("v")>>),
                                                         Tuple(<<X("v"), X("u")>>)),
            Ret(Tuple(<<X("u"), X("v")>>))>>),
   OnPair(<<Set_(X("t"), Tuple(<<X("x"), F(X("p"), "b")>>)), Ret(At1(X("t"), C(1)))>>),
   OnPair(<<Set_(X("t"), Tuple(<<X("x"), X("x")>>)), Ret(At1(X("t"), X("x")))>>),
   OnPair(<<Set_(Tuple(<<X("u")>>), X("p")), Ret(X("u"))>>),
   OnTwos(<<Set_(X("t"), At1(X("a"), C(1))), Ret(At1(X("t"), C(1)))>>),
   OnTwos(<<Set_(At1(X("a"), C(0)), Tuple(<<X("x"), C(5)>>)), Set_(X("t"), At1(X("a"), C(0))),
            Ret(At1(X("t"), C(1)))>>)}

\* Pointers, which may be null or not, and point to the same.
OnPtrs(T, body) ==
  Prog(<<P("p", T), P("q", T), P("x", I8)>>, body,
       {In(<<I8>>, <<N(1)>>, <<Ref(1), Ref(1), N(7)>>),
        In(<<I8, I8>>, <<N(1), N(2)>>, <<Ref(1), Ref(2), N(7)>>)}
       \cup IF Kind(T) = "nptr" THEN {In(<<I8>>, <<N(1)>>, <<Nothing, Ref(1), N(7)>>)} ELSE {})

CellTree == Node(<<N(1), Ref(2), Nothing>>, "Cell")
OnCell(body) ==
  Prog(<<P("c", Ptr(Struct("Cell"))), P("x", I8)>>, body,
       {In(<<Struct("Cell"), I8>>, <<CellTree, N(2)>>, <<Ref(1), N(7)>>)})

Pointers ==
  {OnPtrs(Ptr(I8), <<Set_(F(X("p"), "val"), X("x")), Ret(F(X("p"), "val"))>>),
   OnPtrs(Ptr(I8), <<Set_(F(X("p"), "val"), X("x")), Ret(F(X("q"), "val"))>>),
   OnPtrs(Nptr(I8), <<Ret(F(X("p"), "val"))>>),
   OnPtrs(Nptr(I8), <<Set_(F(X("p"), "val"), X("x")), Ret(X("x"))>>),
   OnCell(<<Ret(F(X("c"), "on"))>>),
   OnCell(<<Ret(F(F(X("c"), "to"), "val"))>>),
   OnCell(<<Ret(F(F(X("c"), "next"), "val"))>>),
   OnCell(<<Set_(F(X("c"), "on"), X("x")), Ret(X("x"))>>)}

\* Enumerations: tags, payloads of all kinds, a payload that is not there.
Shape(tag, more) == Node(<<N(tag)>> \o more, "Shape")
Make(N_, variant, args) == <<"make", N_, variant, args>>
As(e, v) == <<"as", e, v>>
Is(e, v) == <<"is", e, v>>
OnShape(body) ==
  Prog(<<P("e", <<"enum", "Shape">>), P("x", I8)>>, body,
       {In(<<<<"enum", "Shape">>, I8>>, <<t, N(3)>>, <<Obj(1), N(7)>>) :
          t \in {Shape(1, <<>>), Shape(2, <<N(5)>>), Shape(3, <<Ints(<<5, 6>>)>>), Shape(4, <<Ref(2)>>)}})

Enumerations ==
  {OnShape(<<Ret(Is(X("e"), "Disc"))>>),
   OnShape(<<Ret(Is(X("e"), "Cone"))>>),
   OnShape(<<Ret(As(X("e"), "Disc"))>>),
   OnShape(<<Ret(F(As(X("e"), "Ref"), "val"))>>),
   OnShape(<<Set_(X("f"), Make("Shape", "Disc", <<X("x")>>)), Ret(As(X("f"), "Disc"))>>),
   OnShape(<<Set_(X("f"), Make("Shape", "Dot", <<>>)), Ret(Is(X("f"), "Dot"))>>),
   OnShape(<<Set_(X("f"), Make("Shape", "Box", <<X("x"), C(5)>>)), Set_(X("t"), As(X("f"), "Box")),
             Ret(At1(X("t"), C(1)))>>),
   OnShape(<<Set_(X("f"), Make("Shape", "Ref", <<X("x")>>)), Ret(F(As(X("f"), "Ref"), "val"))>>),
   Prog(<<P("x", B)>>, <<Set_(X("f"), Make("Flag", "Off", <<X("x")>>)), Ret(As(X("f"), "Off"))>>,
        {In(<<>>, <<>>, <<N(1)>>)})}

\* Strings.
OnText(S, body) ==
  Prog(<<W("s", Str, S), P("x", I8)>>, body,
       {In(<<>>, <<>>, <<<<"s", t>>, N(x)>>) : t \in {<<1>>, <<1, 2>>, <<1, 2, 3>>}, x \in {-1, 2}})

Strings ==
  {OnText({}, <<Ret(<<"len", <<"concat", X("s"), <<"text", <<8, 9>>>>>>>>)>>),
   OnText({2, 3}, <<Ret(At1(X("s"), C(1)))>>),
   OnText({}, <<Ret(At1(X("s"), C(1)))>>),
   OnText({2, 3}, <<Ret(Cut2(X("s"), C(1), Absent))>>),
   OnText({}, <<Ret(Cut2(X("s"), Absent, X("x")))>>),
   OnText({}, <<Set_(X("t"), Cut2(X("s"), C(0), C(3))), Ret(At1(X("t"), C(2)))>>)}

\* Lists.
App(l, x) == Do(<<"append", l, x>>)
ListOf(T, body) ==
  Prog(<<P("l", <<"list", T>>), P("k", <<"list", T>>), P("x", I8)>>, body,
       {In(<<Arr(T, 2)>>, <<t>>, <<Ref(1), Ref(1), N(7)>>) :
          t \in {IF T \in {I4, I8} THEN Ints(<<1, 2>>) ELSE Node(<<PointAt(1, 2), PointAt(3, 4)>>, "")}})

Lists ==
  {ListOf(I8, <<App(X("l"), X("x")), Ret(At1(X("l"), C(0)))>>),
   ListOf(I8, <<App(X("l"), X("x")), App(X("k"), C(5)), Set_(At1(X("l"), C(0)), <<"len", X("k")>>),
                Ret(At1(X("k"), C(0)))>>),
   ListOf(I8, <<Ret(At1(X("l"), C(0)))>>),
   ListOf(I4, <<App(X("l"), C(5)), Ret(At1(X("l"), C(0)))>>),
   ListOf(I4, <<App(X("l"), At1(X("l"), C(0))), Ret(At1(X("l"), C(1)))>>),
   ListOf(I4, <<App(X("l"), C(5)), Set_(At1(X("l"), C(0)), C(5)), Ret(At1(X("l"), C(1)))>>),
   ListOf(I4, <<Set_(X("n"), <<"list", I4>>), App(X("n"), At1(X("l"), C(0))), App(X("n"), C(5)),
                Ret(At1(X("n"), C(0)))>>),
   ListOf(I8, <<Set_(X("n"), <<"list", I8>>), App(X("n"), X("x")), App(X("n"), C(5)),
                Set_(At1(X("n"), C(1)), At1(X("n"), C(0))), Ret(At1(X("n"), C(1)))>>),
   ListOf(Struct("Point"), <<App(X("l"), Point(X("x"), C(5))), Set_(X("q"), At1(X("l"), C(0))),
                             Set_(F(At1(X("l"), C(0)), "x"), X("x")), Ret(F(X("q"), "x"))>>)}

MCPrograms ==
  UNION {Arrays, Slices, Buffers, Tensors, StructsOf, Tuples, Pointers, Enumerations, Strings, Lists}
=============================================================================
