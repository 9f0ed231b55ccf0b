-------------------------- MODULE DecoratorsProofs --------------------------
(***************************************************************************)
(* Proofs about Decorators, for any functions, values and classes.         *)
(***************************************************************************)
EXTENDS Decorators, SequenceTheorems, TLAPS

-----------------------------------------------------------------------------
(* The inductive invariant                                                 *)

Known == Generic \cup Overloaded

Mappings(names) == UNION {[some -> TypeArg] : some \in SUBSET names}
OverloadKeys == [type : STRING, text : Predicate, returns : STRING]
Keys(f) == IF f \in Generic THEN Mappings(prog.typevars[f]) ELSE OverloadKeys
Sigs(f) == IF f \in Generic THEN Mappings(prog.typevars[f]) ELSE Overload

\* A function and what it is specialized for.
Unit(c) == c.fn \in Known /\ c.sig \in Sigs(c.fn)
NameFor(c) == NameOf(c.fn, KeyFor(c))

\* Calls of _specialize, and what they have still to visit.
Bodies(f) == IF f \in Generic THEN Seq(Generic) ELSE {<<>>}
Frames == UNION {[fn : {f}, key : Keys(f), sig : Sigs(f), todo : Bodies(f)] : f \in Known}

Shape ==
  /\ prog \in Programs
  /\ cache = [f \in Known |-> cache[f]]
  /\ open \in Seq(Frames)
  /\ \A i \in DOMAIN open : open[i].key = KeyFor(open[i])

\* What another specialization has begun has its place in the cache.
InnerMarked == \A i \in DOMAIN open : i > 1 => open[i].key \in Cached(open[i].fn)

\* What is found under a name has this name.
NamesTrue ==
  /\ \A n \in DOMAIN registry : Unit(registry[n]) /\ NameFor(registry[n]) = n
  /\ memo # <<>> => Unit(memo[1].of) /\ NameFor(memo[1].of) = memo[1].name

CodeRight(c) ==
  /\ \A g \in DOMAIN c.links :
       Namesakes(c.links[g],
                 [fn |-> g, sig |-> [t \in DOMAIN c.of.sig \cap prog.typevars[g] |-> c.of.sig[t]]])
  /\ Namesakes(c.checked, c.of)

CacheRight ==
  \A f \in Known : \A k \in Cached(f) : IsCode(cache[f][k]) => CodeRight(cache[f][k])

IInv == Shape /\ InnerMarked /\ RecursionIsCut /\ NamesTrue /\ CacheRight
-----------------------------------------------------------------------------
(* Names                                                                   *)

\* What names spell.
Item == TypeArg \cup {Absent, <<"refined">>} \cup ({"type"} \X STRING) \cup ({"text"} \X Predicate)

LEMMA NumbersTell ==
  ASSUME NEW m \in Int, NEW n \in Int, Number(m) = Number(n)
  PROVE  m = n \/ m = -n
<1>1. Number(m)[2] = (IF m < 0 THEN -m ELSE m) /\ Number(n)[2] = (IF n < 0 THEN -n ELSE n)
  BY DEF Number
<1>2. (IF m < 0 THEN -m ELSE m) = (IF n < 0 THEN -n ELSE n)
  BY <1>1
<1>. QED  BY <1>2

LEMMA TextsTell ==
  ASSUME NEW p \in Predicate, NEW q \in Predicate, Shown(p) = Shown(q)
  PROVE  SameText(p, q)
<1>. DEFINE last(r) == IF r.op = "NameError" THEN Letters("LIMIT") ELSE Number(r.n)
<1>1. CASE p.op = "None" /\ q.op = "None"
  BY <1>1 DEF SameText
<1>2. CASE (p.op = "None") # (q.op = "None")
  <2>1. Len(Shown(p)) # Len(Shown(q))
    BY <1>2 DEF Shown
  <2>. QED  BY <2>1
<1>3. CASE p.op # "None" /\ q.op # "None"
  <2>1. last(p) = last(q)
    <3>1. Shown(p)[4] = last(p) /\ Shown(q)[4] = last(q)
      BY <1>3 DEF Shown
    <3>. QED  BY <3>1
  <2>2. p.n \in Int /\ q.n \in Int
    BY DEF Predicate
  <2>3. CASE p.op # "NameError" /\ q.op # "NameError"
    <3>1. Number(p.n) = Number(q.n)
      BY <2>1, <2>3
    <3>2. p.n = q.n \/ p.n = -q.n
      BY <2>2, <3>1, NumbersTell
    <3>. QED  BY <1>3, <2>3, <3>2 DEF SameText
  <2>4. CASE p.op = "NameError" /\ q.op = "NameError"
    BY <2>4 DEF SameText
  <2>5. CASE (p.op = "NameError") # (q.op = "NameError")
    <3>1. \A n : Letters("LIMIT")[1] # Number(n)[1]
      BY DEF Letters, Number
    <3>. QED  BY <2>1, <2>5, <3>1
  <2>. QED  BY <2>3, <2>4, <2>5
<1>. QED  BY <1>1, <1>2, <1>3

LEMMA SpelledTyped ==
  ASSUME NEW c, Unit(c), NEW i \in DOMAIN Spelled(c.fn, KeyFor(c))
  PROVE  Spelled(c.fn, KeyFor(c))[i] \in Item
<1>1. CASE c.fn \in Generic
  <2>1. KeyFor(c) = c.sig /\ c.sig \in Mappings(prog.typevars[c.fn])
    BY <1>1 DEF KeyFor, Unit, Sigs
  <2>2. \A t \in DOMAIN c.sig : c.sig[t] \in TypeArg
    BY <2>1 DEF Mappings
  <2>. QED  BY <1>1, <2>1, <2>2 DEF Spelled, Item
<1>2. CASE c.fn \notin Generic
  <2>1. c.sig \in Overload /\ KeyFor(c) = OverloadKey(c.sig)
    BY <1>2 DEF KeyFor, Unit, Sigs
  <2>2. KeyFor(c).type \in STRING /\ KeyFor(c).text \in Predicate
    BY <2>1 DEF OverloadKey, Overload
  <2>. DEFINE key == KeyFor(c)
  <2>3. CASE key.text = NoPred
    <3>1. Spelled(c.fn, key) = <<<<"type", key.type>>>>
      BY <1>2, <2>3 DEF Spelled
    <3>2. i = 1 /\ Spelled(c.fn, key)[i] = <<"type", key.type>>
      BY <3>1
    <3>. QED  BY <2>2, <3>2 DEF Item
  <2>4. CASE key.text # NoPred
    <3>1. Spelled(c.fn, key) = <<<<"refined">>, <<"type", key.type>>, <<"text", key.text>>>>
      BY <1>2, <2>4 DEF Spelled
    <3>2. Spelled(c.fn, key)[i] \in {<<"refined">>, <<"type", key.type>>, <<"text", key.text>>}
      BY <3>1
    <3>. QED  BY <2>2, <3>2 DEF Item
  <2>. QED  BY <2>3, <2>4
<1>. QED  BY <1>1, <1>2

\* Of what it writes a word keeps all but what Alike passes over.
LEMMA WordsTell ==
  ASSUME NEW x \in Item, NEW y \in Item, Word(x) = Word(y)
  PROVE  Alike(x, y)
<1>1. CASE Kind(x) # Kind(y)
  BY <1>1 DEF Alike
<1>2. CASE Kind(x) = "int" /\ Kind(y) = "int"
  <2>1. x[2] \in Int /\ y[2] \in Int
    BY <1>2 DEF Item, TypeArg, Kind, Absent
  <2>2. Word(x)[1] = Number(x[2]) /\ Word(y)[1] = Number(y[2])
    BY <1>2 DEF Word
  <2>3. x[2] = y[2] \/ x[2] = -y[2]
    BY <2>1, <2>2, NumbersTell
  <2>4. x[2] = y[2] => x = y
    BY <1>2 DEF Item, TypeArg, Kind, Absent
  <2>. QED  BY <1>2, <2>3, <2>4 DEF Alike
<1>3. CASE Kind(x) = "shape" /\ Kind(y) = "shape"
  <2>1. Word(x)[1] = <<"rank", Len(x[2])>> /\ Word(y)[1] = <<"rank", Len(y[2])>>
    BY <1>3 DEF Word
  <2>2. Len(x[2]) = Len(y[2])
    BY <2>1
  <2>. QED  BY <1>3, <2>2, Zenon DEF Alike
<1>4. CASE Kind(x) = Kind(y) /\ Kind(x) \in {"class", "type"}
  <2>1. Word(x) = PartsOf[x[2]] /\ Word(y) = PartsOf[y[2]]
    BY <1>4 DEF Word
  <2>. QED  BY <1>4, <2>1 DEF Alike
<1>5. CASE Kind(x) = "text" /\ Kind(y) = "text"
  <2>1. x[2] \in Predicate /\ y[2] \in Predicate
    BY <1>5 DEF Item, TypeArg, Kind, Absent
  <2>2. Shown(x[2]) = Shown(y[2])
    BY <1>5 DEF Word
  <2>3. SameText(x[2], y[2])
    BY <2>1, <2>2, TextsTell
  <2>. QED  BY <1>5, <2>3 DEF Alike
<1>6. CASE Kind(x) = Kind(y) /\ Kind(x) \notin {"int", "shape", "class", "type", "text"}
  <2>1. x = y
    BY <1>6 DEF Item, TypeArg, Kind, Absent
  <2>. QED  BY <2>1 DEF Alike
<1>. QED  BY <1>1, <1>2, <1>3, <1>4, <1>5, <1>6

\* Functions of one name are namesakes.
LEMMA NamesTell ==
  ASSUME NEW c, NEW d, Unit(c), Unit(d), NameFor(c) = NameFor(d)
  PROVE  Namesakes(c, d)
<1>. DEFINE x == Spelled(c.fn, KeyFor(c))
            y == Spelled(d.fn, KeyFor(d))
<1>1. CASE Divided(c) # Divided(d)
  BY <1>1 DEF Namesakes, NameFor
<1>2. CASE Divided(c) = Divided(d)
  <2>1. PartsOf[c.fn] = PartsOf[d.fn]
        /\ [i \in DOMAIN x |-> Word(x[i])] = [i \in DOMAIN y |-> Word(y[i])]
    BY <1>2 DEF Divided, Words
  <2>2. DOMAIN x = DOMAIN y
    BY <2>1
  <2>3. ASSUME NEW i \in DOMAIN x PROVE Alike(x[i], y[i])
    <3>1. x[i] \in Item /\ y[i] \in Item
      BY <2>2, SpelledTyped
    <3>2. Word(x[i]) = Word(y[i])
      BY <2>1, <2>2
    <3>. QED  BY <3>1, <3>2, WordsTell
  <2>. QED  BY <2>1, <2>2, <2>3 DEF Namesakes, SameWords
<1>. QED  BY <1>1, <1>2
-----------------------------------------------------------------------------
(* What the steps have in common                                           *)

LEMMA FrameParts ==
  ASSUME NEW x \in Frames
  PROVE  x.fn \in Known /\ x.key \in Keys(x.fn) /\ x.sig \in Sigs(x.fn) /\ x.todo \in Bodies(x.fn)
BY DEF Frames

LEMMA TopIsFrame ==
  ASSUME Shape, ~Idle
  PROVE  /\ Len(open) \in Nat \ {0} /\ DOMAIN open = 1..Len(open)
         /\ Top \in Frames /\ Top = open[Len(open)]
         /\ Top.fn \in Known /\ Top.key \in Keys(Top.fn) /\ Top.sig \in Sigs(Top.fn)
         /\ Top.key = KeyFor(Top)
         /\ Top.todo \in Bodies(Top.fn)
<1>1. Len(open) \in Nat \ {0} /\ DOMAIN open = 1..Len(open) /\ open \in Seq(Frames)
  BY DEF Shape, Idle
<1>2. Top = open[Len(open)] /\ Top \in Frames
  BY <1>1 DEF Top, Last
<1>3. Top.key = KeyFor(Top)
  BY <1>1, <1>2 DEF Shape
<1>. QED  BY <1>1, <1>2, <1>3, FrameParts

LEMMA SameKnown ==
  ASSUME UNCHANGED prog
  PROVE  /\ Known' = Known /\ Generic' = Generic /\ Frames' = Frames
         /\ \A f : Keys(f)' = Keys(f) /\ Sigs(f)' = Sigs(f)
         /\ \A c : KeyFor(c)' = KeyFor(c)
<1>1. Known' = Known /\ Generic' = Generic
  BY DEF Known, Generic, Overloaded
<1>2. ASSUME NEW f PROVE Keys(f)' = Keys(f) /\ Sigs(f)' = Sigs(f)
  BY <1>1 DEF Keys, Sigs, Mappings
<1>4. ASSUME NEW c PROVE KeyFor(c)' = KeyFor(c)
  BY <1>1 DEF KeyFor
<1>3. Frames' = Frames
  BY <1>1, <1>2, Zenon DEF Frames, Bodies
<1>. QED  BY <1>1, <1>2, <1>3, <1>4

\* Names depend on the program only.
LEMMA SameNaming ==
  ASSUME UNCHANGED prog
  PROVE  /\ \A c : (Unit(c)' <=> Unit(c)) /\ NameFor(c)' = NameFor(c)
         /\ \A c, d : Namesakes(c, d)' <=> Namesakes(c, d)
<1>1. ASSUME NEW f, NEW key PROVE Spelled(f, key)' = Spelled(f, key)
  BY SameKnown DEF Spelled
<1>2. ASSUME NEW f, NEW key PROVE Words(f, key)' = Words(f, key) /\ NameOf(f, key)' = NameOf(f, key)
  BY <1>1 DEF Words, NameOf
<1>3. ASSUME NEW c PROVE /\ NameFor(c)' = NameFor(c) /\ Divided(c)' = Divided(c)
                         /\ Unit(c)' <=> Unit(c)
  BY <1>2, SameKnown DEF NameFor, Divided, Unit
<1>4. ASSUME NEW c, NEW d PROVE SameWords(c, d)' <=> SameWords(c, d)
  BY <1>1, SameKnown DEF SameWords
<1>. QED  BY <1>2, <1>3, <1>4, SameKnown DEF Namesakes

LEMMA SameNames ==
  ASSUME NamesTrue, UNCHANGED <<prog, registry, memo>>
  PROVE  NamesTrue'
BY SameNaming DEF NamesTrue

LEMMA NamesKept ==
  ASSUME UNCHANGED prog,
         \A n \in DOMAIN registry' :
           Unit(registry'[n]) /\ NameFor(registry'[n]) = n,
         memo' # <<>> => Unit(memo'[1].of) /\ NameFor(memo'[1].of) = memo'[1].name
  PROVE  NamesTrue'
BY SameNaming DEF NamesTrue

LEMMA SameCache ==
  ASSUME CacheRight, UNCHANGED <<prog, cache>>
  PROVE  CacheRight'
<1>1. \A c : CodeRight(c)' <=> CodeRight(c)
  BY SameNaming DEF CodeRight
<1>. QED  BY <1>1, SameKnown DEF CacheRight, Cached, IsCode

\* A place in a cache is taken.
LEMMA KeptIn ==
  ASSUME Shape, NEW f \in Known, NEW key, NEW x, cache' = Keep(f, key, x), UNCHANGED prog
  PROVE  /\ cache' = [g \in Known |-> cache'[g]]
         /\ cache'[f] = With(cache[f], key, x)
         /\ \A g \in Known \ {f} : cache'[g] = cache[g]
         /\ \A g \in Known : DOMAIN cache[g] \subseteq DOMAIN cache'[g]
         /\ key \in DOMAIN cache'[f]
<1>1. cache' = [cache EXCEPT ![f] = With(cache[f], key, x)]
  BY DEF Keep
<1>2. cache' = [g \in Known |-> cache'[g]] /\ cache'[f] = With(cache[f], key, x)
      /\ \A g \in Known \ {f} : cache'[g] = cache[g]
  BY <1>1 DEF Shape
<1>3. DOMAIN With(cache[f], key, x) = DOMAIN cache[f] \cup {key}
  BY DEF With
<1>. QED  BY <1>2, <1>3

\* What is put there is right, or no code.
LEMMA KeptRight ==
  ASSUME Shape, CacheRight, NEW f \in Known, NEW key, NEW x,
         cache' = Keep(f, key, x), UNCHANGED prog, IsCode(x) => CodeRight(x)
  PROVE  CacheRight'
<1>1. /\ cache'[f] = With(cache[f], key, x)
      /\ \A g \in Known \ {f} : cache'[g] = cache[g]
  BY KeptIn
<1>2. \A c : CodeRight(c)' <=> CodeRight(c)
  BY SameNaming DEF CodeRight
<1>3. ASSUME NEW g \in Known, NEW k \in DOMAIN cache'[g], IsCode(cache'[g][k])
      PROVE  CodeRight(cache'[g][k])
  <2>1. CASE g # f
    BY <1>1, <1>3, <2>1 DEF CacheRight, Cached
  <2>2. CASE g = f /\ k = key
    BY <1>1, <1>3, <2>2 DEF With
  <2>3. CASE g = f /\ k # key
    <3>1. k \in DOMAIN cache[f] /\ cache'[f][k] = cache[f][k]
      BY <1>1, <1>3, <2>3 DEF With
    <3>. QED  BY <1>3, <2>3, <3>1 DEF CacheRight, Cached
  <2>. QED  BY <2>1, <2>2, <2>3
<1>. QED  BY <1>2, <1>3, SameKnown DEF CacheRight, Cached, IsCode
-----------------------------------------------------------------------------
(* Calls                                                                   *)

LEMMA InitInv == ASSUME ProgramAssumption, Init PROVE IInv
<1>1. cache = [f \in Known |-> <<>>] /\ open = <<>> /\ prog \in Programs
  BY DEF Init, Known
<1>2. Shape
  <2>1. cache = [f \in Known |-> cache[f]]
    BY <1>1
  <2>. QED  BY <1>1, <2>1 DEF Shape
<1>5. InnerMarked /\ RecursionIsCut
  BY <1>1 DEF InnerMarked, RecursionIsCut
<1>3. NamesTrue
  <2>1. registry = <<>> /\ memo = <<>>
    BY DEF Init
  <2>2. DOMAIN registry = {}
    BY <2>1
  <2>. QED  BY <2>1, <2>2 DEF NamesTrue
<1>4. CacheRight
  BY <1>1 DEF CacheRight, Cached
<1>. QED  BY <1>2, <1>3, <1>4, <1>5 DEF IInv

\* A type argument is found for each argument.
LEMMA MappingTyped ==
  ASSUME ProgramAssumption, Shape, NEW f \in Generic, NEW args \in [prog.typevars[f] -> Values]
  PROVE  Mapping(args) \in Keys(f)
<1>1. Values \subseteq Value
  BY DEF ProgramAssumption, Shape, Values
<1>2. ASSUME NEW v \in Value PROVE Matched(v) \in TypeArg
  <2>1. CASE Kind(v) = "object"
    BY <2>1 DEF Matched, Value, TypeArg, Kind
  <2>2. CASE Kind(v) = "float"
    BY <2>2 DEF Matched, Value, TypeArg, Kind
  <2>3. CASE Kind(v) # "object" /\ Kind(v) # "float"
    BY <2>3 DEF Matched, Value, TypeArg, Kind
  <2>. QED  BY <2>1, <2>2, <2>3
<1>3. Mapping(args) \in [prog.typevars[f] -> TypeArg]
  BY <1>1, <1>2 DEF Mapping
<1>. QED  BY <1>3 DEF Keys, Mappings

LEMMA FrameTyped ==
  ASSUME ProgramAssumption, Shape, NEW f \in Known, NEW key \in Keys(f), NEW sig \in Sigs(f)
  PROVE  Frame(f, key, sig) \in Frames
<1>1. (IF f \in Generic THEN prog.calls[f] ELSE <<>>) \in Bodies(f)
  <2>1. prog.calls \in [Generic -> Seq(Generic)]
    BY DEF ProgramAssumption, Shape, Generic
  <2>. QED  BY <2>1 DEF Bodies
<1>2. Frame(f, key, sig) = [fn |-> f, key |-> key, sig |-> sig,
                            todo |-> IF f \in Generic THEN prog.calls[f] ELSE <<>>]
  BY DEF Frame
<1>. QED  BY <1>1, <1>2 DEF Frames

LEMMA AskStep ==
  ASSUME ProgramAssumption, IInv, Idle,
         NEW f \in Known, NEW key \in Keys(f), NEW sig \in Sigs(f), NEW args,
         key = KeyFor([fn |-> f, sig |-> sig]), Ask(f, key, sig, args)
  PROVE  IInv'
<1>1. open' = <<>> \/ open' = <<Frame(f, key, sig)>>
  BY DEF Ask, Idle
<1>2. UNCHANGED <<prog, cache, registry, memo>>
  BY DEF Ask
<1>3. Frame(f, key, sig) \in Frames /\ Frame(f, key, sig).key = KeyFor(Frame(f, key, sig))
  BY FrameTyped DEF IInv, Frame, KeyFor
<1>4. open' \in Seq(Frames) /\ DOMAIN open' \subseteq {1}
      /\ \A i \in DOMAIN open' : open'[i].key = KeyFor(open'[i])
  <2>1. CASE open' = <<>>
    BY <2>1
  <2>2. CASE open' = <<Frame(f, key, sig)>>
    BY <1>3, <2>2
  <2>. QED  BY <1>1, <2>1, <2>2
<1>5. Shape'
  BY <1>2, <1>4, SameKnown DEF IInv, Shape
<1>6. InnerMarked' /\ RecursionIsCut'
  BY <1>4 DEF InnerMarked, RecursionIsCut
<1>. QED  BY <1>2, <1>5, <1>6, SameNames, SameCache DEF IInv

LEMMA CallingStep == ASSUME ProgramAssumption, IInv, Calling PROVE IInv'
<1>1. ASSUME NEW f \in Generic, NEW args \in [prog.typevars[f] -> Values], CallGeneric(f, args)
      PROVE  IInv'
  <2>1. Mapping(args) \in Keys(f) /\ Mapping(args) \in Sigs(f) /\ f \in Known
    BY MappingTyped DEF IInv, Known, Keys, Sigs
  <2>2. Mapping(args) = KeyFor([fn |-> f, sig |-> Mapping(args)])
    BY DEF KeyFor
  <2>. QED  BY <1>1, <2>1, <2>2, AskStep DEF CallGeneric
<1>2. ASSUME NEW f \in Overloaded, NEW v \in Values, CallOverloaded(f, v)
      PROVE  IInv'
  <2>1. PICK o \in First(f, v) : Ask(f, OverloadKey(o), o, [x \in {"x"} |-> v])
    BY <1>2 DEF CallOverloaded
  <2>2. o \in Overload
    BY DEF First, Matching, ProgramAssumption, IInv, Shape, Overloaded
  <2>3. f \in Known /\ f \notin Generic
    BY DEF Known, ProgramAssumption, IInv, Shape, Generic, Overloaded
  <2>4. OverloadKey(o) \in Keys(f) /\ o \in Sigs(f)
    BY <2>2, <2>3 DEF Keys, Sigs, OverloadKeys, OverloadKey, Overload
  <2>5. OverloadKey(o) = KeyFor([fn |-> f, sig |-> o])
    BY <2>3 DEF KeyFor
  <2>. QED  BY <1>2, <2>1, <2>3, <2>4, <2>5, AskStep DEF CallOverloaded
<1>3. ASSUME NEW f \in Overloaded, NEW v \in Values, NoMatch(f, v)
      PROVE  IInv'
  <2>1. UNCHANGED <<prog, cache, registry, memo, open>>
    BY <1>3 DEF NoMatch
  <2>2. Shape' /\ InnerMarked' /\ RecursionIsCut'
    BY <2>1, SameKnown DEF IInv, Shape, InnerMarked, RecursionIsCut, Cached
  <2>. QED  BY <2>1, <2>2, SameNames, SameCache DEF IInv
<1>. QED  BY <1>1, <1>2, <1>3 DEF Calling
-----------------------------------------------------------------------------
(* Specialization                                                          *)

\* The innermost call has one call of its body behind it.
LEMMA AdvancedTyped ==
  ASSUME Shape, ~Idle, Top.todo # <<>>
  PROVE  /\ Advanced \in Seq(Frames) /\ Len(Advanced) = Len(open)
         /\ \A i \in 1..Len(open) :
              /\ Advanced[i].fn = open[i].fn /\ Advanced[i].key = open[i].key
              /\ Advanced[i].sig = open[i].sig
              /\ KeyFor(Advanced[i]) = KeyFor(open[i])
<1>1. /\ Len(open) \in Nat \ {0} /\ open \in Seq(Frames)
      /\ Top \in Frames /\ Top = open[Len(open)] /\ Top.todo \in Bodies(Top.fn)
  BY TopIsFrame DEF Shape
<1>2. Advanced = [open EXCEPT ![Len(open)] = [Top EXCEPT !.todo = Tail(Top.todo)]]
  BY <1>1 DEF Advanced
<1>3. PICK f \in Known : Top \in [fn : {f}, key : Keys(f), sig : Sigs(f), todo : Bodies(f)]
  BY <1>1 DEF Frames
<1>4. Top.fn = f /\ Tail(Top.todo) \in Bodies(f)
  <2>1. Top.fn = f /\ Top.todo # <<>> /\ Top.todo \in Bodies(f)
    BY <1>1, <1>3
  <2>2. f \in Generic /\ Top.todo \in Seq(Generic)
    BY <2>1 DEF Bodies
  <2>3. Tail(Top.todo) \in Seq(Generic)
    BY <2>1, <2>2
  <2>. QED  BY <2>1, <2>2, <2>3 DEF Bodies
<1>5. [Top EXCEPT !.todo = Tail(Top.todo)] \in [fn : {f}, key : Keys(f), sig : Sigs(f), todo : Bodies(f)]
  BY <1>3, <1>4
<1>6. [Top EXCEPT !.todo = Tail(Top.todo)] \in Frames
  BY <1>5 DEF Frames
<1>7. \A i \in 1..Len(open) :
        /\ Advanced[i].fn = open[i].fn /\ Advanced[i].key = open[i].key
        /\ Advanced[i].sig = open[i].sig
  BY <1>1, <1>2, <1>3
<1>. QED  BY <1>1, <1>2, <1>6, <1>7 DEF KeyFor

\* What a callee is specialized for are types.
LEMMA CallTyped ==
  ASSUME NEW f \in Generic, NEW g \in Generic, NEW key \in Keys(f)
  PROVE  CallMapping(key, g) \in Keys(g)
<1>1. \A t \in DOMAIN key : key[t] \in TypeArg
  BY DEF Keys, Mappings
<1>2. CallMapping(key, g) \in [DOMAIN key \cap prog.typevars[g] -> TypeArg]
  BY <1>1 DEF CallMapping
<1>. QED  BY <1>2 DEF Keys, Mappings

LEMMA VisitStep == ASSUME ProgramAssumption, IInv, Visit PROVE IInv'
<1>. DEFINE g == Head(Top.todo)
<1>1. /\ ~Idle /\ Top.todo # <<>> /\ UNCHANGED <<prog, registry, memo>>
      /\ Shape /\ InnerMarked /\ RecursionIsCut /\ CacheRight
  BY DEF Visit, IInv
<1>2. /\ Len(open) \in Nat \ {0} /\ DOMAIN open = 1..Len(open)
      /\ g \in Generic /\ Top.key \in Keys(Top.fn) /\ Top.fn \in Generic
  BY <1>1, TopIsFrame DEF Bodies
<1>3. /\ Advanced \in Seq(Frames) /\ Len(Advanced) = Len(open)
      /\ \A i \in 1..Len(open) :
           /\ Advanced[i].fn = open[i].fn /\ Advanced[i].key = open[i].key
           /\ Advanced[i].sig = open[i].sig
           /\ KeyFor(Advanced[i]) = KeyFor(open[i])
  BY <1>1, AdvancedTyped
<1>4. NamesTrue'
  BY <1>1, SameNames DEF IInv
<1>5. CASE open' = Advanced /\ UNCHANGED cache
  <2>1. CacheRight'
    BY <1>1, <1>5, SameCache
  <2>2. open' \in Seq(Frames') /\ DOMAIN open' = DOMAIN open
    BY <1>1, <1>2, <1>3, <1>5, SameKnown
  <2>3. Shape'
    BY <1>1, <1>2, <1>3, <1>5, <2>2, SameKnown DEF Shape
  <2>4. InnerMarked' /\ RecursionIsCut'
    BY <1>1, <1>2, <1>3, <1>5, <2>2 DEF InnerMarked, RecursionIsCut, Cached
  <2>. QED  BY <1>4, <2>1, <2>3, <2>4 DEF IInv
<1>6. CASE /\ NextCall \notin Cached(g) /\ cache' = Placeholder(g, NextCall)
           /\ DOMAIN NextCall # {}
           /\ open' = Append(Advanced, Frame(g, NextCall, NextCall))
  <2>1. g \in Known
    BY <1>2 DEF Known
  <2>2. NextCall \in Keys(g) /\ NextCall \in Sigs(g)
    BY <1>2, CallTyped DEF NextCall, Keys, Sigs
  <2>3. cache' = Keep(g, NextCall, Hole) /\ ~IsCode(Hole) /\ UNCHANGED prog
    BY <1>1, <1>6 DEF Placeholder, IsCode, Hole
  <2>4. /\ cache' = [h \in Known |-> cache'[h]]
        /\ \A h \in Known : DOMAIN cache[h] \subseteq DOMAIN cache'[h]
        /\ NextCall \in DOMAIN cache'[g]
    BY <1>1, <2>1, <2>3, KeptIn
  <2>5. CacheRight'
    BY <1>1, <2>1, <2>3, KeptRight
  <2>6. Frame(g, NextCall, NextCall) \in Frames
    BY <1>1, <2>1, <2>2, FrameTyped
  <2>7. /\ open' \in Seq(Frames) /\ DOMAIN open' = 1..(Len(open) + 1)
        /\ \A i \in 1..Len(open) : open'[i] = Advanced[i]
        /\ open'[Len(open) + 1] = Frame(g, NextCall, NextCall)
    BY <1>2, <1>3, <1>6, <2>6
  <2>8. /\ Frame(g, NextCall, NextCall).fn = g
        /\ Frame(g, NextCall, NextCall).key = NextCall
        /\ KeyFor(Frame(g, NextCall, NextCall)) = NextCall
    BY <1>2 DEF Frame, KeyFor
  <2>9. Shape'
    BY <1>1, <1>2, <1>3, <2>4, <2>7, <2>8, SameKnown DEF Shape
  <2>10. \A i \in 1..Len(open) : open[i].fn \in Known
    BY <1>1, <1>2, FrameParts DEF Shape
  <2>11. InnerMarked'
    <3>1. ASSUME NEW i \in 1..Len(open), i > 1
          PROVE  open'[i].key \in DOMAIN cache'[open'[i].fn]
      BY <1>1, <1>2, <1>3, <2>4, <2>7, <2>10, <3>1 DEF InnerMarked, Cached
    <3>2. open'[Len(open) + 1].key \in DOMAIN cache'[open'[Len(open) + 1].fn]
      BY <2>4, <2>7, <2>8
    <3>3. ASSUME NEW i \in DOMAIN open', i > 1
          PROVE  open'[i].key \in DOMAIN cache'[open'[i].fn]
      BY <1>2, <2>7, <3>1, <3>2, <3>3
    <3>. QED  BY <3>3 DEF InnerMarked, Cached
  <2>12. RecursionIsCut'
    <3>. SUFFICES ASSUME NEW i \in DOMAIN open', NEW j \in DOMAIN open', i < j,
                         open'[i].fn = open'[j].fn, open'[i].key = open'[j].key
                  PROVE  i = 1
      BY DEF RecursionIsCut
    <3>1. CASE j \in 1..Len(open)
      BY <1>1, <1>2, <1>3, <2>7, <3>1 DEF RecursionIsCut
    <3>2. CASE j = Len(open) + 1
      <4>1. i \in 1..Len(open) /\ open[i].fn = g /\ open[i].key = NextCall
        BY <1>2, <1>3, <2>7, <2>8, <3>2
      <4>. QED  BY <1>1, <1>2, <1>6, <4>1 DEF InnerMarked
    <3>. QED  BY <1>2, <2>7, <3>1, <3>2
  <2>. QED  BY <1>4, <2>5, <2>9, <2>11, <2>12 DEF IInv
<1>. QED  BY <1>5, <1>6 DEF Visit

\* A specialization is over: its result takes its place, or is nowhere.
LEMMA ReturnStep ==
  ASSUME Shape, InnerMarked, RecursionIsCut, ~Idle, NEW x, Return(x), UNCHANGED prog
  PROVE  Shape' /\ InnerMarked' /\ RecursionIsCut'
<1>1. /\ Len(open) \in Nat \ {0} /\ DOMAIN open = 1..Len(open) /\ open \in Seq(Frames)
      /\ Top.fn \in Known
  BY TopIsFrame DEF Shape
<1>2. /\ cache' = [h \in Known |-> cache'[h]]
      /\ \A h \in Known : DOMAIN cache[h] \subseteq DOMAIN cache'[h]
  <2>1. cache' = Keep(Top.fn, Top.key, x)
    BY DEF Return
  <2>. QED  BY <1>1, <2>1, KeptIn
<1>3. /\ open' \in Seq(Frames) /\ DOMAIN open' = 1..(Len(open) - 1)
      /\ \A i \in 1..(Len(open) - 1) : open'[i] = open[i]
  BY <1>1 DEF Return, Front
<1>4. Shape'
  BY <1>1, <1>2, <1>3, SameKnown DEF Shape
<1>5. \A i \in 1..Len(open) : open[i].fn \in Known
  BY <1>1, FrameParts
<1>6. ASSUME NEW i \in DOMAIN open', i > 1
      PROVE  open'[i].key \in DOMAIN cache'[open'[i].fn]
  BY <1>1, <1>2, <1>3, <1>5, <1>6 DEF InnerMarked, Cached
<1>7. InnerMarked'
  BY <1>6 DEF InnerMarked, Cached
<1>8. RecursionIsCut'
  BY <1>1, <1>3 DEF RecursionIsCut
<1>. QED  BY <1>4, <1>7, <1>8

LEMMA UnwindStep ==
  ASSUME Shape, NEW e, Unwind(e), UNCHANGED prog
  PROVE  Shape' /\ InnerMarked' /\ RecursionIsCut'
<1>1. open' = <<>> /\ UNCHANGED cache
  BY DEF Unwind
<1>2. DOMAIN open' = {} /\ open' \in Seq(Frames)
  BY <1>1
<1>. QED  BY <1>1, <1>2, SameKnown DEF Shape, InnerMarked, RecursionIsCut

LEMMA ThisIsUnit ==
  ASSUME Shape, ~Idle
  PROVE  Unit(This) /\ NameFor(This) = MyName
<1>1. /\ Top.fn \in Known /\ Top.key \in Keys(Top.fn) /\ Top.sig \in Sigs(Top.fn)
      /\ Top.key = KeyFor(Top)
  BY TopIsFrame
<1>2. This.fn = Top.fn /\ This.sig = Top.sig /\ KeyFor(This) = Top.key
  BY <1>1 DEF This, KeyFor
<1>. QED  BY <1>1, <1>2 DEF Unit, NameFor, MyName

\* What the verifier knows has the name of what it is about.
LEMMA MemoStep ==
  ASSUME Shape, NamesTrue, ~Idle, UNCHANGED prog,
         NEW checked \in MayBeChecked, Verified(checked)
  PROVE  /\ Namesakes(checked, This)
         /\ memo' # <<>> => Unit(memo'[1].of) /\ NameFor(memo'[1].of) = memo'[1].name
<1>1. Unit(This) /\ NameFor(This) = MyName
  BY ThisIsUnit
<1>2. MemoHit => Unit(memo[1].of) /\ NameFor(memo[1].of) = MyName
  BY <1>1 DEF MemoHit, NamesTrue
<1>3. checked = This \/ (MemoHit /\ checked = memo[1].of)
  BY DEF MayBeChecked
<1>4. Namesakes(checked, This)
  BY <1>1, <1>2, <1>3, NamesTell
<1>5. memo' = memo \/ memo' = <<[name |-> MyName, of |-> This]>>
  BY DEF Verified
<1>. QED  BY <1>1, <1>4, <1>5 DEF NamesTrue

LEMMA CompileErrorStep == ASSUME IInv, CompileError PROVE IInv'
<1>1. /\ Shape /\ InnerMarked /\ RecursionIsCut /\ NamesTrue /\ CacheRight
      /\ ~Idle /\ UNCHANGED prog /\ UNCHANGED registry
  BY DEF IInv, CompileError, Ready
<1>2. NamesTrue'
  <2>1. PICK checked \in MayBeChecked : Verified(checked)
    BY DEF CompileError
  <2>2. \A n \in DOMAIN registry' :
          Unit(registry'[n]) /\ NameFor(registry'[n]) = n
    BY <1>1 DEF NamesTrue
  <2>. QED  BY <1>1, <2>1, <2>2, MemoStep, NamesKept
<1>3. CASE Unwind("VerificationError")
  <2>1. CacheRight'
    BY <1>1, <1>3, SameCache DEF Unwind
  <2>. QED  BY <1>1, <1>2, <1>3, <2>1, UnwindStep DEF IInv
<1>4. CASE Return(Python)
  <2>1. Top.fn \in Known /\ cache' = Keep(Top.fn, Top.key, Python) /\ ~IsCode(Python)
    BY <1>1, <1>4, TopIsFrame DEF Return, IsCode, Python
  <2>2. CacheRight'
    BY <1>1, <2>1, KeptRight
  <2>. QED  BY <1>1, <1>2, <1>4, <2>2, ReturnStep DEF IInv
<1>. QED  BY <1>3, <1>4 DEF CompileError

LEMMA PanicStep == ASSUME IInv, Panic PROVE IInv'
<1>1. /\ Shape /\ NamesTrue /\ CacheRight
      /\ ~Idle /\ UNCHANGED prog /\ UNCHANGED registry /\ Unwind("PanicException")
  BY DEF IInv, Panic, Ready
<1>2. NamesTrue'
  <2>1. PICK checked \in MayBeChecked : Verified(checked)
    BY DEF Panic
  <2>2. \A n \in DOMAIN registry' :
          Unit(registry'[n]) /\ NameFor(registry'[n]) = n
    BY <1>1 DEF NamesTrue
  <2>. QED  BY <1>1, <2>1, <2>2, MemoStep, NamesKept
<1>3. CacheRight'
  BY <1>1, SameCache DEF Unwind
<1>. QED  BY <1>1, <1>2, <1>3, UnwindStep DEF IInv

\* A call is linked to a function of the name that stands there.
LEMMA LinkedRight ==
  ASSUME ProgramAssumption, Shape, NamesTrue, ~Idle, Linkable, NEW g \in Callees
  PROVE  Namesakes(Linked(g), [fn |-> g, sig |-> CallMapping(Top.key, g)])
<1>. DEFINE called == [fn |-> g, sig |-> CallMapping(Top.key, g)]
<1>1. Top.fn \in Known /\ Top.key \in Keys(Top.fn)
  BY TopIsFrame
<1>2. Top.fn \in Generic /\ g \in Generic
  <2>1. Top.fn \in Generic
    BY DEF Callees
  <2>2. prog.calls[Top.fn] \in Seq(Generic)
    BY <2>1 DEF ProgramAssumption, Shape, Generic
  <2>3. g \in Range(prog.calls[Top.fn])
    BY <2>1 DEF Callees
  <2>. QED  BY <2>1, <2>2, <2>3 DEF Range
<1>3. Unit(called) /\ NameFor(called) = CalleeName(g)
  BY <1>1, <1>2, CallTyped DEF Unit, Known, Keys, Sigs, CalleeName, NameFor, KeyFor
<1>4. Unit(Linked(g)) /\ NameFor(Linked(g)) = CalleeName(g)
  <2>1. CASE CalleeName(g) = MyName
    BY <2>1, ThisIsUnit DEF Linked
  <2>2. CASE CalleeName(g) # MyName
    BY <2>2 DEF Linked, Linkable, NamesTrue
  <2>. QED  BY <2>1, <2>2
<1>. QED  BY <1>3, <1>4, NamesTell

LEMMA CompileStep == ASSUME ProgramAssumption, IInv, Compile PROVE IInv'
<1>1. /\ Shape /\ InnerMarked /\ RecursionIsCut /\ NamesTrue /\ CacheRight
      /\ ~Idle /\ UNCHANGED prog /\ Linkable /\ registry' = With(registry, MyName, This)
  BY DEF IInv, Compile, Ready
<1>2. PICK checked \in MayBeChecked, layouts \in Layouts :
        /\ Verified(checked)
        /\ Return([is |-> "code", of |-> This, checked |-> checked, layouts |-> layouts,
                   links |-> [g \in Callees |-> Linked(g)]])
  BY DEF Compile
<1>. DEFINE code == [is |-> "code", of |-> This, checked |-> checked, layouts |-> layouts,
                     links |-> [g \in Callees |-> Linked(g)]]
<1>3. NamesTrue'
  <2>1. Unit(This) /\ NameFor(This) = MyName
    BY <1>1, ThisIsUnit
  <2>2. \A n \in DOMAIN registry' :
          Unit(registry'[n]) /\ NameFor(registry'[n]) = n
    BY <1>1, <2>1 DEF With, NamesTrue
  <2>. QED  BY <1>1, <1>2, <2>2, MemoStep, NamesKept
<1>4. CodeRight(code)
  <2>1. Namesakes(code.checked, code.of)
    BY <1>1, <1>2, MemoStep
  <2>2. ASSUME NEW g \in Callees
        PROVE  Namesakes(code.links[g],
                 [fn |-> g, sig |-> [t \in DOMAIN code.of.sig \cap prog.typevars[g] |-> code.of.sig[t]]])
    <3>1. code.of.sig = Top.key
      BY <1>1, <2>2, TopIsFrame DEF This, KeyFor, Callees
    <3>2. Namesakes(Linked(g), [fn |-> g, sig |-> CallMapping(Top.key, g)])
      BY <1>1, LinkedRight
    <3>. QED  BY <3>1, <3>2 DEF CallMapping
  <2>. QED  BY <2>1, <2>2 DEF CodeRight
<1>5. CacheRight'
  <2>1. Top.fn \in Known /\ cache' = Keep(Top.fn, Top.key, code)
    BY <1>1, <1>2, TopIsFrame DEF Return
  <2>. QED  BY <1>1, <1>4, <2>1, KeptRight
<1>. QED  BY <1>1, <1>2, <1>3, <1>5, ReturnStep DEF IInv

LEMMA RedefineStep == ASSUME IInv, NEW n, Redefine(n) PROVE IInv'
<1>1. /\ open = <<>> /\ UNCHANGED <<prog, open, registry, memo>>
      /\ \/ UNCHANGED cache
         \/ n \in DOMAIN cache /\ cache' = [cache EXCEPT ![n] = <<>>]
      /\ Shape /\ NamesTrue /\ CacheRight
  BY DEF Redefine, Idle, IInv
<1>2. cache' = [f \in Known |-> cache'[f]]
  BY <1>1 DEF Shape
<1>3. open' \in Seq(Frames) /\ DOMAIN open' = {}
  BY <1>1
<1>4. Shape' /\ InnerMarked' /\ RecursionIsCut'
  BY <1>1, <1>2, <1>3, SameKnown DEF Shape, InnerMarked, RecursionIsCut
<1>5. CASE UNCHANGED cache
  BY <1>1, <1>4, <1>5, SameNames, SameCache DEF IInv
<1>6. CASE n \in DOMAIN cache /\ cache' = [cache EXCEPT ![n] = <<>>]
  <2>1. ASSUME NEW f \in Known, NEW k \in DOMAIN cache'[f]
        PROVE  k \in DOMAIN cache[f] /\ cache'[f][k] = cache[f][k]
    BY <1>1, <1>6 DEF Shape
  <2>2. \A c : CodeRight(c)' <=> CodeRight(c)
    BY <1>1, SameNaming DEF CodeRight
  <2>3. CacheRight'
    BY <1>1, <2>1, <2>2, SameKnown DEF CacheRight, Cached, IsCode
  <2>. QED  BY <1>1, <1>4, <2>3, SameNames DEF IInv
<1>. QED  BY <1>1, <1>5, <1>6
-----------------------------------------------------------------------------
LEMMA Inductive == ASSUME ProgramAssumption, IInv, [Next]_vars PROVE IInv'
<1>1. CASE Calling
  BY <1>1, CallingStep
<1>2. CASE Visit
  BY <1>2, VisitStep
<1>3. CASE Compile
  BY <1>3, CompileStep
<1>4. CASE CompileError
  BY <1>4, CompileErrorStep
<1>5. CASE Panic
  BY <1>5, PanicStep
<1>6. ASSUME NEW n \in prog.again, Redefine(n) PROVE IInv'
  BY <1>6, RedefineStep
<1>7. CASE UNCHANGED vars
  <2>1. UNCHANGED <<prog, cache, registry, memo, open>>
    BY <1>7 DEF vars
  <2>2. Shape' /\ InnerMarked' /\ RecursionIsCut'
    BY <2>1, SameKnown DEF IInv, Shape, InnerMarked, RecursionIsCut, Cached
  <2>. QED  BY <2>1, <2>2, SameNames, SameCache DEF IInv
<1>. QED  BY <1>1, <1>2, <1>3, <1>4, <1>5, <1>6, <1>7 DEF Next

THEOREM InductiveInvariant == Spec => []IInv
<1>1. Init => IInv
  BY InitInv, ProgramAssumption
<1>2. IInv /\ [Next]_vars => IInv'
  BY Inductive, ProgramAssumption
<1>. QED  BY <1>1, <1>2, PTL DEF Spec

(* The specialization of functions that call each other comes to an end,   *)
(* however many they are and whatever fails: visit_Call takes a place in   *)
(* the cache before it specializes, so that only what __call__ has begun   *)
(* can be begun again, and only once.                                      *)
THEOREM SpecializationEnds == Spec => []RecursionIsCut
<1>1. IInv => RecursionIsCut
  BY DEF IInv
<1>. QED  BY <1>1, InductiveInvariant, PTL

(* Code is in a cache.                                                     *)
LEMMA CompiledIsRight == ASSUME IInv, NEW c \in Compiled PROVE CodeRight(c)
<1>1. PICK f \in DOMAIN cache : c \in Range(cache[f]) /\ IsCode(c)
  BY DEF Compiled
<1>2. PICK k \in DOMAIN cache[f] : c = cache[f][k]
  BY <1>1 DEF Range
<1>3. f \in Known
  BY <1>1 DEF IInv, Shape
<1>. QED  BY <1>1, <1>2, <1>3 DEF IInv, CacheRight, Cached

(* Whatever the functions and the values, a call in compiled code goes to  *)
(* the specialization it stands for, or to one that shares its name, as    *)
(* Namesakes says: parts that differ in what names leave out, or the same  *)
(* parts divided otherwise.                                                *)
THEOREM CallsGoByName == Spec => []LinkedToItsOwn
<1>1. IInv => LinkedToItsOwn
  BY CompiledIsRight DEF LinkedToItsOwn, CodeRight
<1>. QED  BY <1>1, InductiveInvariant, PTL

(* So does what the verifier remembers of a function.                      *)
THEOREM ProofsGoByName == Spec => []VerifiedAsItself
<1>1. IInv => VerifiedAsItself
  BY CompiledIsRight DEF VerifiedAsItself, CodeRight
<1>. QED  BY <1>1, InductiveInvariant, PTL
-----------------------------------------------------------------------------
(* What a call runs                                                        *)

\* Parameters that stand for a class of this name.
Own(key, c) == {t \in DOMAIN key : Kind(key[t]) = "class" /\ key[t][2] = c}

\* Compiled for the key it is found by, and from what the name still means.
Fits(f, key, code) ==
  /\ code.of.fn = f /\ code.of.version = meaning[f] /\ KeyFor(code.of) = key
  /\ \A c \in ClassName :
       IF f \in Generic
       THEN Own(key, c) # {} => \E t \in Own(key, c) : code.layouts[c] = key[t][3]
       ELSE code.layouts[c] \in 1..meaning[c]

\* A function is kept in Python, or its place is taken for what is open.
Filled(f, key) ==
  /\ IsCode(cache[f][key]) => Fits(f, key, cache[f][key])
  /\ cache[f][key] = Python => f \notin prog.strict
  /\ cache[f][key] = Hole =>
       unwound \/ \E i \in DOMAIN open : i > 1 /\ open[i].fn = f /\ open[i].key = key

CacheFits == \A f \in Known : \A key \in Cached(f) : Filled(f, key)

Meanings == meaning \in [Known \cup ClassName -> Nat \ {0}]

\* The key that __call__ makes of the arguments.
KeyOf(f, args, key) ==
  IF f \in Generic THEN key = Mapping(args)
  ELSE \E o \in First(f, args["x"]) : key = OverloadKey(o)

Arguments(f) == IF f \in Generic THEN [prog.typevars[f] -> Values] ELSE [{"x"} -> Values]

AskedFor ==
  asked # <<>> =>
    /\ asked.fn \in Known /\ asked.args \in Arguments(asked.fn)
    /\ ~Idle => open[1].fn = asked.fn /\ KeyOf(asked.fn, asked.args, open[1].key)
    /\ Idle /\ (IsCode(answer) \/ answer \in {Python, Hole}) =>
         \E key \in Cached(asked.fn) :
           KeyOf(asked.fn, asked.args, key) /\ answer = cache[asked.fn][key]

CallInv == Meanings /\ CacheFits /\ AskedFor

LEMMA InitCall == ASSUME ProgramAssumption, Init PROVE CallInv
<1>1. cache = [f \in Known |-> <<>>] /\ asked = <<>>
      /\ meaning = [n \in Known \cup ClassName |-> 1]
  BY DEF Init, Known
<1>2. CacheFits
  BY <1>1 DEF CacheFits, Cached
<1>. QED  BY <1>1, <1>2 DEF CallInv, Meanings, AskedFor

\* What the parts of the invariant depend on.
LEMMA SameFits ==
  ASSUME UNCHANGED <<prog, meaning>>
  PROVE  /\ \A f, key, code : Fits(f, key, code)' <=> Fits(f, key, code)
         /\ \A f, args, key : KeyOf(f, args, key)' <=> KeyOf(f, args, key)
         /\ \A f : Arguments(f)' = Arguments(f)
         /\ Meanings => Meanings'
<1>1. Generic' = Generic /\ Overloaded' = Overloaded /\ Values' = Values /\ Known' = Known
  BY DEF Generic, Overloaded, Values, Known
<1>2. ASSUME NEW f, NEW v PROVE First(f, v)' = First(f, v)
  BY DEF First, Matching
<1>3. ASSUME NEW f, NEW key, NEW code PROVE Fits(f, key, code)' <=> Fits(f, key, code)
  BY <1>1, SameKnown DEF Fits, Own
<1>4. ASSUME NEW f, NEW args, NEW key PROVE KeyOf(f, args, key)' <=> KeyOf(f, args, key)
  BY <1>1, <1>2 DEF KeyOf, Mapping
<1>5. ASSUME NEW f PROVE Arguments(f)' = Arguments(f)
  BY <1>1 DEF Arguments
<1>. QED  BY <1>1, <1>3, <1>4, <1>5 DEF Meanings

\* A call finds what it needs, or opens a specialization.
LEMMA AskFits ==
  ASSUME IInv, CallInv, Idle, NEW f \in Known, NEW key, NEW sig, NEW args \in Arguments(f),
         KeyOf(f, args, key), Ask(f, key, sig, args)
  PROVE  CallInv'
<1>1. /\ UNCHANGED <<prog, meaning, cache, unwound>> /\ open = <<>>
      /\ asked' = [fn |-> f, args |-> args]
  BY DEF Ask, Idle
<1>2. Known' = Known /\ Generic' = Generic
  BY <1>1, SameKnown
<1>3. CacheFits'
  <2>1. ASSUME NEW h \in Known, NEW k \in DOMAIN cache[h] PROVE Filled(h, k)'
    <3>1. Filled(h, k)
      BY <2>1 DEF CallInv, CacheFits, Cached
    <3>2. Fits(h, k, cache[h][k])' <=> Fits(h, k, cache[h][k])
      BY <1>1, SameFits
    <3>3. cache[h][k] = Hole => unwound
      BY <1>1, <3>1 DEF Filled
    <3>. QED  BY <1>1, <3>1, <3>2, <3>3 DEF Filled, IsCode, Python, Hole
  <2>. QED  BY <1>1, <1>2, <2>1 DEF CacheFits, Cached
<1>4. /\ asked'.fn = f /\ asked'.args = args
      /\ asked'.fn \in Known' /\ asked'.args \in Arguments(f)'
      /\ KeyOf(f, args, key)'
  BY <1>1, <1>2, SameFits
<1>5. CASE key \in Cached(f) /\ answer' = cache[f][key] /\ UNCHANGED open
  <2>1. Idle' /\ key \in Cached(f)' /\ answer' = cache'[f][key]
    BY <1>1, <1>5 DEF Idle, Cached
  <2>. QED  BY <1>1, <1>3, <1>4, <2>1, SameFits DEF AskedFor, CallInv
<1>6. CASE answer' = Pending /\ open' = <<Frame(f, key, sig)>>
  <2>1. open'[1] = Frame(f, key, sig) /\ Len(open') = 1
    BY <1>6
  <2>2. ~Idle' /\ open'[1].fn = f /\ open'[1].key = key
    BY <2>1 DEF Frame, Idle
  <2>. QED  BY <1>1, <1>3, <1>4, <2>2, SameFits DEF AskedFor, CallInv
<1>. QED  BY <1>5, <1>6 DEF Ask

LEMMA CallingFits == ASSUME ProgramAssumption, IInv, CallInv, Calling PROVE CallInv'
<1>1. ASSUME NEW f \in Generic, NEW args \in [prog.typevars[f] -> Values], CallGeneric(f, args)
      PROVE  CallInv'
  BY <1>1, AskFits DEF CallGeneric, Arguments, KeyOf, Known
<1>2. ASSUME NEW f \in Overloaded, NEW v \in Values, CallOverloaded(f, v)
      PROVE  CallInv'
  <2>. DEFINE args == [x \in {"x"} |-> v]
  <2>1. PICK o \in First(f, v) : Ask(f, OverloadKey(o), o, args)
    BY <1>2 DEF CallOverloaded
  <2>2. f \in Known /\ f \notin Generic
    BY DEF Known, ProgramAssumption, IInv, Shape, Generic, Overloaded
  <2>3. args \in Arguments(f) /\ KeyOf(f, args, OverloadKey(o))
    BY <2>2 DEF Arguments, KeyOf
  <2>. QED  BY <1>2, <2>1, <2>2, <2>3, AskFits DEF CallOverloaded
<1>3. ASSUME NEW f \in Overloaded, NEW v \in Values, NoMatch(f, v)
      PROVE  CallInv'
  <2>1. UNCHANGED <<prog, meaning, cache, open, unwound>> /\ asked' = <<>>
    BY <1>3 DEF NoMatch
  <2>2. ASSUME NEW h, NEW k PROVE Filled(h, k)' <=> Filled(h, k)
    BY <2>1, SameFits DEF Filled, IsCode, Python, Hole
  <2>. QED  BY <2>1, <2>2, SameFits, SameKnown DEF CallInv, CacheFits, Cached, AskedFor
<1>. QED  BY <1>1, <1>2, <1>3 DEF Calling

\* A place is filled; what the other places wait for is still on its way.
LEMMA PlaceFilled ==
  ASSUME Shape, CacheFits, NEW f \in Known, NEW key, NEW x, cache' = Keep(f, key, x),
         UNCHANGED <<prog, meaning>>, unwound => unwound',
         IsCode(x) => Fits(f, key, x), x = Python => f \notin prog.strict,
         x = Hole => \E i \in DOMAIN open' : i > 1 /\ open'[i].fn = f /\ open'[i].key = key,
         \A i \in DOMAIN open :
           i > 1 => \/ open[i].fn = f /\ open[i].key = key
                    \/ \E j \in DOMAIN open' :
                         j > 1 /\ open'[j].fn = open[i].fn /\ open'[j].key = open[i].key
  PROVE  CacheFits'
<1>1. /\ cache'[f] = With(cache[f], key, x)
      /\ \A h \in Known \ {f} : cache'[h] = cache[h]
  BY KeptIn
<1>2. ASSUME NEW h \in Known, NEW k \in DOMAIN cache'[h] PROVE Filled(h, k)'
  <2>1. \A code : Fits(h, k, code)' <=> Fits(h, k, code)
    BY SameFits
  <2>2. CASE h = f /\ k = key
    <3>1. cache'[h][k] = x
      BY <1>1, <2>2 DEF With
    <3>. QED  BY <2>1, <2>2, <3>1 DEF Filled, IsCode, Python, Hole
  <2>3. CASE h # f \/ k # key
    <3>1. k \in DOMAIN cache[h] /\ cache'[h][k] = cache[h][k]
      BY <1>1, <1>2, <2>3 DEF With
    <3>2. Filled(h, k)
      BY <3>1 DEF CacheFits, Cached
    <3>3. cache[h][k] = Hole =>
            unwound' \/ \E j \in DOMAIN open' : j > 1 /\ open'[j].fn = h /\ open'[j].key = k
      BY <2>3, <3>2 DEF Filled
    <3>. QED  BY <2>1, <3>1, <3>2, <3>3 DEF Filled, IsCode, Python, Hole
  <2>. QED  BY <2>2, <2>3
<1>. QED  BY <1>2, SameKnown DEF CacheFits, Cached

\* What a frame is called by stays when it has made a call.
LEMMA VisitFits == ASSUME ProgramAssumption, IInv, CallInv, Visit PROVE CallInv'
<1>. DEFINE g == Head(Top.todo)
<1>1. /\ ~Idle /\ Top.todo # <<>> /\ UNCHANGED <<prog, meaning, asked, answer, unwound>>
      /\ Shape /\ Meanings /\ CacheFits /\ AskedFor
  BY DEF Visit, IInv, CallInv
<1>2. /\ Len(open) \in Nat \ {0} /\ DOMAIN open = 1..Len(open) /\ g \in Known
  BY <1>1, TopIsFrame DEF Bodies, Known
<1>3. /\ Advanced \in Seq(Frames) /\ Len(Advanced) = Len(open)
      /\ \A i \in 1..Len(open) :
           Advanced[i].fn = open[i].fn /\ Advanced[i].key = open[i].key
  BY <1>1, AdvancedTyped
<1>4. /\ DOMAIN open \subseteq DOMAIN open'
      /\ \A i \in DOMAIN open : open'[i].fn = open[i].fn /\ open'[i].key = open[i].key
  <2>1. CASE open' = Advanced
    BY <1>2, <1>3, <2>1
  <2>2. CASE open' = Append(Advanced, Frame(g, NextCall, NextCall))
    BY <1>2, <1>3, <2>2
  <2>. QED  BY <2>1, <2>2 DEF Visit
<1>5. ~Idle' /\ open'[1].fn = open[1].fn /\ open'[1].key = open[1].key
  <2>1. 1 \in DOMAIN open
    BY <1>2
  <2>. QED  BY <1>4, <2>1 DEF Idle
<1>6. AskedFor'
  <2>1. \A f : Arguments(f)' = Arguments(f)
    BY <1>1, SameFits
  <2>2. \A f, args, key : KeyOf(f, args, key)' <=> KeyOf(f, args, key)
    BY <1>1, SameFits
  <2>. QED  BY <1>1, <1>5, <2>1, <2>2, SameKnown DEF AskedFor
<1>7. CASE UNCHANGED cache
  <2>1. ASSUME NEW h, NEW k, Filled(h, k) PROVE Filled(h, k)'
    <3>1. Fits(h, k, cache[h][k])' <=> Fits(h, k, cache[h][k])
      BY <1>1, <1>7, SameFits
    <3>2. cache[h][k] = Hole =>
            unwound' \/ \E i \in DOMAIN open' : i > 1 /\ open'[i].fn = h /\ open'[i].key = k
      BY <1>1, <1>4, <2>1 DEF Filled
    <3>. QED  BY <1>1, <1>7, <2>1, <3>1, <3>2 DEF Filled, IsCode, Python, Hole
  <2>2. CacheFits'
    BY <1>1, <1>7, <2>1, SameKnown DEF CacheFits, Cached
  <2>. QED  BY <1>1, <1>6, <2>2, SameFits DEF CallInv
<1>8. CASE /\ cache' = Keep(g, NextCall, Hole)
           /\ open' = Append(Advanced, Frame(g, NextCall, NextCall))
  <2>1. \E i \in DOMAIN open' : i > 1 /\ open'[i].fn = g /\ open'[i].key = NextCall
    <3>1. DOMAIN open' = 1..(Len(open) + 1)
          /\ open'[Len(open) + 1] = Frame(g, NextCall, NextCall)
      BY <1>2, <1>3, <1>8
    <3>2. Frame(g, NextCall, NextCall).fn = g /\ Frame(g, NextCall, NextCall).key = NextCall
      BY DEF Frame
    <3>. QED  BY <1>2, <3>1, <3>2
  <2>2. ~IsCode(Hole) /\ Hole # Python
    BY DEF IsCode, Hole, Python
  <2>3. cache' = Keep(g, NextCall, Hole)
    BY <1>8
  <2>4. CacheFits'
    BY <1>1, <1>2, <1>4, <2>1, <2>2, <2>3, PlaceFilled
  <2>. QED  BY <1>1, <1>6, <2>4, SameFits DEF CallInv
<1>. QED  BY <1>7, <1>8 DEF Visit, Placeholder

\* The result takes the place that was held for it.
LEMMA ReturnFits ==
  ASSUME IInv, CallInv, ~Idle, NEW x, Return(x), UNCHANGED <<prog, meaning, asked, unwound>>,
         IsCode(x) => Fits(Top.fn, Top.key, x), x = Python => Top.fn \notin prog.strict,
         x # Hole
  PROVE  CallInv'
<1>1. Shape /\ Meanings /\ CacheFits /\ AskedFor
  BY DEF IInv, CallInv
<1>2. /\ Len(open) \in Nat \ {0} /\ DOMAIN open = 1..Len(open)
      /\ Top = open[Len(open)] /\ Top.fn \in Known
  BY <1>1, TopIsFrame
<1>3. cache' = Keep(Top.fn, Top.key, x)
  BY DEF Return
<1>4. /\ DOMAIN open' = 1..(Len(open) - 1) /\ Len(open') = Len(open) - 1
      /\ \A i \in 1..(Len(open) - 1) : open'[i] = open[i]
  BY <1>2 DEF Return, Front
<1>5. CacheFits'
  <2>1. \A i \in DOMAIN open :
          i > 1 => \/ open[i].fn = Top.fn /\ open[i].key = Top.key
                   \/ \E j \in DOMAIN open' :
                        j > 1 /\ open'[j].fn = open[i].fn /\ open'[j].key = open[i].key
    BY <1>2, <1>4
  <2>. QED  BY <1>1, <1>2, <1>3, <2>1, PlaceFilled
<1>6. ASSUME asked # <<>>
      PROVE  /\ ~Idle' => open'[1].fn = asked.fn /\ KeyOf(asked.fn, asked.args, open'[1].key)
             /\ Idle' => \E key \in DOMAIN cache'[asked.fn] :
                           KeyOf(asked.fn, asked.args, key) /\ answer' = cache'[asked.fn][key]
  <2>1. /\ open[1].fn = asked.fn /\ KeyOf(asked.fn, asked.args, open[1].key)
    BY <1>1, <1>6 DEF AskedFor
  <2>2. CASE Len(open) = 1
    <3>1. Idle' /\ answer' = x
      BY <1>2, <2>2 DEF Return, Idle, Front
    <3>2. Top = open[1]
      BY <1>2, <2>2
    <3>3. cache'[Top.fn] = With(cache[Top.fn], Top.key, x)
      BY <1>1, <1>2, <1>3 DEF Keep, Shape
    <3>4. Top.key \in DOMAIN cache'[Top.fn] /\ cache'[Top.fn][Top.key] = x
      BY <3>3 DEF With
    <3>. QED  BY <2>1, <3>1, <3>2, <3>4
  <2>3. CASE Len(open) # 1
    <3>1. ~Idle' /\ open'[1] = open[1]
      BY <1>2, <1>4, <2>3 DEF Idle
    <3>. QED  BY <2>1, <3>1
  <2>. QED  BY <2>2, <2>3
<1>7. AskedFor'
  <2>1. \A f : Arguments(f)' = Arguments(f)
    BY SameFits
  <2>2. \A f, args, key : KeyOf(f, args, key)' <=> KeyOf(f, args, key)
    BY SameFits
  <2>. QED  BY <1>1, <1>6, <2>1, <2>2, SameKnown DEF AskedFor, Cached
<1>. QED  BY <1>1, <1>5, <1>7, SameFits DEF CallInv

LEMMA UnwindFits ==
  ASSUME IInv, CallInv, ~Idle, NEW e \in {"VerificationError", "PanicException"}, Unwind(e),
         UNCHANGED <<prog, meaning, asked>>
  PROVE  CallInv'
<1>1. Shape /\ Meanings /\ CacheFits
  BY DEF IInv, CallInv
<1>2. /\ open' = <<>> /\ answer' = [is |-> e] /\ UNCHANGED cache
  BY DEF Unwind, Raised
<1>3. (unwound => unwound') /\ (Len(open) > 1 => unwound')
  BY DEF Unwind
<1>4. AskedFor'
  <2>1. ~IsCode(answer') /\ answer' # Python /\ answer' # Hole /\ Idle'
    BY <1>2 DEF IsCode, Python, Hole, Idle
  <2>2. asked # <<>> => asked.fn \in Known' /\ asked.args \in Arguments(asked.fn)
    BY SameKnown DEF CallInv, AskedFor
  <2>3. \A f : Arguments(f)' = Arguments(f)
    BY SameFits
  <2>. QED  BY <2>1, <2>2, <2>3 DEF AskedFor, IsCode
<1>5. CacheFits'
  <2>1. \A i \in DOMAIN open : i > 1 => unwound'
    <3>1. Len(open) \in Nat \ {0} /\ DOMAIN open = 1..Len(open)
      BY <1>1, TopIsFrame
    <3>. QED  BY <1>3, <3>1
  <2>2. ASSUME NEW h, NEW k, Filled(h, k) PROVE Filled(h, k)'
    <3>1. Fits(h, k, cache[h][k])' <=> Fits(h, k, cache[h][k])
      BY <1>2, SameFits
    <3>2. cache[h][k] = Hole => unwound'
      BY <1>3, <2>1, <2>2 DEF Filled
    <3>. QED  BY <1>2, <2>2, <3>1, <3>2 DEF Filled, IsCode, Python, Hole
  <2>. QED  BY <1>1, <1>2, <2>2, SameKnown DEF CacheFits, Cached
<1>. QED  BY <1>1, <1>4, <1>5, SameFits DEF CallInv

LEMMA CompileErrorFits == ASSUME IInv, CallInv, CompileError PROVE CallInv'
<1>1. ~Idle /\ UNCHANGED <<prog, meaning, asked>>
  BY DEF CompileError, Ready
<1>2. CASE Top.fn \in prog.strict /\ Unwind("VerificationError")
  BY <1>1, <1>2, UnwindFits
<1>3. CASE Top.fn \notin prog.strict /\ Return(Python) /\ UNCHANGED unwound
  <2>1. ~IsCode(Python) /\ Python # Hole
    BY DEF IsCode, Python, Hole
  <2>. QED  BY <1>1, <1>3, <2>1, ReturnFits
<1>. QED  BY <1>2, <1>3 DEF CompileError

LEMMA PanicFits == ASSUME IInv, CallInv, Panic PROVE CallInv'
BY UnwindFits DEF Panic, Ready

\* What is compiled now is compiled from what is meant now.
LEMMA CompileFits == ASSUME IInv, CallInv, Compile PROVE CallInv'
<1>1. ~Idle /\ UNCHANGED <<prog, meaning, asked, unwound>> /\ Shape /\ Meanings
  BY DEF Compile, Ready, IInv, CallInv
<1>2. PICK checked \in MayBeChecked, layouts \in Layouts :
        Return([is |-> "code", of |-> This, checked |-> checked, layouts |-> layouts,
                links |-> [g \in Callees |-> Linked(g)]])
  BY DEF Compile
<1>. DEFINE code == [is |-> "code", of |-> This, checked |-> checked, layouts |-> layouts,
                     links |-> [g \in Callees |-> Linked(g)]]
<1>3. Fits(Top.fn, Top.key, code)
  <2>1. code.of = This /\ code.layouts = layouts /\ Top.key = KeyFor(Top)
    BY <1>1, TopIsFrame
  <2>2. This.fn = Top.fn /\ This.version = meaning[Top.fn] /\ KeyFor(This) = Top.key
    BY <2>1 DEF This, KeyFor
  <2>3. ASSUME NEW c \in ClassName
        PROVE  IF Top.fn \in Generic
               THEN Own(Top.key, c) # {} => \E t \in Own(Top.key, c) : layouts[c] = Top.key[t][3]
               ELSE layouts[c] \in 1..meaning[c]
    <3>1. meaning[c] \in Nat \ {0}
      BY <1>1 DEF Meanings
    <3>. QED  BY <1>2, <3>1 DEF Layouts, Own
  <2>. QED  BY <2>1, <2>2, <2>3 DEF Fits
<1>4. IsCode(code) /\ code # Python /\ code # Hole
  BY DEF IsCode, Python, Hole
<1>. QED  BY <1>1, <1>2, <1>3, <1>4, ReturnFits

\* A function that is defined again begins with an empty cache; a class is
\* another one from now on.
LEMMA RedefineFits == ASSUME IInv, CallInv, NEW n, Redefine(n) PROVE CallInv'
<1>1. /\ UNCHANGED <<prog, open, unwound>> /\ asked' = <<>>
      /\ meaning' = [meaning EXCEPT ![n] = @ + 1]
      /\ Shape /\ Meanings /\ CacheFits
  BY DEF Redefine, IInv, CallInv
<1>2. Meanings'
  <2>. DEFINE names == Known \cup ClassName
  <2>1. meaning \in [names -> Nat \ {0}] /\ names' = names
    BY <1>1, SameKnown DEF Meanings
  <2>2. meaning' \in [names -> Nat \ {0}]
    <3>. HIDE DEF names
    <3>1. CASE n \in names
      <4>1. meaning[n] \in Nat \ {0} /\ meaning[n] + 1 \in Nat \ {0}
        BY <2>1, <3>1
      <4>. QED  BY <1>1, <2>1, <4>1
    <3>2. CASE n \notin names
      <4>1. meaning' = meaning
        BY <1>1, <2>1, <3>2
      <4>. QED  BY <2>1, <4>1
    <3>. QED  BY <3>1, <3>2
  <2>. QED  BY <2>1, <2>2 DEF Meanings
<1>3. \A c \in ClassName : meaning[c] \in Nat /\ meaning'[c] \in Nat /\ meaning[c] <= meaning'[c]
  BY <1>1 DEF Meanings
<1>4. ASSUME NEW f \in Known, NEW k \in DOMAIN cache'[f]
      PROVE  k \in DOMAIN cache[f] /\ cache'[f][k] = cache[f][k] /\ meaning'[f] = meaning[f]
  <2>1. CASE n \in DOMAIN cache
    <3>1. cache' = [cache EXCEPT ![n] = <<>>]
      BY <2>1 DEF Redefine
    <3>2. f # n
      BY <1>1, <1>4, <3>1 DEF Shape
    <3>. QED  BY <1>1, <1>4, <3>1, <3>2 DEF Shape, Meanings
  <2>2. CASE n \notin DOMAIN cache
    <3>1. cache' = cache /\ f # n
      BY <1>1, <2>2 DEF Redefine, Shape
    <3>. QED  BY <1>1, <1>4, <3>1 DEF Meanings
  <2>. QED  BY <2>1, <2>2
<1>5. ASSUME NEW f \in Known, NEW k \in DOMAIN cache'[f] PROVE Filled(f, k)'
  <2>1. /\ Filled(f, k) /\ cache'[f][k] = cache[f][k] /\ meaning'[f] = meaning[f]
    BY <1>1, <1>4, <1>5 DEF CacheFits, Cached
  <2>2. Fits(f, k, cache[f][k]) => Fits(f, k, cache[f][k])'
    <3>1. Generic' = Generic /\ \A c : KeyFor(c)' = KeyFor(c)
      BY <1>1, SameKnown
    <3>. QED  BY <1>3, <2>1, <3>1 DEF Fits, Own
  <2>. QED  BY <1>1, <2>1, <2>2 DEF Filled, IsCode, Python, Hole
<1>6. CacheFits'
  BY <1>1, <1>5, SameKnown DEF CacheFits, Cached
<1>. QED  BY <1>1, <1>2, <1>6 DEF CallInv, AskedFor

LEMMA CallInductive ==
  ASSUME ProgramAssumption, IInv, CallInv, [Next]_vars PROVE CallInv'
<1>1. CASE Calling
  BY <1>1, CallingFits
<1>2. CASE Visit
  BY <1>2, VisitFits
<1>3. CASE Compile
  BY <1>3, CompileFits
<1>4. CASE CompileError
  BY <1>4, CompileErrorFits
<1>5. CASE Panic
  BY <1>5, PanicFits
<1>6. ASSUME NEW n \in prog.again, Redefine(n) PROVE CallInv'
  BY <1>6, RedefineFits
<1>7. CASE UNCHANGED vars
  <2>1. UNCHANGED <<prog, meaning, cache, open, asked, answer, unwound>>
    BY <1>7 DEF vars
  <2>2. ASSUME NEW f, NEW k PROVE Filled(f, k)' <=> Filled(f, k)
    BY <2>1, SameFits DEF Filled, IsCode, Python, Hole
  <2>3. CacheFits'
    BY <2>1, <2>2, SameKnown DEF CallInv, CacheFits, Cached
  <2>4. AskedFor'
    <3>1. \A f : Arguments(f)' = Arguments(f)
      BY <2>1, SameFits
    <3>2. \A f, args, key : KeyOf(f, args, key)' <=> KeyOf(f, args, key)
      BY <2>1, SameFits
    <3>. QED  BY <2>1, <3>1, <3>2, SameKnown DEF CallInv, AskedFor, Idle, IsCode, Cached, Python, Hole
  <2>. QED  BY <2>1, <2>3, <2>4, SameFits DEF CallInv
<1>. QED  BY <1>1, <1>2, <1>3, <1>4, <1>5, <1>6, <1>7 DEF Next

\* The code that answers is the one for the key of the arguments.
LEMMA CallHolds == ASSUME ProgramAssumption, IInv, CallInv PROVE RunsWhatIsAskedFor
<1>. SUFFICES ASSUME Idle, asked # <<>>
              PROVE  LET f == asked.fn  args == asked.args
                     IN /\ IsCode(answer) =>
                             /\ answer.of.fn = f /\ answer.of.version = meaning[f]
                             /\ f \in Generic => answer.of.sig = Mapping(args)
                             /\ f \in Overloaded =>
                                     \E o \in First(f, args["x"]) : ShownAlike(answer.of.sig, o)
                             /\ \A t \in DOMAIN args :
                                  \/ Kind(args[t]) # "object"
                                  \/ SawOther(f, args, t)
                                  \/ answer.layouts[args[t][2]] = args[t][3]
                        /\ answer = Python => f \notin prog.strict
                        /\ answer = Hole => unwound
  BY DEF RunsWhatIsAskedFor
<1>. DEFINE f == asked.fn
            args == asked.args
<1>1. /\ f \in Known /\ args \in Arguments(f)
      /\ IsCode(answer) \/ answer \in {Python, Hole} =>
           \E key \in Cached(f) : KeyOf(f, args, key) /\ answer = cache[f][key]
  BY DEF CallInv, AskedFor
<1>2. ASSUME NEW key \in Cached(f), KeyOf(f, args, key), answer = cache[f][key]
      PROVE  /\ IsCode(answer) => Fits(f, key, answer)
             /\ answer = Python => f \notin prog.strict
             /\ answer = Hole => unwound
  <2>1. Filled(f, key) /\ open = <<>>
    BY <1>1 DEF CallInv, CacheFits, Idle
  <2>. QED  BY <1>2, <2>1 DEF Filled
<1>3. f \in Generic => f \notin Overloaded
  BY DEF ProgramAssumption, IInv, Shape, Generic, Overloaded
<1>4. ASSUME NEW key, KeyOf(f, args, key), Fits(f, key, answer),
             NEW t \in DOMAIN args, Kind(args[t]) = "object", ~SawOther(f, args, t)
      PROVE  answer.layouts[args[t][2]] = args[t][3]
  <2>. DEFINE c == args[t][2]
  <2>1. \A u \in DOMAIN args : args[u] \in Values
    BY <1>1 DEF Arguments
  <2>2. args[t] \in Value /\ c \in ClassName /\ args[t][3] \in Int
        /\ 1 <= args[t][3] /\ args[t][3] <= meaning[c]
    <3>1. args[t] \in Value /\ args[t][3] <= meaning[c]
      BY <1>4, <2>1 DEF Values, ProgramAssumption, IInv, Shape
    <3>2. args[t] \in {"object"} \X ClassName \X (1..MaxVersion)
      BY <1>4, <3>1 DEF Value, Kind
    <3>. QED  BY <3>1, <3>2
  <2>3. CASE f \in Generic
    <3>1. key = Mapping(args)
      BY <1>4, <2>3 DEF KeyOf
    <3>2. DOMAIN key = DOMAIN args /\ \A u \in DOMAIN args : key[u] = Matched(args[u])
      BY <3>1 DEF Mapping
    <3>3. ASSUME NEW u \in Own(key, c) PROVE key[u][3] = args[t][3]
      <4>1. u \in DOMAIN args /\ key[u] = Matched(args[u]) /\ Kind(key[u]) = "class" /\ key[u][2] = c
        BY <3>2, <3>3 DEF Own
      <4>2. args[u] \in Value
        BY <2>1, <4>1 DEF Values, ProgramAssumption, IInv, Shape
      <4>3. Kind(args[u]) = "object" /\ args[u][2] = c /\ key[u][3] = args[u][3]
        BY <4>1, <4>2 DEF Matched, Value, Kind
      <4>. QED  BY <1>4, <4>1, <4>3 DEF SawOther
    <3>4. t \in Own(key, c)
      <4>1. key[t] = <<"class", c, args[t][3]>>
        BY <1>4, <3>2 DEF Matched
      <4>. QED  BY <1>4, <3>2, <4>1 DEF Own, Kind
    <3>. QED  BY <1>4, <2>2, <2>3, <3>3, <3>4 DEF Fits
  <2>4. CASE f \notin Generic
    <3>1. f \in Overloaded
      BY <1>1, <2>4 DEF Known
    <3>2. meaning[c] \in Nat \ {0} /\ ~(meaning[c] > 1)
      BY <1>4, <2>2, <3>1 DEF SawOther, CallInv, Meanings
    <3>3. answer.layouts[c] \in 1..meaning[c]
      BY <1>4, <2>2, <2>4 DEF Fits
    <3>. QED  BY <2>2, <3>2, <3>3
  <2>. QED  BY <2>3, <2>4
<1>5. ASSUME IsCode(answer)
      PROVE  /\ answer.of.fn = f /\ answer.of.version = meaning[f]
             /\ f \in Generic => answer.of.sig = Mapping(args)
             /\ f \in Overloaded =>
                     \E o \in First(f, args["x"]) : ShownAlike(answer.of.sig, o)
             /\ \A t \in DOMAIN args :
                  \/ Kind(args[t]) # "object"
                  \/ SawOther(f, args, t)
                  \/ answer.layouts[args[t][2]] = args[t][3]
  <2>1. PICK key \in Cached(f) : KeyOf(f, args, key) /\ answer = cache[f][key]
    BY <1>1, <1>5
  <2>2. Fits(f, key, answer)
    BY <1>2, <1>5, <2>1
  <2>3. f \in Generic => answer.of.sig = Mapping(args)
    BY <2>1, <2>2 DEF KeyOf, Fits, KeyFor
  <2>4. f \in Overloaded =>
             \E o \in First(f, args["x"]) : ShownAlike(answer.of.sig, o)
    BY <1>3, <2>1, <2>2 DEF KeyOf, Fits, KeyFor, OverloadKey, ShownAlike
  <2>5. answer.of.fn = f /\ answer.of.version = meaning[f]
    BY <2>2 DEF Fits
  <2>. QED  BY <1>4, <2>1, <2>2, <2>3, <2>4, <2>5
<1>. QED  BY <1>1, <1>2, <1>5

(* Whatever is called, defined again and whatever fails in between, a call *)
(* runs the code that was made for its arguments from what the names mean  *)
(* (of overloads, for one that shows the predicate it should have), Python *)
(* only where strict mode allows it, and None only after a failure within  *)
(* another specialization.                                                 *)
THEOREM CallsRunTheirOwn == Spec => []RunsWhatIsAskedFor
<1>1. Init => CallInv
  BY InitCall, ProgramAssumption
<1>2. IInv /\ CallInv /\ [Next]_vars => CallInv'
  BY CallInductive, ProgramAssumption
<1>3. IInv /\ CallInv => RunsWhatIsAskedFor
  BY CallHolds, ProgramAssumption
<1>. QED  BY <1>1, <1>2, <1>3, InductiveInvariant, PTL DEF Spec
=============================================================================
