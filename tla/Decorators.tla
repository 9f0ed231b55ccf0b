----------------------------- MODULE Decorators -----------------------------
(***************************************************************************)
(* The functions that @verify makes of generic and of overloaded ones.     *)
(* Both compile when they are called, once for each key, under a name that *)
(* spells the key; before a generic function is compiled for some types,   *)
(* the generic functions it calls are.  What is compiled is registered     *)
(* under its name, by which others are linked to it, and the verifier      *)
(* keeps what it knows of a function under that name.                      *)
(*                                                                         *)
(* One thread calls.  The bridge is its outcome: a pointer, an error, or a *)
(* panic when a callee is not registered.                                  *)
(***************************************************************************)
EXTENDS Integers, FiniteSets, SequencesExt

CONSTANTS
  Programs,   \* records [typevars, calls, overloads, strict, values, again]
  ClassName,  \* names of classes
  PartsOf,    \* the names of functions, classes and types, as the parts that
              \* are left of them between underscores
  InOrder,    \* the names of type variables, sorted
  MaxVersion  \* how often a name is defined

VARIABLES
  prog,      \* the functions, the values they are called with, and the
             \* names that are defined again
  meaning,   \* the version of the function or class that a name means now
  cache,     \* MonomorphizedFunction.cache, OverloadedFunction.cache
  registry,  \* GLOBAL_REGISTRY: names to the functions behind them
  memo,      \* the thread-local caches of the verifier, taken as one: none, or
             \* what belongs to one name
  open,      \* calls of _specialize, the innermost one last
  asked,     \* the call that is on its way, or was last
  answer,    \* what it came to
  unwound    \* history: an exception left a _specialize within another one

vars == <<prog, meaning, cache, registry, memo, open, asked, answer, unwound>>

(* What functions are called with, and what type variables stand for.      *)
Value ==
  ({"int"} \X Int) \cup {<<"float">>} \cup ({"shape"} \X Seq(Nat))
    \cup ({"object"} \X ClassName \X (1..MaxVersion))
TypeArg ==
  ({"int"} \X Int) \cup {<<"type", "f64">>} \cup ({"shape"} \X Seq(Nat))
    \cup ({"class"} \X ClassName \X (1..MaxVersion))
Kind(v) == v[1]

(* An overload has a type and a predicate for its parameter, and shows the *)
(* first predicate on the line where its own is written.                   *)
Predicate == [op : STRING, n : Int]
Overload == [type : STRING, pred : Predicate, text : Predicate, returns : STRING]
NoPred == [op |-> "", n |-> 0]
NoText == [op |-> "None", n |-> 0]    \* the source is not found

ASSUME ProgramAssumption ==
  \A p \in Programs :
    /\ p.calls \in [DOMAIN p.calls -> Seq(DOMAIN p.calls)]
    /\ \A f \in DOMAIN p.calls : p.typevars[f] \subseteq Range(InOrder)
    /\ p.overloads \in [DOMAIN p.overloads -> Seq(Overload)]
    /\ \A f \in DOMAIN p.overloads : \A i \in DOMAIN p.overloads[f] :
         p.overloads[f][i].pred = NoPred <=> p.overloads[f][i].text = NoPred
    /\ DOMAIN p.calls \cap DOMAIN p.overloads = {}
    /\ p.values \subseteq Value

(* What is called, or kept in a cache, besides compiled code.              *)
Pending == [is |-> "pending"]
Hole == [is |-> "None"]
Python == [is |-> "self.func"]
Raised(e) == [is |-> e]

Generic == DOMAIN prog.calls
Overloaded == DOMAIN prog.overloads
Cached(f) == DOMAIN cache[f]
With(f, x, y) == [z \in DOMAIN f \cup {x} |-> IF z = x THEN y ELSE f[z]]
Keep(f, key, x) == [cache EXCEPT ![f] = With(@, key, x)]
-----------------------------------------------------------------------------
(* Generic functions.  A type variable stands for a number or a shape      *)
(* itself, for the class of an object, or for the type of a scalar.        *)
Matched(v) ==
  CASE Kind(v) = "object" -> <<"class", v[2], v[3]>>
    [] Kind(v) = "float" -> <<"type", "f64">>
    [] OTHER -> v

Mapping(args) == [t \in DOMAIN args |-> Matched(args[t])]

(* The types a callee is specialized for: those of the variables whose     *)
(* names are also the callee's.                                            *)
CallMapping(key, g) == [t \in DOMAIN key \cap prog.typevars[g] |-> key[t]]

(* Overloaded functions: an overload is a type and a predicate, and the    *)
(* first one that admits the argument is taken.                            *)
Satisfies(v, p) ==
  \/ p = NoPred
  \/ p.op = "NameError"
  \/ p.op = ">" /\ v[2] > p.n
  \/ p.op = "<=" /\ v[2] <= p.n

TypeNames(v) ==
  CASE Kind(v) = "int" -> {"i32", "i64"}
    [] Kind(v) = "float" -> {"f32", "f64"}
    [] Kind(v) = "object" -> {v[2]}
    [] OTHER -> {"unknown"}

Admits(o, v) == o.type \in TypeNames(v) /\ Satisfies(v, o.pred)
Matching(f, v) == {i \in DOMAIN prog.overloads[f] : Admits(prog.overloads[f][i], v)}
First(f, v) ==
  {prog.overloads[f][i] : i \in {k \in Matching(f, v) : \A j \in Matching(f, v) : k <= j}}

OverloadKey_Type(o) ==                                           \* mutant
  [type |-> o.type, text |-> NoPred, returns |-> o.returns]
OverloadKey(o) == [type |-> o.type, text |-> o.text, returns |-> o.returns]

(* Names.  Characters other than letters and digits become underscores,    *)
(* and these are merged and stripped: a name is a sequence of parts, each  *)
(* of them letters with a number behind them.                              *)
Letters(w) == <<w, -1>>
Number(n) == <<"", IF n < 0 THEN -n ELSE n>>

Shown(p) ==
  IF p.op = "None" THEN <<Letters("None")>>
  ELSE <<Letters("lambda"), Letters("x"), Letters("x"),
         IF p.op = "NameError" THEN Letters("LIMIT") ELSE Number(p.n)>>

Word_Kind(x) == <<Letters(Kind(x))>>                             \* mutant
Word(x) ==
  CASE Kind(x) = "shape" -> <<<<"rank", Len(x[2])>>>>
    [] Kind(x) \in {"class", "type"} -> PartsOf[x[2]]
    [] Kind(x) = "int" -> <<Number(x[2])>>
    [] Kind(x) = "refined" -> <<Letters("Refined")>>
    [] Kind(x) = "text" -> Shown(x[2])
    [] OTHER -> <<>>

(* What follows the function's name: what its type variables stand for, in *)
(* the order of their names, or the overload's type as _get_type_name      *)
(* writes it.                                                              *)
Absent == <<"absent">>
Spelled(f, key) ==
  IF f \in Generic
  THEN [i \in DOMAIN InOrder |-> IF InOrder[i] \in DOMAIN key THEN key[InOrder[i]] ELSE Absent]
  ELSE IF key.text = NoPred THEN <<<<"type", key.type>>>>
  ELSE <<<<"refined">>, <<"type", key.type>>, <<"text", key.text>>>>

Words(f, key) == [i \in DOMAIN Spelled(f, key) |-> Word(Spelled(f, key)[i])]
NameOf(f, key) == FlattenSeq(<<PartsOf[f]>> \o Words(f, key))
-----------------------------------------------------------------------------
Init ==
  /\ prog \in Programs
  /\ meaning = [n \in Generic \cup Overloaded \cup ClassName |-> 1]
  /\ cache = [f \in Generic \cup Overloaded |-> <<>>]
  /\ registry = <<>>
  /\ memo = <<>>
  /\ open = <<>>
  /\ asked = <<>> /\ answer = Pending
  /\ unwound = FALSE

Idle == open = <<>>
Top == Last(open)

Frame(f, key, sig) ==
  [fn |-> f, key |-> key, sig |-> sig,
   todo |-> IF f \in Generic THEN prog.calls[f] ELSE <<>>]

(* __call__: what is in the cache, or _specialize.                         *)
Ask(f, key, sig, args) ==
  /\ asked' = [fn |-> f, args |-> args]
  /\ IF key \in Cached(f)
     THEN answer' = cache[f][key] /\ UNCHANGED open
     ELSE answer' = Pending /\ open' = <<Frame(f, key, sig)>>
  /\ UNCHANGED <<prog, meaning, cache, registry, memo, unwound>>

CallGeneric(f, args) == Idle /\ Ask(f, Mapping(args), Mapping(args), args)

CallOverloaded(f, v) ==
  /\ Idle
  /\ \E o \in First(f, v) : Ask(f, OverloadKey(o), o, [x \in {"x"} |-> v])

NoMatch(f, v) ==
  /\ Idle
  /\ Matching(f, v) = {}
  /\ asked' = <<>> /\ answer' = Raised("TypeError")
  /\ UNCHANGED <<prog, meaning, cache, registry, memo, open, unwound>>

(* EllipsisExpander.visit_Call: the next call in the body gets the name of *)
(* the callee's specialization, and this is made if there is none.  The    *)
(* place it will have in the cache is taken at once, for a callee may call *)
(* what is on its way.                                                     *)
NextCall == CallMapping(Top.key, Head(Top.todo))
Advanced == [open EXCEPT ![Len(open)].todo = Tail(@)]

Placeholder_None(g, key) == cache                                \* mutant
Placeholder(g, key) == Keep(g, key, Hole)

Visit ==
  /\ ~Idle /\ Top.todo # <<>>
  /\ LET g == Head(Top.todo)
     IN IF DOMAIN NextCall = {} \/ NextCall \in Cached(g)
        THEN open' = Advanced /\ UNCHANGED cache
        ELSE /\ cache' = Placeholder(g, NextCall)
             /\ open' = Append(Advanced, Frame(g, NextCall, NextCall))
  /\ UNCHANGED <<prog, meaning, registry, memo, asked, answer, unwound>>

Ready == ~Idle /\ Top.todo = <<>>
This == [fn |-> Top.fn, version |-> meaning[Top.fn], sig |-> Top.sig]
MyName == NameOf(Top.fn, Top.key)

Callees == IF Top.fn \in Generic THEN Range(prog.calls[Top.fn]) ELSE {}
CalleeName(g) == NameOf(g, CallMapping(Top.key, g))

(* The verifier remembers edges and instructions under the function's      *)
(* name, and asks for them in some functions only.                         *)
MemoHit_Function == memo # <<>> /\ memo[1].of.fn = Top.fn        \* mutant
MemoHit == memo # <<>> /\ memo[1].name = MyName
Verified(checked) ==
  \/ /\ memo' = IF MemoHit THEN memo ELSE <<[name |-> MyName, of |-> This]>>
     /\ checked = memo'[1].of
  \/ /\ UNCHANGED memo
     /\ checked = This

MayBeChecked == {This} \cup (IF MemoHit THEN {memo[1].of} ELSE {})

(* The layouts that _discover_types finds: what the names of classes mean  *)
(* now, but for the classes that type variables stand for (of two of one   *)
(* name the last parameter's; which one that is is left open).             *)
Layouts ==
  LET own(c) ==
        IF Top.fn \in Generic
        THEN {t \in DOMAIN Top.key : Kind(Top.key[t]) = "class" /\ Top.key[t][2] = c}
        ELSE {}
  IN {l \in [ClassName -> 1..MaxVersion] :
        \A c \in ClassName :
          IF own(c) = {} THEN l[c] = meaning[c]
          ELSE \E t \in own(c) : l[c] = Top.key[t][3]}

Return(x) ==
  /\ cache' = Keep(Top.fn, Top.key, x)
  /\ open' = Front(open)
  /\ answer' = IF Len(open) = 1 THEN x ELSE Pending

(* An exception that nothing catches on the way: _specialize expands its   *)
(* calls before its try.                                                   *)
Unwind(e) ==
  /\ open' = <<>>
  /\ answer' = Raised(e)
  /\ unwound' = (unwound \/ Len(open) > 1)
  /\ UNCHANGED cache

(* verify_and_compile gives a pointer: calls are linked by name.           *)
Linkable == \A g \in Callees : CalleeName(g) \in DOMAIN registry \cup {MyName}

Linked(g) == IF CalleeName(g) = MyName THEN This ELSE registry[CalleeName(g)]

Compile ==
  /\ Ready /\ Linkable
  /\ \E checked \in MayBeChecked, layouts \in Layouts :
       /\ Verified(checked)
       /\ Return([is |-> "code", of |-> This, checked |-> checked, layouts |-> layouts,
                  links |-> [g \in Callees |-> Linked(g)]])
  /\ registry' = With(registry, MyName, This)
  /\ UNCHANGED <<prog, meaning, asked, unwound>>

(* The bridge raises: the error is VerificationError, or the function is   *)
(* kept as it is in Python.                                                *)
CompileError ==
  /\ Ready
  /\ \E checked \in MayBeChecked : Verified(checked)
  /\ IF Top.fn \in prog.strict THEN Unwind("VerificationError")
     ELSE Return(Python) /\ UNCHANGED unwound
  /\ UNCHANGED <<prog, meaning, registry, asked>>

(* A callee that is not registered: a panic, which no except clause of     *)
(* _specialize catches.                                                    *)
Panic ==
  /\ Ready /\ ~Linkable
  /\ \E checked \in MayBeChecked : Verified(checked)
  /\ Unwind("PanicException")
  /\ UNCHANGED <<prog, meaning, registry, asked>>

(* A def or class statement is run again.  Objects of the old class live   *)
(* on; the new function has an empty cache.                                *)
Redefine(n) ==
  /\ Idle
  /\ meaning[n] < MaxVersion
  /\ meaning' = [meaning EXCEPT ![n] = @ + 1]
  /\ cache' = IF n \in DOMAIN cache THEN [cache EXCEPT ![n] = <<>>] ELSE cache
  /\ asked' = <<>> /\ answer' = Pending
  /\ UNCHANGED <<prog, registry, memo, open, unwound>>

Values == {v \in prog.values : Kind(v) = "object" => v[3] <= meaning[v[2]]}

Calling ==
  \/ \E f \in Generic : \E args \in [prog.typevars[f] -> Values] : CallGeneric(f, args)
  \/ \E f \in Overloaded, v \in Values : CallOverloaded(f, v) \/ NoMatch(f, v)

Next ==
  \/ Calling
  \/ Visit \/ Compile \/ CompileError \/ Panic
  \/ \E n \in prog.again : Redefine(n)

Spec == Init /\ [][Next]_vars
-----------------------------------------------------------------------------
(* Which specializations share a name.  Word by word, those that differ in *)
(* underscores, in the sign of a number, in the dimensions of a shape, in  *)
(* the class that a name meant, in the operator of a predicate, or in the  *)
(* definition of the function, and those where a class is called as        *)
(* something of another kind is written.                                   *)
SameText(p, q) ==
  \/ p.op = q.op /\ p.op \in {"None", "NameError"}
  \/ {p.op, q.op} \cap {"None", "NameError"} = {} /\ (p.n = q.n \/ p.n = -q.n)

Alike(x, y) ==
  \/ x = y
  \/ Kind(x) # Kind(y) /\ Word(x) = Word(y)
  \/ /\ Kind(x) = Kind(y)
     /\ \/ Kind(x) = "int" /\ x[2] = -y[2]
        \/ Kind(x) = "shape" /\ Len(x[2]) = Len(y[2])
        \/ Kind(x) \in {"class", "type"} /\ PartsOf[x[2]] = PartsOf[y[2]]
        \/ Kind(x) = "text" /\ SameText(x[2], y[2])

KeyFor(c) == IF c.fn \in Generic THEN c.sig ELSE OverloadKey(c.sig)
Divided(c) == <<PartsOf[c.fn], Words(c.fn, KeyFor(c))>>

SameWords(c, d) ==
  LET x == Spelled(c.fn, KeyFor(c))  y == Spelled(d.fn, KeyFor(d))
  IN /\ PartsOf[c.fn] = PartsOf[d.fn]
     /\ DOMAIN x = DOMAIN y
     /\ \A i \in DOMAIN x : Alike(x[i], y[i])

(* And those whose parts are divided otherwise into the name of a function *)
(* and words, as are add_f64 for an f64 and add for two.                   *)
Namesakes(c, d) ==
  \/ SameWords(c, d)
  \/ Divided(c) # Divided(d) /\ NameOf(c.fn, KeyFor(c)) = NameOf(d.fn, KeyFor(d))

IsCode(x) == x.is = "code"
Compiled == {c \in UNION {Range(cache[f]) : f \in DOMAIN cache} : IsCode(c)}

(* A call runs the function it was made for: the current definition, for   *)
(* its types and its numbers, the first overload that admits the argument, *)
(* with the layouts of its objects (decorators.py: __call__ looks up a key *)
(* made of the arguments, and specializes for the arguments).  It falls    *)
(* back to Python only if the function is not strict, and calls None only  *)
(* if an exception has left a specialization within another one.  What is  *)
(* excepted are objects of two classes of one name in a call, and objects  *)
(* of a class that was defined again in a call of an overloaded function,  *)
(* which goes by the names of classes.  Overloads of one type that show    *)
(* the same predicate, as those written on one line do, are one function.  *)
SawOther(f, args, t) ==
  \/ f \in Overloaded /\ meaning[args[t][2]] > 1
  \/ \E u \in DOMAIN args : Kind(args[u]) = "object" /\ args[u][2] = args[t][2]
                              /\ args[u][3] # args[t][3]

ShownAlike(o, p) == o.type = p.type /\ o.text = p.text /\ o.returns = p.returns

RunsWhatIsAskedFor ==
  Idle /\ asked # <<>> =>
    LET f == asked.fn  args == asked.args
    IN /\ IsCode(answer) =>
            /\ answer.of.fn = f /\ answer.of.version = meaning[f]
            /\ f \in Generic => answer.of.sig = Mapping(args)
            /\ f \in Overloaded =>
                 \E o \in First(f, args["x"]) : ShownAlike(answer.of.sig, o)
            /\ \A t \in DOMAIN args :
                 \/ Kind(args[t]) # "object"
                 \/ SawOther(f, args, t)
                 \/ answer.layouts[args[t][2]] = args[t][3]
       /\ answer = Python => f \notin prog.strict
       /\ answer = Hole => unwound

(* Compiled code calls the specializations it was made to call, or         *)
(* namesakes of them (ast_transformers.py:153 puts a name where the call   *)
(* was, "to avoid collisions", and the bridge links by name).              *)
LinkedToItsOwn ==
  \A c \in Compiled : \A g \in DOMAIN c.links :
    Namesakes(c.links[g],
              [fn |-> g, sig |-> [t \in DOMAIN c.of.sig \cap prog.typevars[g] |-> c.of.sig[t]]])

(* What the verifier knew of a function when it accepted it was of this    *)
(* function, or of a namesake (control_flow.rs:342, :570: caches that are  *)
(* cleared when the name is another one).                                  *)
VerifiedAsItself == \A c \in Compiled : Namesakes(c.checked, c.of)

(* The specialization of functions that call each other, or themselves,    *)
(* comes to an end: what is on its way is begun a second time only because *)
(* __call__, unlike visit_Call, leaves no mark of the first.               *)
RecursionIsCut ==
  \A i, j \in DOMAIN open :
    i < j /\ open[i].fn = open[j].fn /\ open[i].key = open[j].key => i = 1
=============================================================================
