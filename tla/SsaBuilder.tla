------------------------------ MODULE SsaBuilder ------------------------------
(***************************************************************************)
(* CFGBuilder: control flow and SSA construction, by visitors that thread  *)
(* the builder through; an error stops the build where it happens.         *)
(* pick resolves HashMap order, see FirstDef.                              *)
(* A visitor of an expression returns the builder b and the value v.       *)
(***************************************************************************)
EXTENDS PyLang, SsaBlocks
-----------------------------------------------------------------------------
WriteVar(b, x, k, v) == [b EXCEPT !.defs[x] = (k :> v) @@ @]

(* defs.values().next(): some block's definition, whichever the HashMap    *)
(* yields first; pick tries both ends.                                     *)
FirstDef(b, x) ==
  LET ks == DOMAIN b.defs[x]
      first == CHOOSE k \in ks : \A j \in ks : IF b.pick = "low" THEN k <= j ELSE k >= j
  IN IF ks = {} THEN Unknown ELSE b.types[b.defs[x][first]]

RECURSIVE ReadVar(_, _, _), ReadVarRecursive(_, _, _), AddPhiOperands(_, _, _, _)

ReadVar(b, x, k) ==
  IF k \in DOMAIN b.defs[x] THEN [b |-> b, v |-> b.defs[x][k]]
  ELSE ReadVarRecursive(b, x, k)

Remember(read, x, k) == [read EXCEPT !.b = WriteVar(@, x, k, read.v)]

(* read_variable_recursive: a block whose predecessors are not all known   *)
(* gets a phi that seal_block completes; one predecessor is asked; several *)
(* get a phi, which is the definition while they are asked (loops).        *)
ReadVarRecursive(b, x, k) ==
  LET preds == b.blocks[k].preds
      v == NextValue(b)
      phi(ty) == WriteVar(EmitPhi(NewValue(b, ty), k, v), x, k, v)
  IN CASE k \notin b.sealed ->
            [b |-> [phi(FirstDef(b, x)) EXCEPT !.incomplete = @ \cup {<<k, x, v>>}], v |-> v]
       [] k \in b.sealed /\ preds = <<>> -> [b |-> Fail(b, "UnboundVariable"), v |-> 1]
       [] k \in b.sealed /\ Len(preds) = 1 -> Remember(ReadVar(b, x, preds[1]), x, k)
       [] OTHER -> [b |-> AddPhiOperands(phi(Unknown), x, v, k), v |-> v]

(* One operand per predecessor; the phi takes the type of the first        *)
(* operand that has one.                                                   *)
Operand(a, p, read) ==
  [b |-> read.b, args |-> (p :> read.v) @@ a.args,
   ty |-> IF a.ty = Unknown THEN read.b.types[read.v] ELSE a.ty]

Complete(a, v, k) ==
  LET at == CHOOSE i \in DOMAIN a.b.blocks[k].insts :
              LET inst == a.b.blocks[k].insts[i] IN inst.op = "phi" /\ inst.dest = v
  IN [a.b EXCEPT !.blocks[k].insts[at].args = a.args,
                 !.types[v] = IF a.ty = Unknown THEN @ ELSE a.ty]

AddPhiOperands(b, x, v, k) ==
  Complete(FoldLeft(LAMBDA a, p : Operand(a, p, ReadVar(a.b, x, p)),
                    [b |-> b, args |-> <<>>, ty |-> Unknown], b.blocks[k].preds),
           v, k)

Seal(b, k) ==
  LET phis == {i \in b.incomplete : i[1] = k}
  IN FoldLeft(LAMBDA a, i : AddPhiOperands(a, i[2], i[3], k),
              [b EXCEPT !.sealed = @ \cup {k}, !.incomplete = @ \ phis],
              SetToSeq(phis))

(* A block whose predecessors are all known, from here on the current one. *)
SealAndStart(b, k) == StartBlock(Seal(b, k), k)
-----------------------------------------------------------------------------
(* get_constant_int: the integers v is known to be (one, or none).         *)
RECURSIVE ConstOf(_, _)
ConstOf(b, v) ==
  IF b.types[v].ty = "literal" THEN {b.types[v].n}
  ELSE UNION {CASE i.op = "const" -> {i.n}
                [] i.op = "arith" /\ i.f = "sub" ->
                     {l - r : l \in ConstOf(b, i.l), r \in ConstOf(b, i.r)}
                [] i.op = "unary" /\ i.f = "neg" -> {-s : s \in ConstOf(b, i.s)}
                [] OTHER -> {}
              : i \in {i \in Instructions(b) : ~IsTerminator(i) /\ i.dest = v}}

RECURSIVE VisitExpr(_, _), VisitExprs(_, _), VisitBoolOp(_, _)

(* Several expressions, in order: their values are vs.                     *)
VisitExprs(b, es) ==
  LET then(a, r) == [b |-> r.b, vs |-> Append(a.vs, r.v)]
  IN FoldLeft(LAMBDA a, e : then(a, VisitExpr(a.b, e)), [b |-> b, vs |-> <<>>], es)

(* build_binop and visit_compare: integer arithmetic has the type of its   *)
(* left operand, the value of a Literal type included.                     *)
BuildBinOp(a, op) ==
  Define(a.b, IF op \in {"lt", "gt"} THEN Bool ELSE a.b.types[a.vs[1]],
         Arith(op, NextValue(a.b), a.vs[1], a.vs[2]))

(* A unary operator's has that of its operand.                             *)
BuildUnaryOp(a, op) == Define(a.b, a.b.types[a.v], Unary(op, NextValue(a.b), a.v))

VisitExpr(b, e) ==
  CASE e.is = "num" -> Define(b, I64, ConstInt(NextValue(b), e.n))
    [] e.is = "name" -> ReadVar(b, e.x, b.cur)
    [] e.is = "bin" -> BuildBinOp(VisitExprs(b, <<e.l, e.r>>), e.op)
    [] e.is = "unary" -> BuildUnaryOp(VisitExpr(b, e.e), e.op)
    [] e.is = "bool" -> VisitBoolOp(b, e)

(* visit_bool_op: each value but the last branches on itself to the merge  *)
(* block or on to the next value; the result is a variable of the merge.   *)
SetTmp(a) == WriteVar(a.b, Tmp, a.b.cur, a.v)

ShortCircuit(b, op, v, merge, next) ==
  SealAndStart(IF op = "and" THEN BranchTo(b, v, b.cur, next, merge)
               ELSE BranchTo(b, v, b.cur, merge, next), next)

VisitBoolOp(b, e) ==
  LET merge == Newest(b) + 1
      go(a) == ShortCircuit(CreateBlocks(SetTmp(a), 1), e.op, a.v, merge, Newest(a.b) + 1)
      last == FoldLeft(LAMBDA a, value : VisitExpr(go(a), value),
                       VisitExpr(CreateBlocks(b, 1), Head(e.values)), Tail(e.values))
  IN ReadVar(SealAndStart(JumpTo(SetTmp(last), merge), merge), Tmp, merge)
-----------------------------------------------------------------------------
(* Asserts that become contracts.  A predicate is a test with a value for  *)
(* each of its names: expr_to_string of the renamed expression.  In a      *)
(* postcondition NoValue stands for the value that is returned.            *)
RECURSIVE NamesIn(_)
NamesIn(e) ==
  CASE e.is = "num" -> {}
    [] e.is = "name" -> {e.x}
    [] e.is = "bin" -> NamesIn(e.l) \cup NamesIn(e.r)
    [] e.is = "unary" -> NamesIn(e.e)
    [] e.is = "bool" -> UNION {NamesIn(e.values[i]) : i \in DOMAIN e.values}

Predicate(test, of) == [test |-> test, of |-> [x \in NamesIn(test) |-> of[x]]]

ParamValues == [x \in Range(Var) |-> 1 + CHOOSE i \in DOMAIN Var : Var[i] = x]

IsAssert(s) == s.is = "assert"
AsPostcondition(body, i) ==
  IsAssert(body[i]) /\ i < Len(body) /\ body[i + 1].is = "return"

CountLeading(body) ==
  CHOOSE n \in 0..Len(body) : /\ \A i \in 1..n : IsAssert(body[i])
                              /\ n < Len(body) => ~IsAssert(body[n + 1])
LeadingAsserts(body) == SubSeq(body, 1, CountLeading(body))
Remaining(body) == SubSeq(body, CountLeading(body) + 1, Len(body))

(* extract_postconditions: asserts directly before a return, wherever they *)
(* are; each is checked at every return.                                   *)
Returned(s) == IF s.e.is = "name" THEN {s.e.x} ELSE {}
PostconditionAt(body, i) ==
  Predicate(body[i].test,
            [x \in Range(Var) |-> IF x \in Returned(body[i + 1]) THEN NoValue
                                  ELSE ParamValues[x]])

Postconditions_Outermost(body) ==   \* mutant: not those within an if or a loop
  FlattenSeq([i \in DOMAIN body |->
    IF AsPostcondition(body, i) THEN <<PostconditionAt(body, i)>> ELSE <<>>])
RECURSIVE Postconditions(_)
Postconditions(body) ==
  FlattenSeq([i \in DOMAIN body |->
    CASE AsPostcondition(body, i) -> <<PostconditionAt(body, i)>>
      [] body[i].is = "if" -> Postconditions(body[i].body) \o Postconditions(body[i].orelse)
      [] body[i].is \in {"while", "for"} -> Postconditions(body[i].body)
      [] OTHER -> <<>>])

(* extract_loop_invariants: the asserts at the head of a loop's body, with *)
(* the values that their names have in the header.                         *)
NameValue(a, x, header) ==
  LET read == ReadVar(a.b, x, header) IN [b |-> read.b, of |-> (x :> read.v) @@ a.of]

Invariant(b, test, header) ==
  LET read == FoldLeft(LAMBDA a, x : IF x \in NamesIn(test) THEN NameValue(a, x, header) ELSE a,
                       [b |-> b, of |-> <<>>], Var)
  IN [read.b EXCEPT !.invariants = Append(@, [header |-> header, p |-> Predicate(test, read.of)])]

Invariants(b, body, header) ==
  FoldLeft(LAMBDA a, s : Invariant(a, s.test, header), b, LeadingAsserts(body))
-----------------------------------------------------------------------------
RECURSIVE VisitStmt(_, _), VisitBlock(_, _)

(* The statements of a block that goes on to block next.                   *)
VisitArm(b, k, body, next) == FallThrough(VisitBlock(StartBlock(b, k), body), next)

IfOn(c, s) ==
  LET known == ConstOf(c.b, c.v)
      t == Newest(c.b) + 1
      f == Newest(c.b) + 2
      merge == Newest(c.b) + 3
      arms == Seal(Seal(BranchTo(CreateBlocks(c.b, 3), c.v, c.b.cur, t, f), t), f)
  IN IF known # {}
     THEN VisitBlock(c.b, IF 0 \notin known THEN s.body ELSE s.orelse)
     ELSE SealAndStart(VisitArm(VisitArm(arms, t, s.body, merge), f, s.orelse, merge), merge)

VisitIf(b, s) == IfOn(VisitExpr(b, s.test), s)

PushLoop_Swapped(b, continueTo, breakTo) ==   \* mutant: (exit, header)
  [b EXCEPT !.loops = Append(@, [continueTo |-> breakTo, breakTo |-> continueTo])]
PushLoop(b, continueTo, breakTo) ==
  [b EXCEPT !.loops = Append(@, [continueTo |-> continueTo, breakTo |-> breakTo])]
PopLoop(b) == [b EXCEPT !.loops = Front(@)]

(* Into the header, from which more edges are to come.                     *)
EnterHeader_Sealed(b, body, header, continueTo, exit) ==   \* mutant: as if there were none
  Seal(StartBlock(Invariants(PushLoop(JumpTo(b, header), continueTo, exit), body, header),
                  header), header)
EnterHeader(b, body, header, continueTo, exit) ==
  StartBlock(Invariants(PushLoop(JumpTo(b, header), continueTo, exit), body, header), header)

(* Behind the loop, when header and exit have all their edges.             *)
Behind_HeaderOpen(b, header, exit) ==   \* mutant: the header is not sealed
  Seal(StartBlock(PopLoop(b), exit), exit)
Behind(b, header, exit) == Seal(StartBlock(Seal(PopLoop(b), header), exit), exit)

(* The branch goes where the condition ends; the edges leave the header.   *)
WhileOn(c, s, header, body, exit) ==
  Behind(VisitArm(Seal(BranchTo(c.b, c.v, header, body, exit), body), body, Remaining(s.body),
                  header),
         header, exit)

VisitWhile(b, s) ==
  LET header == Newest(b) + 1
      body == Newest(b) + 2
      exit == Newest(b) + 3
  IN WhileOn(VisitExpr(EnterHeader(CreateBlocks(b, 3), s.body, header, header, exit), s.test),
             s, header, body, exit)

(* ceil((stop - start) / step), of the range as it is known when compiling.*)
TripCount(start, stop, step) ==
  CASE step > 0 /\ stop > start -> (stop - start + step - 1) \div step
    [] step < 0 /\ start > stop -> (start - stop - step - 1) \div (-step)
    [] OTHER -> 0

(* One block per iteration; continue goes to the next one, break to the    *)
(* exit, which the last one falls into.                                    *)
SetCounter(b, x, n) ==
  WriteVar(Emit(NewValue(b, I64), ConstInt(NextValue(b), n)), x, b.cur, NextValue(b))

Iteration(b, s, n, exit, last) ==
  LET body == Newest(b) + 1
      next == IF last THEN exit ELSE Newest(b) + 2
      in == SealAndStart(JumpTo(CreateBlocks(b, IF last THEN 1 ELSE 2), body), body)
      out == PopLoop(VisitArm(SetCounter(PushLoop(in, next, exit), s.x, n), body,
                              Remaining(s.body), next))
  IN CASE b.error # "" -> b
       [] b.error = "" /\ last -> out
       [] OTHER -> SealAndStart(out, next)

Unroll(b, s, start, step, trips) ==
  LET exit == Newest(b) + 1
  IN Seal(StartBlock(
       FoldLeft(LAMBDA a, i : Iteration(a, s, start + (i - 1) * step, exit, i = trips),
                CreateBlocks(b, 1), [i \in 1..trips |-> i]),
       exit), exit)

(* A counted loop whose counter is the program's own variable s.x.         *)
Increment(now, x, sum, step) ==
  WriteVar(Emit(now.b, [Arith("add", sum, now.v, step) EXCEPT !.exact = FALSE]),
           x, now.b.cur, sum)

RangeOn(idx, s, stop, step, header, body, increment, exit) ==
  LET cond == NextValue(idx.b)
      down == \E n \in ConstOf(idx.b, step) : n < 0
      test == Emit(NewValue(idx.b, Unknown), Arith(IF down THEN "gt" ELSE "lt", cond, idx.v, stop))
      in == Seal(BranchTo(test, cond, header, body, exit), body)
      count(b) == Increment(ReadVar(NewValue(b, Unknown), s.x, increment), s.x, NextValue(b), step)
  IN Behind(JumpTo(count(SealAndStart(VisitArm(in, body, Remaining(s.body), increment),
                                           increment)), header),
            header, exit)

VisitRange(b, s, start, stop, step) ==
  LET header == Newest(b) + 1
      body == Newest(b) + 2
      increment == Newest(b) + 3
      exit == Newest(b) + 4
      in == EnterHeader(WriteVar(CreateBlocks(b, 4), s.x, b.cur, start), s.body,
                        header, increment, exit)
  IN RangeOn(ReadVar(in, s.x, header), s, stop, step, header, body, increment, exit)

ForOver(r, s) ==
  LET known == ConstOf(r.b, r.vs[1]) \X ConstOf(r.b, r.vs[2]) \X ConstOf(r.b, r.vs[3])
      range == CHOOSE t \in known : TRUE
      trips == TripCount(range[1], range[2], range[3])
  IN IF /\ known # {}
        /\ range[3] # 0
        /\ trips <= 128
        /\ trips * Len(s.body) <= 1024
     THEN Unroll(r.b, s, range[1], range[3], trips)
     ELSE VisitRange(r.b, s, r.vs[1], r.vs[2], r.vs[3])

VisitFor(b, s) == ForOver(VisitExprs(b, <<s.start, s.stop, s.step>>), s)

(* break and continue, which only a loop can have.                         *)
LeaveLoop_NoLink(b, target) ==   \* mutant: the jump without its edge
  IF b.loops = <<>> THEN Fail(b, "General") ELSE Emit(b, Jump(Last(b.loops)[target]))
LeaveLoop(b, target) ==
  IF b.loops = <<>> THEN Fail(b, "General") ELSE JumpTo(b, Last(b.loops)[target])

(* raise, try: the exception is where value 1 points to, 0 is none.  A     *)
(* block that an exception leaves goes to the innermost try's dispatch, or *)
(* returns a dummy.                                                        *)
NewConst(b, n) == Define(b, I64, ConstInt(NextValue(b), n))
SetException(r) == Emit(r.b, Store(r.v))
GetException(b) == Define(b, I64, Load(NextValue(b)))

ReturnOf(r) == Emit(r.b, Ret(r.v))
LeaveTry(b) ==
  IF b.tries = <<>> THEN ReturnOf(NewConst(b, 0)) ELSE JumpTo(b, Last(b.tries))

VisitRaise(b, s) == LeaveTry(SetException(NewConst(b, s.id)))

Compare(f, b, l, r) == Define(b, Bool, Arith(f, NextValue(b), l, r))
IsNot(r, exc) == Compare("ne", r.b, exc, r.v)
Is(r, exc) == Compare("eq", r.b, exc, r.v)

(* A handler for every class is one for any exception at all.              *)
EitherOf(was, now) == Compare("or", now.b, was.v, now.v)
Matches(b, ids, exc) ==
  IF Len(ids) = 5 THEN IsNot(NewConst(b, 0), exc)
  ELSE FoldLeft(LAMBDA a, id : EitherOf(a, Is(NewConst(a.b, id), exc)),
                Is(NewConst(b, Head(ids)), exc), Tail(ids))

(* Behind a call: on, or where an exception goes.                          *)
WayOut(b) ==   \* a block that returns, unless there is a try
  IF b.tries # <<>> THEN b
  ELSE StartBlock(Seal(LeaveTry(StartBlock(CreateBlocks(b, 1), Newest(b) + 1)),
                       Newest(b) + 1),
                  b.cur)

Propagate(test, next) ==
  LET out == WayOut(CreateBlocks(test.b, 1))
      to == IF out.tries = <<>> THEN next + 1 ELSE Last(out.tries)
  IN SealAndStart(BranchTo(out, test.v, out.cur, to, next), next)

CheckException(loaded) ==
  Propagate(IsNot(NewConst(loaded.b, 0), loaded.v), Newest(loaded.b) + 1)

AssignTo(r, x) == WriteVar(r.b, x, r.b.cur, r.v)
AssertOf(r) == Emit(r.b, AssertInst(r.v))

CallWith(arg, f) == Define(arg.b, I64, CallInst(NextValue(arg.b), f, arg.v))
AfterCall(r) == [b |-> CheckException(GetException(r.b)), v |-> r.v]
VisitCall(b, s) == AssignTo(AfterCall(CallWith(VisitExpr(b, s.e), s.f)), s.x)

(* A try whose body has been visited: else, the dispatch over its          *)
(* handlers, what none of them takes, and what is behind it.               *)
VisitElse(b, orelse, merge) ==
  IF IsTerminated(b, b.cur) THEN b ELSE FallThrough(VisitBlock(b, orelse), merge)

HandleWith(test, h, merge, match, next) ==
  LET in == SealAndStart(BranchTo(CreateBlocks(test.b, 2), test.v, test.b.cur, match, next),
                         match)
  IN SealAndStart(FallThrough(VisitBlock(SetException(NewConst(in, 0)), h.body), merge), next)

Handle(b, h, exc, merge) ==
  HandleWith(Matches(b, h.ids, exc), h, merge, Newest(b) + 1, Newest(b) + 2)

Dispatch(exc, handlers, merge) ==
  LeaveTry(FoldLeft(LAMBDA b, h : Handle(b, h, exc.v, merge), exc.b, handlers))

BehindTry(b, s, dispatch, merge) ==
  LET in == SealAndStart(VisitElse(CreateBlocks([b EXCEPT !.tries = Front(@)], 1),
                                   s.orelse, merge),
                         dispatch)
  IN SealAndStart(Dispatch(GetException(in), s.handlers, merge), merge)

InTry(b, s, dispatch) ==
  VisitBlock([CreateBlocks(b, 1) EXCEPT !.tries = Append(@, dispatch)], s.body)

VisitTry(b, s) ==
  LET dispatch == Newest(b) + 1
      behind(body) == BehindTry(body, s, dispatch, Newest(body) + 1)
  IN behind(InTry(b, s, dispatch))

VisitStmt(b, s) ==
  CASE s.is = "assign" -> AssignTo(VisitExpr(b, s.e), s.x)
    [] s.is = "return" -> ReturnOf(VisitExpr(b, s.e))
    [] s.is = "assert" -> AssertOf(VisitExpr(b, s.test))
    [] s.is = "if" -> VisitIf(b, s)
    [] s.is = "while" -> VisitWhile(b, s)
    [] s.is = "for" -> VisitFor(b, s)
    [] s.is = "break" -> LeaveLoop(b, "breakTo")
    [] s.is = "continue" -> LeaveLoop(b, "continueTo")
    [] s.is = "raise" -> VisitRaise(b, s)
    [] s.is = "try" -> VisitTry(b, s)
    [] s.is = "call" -> VisitCall(b, s)

(* Every statement of the list, also those after one that leaves it, but   *)
(* not the asserts that are postconditions.                                *)
VisitBlock(b, body) ==
  FoldLeft(LAMBDA a, i : IF a.error = "" /\ ~AsPostcondition(body, i)
                         THEN VisitStmt(a, body[i]) ELSE a,
           b, [i \in DOMAIN body |-> i])

(* visit_function_def: value 1 is the exception pointer, the parameters    *)
(* follow; a block that does not end returns 0.                            *)
Param(b, x, ty) == WriteVar(NewValue(b, ty), x, 1, NextValue(b))

End(b) ==
  IF b.error # "" \/ IsTerminated(b, b.cur) THEN b
  ELSE ReturnOf(Define(b, Unknown, ConstInt(NextValue(b), 0)))

Preconditions(body) ==
  LET asserts == LeadingAsserts(body)
  IN [i \in DOMAIN asserts |-> Predicate(asserts[i].test, ParamValues)]

Contracts(b, body) ==
  [b EXCEPT !.preconditions = Preconditions(body), !.postconditions = Postconditions(body)]

Build(params, body, pick) ==
  LET b == FoldLeft(LAMBDA a, x : Param(a, x, params[x]), NewValue(New(pick), Pointer), Var)
  IN End(VisitBlock(Contracts(b, body), Remaining(body)))
=============================================================================
