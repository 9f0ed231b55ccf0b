-------------------------- MODULE CompiledRunProofs --------------------------
(***************************************************************************)
(* The optimiser is right, whatever the function: code that is             *)
(* well-formed, as what the builder makes is checked to be, stays          *)
(* well-formed, never gets stuck, and does the same, block by block, after *)
(* constants have been folded and dead code eliminated. Strict SSA and     *)
(* dominators give each use its value; each constant is justified by the   *)
(* one instruction that defines it; dead code is what no instruction that  *)
(* is kept reads. Alongside, at the end, is the inductive invariant.       *)
(***************************************************************************)
EXTENDS CompiledRun, FiniteSetTheorems, SequenceTheorems, WellFoundedInduction, TLAPS

-----------------------------------------------------------------------------
(* Closures: successors, live values and dominators are closures of a      *)
(* step.                                                                   *)

(* What is new in one step.                                                *)
Hop(next, seen, new) == (UNION {next[x] : x \in new \cap DOMAIN next}) \ seen
Around(next, from) == from \cup UNION {next[x] : x \in DOMAIN next}

(* What the steps that are taken from `new` lead to in the end.            *)
Ahead(next, all, seen, new) ==
  {y \in all : \A X \in SUBSET all : Hop(next, seen, new \cup X) \subseteq X => y \in X}

(* A function that closes as Closure asks is there.                        *)
Closes(next, all, f) ==
  f = [s \in [seen : SUBSET all, new : SUBSET all] |->
         LET more == Hop(next, s.seen, s.new)
         IN IF more = {} THEN s.seen ELSE f[[seen |-> s.seen \cup more, new |-> more]]]

(* The recursive function that Closure chooses is there.                   *)
LEMMA ClosesExists ==
  ASSUME NEW next, NEW from
  PROVE  \E f : Closes(next, Around(next, from), f)
<1>. DEFINE all == Around(next, from)
            f == [s \in [seen : SUBSET all, new : SUBSET all] |->
                   s.seen \cup Ahead(next, all, s.seen, s.new)]
<1>1. \A s, n : n \subseteq all => Hop(next, s, n) \subseteq all
  BY DEF Hop, Around
<1>. HIDE DEF all
<1>2. ASSUME NEW s \in SUBSET all, NEW n \in SUBSET all
      PROVE  s \cup Ahead(next, all, s, n) =
               LET more == Hop(next, s, n)
               IN IF more = {} THEN s ELSE (s \cup more) \cup Ahead(next, all, s \cup more, more)
  <2>. DEFINE more == Hop(next, s, n)
  <2>1. CASE more = {}
    <3>1. Hop(next, s, n \cup {}) \subseteq {}
      BY <2>1
    <3>2. Ahead(next, all, s, n) = {}
      BY <3>1 DEF Ahead
    <3>. QED  BY <2>1, <3>2
  <2>2. Hop(next, s, n \cup (more \cup Ahead(next, all, s \cup more, more)))
           \subseteq more \cup Ahead(next, all, s \cup more, more)
    <3>1. ASSUME NEW X \in SUBSET all, Hop(next, s \cup more, more \cup X) \subseteq X
          PROVE  Hop(next, s, n \cup (more \cup X)) \subseteq more \cup X
      BY <3>1 DEF Hop
    <3>2. ASSUME NEW y \in Hop(next, s, n \cup (more \cup Ahead(next, all, s \cup more, more))),
                 y \notin more,
                 NEW X \in SUBSET all, Hop(next, s \cup more, more \cup X) \subseteq X
          PROVE  y \in X
      <4>1. Ahead(next, all, s \cup more, more) \subseteq X
        BY <3>2 DEF Ahead
      <4>2. y \in Hop(next, s, n \cup (more \cup X))
        BY <4>1 DEF Hop
      <4>. QED  BY <3>1, <3>2, <4>2
    <3>3. more \subseteq all /\ Ahead(next, all, s \cup more, more) \subseteq all
      BY <1>1 DEF Ahead
    <3>4. Hop(next, s, n \cup (more \cup Ahead(next, all, s \cup more, more))) \subseteq all
      <4>1. n \cup (more \cup Ahead(next, all, s \cup more, more)) \subseteq all
        BY <3>3
      <4>. QED  BY <1>1, <4>1
    <3>. QED  BY <3>2, <3>4 DEF Ahead
  <2>3. Ahead(next, all, s, n) \subseteq more \cup Ahead(next, all, s \cup more, more)
    <3>1. more \cup Ahead(next, all, s \cup more, more) \in SUBSET all
      BY <1>1 DEF Ahead
    <3>. QED  BY <2>2, <3>1 DEF Ahead
  <2>4. more \subseteq Ahead(next, all, s, n)
    <3>1. more \subseteq all
      BY <1>1
    <3>2. \A X : more \subseteq Hop(next, s, n \cup X)
      BY DEF Hop
    <3>. QED  BY <3>1, <3>2 DEF Ahead
  <2>5. ASSUME NEW y \in Ahead(next, all, s \cup more, more),
               NEW X \in SUBSET all, Hop(next, s, n \cup X) \subseteq X
        PROVE  y \in X
    <3>1. more \subseteq X
      BY <2>5 DEF Hop
    <3>2. Hop(next, s \cup more, more \cup X) \subseteq X
      BY <2>5, <3>1 DEF Hop
    <3>. QED  BY <3>2 DEF Ahead
  <2>6. Ahead(next, all, s \cup more, more) \subseteq Ahead(next, all, s, n)
    BY <2>5 DEF Ahead
  <2>. QED  BY <2>1, <2>3, <2>4, <2>6
<1>3. \A s \in [seen : SUBSET all, new : SUBSET all] :
        f[s] = s.seen \cup Ahead(next, all, s.seen, s.new)
  OBVIOUS
<1>. HIDE DEF f
<1>4. ASSUME NEW s \in [seen : SUBSET all, new : SUBSET all]
      PROVE  f[s] = LET more == Hop(next, s.seen, s.new)
                    IN IF more = {} THEN s.seen ELSE f[[seen |-> s.seen \cup more, new |-> more]]
  <2>. DEFINE more == Hop(next, s.seen, s.new)
              t == [seen |-> s.seen \cup more, new |-> more]
  <2>0. s.seen \in SUBSET all /\ s.new \in SUBSET all
    OBVIOUS
  <2>1. t \in [seen : SUBSET all, new : SUBSET all]
    BY <1>1, <2>0
  <2>2. f[t] = (s.seen \cup more) \cup Ahead(next, all, s.seen \cup more, more)
    <3>1. t.seen = s.seen \cup more /\ t.new = more
      OBVIOUS
    <3>. HIDE DEF t, more
    <3>. QED  BY <1>3, <2>1, <3>1
  <2>. QED  BY <1>2, <1>3, <2>0, <2>2
<1>5. f = [s \in [seen : SUBSET all, new : SUBSET all] |->
             LET more == Hop(next, s.seen, s.new)
             IN IF more = {} THEN s.seen ELSE f[[seen |-> s.seen \cup more, new |-> more]]]
  BY <1>4 DEF f
<1>. QED  BY <1>5 DEF all, Closes

(* A finite set has a smallest one among some of its subsets.              *)
LEMMA SmallestOf ==
  ASSUME NEW S, IsFiniteSet(S), NEW T \in SUBSET SUBSET S, T # {}
  PROVE  \E x \in T : \A y \in T : y \subseteq x => y = x
<1>1. IsWellFoundedOn(StrictSubsetOrdering(S), SUBSET S)
  BY FS_StrictSubsetOrderingWellFounded, FS_FiniteSubsetsOfFinite
<1>2. PICK x \in T : \A y \in T : ~ (<<y, x>> \in StrictSubsetOrdering(S))
  BY <1>1, WFMin
<1>. QED  BY <1>2 DEF StrictSubsetOrdering

(* And a largest one.                                                      *)
LEMMA LargestOf ==
  ASSUME NEW S, IsFiniteSet(S), NEW T \in SUBSET SUBSET S, T # {}
  PROVE  \E x \in T : \A y \in T : x \subseteq y => y = x
<1>. DEFINE U == {S \ y : y \in T}
<1>1. PICK x \in U : \A z \in U : z \subseteq x => z = x
  <2>1. U \in SUBSET SUBSET S
    <3>1. \A u \in U : u \in SUBSET S
      OBVIOUS
    <3>. HIDE DEF U
    <3>. QED  BY <3>1
  <2>2. U # {}
    <3>1. PICK y \in T : TRUE
      OBVIOUS
    <3>. QED  BY <3>1, S \ y \in U
  <2>. HIDE DEF U
  <2>. QED  BY <2>1, <2>2, SmallestOf
<1>2. PICK x0 \in T : x = S \ x0
  BY <1>1
<1>3. ASSUME NEW y \in T, x0 \subseteq y PROVE y = x0
  <2>1. S \ y = x
    BY <1>1, <1>2, <1>3
  <2>. QED  BY <1>2, <2>1
<1>. QED  BY <1>3

(* No step leaves C.                                                       *)
Closed(next, C) == \A x \in C \cap DOMAIN next : next[x] \subseteq C

(* What Closure is: the least set around `from` that no step leaves.       *)
LEMMA ClosureIsLeast ==
  ASSUME NEW next, NEW from, IsFiniteSet(Around(next, from))
  PROVE  /\ from \subseteq Closure(next, from) /\ Closed(next, Closure(next, from))
         /\ Closure(next, from) \subseteq Around(next, from)
         /\ \A C : from \subseteq C /\ Closed(next, C) => Closure(next, from) \subseteq C
<1>. DEFINE all == Around(next, from)
            close == CHOOSE f : Closes(next, all, f)
<1>1. Closure(next, from) = close[[seen |-> from, new |-> from]]
  BY DEF Closure, Closes, Hop, Around
<1>2. Closes(next, all, close)
  <2>1. \E f : Closes(next, all, f)
    BY ClosesExists
  <2>. HIDE DEF all
  <2>. QED  BY <2>1
<1>. HIDE DEF close
<1>3. \A s, n : n \subseteq all => Hop(next, s, n) \subseteq all
  BY DEF Hop, Around
<1>a. from \subseteq all
  BY DEF Around
<1>. HIDE DEF all
<1>4. ASSUME NEW seen \in SUBSET all, NEW new \in SUBSET all
      PROVE  close[[seen |-> seen, new |-> new]] =
               IF Hop(next, seen, new) = {} THEN seen
               ELSE close[[seen |-> seen \cup Hop(next, seen, new), new |-> Hop(next, seen, new)]]
  BY <1>2 DEF Closes
<1>. DEFINE started(seen, new) ==
              new \subseteq seen /\ \A x \in (seen \ new) \cap DOMAIN next : next[x] \subseteq seen
            good(seen, r) ==
              /\ seen \subseteq r /\ Closed(next, r) /\ r \subseteq all
              /\ \A C : seen \subseteq C /\ Closed(next, C) => r \subseteq C
            bad == {seen \in SUBSET all : \E new \in SUBSET all :
                      started(seen, new) /\ ~ good(seen, close[[seen |-> seen, new |-> new]])}
<1>5. ASSUME bad # {} PROVE FALSE
  <2>1. PICK seen \in bad : \A y \in bad : seen \subseteq y => y = seen
    <3>1. bad \in SUBSET SUBSET all /\ IsFiniteSet(all)
      BY DEF all
    <3>. HIDE DEF bad
    <3>. QED  BY <1>5, <3>1, LargestOf
  <2>2. PICK new \in SUBSET all :
          started(seen, new) /\ ~ good(seen, close[[seen |-> seen, new |-> new]])
    OBVIOUS
  <2>. DEFINE more == Hop(next, seen, new)
  <2>3. CASE more = {}
    <3>1. close[[seen |-> seen, new |-> new]] = seen
      BY <1>4, <2>3
    <3>2. Closed(next, seen)
      BY <2>2, <2>3 DEF Closed, Hop
    <3>. QED  BY <2>2, <3>1, <3>2
  <2>4. CASE more # {}
    <3>1. close[[seen |-> seen, new |-> new]] = close[[seen |-> seen \cup more, new |-> more]]
      BY <1>4, <2>4
    <3>2. more \in SUBSET all /\ seen \cup more \in SUBSET all /\ seen \cup more # seen
      BY <1>3, <2>4 DEF Hop
    <3>3. started(seen \cup more, more)
      BY <2>2 DEF Hop
    <3>4. seen \cup more \notin bad
      BY <2>1, <3>2
    <3>5. good(seen \cup more, close[[seen |-> seen \cup more, new |-> more]])
      BY <3>2, <3>3, <3>4
    <3>6. ASSUME NEW C, seen \subseteq C, Closed(next, C) PROVE more \subseteq C
      BY <2>2, <3>6 DEF Hop, Closed
    <3>7. good(seen, close[[seen |-> seen \cup more, new |-> more]])
      <4>. DEFINE r == close[[seen |-> seen \cup more, new |-> more]]
      <4>. HIDE DEF r, more
      <4>. QED  BY <3>5, <3>6
    <3>. QED  BY <2>2, <3>1, <3>7
  <2>. QED  BY <2>3, <2>4
<1>6. good(from, close[[seen |-> from, new |-> from]])
  BY <1>5, <1>a
<1>. QED  BY <1>1, <1>6 DEF all

-----------------------------------------------------------------------------
(* Folds: what a list of instructions does, one instruction after the      *)
(* other.                                                                  *)

(* The three operators that lists of instructions are folded with.         *)
Step(p, a, i) ==
  CASE p.is = "learn" -> Learn(a, i)
    [] p.is = "block" -> FoldLeft(Learn, a, i.insts)
    [] p.is = "run" -> RunInst(a, i)
    [] p.is = "retain" -> IF HasSideEffects(i) \/ i.dest \in p.live THEN Append(a, i) ELSE a

(* f[n] is what the first n elements of s make of a.                       *)
Steps(p, a, s, f) ==
  /\ f = [n \in 0..Len(s) |-> f[n]] /\ f[0] = a
  /\ \A n \in 1..Len(s) : f[n] = Step(p, f[n - 1], s[n])

(* The recursive function in the definition of FoldLeft.                   *)
Folds(p, a, s, S, g) ==
  g = [t \in SUBSET S |-> IF t = {} THEN a ELSE Step(p, g[t \ {Max(t)}], s[Max(t)])]

(* Induction up to n, for a set: well-founded induction asks for no        *)
(* operator.                                                               *)
LEMMA CountingUp ==
  ASSUME NEW n \in Nat, NEW holds, 0 \in holds,
         \A m \in 0..n - 1 : m \in holds => m + 1 \in holds
  PROVE  \A m \in 0..n : m \in holds
<1>. SUFFICES ASSUME NEW k \in 0..n, k \notin holds PROVE FALSE
  OBVIOUS
<1>. DEFINE less == {p \in Nat \X Nat : p[1] < p[2]}
            bad == {m \in 0..n : m \notin holds}
<1>1. IsWellFoundedOn(less, Nat)
  BY NatLessThanWellFounded DEF OpToRel
<1>2. PICK m \in bad : \A j \in bad : ~ <<j, m>> \in less
  <2>1. bad \subseteq Nat /\ bad # {}
    OBVIOUS
  <2>. HIDE DEF less, bad
  <2>. QED  BY <1>1, <2>1, WFMin
<1>3. m - 1 \in 0..n - 1 /\ m \in Nat /\ m - 1 \in Nat /\ m = (m - 1) + 1
  BY <1>2
<1>4. m - 1 \in bad /\ <<m - 1, m>> \in less
  BY <1>2, <1>3
<1>. QED  BY <1>2, <1>4

(* Some of the first n numbers have a largest one.                         *)
LEMMA MaxOfPrefix ==
  ASSUME NEW n \in Nat, NEW t \in SUBSET (1..n), t # {}
  PROVE  Max(t) \in t /\ \A k \in t : k <= Max(t)
<1>. DEFINE less == {p \in Nat \X Nat : p[1] < p[2]}
            up == {n - k : k \in t}
<1>1. IsWellFoundedOn(less, Nat)
  BY NatLessThanWellFounded DEF OpToRel
<1>2. PICK m \in up : \A j \in up : ~ <<j, m>> \in less
  <2>0. PICK k \in t : TRUE
    OBVIOUS
  <2>1. up \subseteq Nat /\ n - k \in up
    OBVIOUS
  <2>. HIDE DEF less, up
  <2>. QED  BY <1>1, <2>1, WFMin
<1>3. PICK k \in t : m = n - k
  OBVIOUS
<1>4. ASSUME NEW j \in t PROVE j <= k
  <2>1. n - j \in up /\ n - j \in Nat /\ m \in Nat
    BY <1>3
  <2>2. ~ n - j < m
    BY <1>2, <2>1
  <2>. QED  BY <1>3, <2>2
<1>. QED  BY <1>4 DEF Max

(* And only one.                                                           *)
LEMMA MaxIs ==
  ASSUME NEW n \in Nat, NEW t \in SUBSET (1..n), NEW m \in t, \A k \in t : k <= m
  PROVE  Max(t) = m
<1>0. \A k \in t : k \in Nat
  OBVIOUS
<1>1. Max(t) \in t /\ m <= Max(t) /\ Max(t) <= m
  BY MaxOfPrefix
<1>2. m \in Nat /\ Max(t) \in Nat
  BY <1>0, <1>1
<1>. QED  BY <1>1, <1>2

(* The recursive function that FoldLeft chooses is there.                  *)
LEMMA FoldsExist ==
  ASSUME NEW p, NEW a, NEW s, NEW n \in Nat
  PROVE  \E g : Folds(p, a, s, 1..n, g)
<1>. DEFINE holds == {k \in 0..n : \E g : Folds(p, a, s, 1..k, g)}
<1>1. 0 \in holds
  <2>. DEFINE g == [t \in SUBSET (1..0) |-> a]
  <2>1. SUBSET (1..0) = {{}}
    OBVIOUS
  <2>2. Folds(p, a, s, 1..0, g)
    BY <2>1 DEF Folds
  <2>. QED  BY <2>2
<1>2. ASSUME NEW k \in 0..n - 1, k \in holds PROVE k + 1 \in holds
  <2>1. PICK g : Folds(p, a, s, 1..k, g)
    BY <1>2
  <2>. DEFINE m == k + 1
              h == [t \in SUBSET (1..m) |-> IF m \in t THEN Step(p, g[t \ {m}], s[m]) ELSE g[t]]
  <2>2. ASSUME NEW t \in SUBSET (1..m), t # {}
        PROVE  h[t] = Step(p, h[t \ {Max(t)}], s[Max(t)]) /\ Max(t) \in t
    <3>0. Max(t) \in t /\ m \in Nat
      BY <2>2, MaxOfPrefix
    <3>1. CASE m \in t
      <4>1. Max(t) = m
        BY <3>0, <3>1, MaxIs
      <4>2. t \ {m} \in SUBSET (1..m) /\ m \notin t \ {m}
        OBVIOUS
      <4>3. h[t \ {m}] = g[t \ {m}]
        BY <4>2
      <4>. QED  BY <3>0, <3>1, <4>1, <4>3
    <3>2. CASE m \notin t
      <4>0. \A x \in 1..m : x # m => x \in 1..k
        OBVIOUS
      <4>1. t \in SUBSET (1..k) /\ t \ {Max(t)} \in SUBSET (1..m) /\ m \notin t \ {Max(t)}
        <5>. HIDE DEF m
        <5>. QED  BY <3>2, <4>0
      <4>2. h[t] = g[t] /\ h[t \ {Max(t)}] = g[t \ {Max(t)}]
        BY <3>2, <4>1
      <4>3. g[t] = Step(p, g[t \ {Max(t)}], s[Max(t)])
        BY <2>1, <2>2, <4>1 DEF Folds
      <4>. QED  BY <3>0, <4>2, <4>3
    <3>. QED  BY <3>1, <3>2
  <2>3. h[{}] = a
    <3>1. g[{}] = a
      BY <2>1 DEF Folds
    <3>. QED  BY <3>1
  <2>4. h = [t \in SUBSET (1..m) |-> h[t]]
    OBVIOUS
  <2>5. Folds(p, a, s, 1..m, h)
    <3>1. \A t \in SUBSET (1..m) :
            h[t] = IF t = {} THEN a ELSE Step(p, h[t \ {Max(t)}], s[Max(t)])
      BY <2>2, <2>3
    <3>. HIDE DEF h, m
    <3>. QED  BY <2>4, <3>1 DEF Folds
  <2>. QED  BY <2>5
<1>3. n \in holds
  <2>. HIDE DEF holds
  <2>. QED  BY <1>1, <1>2, CountingUp
<1>. QED  BY <1>3

(* The last step of a fold is that of the last element.                    *)
LEMMA FoldsInOrder ==
  ASSUME NEW p, NEW a, NEW s, DOMAIN s = 1..Len(s), Len(s) \in Nat,
         NEW g, Folds(p, a, s, DOMAIN s, g)
  PROVE  \E f : Steps(p, a, s, f) /\ g[DOMAIN s] = f[Len(s)]
<1>. DEFINE f == [n \in 0..Len(s) |-> g[1..n]]
<1>1. f[0] = a
  <2>1. 1..0 = {} /\ {} \in SUBSET DOMAIN s
    OBVIOUS
  <2>. QED  BY <2>1 DEF Folds
<1>2. ASSUME NEW n \in 1..Len(s) PROVE f[n] = Step(p, f[n - 1], s[n])
  <2>0. n \in Nat /\ n \in 1..n /\ (\A k \in 1..n : k <= n) /\ 1..n \in SUBSET (1..n)
    OBVIOUS
  <2>1. Max(1..n) = n
    BY <2>0, MaxIs
  <2>2. /\ (1..n) \ {n} = 1..n - 1
        /\ 1..n # {}
        /\ 1..n \in SUBSET DOMAIN s
    <3>1. \A k \in 1..n : k \in 1..Len(s)
      OBVIOUS
    <3>2. \A k : k \in (1..n) \ {n} <=> k \in 1..n - 1
      OBVIOUS
    <3>3. (1..n) \ {n} = 1..n - 1
      BY <3>2
    <3>. QED  BY <2>0, <3>1, <3>3
  <2>3. g[1..n] = Step(p, g[1..n - 1], s[n])
    BY <2>1, <2>2 DEF Folds
  <2>. QED  BY <2>3
<1>3. Steps(p, a, s, f)
  BY <1>1, <1>2 DEF Steps
<1>. QED  BY <1>3

(* A block is learnt from instruction by instruction.                      *)
LEMMA LearnSteps ==
  ASSUME NEW s, DOMAIN s = 1..Len(s), Len(s) \in Nat, NEW a
  PROVE  \E f : Steps([is |-> "learn"], a, s, f) /\ FoldLeft(Learn, a, s) = f[Len(s)]
<1>. DEFINE p == [is |-> "learn"]
            Rec(g) == g = [t \in SUBSET DOMAIN s |->
                             IF t = {} THEN a ELSE Learn(g[t \ {Max(t)}], s[Max(t)])]
            fold == CHOOSE g : Rec(g)
<1>1. FoldLeft(Learn, a, s) = fold[DOMAIN s]
  BY DEF FoldLeft, MapThenFoldSet
<1>2. \A g : Folds(p, a, s, DOMAIN s, g) <=> Rec(g)
  BY DEF Folds, Step
<1>3. Folds(p, a, s, DOMAIN s, fold)
  <2>1. \E g : Rec(g)
    <3>. HIDE DEF Rec
    <3>. QED  BY <1>2, FoldsExist
  <2>. HIDE DEF Rec
  <2>. QED  BY <1>2, <2>1
<1>. HIDE DEF fold
<1>. QED  BY <1>1, <1>3, FoldsInOrder

(* The constants are those learnt block by block.                          *)
LEMMA BlockSteps ==
  ASSUME NEW b, DOMAIN b.blocks = 1..Len(b.blocks), Len(b.blocks) \in Nat
  PROVE  \E f : Steps([is |-> "block"], <<>>, b.blocks, f) /\ Constants(b) = f[Len(b.blocks)]
<1>. DEFINE p == [is |-> "block"]
            s == b.blocks
            Rec(g) == g = [t \in SUBSET DOMAIN s |->
                             IF t = {} THEN <<>>
                             ELSE FoldLeft(Learn, g[t \ {Max(t)}], s[Max(t)].insts)]
            fold == CHOOSE g : Rec(g)
<1>1. Constants(b) = fold[DOMAIN s]
  BY DEF Constants, FoldLeft, MapThenFoldSet
<1>2. \A g : Folds(p, <<>>, s, DOMAIN s, g) <=> Rec(g)
  BY DEF Folds, Step
<1>3. Folds(p, <<>>, s, DOMAIN s, fold)
  <2>1. \E g : Rec(g)
    <3>. HIDE DEF Rec
    <3>. QED  BY <1>2, FoldsExist
  <2>. HIDE DEF Rec
  <2>. QED  BY <1>2, <2>1
<1>. HIDE DEF fold
<1>. QED  BY <1>1, <1>3, FoldsInOrder

(* A block is run instruction by instruction.                              *)
LEMMA RunSteps ==
  ASSUME NEW s, DOMAIN s = 1..Len(s), Len(s) \in Nat, NEW m
  PROVE  \E f : Steps([is |-> "run"], m, s, f) /\ FoldLeft(RunInst, m, s) = f[Len(s)]
<1>. DEFINE p == [is |-> "run"]
            Rec(g) == g = [t \in SUBSET DOMAIN s |->
                             IF t = {} THEN m ELSE RunInst(g[t \ {Max(t)}], s[Max(t)])]
            fold == CHOOSE g : Rec(g)
<1>1. FoldLeft(RunInst, m, s) = fold[DOMAIN s]
  BY DEF FoldLeft, MapThenFoldSet
<1>2. \A g : Folds(p, m, s, DOMAIN s, g) <=> Rec(g)
  BY DEF Folds, Step
<1>3. Folds(p, m, s, DOMAIN s, fold)
  <2>1. \E g : Rec(g)
    <3>. HIDE DEF Rec
    <3>. QED  BY <1>2, FoldsExist
  <2>. HIDE DEF Rec
  <2>. QED  BY <1>2, <2>1
<1>. HIDE DEF fold
<1>. QED  BY <1>1, <1>3, FoldsInOrder

(* Dead code is eliminated instruction by instruction.                     *)
LEMMA RetainSteps ==
  ASSUME NEW s, DOMAIN s = 1..Len(s), Len(s) \in Nat, NEW live
  PROVE  \E f : Steps([is |-> "retain", live |-> live], <<>>, s, f) /\ Retain(live, s) = f[Len(s)]
<1>. DEFINE p == [is |-> "retain", live |-> live]
            Rec(g) == g = [t \in SUBSET DOMAIN s |->
                             IF t = {} THEN <<>>
                             ELSE IF HasSideEffects(s[Max(t)]) \/ s[Max(t)].dest \in live
                                  THEN Append(g[t \ {Max(t)}], s[Max(t)]) ELSE g[t \ {Max(t)}]]
            fold == CHOOSE g : Rec(g)
<1>1. Retain(live, s) = fold[DOMAIN s]
  BY DEF Retain, FoldLeft, MapThenFoldSet
<1>2. \A g : Folds(p, <<>>, s, DOMAIN s, g) <=> Rec(g)
  BY DEF Folds, Step
<1>3. Folds(p, <<>>, s, DOMAIN s, fold)
  <2>1. \E g : Rec(g)
    <3>. HIDE DEF Rec
    <3>. QED  BY <1>2, FoldsExist
  <2>. HIDE DEF Rec
  <2>. QED  BY <1>2, <2>1
<1>. HIDE DEF fold
<1>. QED  BY <1>1, <1>3, FoldsInOrder

-----------------------------------------------------------------------------
(* Dead code elimination on a list: which instruction is where.            *)

(* What is kept of a block, and of its first n instructions.               *)
Kept(live, i) == HasSideEffects(i) \/ i.dest \in live
KeptOf(live, s, n) == {s[m] : m \in {m \in 1..n : Kept(live, s[m])}}
FirstOf(s, n) == {s[m] : m \in 1..n}

(* What is retained of the first n elements of s.                          *)
Retains(live, T, s, f, n) ==
  /\ f[n] \in Seq(T)
  /\ \A m \in 0..n : /\ Len(f[m]) \in 0..Len(f[n])
                     /\ \A j \in 1..Len(f[m]) : f[n][j] = f[m][j]
  /\ \A k \in 1..Len(f[n]) : \E m \in 1..n :
       /\ Kept(live, s[m]) /\ Len(f[m]) = k /\ Len(f[m - 1]) = k - 1
       /\ f[n][k] = s[m]
  /\ FirstOf(f[n], Len(f[n])) = KeptOf(live, s, n)

(* One more element, and it is retained at the end or not at all.          *)
LEMMA RetainOneMore ==
  ASSUME NEW T, NEW s \in Seq(T), NEW live, NEW f,
         Steps([is |-> "retain", live |-> live], <<>>, s, f),
         NEW n \in 0..Len(s) - 1, \A m \in 0..n : Retains(live, T, s, f, m)
  PROVE  Retains(live, T, s, f, n + 1)
<1>0. n + 1 \in 1..Len(s) /\ (n + 1) - 1 = n /\ s[n + 1] \in T /\ n \in Nat /\ Len(s) \in Nat
  OBVIOUS
<1>1. f[n + 1] = IF Kept(live, s[n + 1]) THEN Append(f[n], s[n + 1]) ELSE f[n]
  BY <1>0 DEF Steps, Step, Kept
<1>2. f[n] \in Seq(T) /\ Len(f[n]) \in Nat
  <2>1. Retains(live, T, s, f, n)
    BY <1>0
  <2>. QED  BY <2>1 DEF Retains
<1>a. \A m \in 0..n : f[m] \in Seq(T) /\ Len(f[m]) \in Nat
  BY DEF Retains
<1>b. \A m \in 1..n : m - 1 \in 0..n /\ m \in 0..n
  BY <1>0
<1>3. KeptOf(live, s, n + 1) =
        KeptOf(live, s, n) \cup IF Kept(live, s[n + 1]) THEN {s[n + 1]} ELSE {}
  <2>1. \A m : m \in 1..n + 1 <=> m \in 1..n \/ m = n + 1
    BY <1>0
  <2>. QED  BY <2>1 DEF KeptOf
<1>4. CASE ~ Kept(live, s[n + 1])
  <2>1. f[n + 1] = f[n]
    BY <1>1, <1>4
  <2>2. \A m : m \in 0..n + 1 <=> m \in 0..n \/ m = n + 1
    BY <1>0
  <2>3. Retains(live, T, s, f, n)
    BY <1>0
  <2>4. \A m \in 1..n : m \in 1..n + 1
    BY <1>0
  <2>5. KeptOf(live, s, n + 1) = KeptOf(live, s, n)
    BY <1>3, <1>4
  <2>6. \A m \in 0..n + 1 : /\ Len(f[m]) \in 0..Len(f[n])
                            /\ \A j \in 1..Len(f[m]) : f[n][j] = f[m][j]
    <3>1. Len(f[n + 1]) \in 0..Len(f[n]) /\ \A j \in 1..Len(f[n + 1]) : f[n][j] = f[n + 1][j]
      BY <1>2, <2>1
    <3>. QED  BY <2>2, <2>3, <3>1 DEF Retains
  <2>7. \A k \in 1..Len(f[n]) : \E m \in 1..n + 1 :
          /\ Kept(live, s[m]) /\ Len(f[m]) = k /\ Len(f[m - 1]) = k - 1
          /\ f[n][k] = s[m]
    BY <2>3, <2>4 DEF Retains
  <2>8. f[n] \in Seq(T) /\ FirstOf(f[n], Len(f[n])) = KeptOf(live, s, n)
    BY <2>3 DEF Retains
  <2>. QED  BY <2>1, <2>5, <2>6, <2>7, <2>8 DEF Retains
<1>5. CASE Kept(live, s[n + 1])
  <2>. DEFINE g == f[n]
              h == f[n + 1]
              e == s[n + 1]
  <2>1. h = Append(g, e)
    BY <1>1, <1>5
  <2>2. /\ h \in Seq(T) /\ Len(h) = Len(g) + 1 /\ h[Len(g) + 1] = e
        /\ \A j \in 1..Len(g) : h[j] = g[j]
    BY <1>0, <1>2, <2>1
  <2>3. Retains(live, T, s, f, n)
    BY <1>0
  <2>4. ASSUME NEW m \in 0..n + 1
        PROVE  Len(f[m]) \in 0..Len(h) /\ \A j \in 1..Len(f[m]) : h[j] = f[m][j]
    <3>1. CASE m = n + 1
      BY <2>2, <3>1
    <3>2. CASE m # n + 1
      <4>1. m \in 0..n
        BY <1>0, <3>2
      <4>2. Len(f[m]) \in 0..Len(g) /\ \A j \in 1..Len(f[m]) : g[j] = f[m][j]
        BY <2>3, <4>1 DEF Retains
      <4>3. Len(f[m]) \in 0..Len(h)
        BY <1>2, <2>2, <4>2
      <4>4. \A j \in 1..Len(f[m]) : j \in 1..Len(g)
        BY <1>2, <4>2
      <4>. QED  BY <2>2, <4>2, <4>3, <4>4
    <3>. QED  BY <3>1, <3>2
  <2>5. ASSUME NEW k \in 1..Len(h)
        PROVE  \E m \in 1..n + 1 :
                 /\ Kept(live, s[m]) /\ Len(f[m]) = k /\ Len(f[m - 1]) = k - 1
                 /\ h[k] = s[m]
    <3>1. CASE k = Len(g) + 1
      <4>1. Len(f[n + 1]) = k /\ Len(f[n]) = k - 1 /\ h[k] = s[n + 1]
        BY <1>2, <2>2, <3>1
      <4>. QED  BY <1>0, <1>5, <4>1
    <3>2. CASE k # Len(g) + 1
      <4>1. k \in 1..Len(g)
        BY <1>2, <2>2, <3>2
      <4>2. PICK m \in 1..n : /\ Kept(live, s[m]) /\ Len(f[m]) = k /\ Len(f[m - 1]) = k - 1
                              /\ g[k] = s[m]
        BY <2>3, <4>1 DEF Retains
      <4>3. m \in 1..n + 1 /\ h[k] = s[m]
        BY <1>0, <2>2, <4>1, <4>2
      <4>. QED  BY <4>2, <4>3
    <3>. QED  BY <3>1, <3>2
  <2>6. FirstOf(h, Len(h)) = FirstOf(g, Len(g)) \cup {e}
    <3>1. \A j : j \in 1..Len(h) <=> j \in 1..Len(g) \/ j = Len(g) + 1
      BY <1>2, <2>2
    <3>. HIDE DEF g, h, e
    <3>. QED  BY <2>2, <3>1 DEF FirstOf
  <2>7. FirstOf(g, Len(g)) = KeptOf(live, s, n)
    BY <2>3 DEF Retains
  <2>8. FirstOf(h, Len(h)) = KeptOf(live, s, n + 1)
    BY <1>3, <1>5, <2>6, <2>7
  <2>. QED  BY <2>2, <2>4, <2>5, <2>8 DEF Retains
<1>. QED  BY <1>4, <1>5

(* c[n] is the number of elements that are retained of the first n.        *)
Counts(live, s, r, c) ==
  /\ c \in [0..Len(s) -> Nat] /\ c[0] = 0 /\ c[Len(s)] = Len(r)
  /\ \A n \in 1..Len(s) : IF Kept(live, s[n]) THEN c[n] = c[n - 1] + 1 /\ r[c[n]] = s[n]
                                                  /\ c[n] \in 1..Len(r)
                          ELSE c[n] = c[n - 1]
  /\ \A k \in 1..Len(r) : \E n \in 1..Len(s) :
       /\ Kept(live, s[n]) /\ c[n] = k /\ r[k] = s[n]
       /\ FirstOf(r, k - 1) = KeptOf(live, s, n - 1)

(* What is retained is what is kept, in the order of the block.            *)
LEMMA RetainIs ==
  ASSUME NEW T, NEW s \in Seq(T), NEW live
  PROVE  /\ Retain(live, s) \in Seq(T)
         /\ Range(Retain(live, s)) = {i \in Range(s) : Kept(live, i)}
         /\ \E c : Counts(live, s, Retain(live, s), c)
<1>. DEFINE L == Len(s)
<1>0. L \in Nat /\ DOMAIN s = 1..L
  OBVIOUS
<1>1. PICK f : Steps([is |-> "retain", live |-> live], <<>>, s, f) /\ Retain(live, s) = f[L]
  BY <1>0, RetainSteps
<1>. DEFINE holds == {n \in 0..L : \A m \in 0..n : Retains(live, T, s, f, m)}
<1>2. 0 \in holds
  <2>1. f[0] = <<>> /\ <<>> \in Seq(T) /\ Len(<<>>) = 0 /\ 1..0 = {} /\ 0..0 = {0}
    BY <1>1 DEF Steps
  <2>2. FirstOf(f[0], 0) = {} /\ KeptOf(live, s, 0) = {}
    BY <2>1 DEF FirstOf, KeptOf
  <2>3. Retains(live, T, s, f, 0)
    BY <2>1, <2>2 DEF Retains
  <2>. QED  BY <1>0, <2>1, <2>3
<1>3. ASSUME NEW n \in 0..L - 1, n \in holds PROVE n + 1 \in holds
  <2>1. Retains(live, T, s, f, n + 1)
    BY <1>1, <1>3, RetainOneMore
  <2>2. \A m : m \in 0..n + 1 <=> m \in 0..n \/ m = n + 1
    BY <1>0
  <2>. QED  BY <1>0, <1>3, <2>1, <2>2
<1>4. L \in holds
  <2>. HIDE DEF holds, L
  <2>. QED  BY <1>0, <1>2, <1>3, CountingUp
<1>5. \A n \in 0..L : Retains(live, T, s, f, n)
  BY <1>4
<1>6. Retains(live, T, s, f, L)
  BY <1>0, <1>5
<1>. DEFINE r == f[L]
            c == [n \in 0..L |-> Len(f[n])]
<1>7. r \in Seq(T) /\ Len(r) \in Nat /\ FirstOf(r, Len(r)) = KeptOf(live, s, L)
  BY <1>6 DEF Retains
<1>8. Range(r) = {i \in Range(s) : Kept(live, i)}
  <2>1. Range(r) = FirstOf(r, Len(r))
    BY <1>7 DEF Range, FirstOf
  <2>2. KeptOf(live, s, L) = {i \in Range(s) : Kept(live, i)}
    BY <1>0 DEF Range, KeptOf
  <2>. QED  BY <1>7, <2>1, <2>2
<1>9. \A n \in 0..L : f[n] \in Seq(T) /\ Len(f[n]) \in Nat /\ c[n] = Len(f[n])
  BY <1>5 DEF Retains
<1>10. Counts(live, s, r, c)
  <2>1. c \in [0..L -> Nat]
    BY <1>9
  <2>2. c[0] = 0 /\ c[L] = Len(r)
    <3>1. f[0] = <<>>
      BY <1>1 DEF Steps
    <3>. QED  BY <1>0, <1>9, <3>1
  <2>3. ASSUME NEW n \in 1..L
        PROVE  IF Kept(live, s[n]) THEN c[n] = c[n - 1] + 1 /\ r[c[n]] = s[n] /\ c[n] \in 1..Len(r)
               ELSE c[n] = c[n - 1]
    <3>0. n \in 0..L /\ n - 1 \in 0..L /\ s[n] \in T
      BY <1>0
    <3>1. f[n] = IF Kept(live, s[n]) THEN Append(f[n - 1], s[n]) ELSE f[n - 1]
      BY <1>1 DEF Steps, Step, Kept
    <3>2. CASE ~ Kept(live, s[n])
      BY <1>9, <3>0, <3>1, <3>2
    <3>3. CASE Kept(live, s[n])
      <4>1. f[n - 1] \in Seq(T) /\ Len(f[n - 1]) \in Nat
        BY <1>9, <3>0
      <4>2. Len(f[n]) = Len(f[n - 1]) + 1 /\ f[n][Len(f[n])] = s[n]
        BY <3>0, <3>1, <3>3, <4>1
      <4>3. Len(f[n]) \in 0..Len(r) /\ \A j \in 1..Len(f[n]) : r[j] = f[n][j]
        BY <1>6, <3>0 DEF Retains
      <4>4. Len(f[n]) \in 1..Len(f[n])
        BY <4>1, <4>2
      <4>. QED  BY <1>7, <1>9, <3>0, <3>3, <4>1, <4>2, <4>3, <4>4
    <3>. QED  BY <3>2, <3>3
  <2>4. ASSUME NEW k \in 1..Len(r)
        PROVE  \E n \in 1..L : /\ Kept(live, s[n]) /\ c[n] = k /\ r[k] = s[n]
                               /\ FirstOf(r, k - 1) = KeptOf(live, s, n - 1)
    <3>1. PICK n \in 1..L : /\ Kept(live, s[n]) /\ Len(f[n]) = k /\ Len(f[n - 1]) = k - 1
                            /\ r[k] = s[n]
      BY <1>6 DEF Retains
    <3>2. n \in 0..L /\ n - 1 \in 0..L
      BY <1>0
    <3>3. FirstOf(f[n - 1], k - 1) = KeptOf(live, s, n - 1)
      BY <1>5, <3>1, <3>2 DEF Retains
    <3>4. \A j \in 1..k - 1 : r[j] = f[n - 1][j]
      BY <1>6, <3>1, <3>2 DEF Retains
    <3>5. FirstOf(r, k - 1) = FirstOf(f[n - 1], k - 1)
      <4>. HIDE DEF r
      <4>. QED  BY <3>4 DEF FirstOf
    <3>. QED  BY <1>9, <3>1, <3>2, <3>3, <3>5
  <2>. HIDE DEF c, r
  <2>. QED  BY <2>1, <2>2, <2>3, <2>4 DEF Counts
<1>. QED  BY <1>1, <1>7, <1>8, <1>10

-----------------------------------------------------------------------------
(* Well-formed functions.                                                  *)

Insts(b, k) == b.blocks[k].insts

(* What a well-formed function is made of: at least one block, each a      *)
(* finite list of instructions.                                            *)
LEMMA Shape ==
  ASSUME NEW b, WellFormed(b)
  PROVE  /\ Len(b.blocks) \in Nat /\ DOMAIN b.blocks = 1..Len(b.blocks)
         /\ 1 \in DOMAIN b.blocks /\ IsFiniteSet(DOMAIN b.blocks)
         /\ \A k \in DOMAIN b.blocks :
              /\ b.blocks[k] \in [insts : Seq(Instructions(b)), preds : Seq(DOMAIN b.blocks),
                                  succs : Seq(DOMAIN b.blocks)]
              /\ Insts(b, k) \in Seq(Instructions(b)) /\ Len(Insts(b, k)) \in Nat
              /\ DOMAIN Insts(b, k) = 1..Len(Insts(b, k))
              /\ Targets(b, k) \subseteq DOMAIN b.blocks
         /\ \A i \in Instructions(b) : Proper(i)
<1>. DEFINE ids == DOMAIN b.blocks
            Block == [insts : Seq(Instructions(b)), preds : Seq(ids), succs : Seq(ids)]
<1>1. b.blocks \in Seq(Block) /\ b.blocks # <<>> /\ \A i \in Instructions(b) : Proper(i)
  BY DEF WellFormed, IsFunction
<1>2. Len(b.blocks) \in Nat /\ ids = 1..Len(b.blocks) /\ 1 \in ids
  <2>. HIDE DEF Block
  <2>. QED  BY <1>1
<1>3. IsFiniteSet(ids)
  BY <1>2, FS_Interval
<1>4. ASSUME NEW k \in ids
      PROVE  /\ b.blocks[k] \in Block
             /\ Insts(b, k) \in Seq(Instructions(b)) /\ Len(Insts(b, k)) \in Nat
             /\ DOMAIN Insts(b, k) = 1..Len(Insts(b, k))
             /\ Targets(b, k) \subseteq ids
  <2>1. b.blocks[k] \in Block
    <3>. HIDE DEF Block
    <3>. QED  BY <1>1, <1>2
  <2>2. b.blocks[k].insts \in Seq(Instructions(b)) /\ b.blocks[k].succs \in Seq(ids)
    BY <2>1
  <2>3. Range(b.blocks[k].succs) = Targets(b, k)
    BY DEF WellFormed, TracksEdges
  <2>4. Range(b.blocks[k].succs) \subseteq ids
    BY <2>2 DEF Range
  <2>. HIDE DEF ids
  <2>. QED  BY <2>1, <2>2, <2>3, <2>4 DEF Insts
<1>. QED  BY <1>1, <1>2, <1>3, <1>4

(* An instruction that defines a value is known by the value.              *)
LEMMA OneDefinition ==
  ASSUME NEW b, WellFormed(b), NEW i \in Instructions(b), ~ IsTerminator(i), i.dest # NoValue
  PROVE  /\ i.dest \notin Params
         /\ \A j \in Instructions(b) : ~ IsTerminator(j) /\ j.dest = i.dest => j = i
<1>1. PICK k \in DOMAIN b.blocks : i \in Range(Insts(b, k))
  BY DEF Instructions, Insts
<1>2. PICK n \in DOMAIN Insts(b, k) : i = Insts(b, k)[n]
  BY <1>1 DEF Range
<1>3. \A m \in DOMAIN b.blocks : \A p \in DOMAIN Insts(b, m) :
        IsTerminator(Insts(b, m)[p])
        \/ Insts(b, m)[p].dest \notin Params \cup Defined({Insts(b, m)[q] : q \in 1..p - 1})
  BY DEF WellFormed, DefinedOnce, Insts
<1>4. ASSUME NEW j \in Instructions(b), ~ IsTerminator(j), j.dest = i.dest PROVE j = i
  <2>1. PICK m \in DOMAIN b.blocks : j \in Range(Insts(b, m))
    BY DEF Instructions, Insts
  <2>2. PICK p \in DOMAIN Insts(b, m) : j = Insts(b, m)[p]
    BY <2>1 DEF Range
  <2>3. j.dest \in Dests(b, m) /\ i.dest \in Dests(b, k)
    BY <1>1, <1>4, <2>1 DEF Dests, Defined, Insts
  <2>4. m = k
    BY <1>4, <2>3 DEF WellFormed, DefinedOnce
  <2>5. p \in Nat /\ n \in Nat
    BY <1>2, <2>2, Shape
  <2>6. CASE p = n
    BY <1>2, <2>2, <2>4, <2>6
  <2>7. CASE p < n
    <3>1. p \in 1..n - 1
      BY <2>2, <2>5, <2>7, Shape
    <3>2. j \in {Insts(b, k)[q] : q \in 1..n - 1}
      BY <2>2, <2>4, <3>1
    <3>3. j.dest \in Defined({Insts(b, k)[q] : q \in 1..n - 1})
      BY <1>4, <3>2 DEF Defined
    <3>. QED  BY <1>2, <1>3, <1>4, <3>3
  <2>8. CASE n < p
    <3>1. n \in 1..p - 1
      BY <1>2, <2>5, <2>8, Shape
    <3>2. i \in {Insts(b, m)[q] : q \in 1..p - 1}
      BY <1>2, <2>4, <3>1
    <3>3. i.dest \in Defined({Insts(b, m)[q] : q \in 1..p - 1})
      BY <3>2 DEF Defined
    <3>. QED  BY <1>4, <2>2, <1>3, <3>3
  <2>. QED  BY <2>5, <2>6, <2>7, <2>8
<1>. QED  BY <1>2, <1>3, <1>4

(* A block that dominates another dominates the blocks that jump to it:    *)
(* what strict SSA needs of dominators.                                    *)
LEMMA DominatorsAlongEdges ==
  ASSUME NEW b, WellFormed(b)
  PROVE  /\ \A k \in DOMAIN b.blocks : Dominators(b)[k] \subseteq DOMAIN b.blocks
         /\ Dominators(b)[1] \subseteq {1}
         /\ \A j \in DOMAIN b.blocks : \A k \in Targets(b, j) :
              Dominators(b)[k] \ {k} \subseteq Dominators(b)[j]
<1>. DEFINE ids == DOMAIN b.blocks
            next == [k \in ids |-> Targets(b, k)]
            step(d) == Restrict(next, ids \ {d})
            around == [d \in ids |-> Closure(step(d), {1} \ {d})]
<1>1. Dominators(b) = [k \in ids |-> {d \in ids : d = k \/ k \notin around[d]}]
  BY DEF Dominators
<1>2. ASSUME NEW d \in ids
      PROVE  /\ {1} \ {d} \subseteq around[d]
             /\ \A j \in ids \ {d} : j \in around[d] => Targets(b, j) \subseteq around[d]
  <2>1. DOMAIN step(d) = ids \ {d} /\ \A j \in ids \ {d} : step(d)[j] = Targets(b, j)
    BY DEF Restrict
  <2>. HIDE DEF step
  <2>2. Around(step(d), {1} \ {d}) \subseteq ids
    BY <2>1, Shape DEF Around
  <2>3. IsFiniteSet(Around(step(d), {1} \ {d}))
    BY <2>2, Shape, FS_Subset
  <2>4. {1} \ {d} \subseteq around[d] /\ Closed(step(d), around[d])
    BY <2>3, ClosureIsLeast
  <2>. HIDE DEF around
  <2>. QED  BY <2>1, <2>4 DEF Closed
<1>. HIDE DEF around
<1>3. Dominators(b)[1] \subseteq {1}
  BY <1>1, <1>2, Shape
<1>4. ASSUME NEW j \in ids, NEW k \in Targets(b, j), NEW d \in Dominators(b)[k] \ {k}
      PROVE  d \in Dominators(b)[j]
  <2>1. k \in ids
    BY Shape
  <2>. QED  BY <1>1, <1>2, <1>4, <2>1
<1>. QED  BY <1>1, <1>3, <1>4

(* The blocks that are lowered are closed under jumps, because successors  *)
(* track them.                                                             *)
LEMMA ReachedAlongEdges ==
  ASSUME NEW b, WellFormed(b)
  PROVE  /\ 1 \in ReachableFrom(b, {1}) /\ ReachableFrom(b, {1}) \subseteq DOMAIN b.blocks
         /\ \A j \in ReachableFrom(b, {1}) : Targets(b, j) \subseteq ReachableFrom(b, {1})
<1>. DEFINE ids == DOMAIN b.blocks
            next == [k \in ids |-> Range(b.blocks[k].succs)]
<1>1. ReachableFrom(b, {1}) = Closure(next, {1})
  BY DEF ReachableFrom
<1>2. DOMAIN next = ids /\ \A k \in ids : next[k] = Targets(b, k)
  BY DEF WellFormed, TracksEdges
<1>. HIDE DEF next
<1>3. Around(next, {1}) \subseteq ids
  BY <1>2, Shape DEF Around
<1>4. IsFiniteSet(Around(next, {1}))
  BY <1>3, Shape, FS_Subset
<1>5. /\ {1} \subseteq Closure(next, {1}) /\ Closed(next, Closure(next, {1}))
      /\ Closure(next, {1}) \subseteq Around(next, {1})
  BY <1>4, ClosureIsLeast
<1>. QED  BY <1>1, <1>2, <1>3, <1>5 DEF Closed

-----------------------------------------------------------------------------
(* The machine.                                                            *)

(* What a division raises that may be dead.                                *)
Traps == {DivisionByZero, Overflow}

(* A record with the fields of a machine.                                  *)
IsMachine(m) ==
  m = [env |-> m.env, exc |-> m.exc, at |-> m.at, to |-> m.to,
       result |-> m.result, left |-> m.left]

(* The results of a machine can be told apart.                             *)
LEMMA ResultsDiffer ==
  /\ Stuck # None /\ None \notin Traps /\ Stuck \notin Traps
  /\ OutOfFuel # None /\ OutOfFuel # Stuck /\ OutOfFuel \notin Traps
  /\ \A m, n : Outcome(m, n) # None /\ Outcome(m, n) # Stuck /\ Outcome(m, n) \notin Traps
<1>1. Stuck.is = "stuck" /\ None.is = "none" /\ OutOfFuel.is = "out of fuel"
  BY DEF Stuck, None, OutOfFuel
<1>2. DivisionByZero.is = "division by zero" /\ Overflow.is = "overflow"
  BY DEF DivisionByZero, Overflow
<1>3. \A n : Value(n).is = "value" /\ Raised(n).is = "raised"
  BY DEF Value, Raised
<1>. QED  BY <1>1, <1>2, <1>3 DEF Traps, Outcome

(* A machine that gets a value is a machine, and all else stays.           *)
LEMMA GetsIs ==
  ASSUME NEW m, IsMachine(m), NEW v, NEW n
  PROVE  /\ IsMachine(Gets(m, v, n)) /\ Gets(m, v, n).env = With(m.env, v, n)
         /\ Gets(m, v, n).exc = m.exc /\ Gets(m, v, n).at = m.at /\ Gets(m, v, n).to = m.to
         /\ Gets(m, v, n).result = m.result /\ Gets(m, v, n).left = m.left
BY DEF IsMachine, Gets

(* An instruction runs unless the block has been left; without an operand  *)
(* it is stuck.                                                            *)
LEMMA RunInstIs ==
  ASSUME NEW m, NEW i
  PROVE  RunInst(m, i) = IF m.to # 0 \/ m.result # None THEN m
                         ELSE IF ~(Uses(i) \subseteq DOMAIN m.env) THEN [m EXCEPT !.result = Stuck]
                         ELSE Does(m, i)
<1>1. CASE m.to # 0 \/ m.result # None
  BY <1>1 DEF RunInst
<1>2. CASE m.to = 0 /\ m.result = None /\ ~(Uses(i) \subseteq DOMAIN m.env)
  BY <1>2 DEF RunInst
<1>3. CASE m.to = 0 /\ m.result = None /\ Uses(i) \subseteq DOMAIN m.env
  BY <1>3 DEF RunInst
<1>. QED  BY <1>1, <1>2, <1>3

(* What any instruction does to the machine but for the values.            *)
LEMMA DoesWhat ==
  ASSUME NEW m, IsMachine(m), m.to = 0, m.result = None, NEW i, Proper(i)
  PROVE  LET r == Does(m, i)
         IN /\ IsMachine(r) /\ r.at = m.at /\ r.left = m.left
            /\ IsTerminator(i) =>
                 /\ r.env = m.env /\ r.result # Stuck
                 /\ r.result = None => r.to \in Range(i.targets)
            /\ ~ IsTerminator(i) =>
                 /\ r.to = 0 /\ r.result \in {None} \cup Traps
                 /\ r.result = None =>
                      DOMAIN r.env = DOMAIN m.env \cup IF i.op = "phi" THEN {} ELSE Defined({i})
<1>. DEFINE r == Does(m, i)
<1>0. i.op \in {"phi", "assert", "const", "arith", "unary", "load", "store", "call",
                "return", "jump", "branch"}
  BY DEF Proper
<1>1. CASE i.op \in {"phi", "assert"}
  <2>1. r = m /\ ~ IsTerminator(i)
    BY <1>1 DEF Does, IsTerminator
  <2>2. i.op = "assert" => i.dest = NoValue
    BY DEF Proper
  <2>. QED  BY <1>1, <2>1, <2>2 DEF Defined
<1>2. ASSUME NEW v, r = Gets(m, i.dest, v), i.op \in {"const", "arith", "unary", "load", "call"}
      PROVE  /\ IsMachine(r) /\ r.at = m.at /\ r.left = m.left /\ ~ IsTerminator(i)
             /\ r.to = 0 /\ r.result = None /\ DOMAIN r.env = DOMAIN m.env \cup Defined({i})
  <2>1. ~ IsTerminator(i) /\ i.dest # NoValue
    BY <1>2 DEF IsTerminator, Proper, NoValue
  <2>2. Defined({i}) = {i.dest}
    BY <2>1 DEF Defined
  <2>3. IsMachine(r) /\ r.at = m.at /\ r.left = m.left /\ r.to = 0 /\ r.result = None
        /\ r.env = With(m.env, i.dest, v)
    <3>. HIDE DEF r
    <3>. QED  BY <1>2, GetsIs
  <2>4. DOMAIN r.env = DOMAIN m.env \cup {i.dest}
    <3>. HIDE DEF r
    <3>. QED  BY <2>3 DEF With, Atop
  <2>. HIDE DEF r
  <2>. QED  BY <2>1, <2>2, <2>3, <2>4
<1>3. CASE i.op = "const"
  <2>1. r = Gets(m, i.dest, i.n)
    BY <1>3 DEF Does
  <2>. QED  BY <1>2, <1>3, <2>1
<1>4. CASE i.op = "arith" /\ Trap(i, m.env) = None
  <2>1. r = Gets(m, i.dest, Arithmetic(i.f, m.env[i.l], m.env[i.r]))
    BY <1>4 DEF Does
  <2>. QED  BY <1>2, <1>4, <2>1
<1>5. CASE i.op = "arith" /\ Trap(i, m.env) # None
  <2>1. r = [m EXCEPT !.result = Trap(i, m.env)] /\ ~ IsTerminator(i)
    BY <1>5 DEF Does, IsTerminator
  <2>2. Trap(i, m.env) \in Traps
    BY <1>5 DEF Trap, Traps
  <2>3. IsMachine(r) /\ r.at = m.at /\ r.left = m.left /\ r.to = 0 /\ r.result = Trap(i, m.env)
    BY <2>1 DEF IsMachine
  <2>. QED  BY <1>5, <2>1, <2>2, <2>3
<1>6. CASE i.op = "unary"
  <2>1. r = Gets(m, i.dest, IF i.f = "neg" THEN Wrap(-m.env[i.s]) ELSE Complement(m.env[i.s]))
    BY <1>6 DEF Does
  <2>. QED  BY <1>2, <1>6, <2>1
<1>7. CASE i.op = "load"
  <2>1. r = Gets(m, i.dest, m.exc)
    BY <1>7 DEF Does
  <2>. QED  BY <1>2, <1>7, <2>1
<1>8. CASE i.op = "store"
  <2>1. r = [m EXCEPT !.exc = m.env[i.s]] /\ ~ IsTerminator(i) /\ i.dest = NoValue
    BY <1>8 DEF Does, IsTerminator, Proper
  <2>2. IsMachine(r) /\ r.at = m.at /\ r.left = m.left /\ r.to = 0 /\ r.result = None
        /\ r.env = m.env
    BY <2>1 DEF IsMachine
  <2>. QED  BY <1>8, <2>1, <2>2 DEF Defined
<1>9. CASE i.op = "call"
  <2>1. r = RunCall(m, i, m.env[i.arg])
    BY <1>9 DEF Does
  <2>2. CASE m.env[i.arg] \notin i.f.raises
    <3>1. r = Gets(m, i.dest, m.env[i.arg])
      BY <2>1, <2>2 DEF RunCall
    <3>. QED  BY <1>2, <1>9, <3>1
  <2>3. CASE m.env[i.arg] \in i.f.raises
    <3>. DEFINE g == Gets(m, i.dest, 0)
    <3>1. r = [g EXCEPT !.exc = i.f.id]
      BY <2>1, <2>3 DEF RunCall
    <3>a. /\ IsMachine(g) /\ g.at = m.at /\ g.left = m.left /\ g.to = 0 /\ g.result = None
          /\ g.env = With(m.env, i.dest, 0)
      BY GetsIs
    <3>2. /\ IsMachine(g) /\ g.at = m.at /\ g.left = m.left /\ g.to = 0 /\ g.result = None
          /\ DOMAIN g.env = DOMAIN m.env \cup {i.dest}
      <4>. HIDE DEF g
      <4>. QED  BY <3>a DEF With, Atop
    <3>3. IsMachine(r) /\ r.at = g.at /\ r.left = g.left /\ r.to = g.to /\ r.result = g.result
          /\ r.env = g.env
      <4>. HIDE DEF g
      <4>. QED  BY <3>1, <3>2 DEF IsMachine
    <3>4. ~ IsTerminator(i) /\ i.dest # NoValue
      BY <1>9 DEF IsTerminator, Proper, NoValue
    <3>5. Defined({i}) = {i.dest}
      BY <3>4 DEF Defined
    <3>. HIDE DEF g
    <3>. QED  BY <1>9, <3>2, <3>3, <3>4, <3>5
  <2>. QED  BY <2>2, <2>3
<1>10. CASE i.op = "return"
  <2>1. r = [m EXCEPT !.result = Outcome(m, m.env[i.v])] /\ IsTerminator(i)
    BY <1>10 DEF Does, IsTerminator
  <2>2. /\ IsMachine(r) /\ r.at = m.at /\ r.left = m.left /\ r.env = m.env
        /\ r.result = Outcome(m, m.env[i.v])
    BY <2>1 DEF IsMachine
  <2>. QED  BY <2>1, <2>2, ResultsDiffer
<1>11. CASE i.op \in {"jump", "branch"}
  <2>1. r = Goto(m, i) /\ IsTerminator(i)
    BY <1>11 DEF Does, IsTerminator
  <2>a. 1 \in 1..1 /\ 1 \in 1..2 /\ 2 \in 1..2
    OBVIOUS
  <2>b. DOMAIN i.targets = IF i.op = "branch" THEN 1..2 ELSE 1..1
    BY <1>11 DEF Proper
  <2>2. 1 \in DOMAIN i.targets /\ (i.op = "branch" => 2 \in DOMAIN i.targets)
    BY <2>a, <2>b
  <2>3. /\ IsMachine(r) /\ r.at = m.at /\ r.left = m.left /\ r.env = m.env /\ r.result = None
        /\ r.to \in {i.targets[1]} \cup IF i.op = "branch" THEN {i.targets[2]} ELSE {}
    BY <2>1 DEF IsMachine, Goto
  <2>4. r.to \in Range(i.targets)
    BY <2>2, <2>3 DEF Range
  <2>. QED  BY <2>1, <2>3, <2>4, ResultsDiffer
<1>. HIDE DEF r
<1>. QED  BY <1>0, <1>1, <1>3, <1>4, <1>5, <1>6, <1>7, <1>8, <1>9, <1>10, <1>11 DEF r

-----------------------------------------------------------------------------
(* Strict SSA: operands are there when they are used.                      *)

(* The values there are in block k after the first n instructions.         *)
Available(b, k, n) ==
  ValuesOf(b, Dominators(b)[k] \ {k}) \cup Defined(FirstOf(Insts(b, k), n))

(* A machine between two blocks, and one within block k.                   *)
Between(b, m) ==
  /\ IsMachine(m) /\ m.result # Stuck
  /\ m.result = None =>
       \/ m.at = 0 /\ m.to = 1 /\ Params \subseteq DOMAIN m.env
       \/ /\ m.at \in ReachableFrom(b, {1}) /\ m.to \in Targets(b, m.at)
          /\ ValuesOf(b, Dominators(b)[m.at]) \subseteq DOMAIN m.env

Inside(b, k, n, m) ==
  /\ IsMachine(m) /\ m.result # Stuck /\ m.at = k
  /\ m.result = None => Available(b, k, n) \subseteq DOMAIN m.env
  /\ n < Len(Insts(b, k)) => m.to = 0
  /\ n < Len(Insts(b, k)) /\ m.result = None =>
       {i.dest : i \in Phis(b, k)} \subseteq DOMAIN m.env
  /\ n = Len(Insts(b, k)) /\ m.result = None => m.to \in Targets(b, k)

(* The operands of an instruction are among the values of the blocks that  *)
(* dominate its own and of the instructions before it: strict SSA, for the *)
(* machine.                                                                *)
LEMMA OperandsAvailable ==
  ASSUME NEW b, WellFormed(b), NEW k \in DOMAIN b.blocks, NEW n \in 1..Len(Insts(b, k))
  PROVE  /\ Insts(b, k)[n] \in Instructions(b) /\ Proper(Insts(b, k)[n])
         /\ Uses(Insts(b, k)[n]) \subseteq Available(b, k, n - 1)
         /\ IsTerminator(Insts(b, k)[n]) <=> n = Len(Insts(b, k))
<1>. DEFINE i == Insts(b, k)[n]
<1>1. n \in DOMAIN Insts(b, k) /\ Len(Insts(b, k)) \in Nat
  BY Shape
<1>2. i \in Instructions(b) /\ Proper(i)
  BY <1>1, Shape DEF Instructions, Insts, Range
<1>3. Uses(i) \subseteq Available(b, k, n - 1)
  <2>1. CASE i.op = "phi"
    <3>1. Uses(i) = {}
      BY <2>1 DEF Uses
    <3>. QED  BY <3>1
  <2>2. CASE i.op # "phi"
    BY <1>1, <2>2 DEF WellFormed, DefinedBefore, Available, FirstOf, Insts
  <2>. QED  BY <2>1, <2>2
<1>4. IsTerminator(i) <=> n = Len(Insts(b, k))
  BY <1>1 DEF WellFormed, EndsAtLast, Insts, Last
<1>. QED  BY <1>2, <1>3, <1>4

(* An instruction finds its operands, and the machine is where the next    *)
(* one expects it.                                                         *)
LEMMA StepInside ==
  ASSUME NEW b, WellFormed(b), NEW k \in DOMAIN b.blocks, NEW n \in 1..Len(Insts(b, k)),
         NEW m, Inside(b, k, n - 1, m)
  PROVE  /\ Inside(b, k, n, RunInst(m, Insts(b, k)[n]))
         /\ m.to = 0 /\ (m.result = None => Uses(Insts(b, k)[n]) \subseteq DOMAIN m.env)
<1>. DEFINE i == Insts(b, k)[n]
            r == RunInst(m, i)
<1>0. n - 1 < Len(Insts(b, k)) /\ n \in Nat /\ Len(Insts(b, k)) \in Nat
  BY Shape
<1>1. /\ m.to = 0 /\ IsMachine(m) /\ m.at = k /\ m.result # Stuck
      /\ m.result = None => {j.dest : j \in Phis(b, k)} \subseteq DOMAIN m.env
  BY <1>0 DEF Inside
<1>2. /\ i \in Instructions(b) /\ Proper(i) /\ Uses(i) \subseteq Available(b, k, n - 1)
      /\ IsTerminator(i) <=> n = Len(Insts(b, k))
  BY OperandsAvailable
<1>3. m.result = None => Uses(i) \subseteq DOMAIN m.env
  BY <1>2 DEF Inside
<1>. SUFFICES Inside(b, k, n, r)
  BY <1>1, <1>3
<1>4. CASE m.result # None
  <2>1. r = m
    BY <1>4, RunInstIs
  <2>. QED  BY <1>1, <1>4, <2>1 DEF Inside
<1>5. CASE m.result = None
  <2>1. r = Does(m, i)
    BY <1>1, <1>3, <1>5, RunInstIs
  <2>2. /\ IsMachine(r) /\ r.at = m.at
        /\ IsTerminator(i) =>
             /\ r.env = m.env /\ r.result # Stuck
             /\ r.result = None => r.to \in Range(i.targets)
        /\ ~ IsTerminator(i) =>
             /\ r.to = 0 /\ r.result \in {None} \cup Traps
             /\ r.result = None =>
                  DOMAIN r.env = DOMAIN m.env \cup IF i.op = "phi" THEN {} ELSE Defined({i})
    <3>. HIDE DEF r, i
    <3>. QED  BY <1>1, <1>2, <1>5, <2>1, DoesWhat
  <2>3. Available(b, k, n) = Available(b, k, n - 1) \cup Defined({i})
    <3>1. \A j : j \in 1..n <=> j \in 1..n - 1 \/ j = n
      BY <1>0
    <3>2. FirstOf(Insts(b, k), n) = FirstOf(Insts(b, k), n - 1) \cup {i}
      BY <3>1 DEF FirstOf
    <3>. HIDE DEF i
    <3>. QED  BY <3>2 DEF Available, Defined
  <2>4. Available(b, k, n - 1) \subseteq DOMAIN m.env
    BY <1>5 DEF Inside
  <2>5. i.op = "phi" => Defined({i}) \subseteq {j.dest : j \in Phis(b, k)}
    <3>1. i \in Range(b.blocks[k].insts)
      BY Shape DEF Insts, Range
    <3>. HIDE DEF i
    <3>. QED  BY <3>1 DEF Defined, Phis
  <2>6. CASE IsTerminator(i)
    <3>1. Defined({i}) = {}
      <4>. HIDE DEF i
      <4>. QED  BY <2>6 DEF Defined
    <3>2. r.result = None => r.to \in Targets(b, k)
      <4>1. i \in Range(b.blocks[k].insts)
        BY Shape DEF Insts, Range
      <4>. HIDE DEF i, r
      <4>. QED  BY <2>2, <2>6, <4>1 DEF Targets
    <3>3. r.result = None => Available(b, k, n) \subseteq DOMAIN r.env
      BY <2>2, <2>3, <2>4, <2>6, <3>1
    <3>4. ~ n < Len(Insts(b, k))
      BY <1>0, <1>2, <2>6
    <3>. HIDE DEF i, r
    <3>5. IsMachine(r) /\ r.result # Stuck /\ r.at = k
      BY <1>1, <2>2, <2>6
    <3>. QED  BY <3>2, <3>3, <3>4, <3>5 DEF Inside
  <2>7. CASE ~ IsTerminator(i)
    <3>1. n < Len(Insts(b, k))
      BY <1>0, <1>2, <2>7
    <3>2. r.result # Stuck /\ r.to = 0
      BY <2>2, <2>7, ResultsDiffer
    <3>. HIDE DEF i, r
    <3>3. r.result = None => /\ Available(b, k, n) \subseteq DOMAIN r.env
                             /\ {j.dest : j \in Phis(b, k)} \subseteq DOMAIN r.env
      <4>1. r.result = None => /\ DOMAIN m.env \subseteq DOMAIN r.env
                               /\ Defined({i}) \subseteq DOMAIN r.env
        BY <1>1, <1>5, <2>2, <2>5, <2>7
      <4>. QED  BY <1>1, <1>5, <2>3, <2>4, <4>1
    <3>4. IsMachine(r) /\ r.at = k /\ n # Len(Insts(b, k))
      BY <1>1, <1>2, <2>2, <2>7
    <3>. QED  BY <3>2, <3>3, <3>4 DEF Inside
  <2>. QED  BY <2>6, <2>7
<1>. QED  BY <1>4, <1>5

(* What a jump from block m.at passes to the phis of block k.              *)
PhisPass(b, k, m) ==
  /\ DOMAIN Passed(m, Phis(b, k)) = {i.dest : i \in Phis(b, k)}
  /\ \A i \in Phis(b, k) : /\ Passed(m, Phis(b, k))[i.dest] = m.env[i.args[m.at]]
                           /\ i \in Instructions(b) /\ ~ IsTerminator(i)
                           /\ i.dest # NoValue /\ i.op = "phi"

(* A jump passes one argument to each phi.                                 *)
LEMMA PassedIs ==
  ASSUME NEW b, WellFormed(b), NEW m, NEW k \in DOMAIN b.blocks
  PROVE  PhisPass(b, k, m)
<1>1. ASSUME NEW i \in Phis(b, k)
      PROVE  i \in Instructions(b) /\ ~ IsTerminator(i) /\ i.dest # NoValue /\ i.op = "phi"
  <2>1. i \in Instructions(b) /\ i.op = "phi"
    BY DEF Phis, Instructions
  <2>2. Proper(i)
    BY <2>1, Shape
  <2>. QED  BY <2>1, <2>2 DEF Proper, IsTerminator
<1>2. ASSUME NEW i \in Phis(b, k)
      PROVE  (CHOOSE j \in Phis(b, k) : j.dest = i.dest) = i
  <2>1. \A j \in Phis(b, k) : j.dest = i.dest => j = i
    BY <1>1, OneDefinition
  <2>. QED  BY <2>1
<1>3. DOMAIN Passed(m, Phis(b, k)) = {i.dest : i \in Phis(b, k)}
  BY DEF Passed
<1>4. ASSUME NEW i \in Phis(b, k)
      PROVE  Passed(m, Phis(b, k))[i.dest] = m.env[i.args[m.at]]
  <2>1. Passed(m, Phis(b, k))[i.dest] =
          LET j == CHOOSE j \in Phis(b, k) : j.dest = i.dest IN m.env[j.args[m.at]]
    BY DEF Passed
  <2>. QED  BY <1>2, <2>1
<1>. QED  BY <1>1, <1>3, <1>4 DEF PhisPass

(* What a machine has after a jump: the arguments, on top of what it had.  *)
LEMMA IntoIs ==
  ASSUME NEW b, NEW m, IsMachine(m)
  PROVE  /\ IsMachine(Into(b, m)) /\ Into(b, m).at = m.to /\ Into(b, m).to = 0
         /\ Into(b, m).exc = m.exc /\ Into(b, m).result = m.result
         /\ Into(b, m).left = m.left - 1
         /\ Into(b, m).env = Atop(Passed(m, Phis(b, m.to)), m.env)
<1>. DEFINE r1 == [m EXCEPT !.env = Atop(Passed(m, Phis(b, m.to)), m.env)]
            r2 == [r1 EXCEPT !.at = m.to]
            r3 == [r2 EXCEPT !.to = 0]
            r4 == [r3 EXCEPT !.left = m.left - 1]
<1>1. IsMachine(r1)
  BY DEF IsMachine
<1>2. IsMachine(r2)
  <2>. HIDE DEF r1
  <2>. QED  BY <1>1 DEF IsMachine
<1>3. IsMachine(r3)
  <2>. HIDE DEF r2
  <2>. QED  BY <1>2 DEF IsMachine
<1>4. IsMachine(r4)
  <2>. HIDE DEF r3
  <2>. QED  BY <1>3 DEF IsMachine
<1>5. r4 = Into(b, m)
  BY DEF Into
<1>. DEFINE e == Atop(Passed(m, Phis(b, m.to)), m.env)
<1>6. Into(b, m) = [m EXCEPT !.env = e, !.at = m.to, !.to = 0, !.left = m.left - 1]
  BY DEF Into
<1>7. /\ Into(b, m).env = e /\ Into(b, m).at = m.to /\ Into(b, m).to = 0
      /\ Into(b, m).left = m.left - 1 /\ Into(b, m).exc = m.exc /\ Into(b, m).result = m.result
  <2>. HIDE DEF e
  <2>. QED  BY <1>6 DEF IsMachine
<1>. QED  BY <1>4, <1>5, <1>7

(* A block that a jump leads to has been lowered and takes the arguments   *)
(* that are passed.                                                        *)
LEMMA EntersBlock ==
  ASSUME NEW b, WellFormed(b), NEW m, Between(b, m), m.result = None
  PROVE  /\ m.to \in ReachableFrom(b, {1}) /\ m.to \in DOMAIN b.blocks /\ Enterable(b, m)
         /\ Inside(b, m.to, 0, Into(b, m))
<1>. DEFINE k == m.to
            r == Into(b, m)
<1>1. k \in ReachableFrom(b, {1}) /\ k \in DOMAIN b.blocks
  BY ReachedAlongEdges DEF Between
<1>2. ASSUME NEW i \in Phis(b, k) PROVE m.at \in DOMAIN i.args /\ i.args[m.at] \in DOMAIN m.env
  <2>1. m.at \in ReachableFrom(b, {1}) /\ k \in Targets(b, m.at)
        /\ ValuesOf(b, Dominators(b)[m.at]) \subseteq DOMAIN m.env
    BY <1>2 DEF Between, WellFormed, PhisMatch
  <2>2. m.at \in DOMAIN b.blocks
    BY <2>1, ReachedAlongEdges
  <2>3. m.at \in DOMAIN i.args
    BY <1>1, <2>1, <2>2 DEF WellFormed, PhisMatch
  <2>4. PICK n \in DOMAIN Insts(b, k) : i = Insts(b, k)[n] /\ i.op = "phi"
    BY DEF Phis, Insts, Range
  <2>5. i.args[m.at] \in ValuesOf(b, Dominators(b)[m.at])
    BY <1>1, <2>2, <2>3, <2>4 DEF WellFormed, DefinedBefore, Insts
  <2>. QED  BY <2>1, <2>3, <2>5
<1>3. Enterable(b, m)
  BY <1>1, <1>2 DEF Enterable
<1>4. IsMachine(m)
  BY DEF Between
<1>5. /\ IsMachine(r) /\ r.at = k /\ r.to = 0 /\ r.result = None
      /\ DOMAIN m.env \subseteq DOMAIN r.env /\ {i.dest : i \in Phis(b, k)} \subseteq DOMAIN r.env
  <2>1. r.env = Atop(Passed(m, Phis(b, k)), m.env)
    BY <1>4, IntoIs
  <2>2. /\ IsMachine(r) /\ r.at = k /\ r.to = 0 /\ r.result = None
    BY <1>4, IntoIs
  <2>3. DOMAIN Passed(m, Phis(b, k)) = {i.dest : i \in Phis(b, k)}
    <3>1. k \in DOMAIN b.blocks
      BY <1>1
    <3>. HIDE DEF r, k
    <3>. QED  BY <3>1, PassedIs DEF PhisPass
  <2>. HIDE DEF r, k
  <2>4. DOMAIN r.env = DOMAIN m.env \cup DOMAIN Passed(m, Phis(b, k))
    BY <2>1 DEF Atop
  <2>. QED  BY <2>2, <2>3, <2>4
<1>6. Available(b, k, 0) \subseteq DOMAIN m.env
  <2>1. FirstOf(Insts(b, k), 0) = {}
    BY DEF FirstOf
  <2>2. Available(b, k, 0) = ValuesOf(b, Dominators(b)[k] \ {k})
    BY <2>1 DEF Available, Defined
  <2>3. CASE m.at = 0 /\ m.to = 1 /\ Params \subseteq DOMAIN m.env
    <3>1. Dominators(b)[k] \ {k} = {}
      BY <2>3, DominatorsAlongEdges
    <3>2. ValuesOf(b, {}) = Params
      BY DEF ValuesOf
    <3>. QED  BY <2>2, <2>3, <3>1, <3>2
  <2>4. CASE /\ m.at \in ReachableFrom(b, {1}) /\ m.to \in Targets(b, m.at)
             /\ ValuesOf(b, Dominators(b)[m.at]) \subseteq DOMAIN m.env
    <3>1. Dominators(b)[k] \ {k} \subseteq Dominators(b)[m.at]
      BY <2>4, ReachedAlongEdges, DominatorsAlongEdges
    <3>2. ValuesOf(b, Dominators(b)[k] \ {k}) \subseteq ValuesOf(b, Dominators(b)[m.at])
      BY <3>1 DEF ValuesOf
    <3>. QED  BY <2>2, <2>4, <3>2
  <2>. QED  BY <2>3, <2>4 DEF Between
<1>7. 0 # Len(Insts(b, k))
  <2>1. Insts(b, k) # <<>> /\ Insts(b, k) \in Seq(Instructions(b))
    BY <1>1, Shape DEF WellFormed, EndsAtLast, Insts
  <2>. QED  BY <2>1
<1>8. Inside(b, k, 0, r)
  <2>. HIDE DEF r, k
  <2>. QED  BY <1>5, <1>6, <1>7, ResultsDiffer DEF Inside
<1>. QED  BY <1>1, <1>3, <1>8

(* What a block does to a machine, instruction by instruction.             *)
Blockwise(b, m, f) ==
  /\ Steps([is |-> "run"], Into(b, m), Insts(b, m.to), f)
  /\ RunBlock(b, m) = f[Len(Insts(b, m.to))]
  /\ StuckIfNoWayOut(f[Len(Insts(b, m.to))]) = f[Len(Insts(b, m.to))]

(* In a block the machine is, after each instruction, where the next one   *)
(* expects it.                                                             *)
LEMMA BlockRuns ==
  ASSUME NEW b, WellFormed(b), NEW m, Between(b, m), m.result = None, m.left # 0
  PROVE  \E f : /\ Blockwise(b, m, f)
                /\ \A n \in 0..Len(Insts(b, m.to)) : Inside(b, m.to, n, f[n])
<1>. DEFINE k == m.to
            s == Insts(b, k)
<1>1. k \in DOMAIN b.blocks /\ Enterable(b, m) /\ Inside(b, k, 0, Into(b, m))
  BY EntersBlock
<1>2. DOMAIN s = 1..Len(s) /\ Len(s) \in Nat
  BY <1>1, Shape
<1>3. PICK f : /\ Steps([is |-> "run"], Into(b, m), s, f)
               /\ FoldLeft(RunInst, Into(b, m), s) = f[Len(s)]
  <2>. HIDE DEF s
  <2>. QED  BY <1>2, RunSteps
<1>4. f[0] = Into(b, m) /\ \A n \in 1..Len(s) : f[n] = RunInst(f[n - 1], s[n])
  BY <1>3 DEF Steps, Step
<1>. DEFINE holds == {n \in 0..Len(s) : Inside(b, k, n, f[n])}
<1>5. 0 \in holds
  BY <1>1, <1>2, <1>4
<1>6. ASSUME NEW n \in 0..Len(s) - 1, n \in holds PROVE n + 1 \in holds
  <2>1. n + 1 \in 1..Len(s) /\ (n + 1) - 1 = n /\ n + 1 \in 0..Len(s)
    BY <1>2
  <2>2. Inside(b, k, n + 1, RunInst(f[n], s[n + 1]))
    BY <1>1, <1>6, <2>1, StepInside
  <2>. QED  BY <1>4, <2>1, <2>2
<1>7. \A n \in 0..Len(s) : n \in holds
  <2>. HIDE DEF holds, s
  <2>. QED  BY <1>2, <1>5, <1>6, CountingUp
<1>8. Inside(b, k, Len(s), f[Len(s)])
  BY <1>2, <1>7
<1>9. RunBlock(b, m) = f[Len(s)] /\ StuckIfNoWayOut(f[Len(s)]) = f[Len(s)]
  <2>1. 0 \notin DOMAIN b.blocks /\ Targets(b, k) \subseteq DOMAIN b.blocks
    BY <1>1, Shape
  <2>2. StuckIfNoWayOut(f[Len(s)]) = f[Len(s)]
    BY <1>8, <2>1 DEF StuckIfNoWayOut, Inside
  <2>3. RunBlock(b, m) = StuckIfNoWayOut(FoldLeft(RunInst, Into(b, m), s))
    BY <1>1 DEF RunBlock, Insts
  <2>. QED  BY <1>3, <2>2, <2>3
<1>. QED  BY <1>3, <1>7, <1>9 DEF Blockwise

(* Well-formed code does not get stuck: each value is there where it is    *)
(* used and each block has a way out.                                      *)
LEMMA NeverStuck ==
  ASSUME NEW b, WellFormed(b), NEW m, Between(b, m), m.result = None
  PROVE  Between(b, RunBlock(b, m))
<1>. DEFINE k == m.to
            r == RunBlock(b, m)
<1>1. k \in ReachableFrom(b, {1}) /\ k \in DOMAIN b.blocks /\ Enterable(b, m)
  BY EntersBlock
<1>2. CASE m.left = 0
  <2>1. r = [m EXCEPT !.result = OutOfFuel]
    BY <1>1, <1>2 DEF RunBlock
  <2>2. IsMachine(r) /\ r.result = OutOfFuel
    BY <2>1 DEF Between, IsMachine
  <2>. QED  BY <2>2, ResultsDiffer DEF Between
<1>3. CASE m.left # 0
  <2>1. Inside(b, k, Len(Insts(b, k)), r)
    <3>1. Len(Insts(b, k)) \in 0..Len(Insts(b, k))
      BY <1>1, Shape
    <3>. QED  BY <1>3, <3>1, BlockRuns DEF Blockwise
  <2>2. Available(b, k, Len(Insts(b, k))) = ValuesOf(b, Dominators(b)[k])
    <3>1. FirstOf(Insts(b, k), Len(Insts(b, k))) = Range(Insts(b, k))
      BY <1>1, Shape DEF FirstOf, Range
    <3>2. k \in Dominators(b)[k]
      BY <1>1 DEF Dominators
    <3>3. Defined(FirstOf(Insts(b, k), Len(Insts(b, k)))) = Dests(b, k)
      BY <3>1 DEF Dests, Insts
    <3>. QED  BY <3>2, <3>3 DEF Available, ValuesOf
  <2>3. Between(b, r)
    <3>. HIDE DEF r, k
    <3>. QED  BY <1>1, <2>1, <2>2 DEF Inside, Between
  <2>. QED  BY <2>3
<1>. QED  BY <1>2, <1>3

-----------------------------------------------------------------------------
(* Constant folding: what is known.                                        *)

(* What is learnt from an instruction, and whether anything is.            *)
Learns(known, i) ==
  \/ i.op = "const"
  \/ i.op = "arith" /\ i.f \in {"add", "sub", "mul"} /\ {i.l, i.r} \subseteq DOMAIN known
  \/ i.op = "unary" /\ i.f = "neg" /\ i.s \in DOMAIN known

Learnt(known, i) ==
  IF i.op = "const" THEN i.n
  ELSE IF i.op = "arith" THEN Wrap(Binary(i.f, known[i.l], known[i.r]))
  ELSE Wrap(-known[i.s])

(* Each constant is what an instruction of b computes from constants.      *)
Justified(b, known) ==
  \A v \in DOMAIN known : \E i \in Instructions(b) :
    ~ IsTerminator(i) /\ i.dest = v /\ Learns(known, i) /\ known[v] = Learnt(known, i)

(* What Learn does: one more constant, or nothing.                         *)
LEMMA LearnIs ==
  ASSUME NEW known, NEW i
  PROVE  Learn(known, i) = IF Learns(known, i) THEN With(known, i.dest, Learnt(known, i)) ELSE known
<1>1. CASE i.op = "const"
  BY <1>1 DEF Learn, Learns, Learnt
<1>2. CASE i.op = "arith" /\ i.f \in {"add", "sub", "mul"} /\ {i.l, i.r} \subseteq DOMAIN known
  BY <1>2 DEF Learn, Learns, Learnt
<1>3. CASE i.op = "unary" /\ i.f = "neg" /\ i.s \in DOMAIN known
  BY <1>3 DEF Learn, Learns, Learnt
<1>4. CASE ~ Learns(known, i)
  BY <1>4 DEF Learn, Learns
<1>. QED  BY <1>1, <1>2, <1>3, <1>4 DEF Learns

(* Constants are the values of instructions that compute and do nothing    *)
(* else.                                                                   *)
LEMMA LearnsNoTerminator ==
  ASSUME NEW known, NEW i, Learns(known, i), Proper(i)
  PROVE  ~ IsTerminator(i) /\ i.dest # NoValue /\ ~ HasSideEffects(i) /\ i.op # "phi"
BY DEF Learns, IsTerminator, Proper, HasSideEffects, NoValue

(* A constant that is learnt overwrites none: each value is defined once.  *)
LEMMA LearnJustified ==
  ASSUME NEW b, WellFormed(b), NEW i \in Instructions(b), NEW known, Justified(b, known)
  PROVE  Justified(b, Learn(known, i))
<1>1. CASE ~ Learns(known, i)
  BY <1>1, LearnIs
<1>2. CASE Learns(known, i)
  <2>. DEFINE e == Learnt(known, i)
              k == With(known, i.dest, e)
  <2>1. Learn(known, i) = k
    BY <1>2, LearnIs
  <2>2. Proper(i)
    BY Shape
  <2>3. ~ IsTerminator(i) /\ i.dest # NoValue
    BY <1>2, <2>2, LearnsNoTerminator
  <2>4. \A v \in DOMAIN known : k[v] = known[v]
    <3>1. ASSUME i.dest \in DOMAIN known PROVE known[i.dest] = e
      <4>1. PICK j \in Instructions(b) : /\ ~ IsTerminator(j) /\ j.dest = i.dest
                                         /\ known[i.dest] = Learnt(known, j)
        BY <3>1 DEF Justified
      <4>2. j = i
        BY <2>3, <4>1, OneDefinition
      <4>. QED  BY <4>1, <4>2
    <3>. HIDE DEF e
    <3>. QED  BY <3>1 DEF With, Atop
  <2>5. DOMAIN k = DOMAIN known \cup {i.dest} /\ k[i.dest] = e
    BY DEF With, Atop
  <2>. HIDE DEF k
  <2>6. ASSUME NEW j, Learns(known, j) PROVE Learns(k, j) /\ Learnt(k, j) = Learnt(known, j)
    BY <2>4, <2>5, <2>6 DEF Learns, Learnt
  <2>7. ASSUME NEW v \in DOMAIN k
        PROVE  \E j \in Instructions(b) :
                 ~ IsTerminator(j) /\ j.dest = v /\ Learns(k, j) /\ k[v] = Learnt(k, j)
    <3>1. CASE v \in DOMAIN known
      <4>1. PICK j \in Instructions(b) : /\ ~ IsTerminator(j) /\ j.dest = v
                                         /\ Learns(known, j) /\ known[v] = Learnt(known, j)
        BY <3>1 DEF Justified
      <4>. QED  BY <2>4, <2>6, <3>1, <4>1
    <3>2. CASE v = i.dest
      <4>1. Learns(k, i) /\ k[v] = Learnt(k, i)
        BY <1>2, <2>5, <2>6, <3>2
      <4>. QED  BY <2>3, <3>2, <4>1
    <3>. QED  BY <2>5, <2>7, <3>1, <3>2
  <2>8. Justified(b, k)
    BY <2>7 DEF Justified
  <2>. QED  BY <2>1, <2>8
<1>. QED  BY <1>1, <1>2

(* So it is after a block.                                                 *)
LEMMA BlockJustified ==
  ASSUME NEW b, WellFormed(b), NEW k \in DOMAIN b.blocks, NEW known, Justified(b, known)
  PROVE  Justified(b, FoldLeft(Learn, known, Insts(b, k)))
<1>. DEFINE s == Insts(b, k)
<1>1. s \in Seq(Instructions(b)) /\ DOMAIN s = 1..Len(s) /\ Len(s) \in Nat
  BY Shape
<1>2. PICK f : Steps([is |-> "learn"], known, s, f) /\ FoldLeft(Learn, known, s) = f[Len(s)]
  <2>. HIDE DEF s
  <2>. QED  BY <1>1, LearnSteps
<1>3. f[0] = known /\ \A n \in 1..Len(s) : f[n] = Learn(f[n - 1], s[n])
  BY <1>2 DEF Steps, Step
<1>. DEFINE holds == {n \in 0..Len(s) : Justified(b, f[n])}
<1>. HIDE DEF s
<1>4. 0 \in holds
  BY <1>1, <1>3
<1>5. ASSUME NEW n \in 0..Len(s) - 1, n \in holds PROVE n + 1 \in holds
  <2>1. n + 1 \in 1..Len(s) /\ (n + 1) - 1 = n /\ n + 1 \in 0..Len(s)
    BY <1>1
  <2>2. s[n + 1] \in Instructions(b)
    BY <1>1, <2>1
  <2>3. Justified(b, Learn(f[n], s[n + 1]))
    BY <1>5, <2>2, LearnJustified
  <2>. QED  BY <1>3, <2>1, <2>3
<1>6. \A n \in 0..Len(s) : n \in holds
  <2>. HIDE DEF holds
  <2>. QED  BY <1>1, <1>4, <1>5, CountingUp
<1>. QED  BY <1>1, <1>2, <1>6 DEF s

(* So it is in the end, and each constant is computed by the one           *)
(* instruction that defines it.                                            *)
LEMMA ConstantsJustified ==
  ASSUME NEW b, WellFormed(b)
  PROVE  Justified(b, Constants(b))
<1>. DEFINE L == Len(b.blocks)
<1>1. L \in Nat /\ DOMAIN b.blocks = 1..L
  BY Shape
<1>2. PICK f : Steps([is |-> "block"], <<>>, b.blocks, f) /\ Constants(b) = f[L]
  BY <1>1, BlockSteps
<1>3. f[0] = <<>> /\ \A n \in 1..L : f[n] = FoldLeft(Learn, f[n - 1], Insts(b, n))
  BY <1>2 DEF Steps, Step, Insts
<1>. DEFINE holds == {n \in 0..L : Justified(b, f[n])}
<1>. HIDE DEF L
<1>4. 0 \in holds
  <2>1. Justified(b, <<>>)
    BY DEF Justified
  <2>. QED  BY <1>1, <1>3, <2>1
<1>5. ASSUME NEW n \in 0..L - 1, n \in holds PROVE n + 1 \in holds
  <2>1. n + 1 \in 1..L /\ (n + 1) - 1 = n /\ n + 1 \in 0..L
    BY <1>1
  <2>2. Justified(b, FoldLeft(Learn, f[n], Insts(b, n + 1)))
    BY <1>1, <1>5, <2>1, BlockJustified
  <2>. QED  BY <1>3, <2>1, <2>2
<1>6. \A n \in 0..L : n \in holds
  <2>. HIDE DEF holds
  <2>. QED  BY <1>1, <1>4, <1>5, CountingUp
<1>. QED  BY <1>1, <1>2, <1>6 DEF L

-----------------------------------------------------------------------------
(* Passes that replace instructions and leave the control flow.            *)

(* The ways out of a block.                                                *)
Ends(b, k) == {i \in Range(Insts(b, k)) : IsTerminator(i)}

(* c is b with other instructions in its blocks, and with the same control *)
(* flow.                                                                   *)
Alike(b, c) ==
  /\ "blocks" \in DOMAIN c
  /\ c.blocks = [k \in DOMAIN b.blocks |->
                   [insts |-> Insts(c, k), preds |-> b.blocks[k].preds, succs |-> b.blocks[k].succs]]
  /\ \A k \in DOMAIN b.blocks :
       /\ Insts(c, k) \in Seq(Instructions(c)) /\ EndsAtLast(Insts(c, k))
       /\ Ends(c, k) = Ends(b, k) /\ Phis(c, k) \subseteq Phis(b, k)
  /\ \A i \in Instructions(c) : Proper(i)

(* The form that does not depend on the instructions within the blocks     *)
(* carries over.                                                           *)
LEMMA AlikeForm ==
  ASSUME NEW b, WellFormed(b), NEW c, Alike(b, c)
  PROVE  /\ DOMAIN c.blocks = DOMAIN b.blocks
         /\ \A k \in DOMAIN b.blocks : Targets(c, k) = Targets(b, k)
         /\ Dominators(c) = Dominators(b) /\ ReachableFrom(c, {1}) = ReachableFrom(b, {1})
         /\ IsFunction(c) /\ TracksEdges(c) /\ PhisMatch(c)
         /\ \A k \in DOMAIN c.blocks : EndsAtLast(c.blocks[k].insts)
<1>. DEFINE ids == DOMAIN b.blocks
            L == Len(b.blocks)
<1>1. DOMAIN c.blocks = ids
  BY DEF Alike
<1>2. \A k \in ids : Targets(c, k) = Targets(b, k)
  BY DEF Alike, Targets, Ends, Insts
<1>3. \A k \in ids : c.blocks[k].preds = b.blocks[k].preds /\ c.blocks[k].succs = b.blocks[k].succs
  BY DEF Alike
<1>4. Dominators(c) = Dominators(b)
  <2>1. [k \in DOMAIN c.blocks |-> Targets(c, k)] = [k \in DOMAIN b.blocks |-> Targets(b, k)]
    BY <1>1, <1>2
  <2>. QED  BY <1>1, <2>1 DEF Dominators
<1>5. ReachableFrom(c, {1}) = ReachableFrom(b, {1})
  <2>1. [k \in DOMAIN c.blocks |-> Range(c.blocks[k].succs)]
          = [k \in DOMAIN b.blocks |-> Range(b.blocks[k].succs)]
    BY <1>1, <1>3
  <2>. QED  BY <2>1 DEF ReachableFrom
<1>6. IsFunction(c)
  <2>. DEFINE Block == [insts : Seq(Instructions(c)), preds : Seq(ids), succs : Seq(ids)]
  <2>1. \A k \in ids : c.blocks[k] \in Block
    <3>1. \A k \in ids : b.blocks[k].preds \in Seq(ids) /\ b.blocks[k].succs \in Seq(ids)
      BY Shape
    <3>. QED  BY <3>1 DEF Alike
  <2>2. L \in Nat /\ ids = 1..L /\ 1 \in ids
    BY Shape
  <2>3. c.blocks \in [1..L -> Block]
    <3>. HIDE DEF Block, L
    <3>. QED  BY <2>1, <2>2 DEF Alike
  <2>4. c.blocks \in Seq(Block) /\ c.blocks # <<>>
    <3>. HIDE DEF Block, L
    <3>1. c.blocks \in Seq(Block)
      BY <2>2, <2>3
    <3>. QED  BY <1>1, <2>2, <3>1
  <2>5. "blocks" \in DOMAIN c /\ \A i \in Instructions(c) : Proper(i)
    BY DEF Alike
  <2>. QED  BY <1>1, <2>4, <2>5 DEF IsFunction
<1>7. TracksEdges(c)
  BY <1>1, <1>2, <1>3 DEF WellFormed, TracksEdges
<1>8. PhisMatch(c)
  <2>1. Phis(c, 1) = {}
    BY Shape DEF Alike, WellFormed, PhisMatch
  <2>2. \A k \in ids : {j \in DOMAIN c.blocks : k \in Targets(c, j)} = {j \in ids : k \in Targets(b, j)}
    BY <1>1, <1>2
  <2>. QED  BY <1>1, <2>1, <2>2 DEF Alike, WellFormed, PhisMatch
<1>9. \A k \in DOMAIN c.blocks : EndsAtLast(c.blocks[k].insts)
  BY <1>1 DEF Alike, Insts
<1>. QED  BY <1>1, <1>2, <1>4, <1>5, <1>6, <1>7, <1>8, <1>9

(* What folding does to an instruction.                                    *)
LEMMA FoldIs ==
  ASSUME NEW b, WellFormed(b), NEW i \in Instructions(b)
  PROVE  LET j == Fold(Constants(b), i)
         IN /\ Proper(j) /\ Uses(j) \subseteq Uses(i)
            /\ (IsTerminator(j) <=> IsTerminator(i)) /\ (IsTerminator(i) => j = i)
            /\ (j.op = "phi" <=> i.op = "phi") /\ (i.op = "phi" => j = i)
            /\ ~ IsTerminator(i) => j.dest = i.dest
            /\ ~ IsTerminator(i) /\ i.dest \in DOMAIN Constants(b) =>
                 Learns(Constants(b), i) /\ j = ConstInt(i.dest, Learnt(Constants(b), i))
            /\ IsTerminator(i) \/ i.dest \notin DOMAIN Constants(b) => j = i
<1>. DEFINE known == Constants(b)
            j == Fold(known, i)
<1>1. Proper(i)
  BY Shape
<1>2. CASE ~(~ IsTerminator(i) /\ i.dest \in DOMAIN known)
  <2>1. j = i
    BY <1>2 DEF Fold
  <2>. QED  BY <1>1, <1>2, <2>1
<1>3. CASE ~ IsTerminator(i) /\ i.dest \in DOMAIN known
  <2>1. PICK l \in Instructions(b) :
          ~ IsTerminator(l) /\ l.dest = i.dest /\ Learns(known, l) /\ known[i.dest] = Learnt(known, l)
    BY <1>3, ConstantsJustified DEF Justified
  <2>2. Proper(l)
    BY Shape
  <2>3. l.dest # NoValue /\ l.op # "phi"
    BY <2>1, <2>2, LearnsNoTerminator
  <2>4. l = i
    BY <1>3, <2>1, <2>3, OneDefinition
  <2>5. j = ConstInt(i.dest, Learnt(known, i)) /\ Learns(known, i)
    BY <1>3, <2>1, <2>4 DEF Fold
  <2>6. i.dest \in Nat \ {NoValue}
    BY <1>1, <2>4, <2>5 DEF Learns, Proper
  <2>. HIDE DEF known, j
  <2>7. j.op = "const" /\ j.dest = i.dest
    BY <2>5 DEF ConstInt
  <2>8. Proper(j) /\ ~ IsTerminator(j) /\ Uses(j) = {} /\ j.op # "phi"
    BY <2>6, <2>7 DEF Proper, IsTerminator, Uses
  <2>. QED  BY <1>3, <2>3, <2>4, <2>5, <2>7, <2>8 DEF j, known
<1>. QED  BY <1>2, <1>3

(* Folding replaces instructions, one for one, and leaves the edges.       *)
LEMMA FoldedBlocks ==
  ASSUME NEW b, WellFormed(b)
  PROVE  LET c == FoldConstants(b)
         IN /\ "blocks" \in DOMAIN c
            /\ c.blocks = [k \in DOMAIN b.blocks |->
                   [insts |-> Insts(c, k), preds |-> b.blocks[k].preds, succs |-> b.blocks[k].succs]]
            /\ \A k \in DOMAIN b.blocks :
                 Insts(c, k) = [n \in DOMAIN Insts(b, k) |-> Fold(Constants(b), Insts(b, k)[n])]
            /\ c.error = b.error
<1>. DEFINE c == FoldConstants(b)
            known == Constants(b)
            folded(k) == [n \in DOMAIN Insts(b, k) |-> Fold(known, Insts(b, k)[n])]
<1>1. "blocks" \in DOMAIN b
  BY DEF WellFormed, IsFunction
<1>2. c = [b EXCEPT !.blocks = [k \in DOMAIN b.blocks |-> [b.blocks[k] EXCEPT !.insts = folded(k)]]]
  BY DEF FoldConstants, Insts
<1>3. DOMAIN c = DOMAIN b /\ c.error = b.error
      /\ c.blocks = [k \in DOMAIN b.blocks |-> [b.blocks[k] EXCEPT !.insts = folded(k)]]
  <2>. HIDE DEF known
  <2>. QED  BY <1>1, <1>2
<1>4. ASSUME NEW k \in DOMAIN b.blocks
      PROVE  [b.blocks[k] EXCEPT !.insts = folded(k)]
               = [insts |-> folded(k), preds |-> b.blocks[k].preds, succs |-> b.blocks[k].succs]
  <2>1. b.blocks[k] \in [insts : Seq(Instructions(b)), preds : Seq(DOMAIN b.blocks),
                                  succs : Seq(DOMAIN b.blocks)]
    BY Shape
  <2>. HIDE DEF folded
  <2>. QED  BY <2>1
<1>5. ASSUME NEW k \in DOMAIN b.blocks
      PROVE  /\ Insts(c, k) = folded(k)
             /\ c.blocks[k] = [insts |-> Insts(c, k), preds |-> b.blocks[k].preds,
                               succs |-> b.blocks[k].succs]
  <2>. HIDE DEF folded, c
  <2>. QED  BY <1>3, <1>4 DEF Insts
<1>. QED
  <2>. HIDE DEF folded, c
  <2>1. c.blocks = [k \in DOMAIN b.blocks |->
           [insts |-> Insts(c, k), preds |-> b.blocks[k].preds, succs |-> b.blocks[k].succs]]
    BY <1>3, <1>5
  <2>2. \A k \in DOMAIN b.blocks : Insts(c, k) = folded(k)
    BY <1>5
  <2>3. "blocks" \in DOMAIN c /\ c.error = b.error
    BY <1>1, <1>3
  <2>. QED  BY <2>1, <2>2, <2>3 DEF folded, c

(* Folded instructions define what the original ones do.                   *)
LEMMA FoldDefined ==
  ASSUME NEW b, WellFormed(b), NEW S \in SUBSET Instructions(b)
  PROVE  Defined({Fold(Constants(b), i) : i \in S}) = Defined(S)
<1>. DEFINE fold(i) == Fold(Constants(b), i)
<1>1. \A i \in Instructions(b) :
        (IsTerminator(fold(i)) <=> IsTerminator(i)) /\ (~ IsTerminator(i) => fold(i).dest = i.dest)
  BY FoldIs
<1>. HIDE DEF fold
<1>2. Defined({fold(i) : i \in S}) = Defined(S)
  BY <1>1 DEF Defined
<1>. QED  BY <1>2 DEF fold

(* A folded block, instruction by instruction.                             *)
LEMMA FoldedInsts ==
  ASSUME NEW b, WellFormed(b), NEW k \in DOMAIN b.blocks
  PROVE  LET s == Insts(b, k)
             t == Insts(FoldConstants(b), k)
         IN /\ DOMAIN t = DOMAIN s /\ Len(t) = Len(s)
            /\ t = [n \in 1..Len(s) |-> t[n]]
            /\ \A n \in DOMAIN s : s[n] \in Instructions(b) /\ t[n] = Fold(Constants(b), s[n])
<1>. DEFINE s == Insts(b, k)
            t == Insts(FoldConstants(b), k)
<1>1. t = [n \in DOMAIN s |-> Fold(Constants(b), s[n])]
  BY FoldedBlocks
<1>2. s \in Seq(Instructions(b)) /\ Len(s) \in Nat /\ DOMAIN s = 1..Len(s)
  BY Shape
<1>. HIDE DEF t, s
<1>3. DOMAIN t = 1..Len(s) /\ t = [n \in 1..Len(s) |-> t[n]]
      /\ \A n \in DOMAIN s : t[n] = Fold(Constants(b), s[n])
  BY <1>1, <1>2
<1>4. Len(t) = Len(s)
  <2>. DEFINE e(n) == t[n]
  <2>1. t = [n \in 1..Len(s) |-> e(n)]
    BY <1>3
  <2>. HIDE DEF e
  <2>2. Len([n \in 1..Len(s) |-> e(n)]) = Len(s)
    BY <1>2
  <2>. QED  BY <2>1, <2>2
<1>5. \A n \in DOMAIN s : s[n] \in Instructions(b)
  BY <1>2
<1>. QED  BY <1>2, <1>3, <1>4, <1>5 DEF s, t

(* Folding leaves the control flow, and the phis.                          *)
LEMMA FoldAlike ==
  ASSUME NEW b, WellFormed(b)
  PROVE  /\ Alike(b, FoldConstants(b))
         /\ \A k \in DOMAIN b.blocks : Phis(FoldConstants(b), k) = Phis(b, k)
<1>. DEFINE c == FoldConstants(b)
            fold(i) == Fold(Constants(b), i)
<1>1. \A i \in Instructions(b) :
        /\ Proper(fold(i)) /\ (IsTerminator(fold(i)) <=> IsTerminator(i))
        /\ IsTerminator(i) => fold(i) = i
        /\ (fold(i).op = "phi" <=> i.op = "phi") /\ (i.op = "phi" => fold(i) = i)
  BY FoldIs
<1>2. /\ "blocks" \in DOMAIN c
      /\ c.blocks = [k \in DOMAIN b.blocks |->
              [insts |-> Insts(c, k), preds |-> b.blocks[k].preds, succs |-> b.blocks[k].succs]]
  BY FoldedBlocks
<1>3. ASSUME NEW k \in DOMAIN b.blocks
      PROVE  /\ Range(Insts(c, k)) = {fold(i) : i \in Range(Insts(b, k))}
             /\ Range(Insts(b, k)) \subseteq Instructions(b)
             /\ \A n \in DOMAIN Insts(b, k) : Insts(b, k)[n] \in Instructions(b)
             /\ Len(Insts(c, k)) = Len(Insts(b, k))
             /\ DOMAIN Insts(c, k) = 1..Len(Insts(b, k))
             /\ Insts(c, k) = [n \in 1..Len(Insts(b, k)) |-> Insts(c, k)[n]]
             /\ \A n \in 1..Len(Insts(b, k)) : Insts(c, k)[n] = fold(Insts(b, k)[n])
             /\ DOMAIN Insts(b, k) = 1..Len(Insts(b, k)) /\ Len(Insts(b, k)) \in Nat
  <2>1. /\ DOMAIN Insts(b, k) = 1..Len(Insts(b, k)) /\ Len(Insts(b, k)) \in Nat
    BY Shape
  <2>2. /\ DOMAIN Insts(c, k) = DOMAIN Insts(b, k) /\ Len(Insts(c, k)) = Len(Insts(b, k))
        /\ Insts(c, k) = [n \in 1..Len(Insts(b, k)) |-> Insts(c, k)[n]]
        /\ \A n \in DOMAIN Insts(b, k) : Insts(b, k)[n] \in Instructions(b)
                                         /\ Insts(c, k)[n] = fold(Insts(b, k)[n])
    BY FoldedInsts
  <2>. HIDE DEF c, fold
  <2>3. Range(Insts(c, k)) = {fold(i) : i \in Range(Insts(b, k))}
    BY <2>2 DEF Range
  <2>4. Range(Insts(b, k)) \subseteq Instructions(b)
    BY <2>2 DEF Range
  <2>. QED  BY <2>1, <2>2, <2>3, <2>4
<1>4. DOMAIN c.blocks = DOMAIN b.blocks
  <2>. HIDE DEF c
  <2>. QED  BY <1>2
<1>. HIDE DEF c, fold
<1>5. ASSUME NEW k \in DOMAIN b.blocks
      PROVE  Ends(c, k) = Ends(b, k) /\ Phis(c, k) = Phis(b, k)
  <2>. DEFINE S == Range(Insts(b, k))
              T == Range(Insts(c, k))
  <2>1. T = {fold(i) : i \in S} /\ S \subseteq Instructions(b)
    BY <1>3
  <2>. HIDE DEF S, T
  <2>2. \A i \in S : /\ IsTerminator(fold(i)) <=> IsTerminator(i)
                     /\ IsTerminator(i) => fold(i) = i
    BY <1>1, <2>1
  <2>3. \A i \in S : /\ fold(i).op = "phi" <=> i.op = "phi"
                     /\ i.op = "phi" => fold(i) = i
    BY <1>1, <2>1
  <2>4. {i \in T : IsTerminator(i)} = {i \in S : IsTerminator(i)}
    BY <2>1, <2>2
  <2>5. {i \in T : i.op = "phi"} = {i \in S : i.op = "phi"}
    BY <2>1, <2>3
  <2>. QED  BY <2>4, <2>5 DEF Ends, Phis, Insts, S, T
<1>6. \A i \in Instructions(c) : Proper(i)
  <2>. SUFFICES ASSUME NEW k \in DOMAIN b.blocks, NEW i \in Range(Insts(c, k)) PROVE Proper(i)
    BY <1>4 DEF Instructions, Insts
  <2>. QED  BY <1>1, <1>3
<1>7. ASSUME NEW k \in DOMAIN b.blocks
      PROVE  Insts(c, k) \in Seq(Instructions(c)) /\ EndsAtLast(Insts(c, k))
  <2>1. \A n \in DOMAIN Insts(c, k) : Insts(c, k)[n] \in Instructions(c)
    BY <1>4 DEF Instructions, Insts, Range
  <2>2. EndsAtLast(Insts(b, k))
    BY DEF WellFormed, Insts
  <2>. DEFINE s == Insts(b, k)
              t == Insts(c, k)
  <2>3. /\ Len(t) = Len(s) /\ DOMAIN t = 1..Len(s) /\ t = [n \in 1..Len(s) |-> t[n]]
        /\ \A n \in 1..Len(s) : t[n] = fold(s[n]) /\ s[n] \in Instructions(b)
        /\ Len(s) \in Nat /\ DOMAIN s = 1..Len(s)
    BY <1>3
  <2>. HIDE DEF s, t
  <2>4. t \in Seq(Instructions(c))
    BY <2>1, <2>3 DEF t
  <2>5. s # <<>> /\ IsTerminator(s[Len(s)]) /\ \A n \in 1..Len(s) - 1 : ~ IsTerminator(s[n])
    BY <2>2 DEF EndsAtLast, Last, s
  <2>6. Len(s) # 0 /\ Len(s) \in 1..Len(s) /\ 1..Len(s) - 1 \subseteq 1..Len(s)
    <3>1. s \in Seq(Instructions(b))
      BY Shape DEF s
    <3>. QED  BY <2>3, <2>5, <3>1
  <2>7. IsTerminator(t[Len(t)]) /\ \A n \in 1..Len(t) - 1 : ~ IsTerminator(t[n])
    BY <1>1, <2>3, <2>5, <2>6
  <2>8. t # <<>>
    BY <2>3, <2>6
  <2>9. EndsAtLast(t)
    BY <2>7, <2>8 DEF EndsAtLast, Last
  <2>. QED  BY <2>4, <2>9 DEF t
<1>8. Alike(b, c)
  BY <1>2, <1>5, <1>6, <1>7 DEF Alike
<1>. QED  BY <1>5, <1>8 DEF c

(* Folding keeps a function well-formed, constant_folding.rs: an           *)
(* instruction that is replaced has fewer operands and the same result.    *)
LEMMA FoldWellFormed ==
  ASSUME NEW b, WellFormed(b)
  PROVE  /\ WellFormed(FoldConstants(b))
         /\ \A ks \in SUBSET DOMAIN b.blocks : ValuesOf(FoldConstants(b), ks) = ValuesOf(b, ks)
<1>. DEFINE c == FoldConstants(b)
            fold(i) == Fold(Constants(b), i)
<1>1. Alike(b, c)
  BY FoldAlike
<1>2. /\ DOMAIN c.blocks = DOMAIN b.blocks /\ Dominators(c) = Dominators(b)
      /\ IsFunction(c) /\ TracksEdges(c) /\ PhisMatch(c)
      /\ \A k \in DOMAIN c.blocks : EndsAtLast(c.blocks[k].insts)
  <2>. HIDE DEF c
  <2>. QED  BY <1>1, AlikeForm
<1>3. \A S \in SUBSET Instructions(b) : Defined({fold(i) : i \in S}) = Defined(S)
  BY FoldDefined
<1>4. ASSUME NEW k \in DOMAIN b.blocks
      PROVE  /\ DOMAIN Insts(c, k) = DOMAIN Insts(b, k)
             /\ \A n \in DOMAIN Insts(b, k) : Insts(b, k)[n] \in Instructions(b)
                                              /\ Insts(c, k)[n] = fold(Insts(b, k)[n])
             /\ DOMAIN Insts(b, k) = 1..Len(Insts(b, k)) /\ Len(Insts(b, k)) \in Nat
  BY FoldedInsts, Shape
<1>5. \A i \in Instructions(b) :
        /\ Uses(fold(i)) \subseteq Uses(i)
        /\ (IsTerminator(fold(i)) <=> IsTerminator(i))
        /\ (fold(i).op = "phi" <=> i.op = "phi") /\ (i.op = "phi" => fold(i) = i)
        /\ ~ IsTerminator(i) => fold(i).dest = i.dest
  BY FoldIs
<1>. HIDE DEF c, fold
<1>6. ASSUME NEW k \in DOMAIN b.blocks
      PROVE  /\ Dests(c, k) = Dests(b, k)
             /\ \A n \in DOMAIN Insts(b, k) : Defined({Insts(c, k)[m] : m \in 1..n - 1})
                                                = Defined({Insts(b, k)[m] : m \in 1..n - 1})
  <2>1. ASSUME NEW N \in SUBSET DOMAIN Insts(b, k)
        PROVE  Defined({Insts(c, k)[m] : m \in N}) = Defined({Insts(b, k)[m] : m \in N})
    <3>. DEFINE S == {Insts(b, k)[m] : m \in N}
    <3>1. S \in SUBSET Instructions(b) /\ {Insts(c, k)[m] : m \in N} = {fold(i) : i \in S}
      BY <1>4
    <3>. HIDE DEF S
    <3>2. Defined({Insts(c, k)[m] : m \in N}) = Defined(S)
      BY <1>3, <3>1
    <3>. QED  BY <3>2 DEF S
  <2>2. Dests(c, k) = Dests(b, k)
    <3>1. /\ Range(Insts(b, k)) = {Insts(b, k)[m] : m \in DOMAIN Insts(b, k)}
          /\ Range(Insts(c, k)) = {Insts(c, k)[m] : m \in DOMAIN Insts(b, k)}
      BY <1>4 DEF Range
    <3>2. Defined(Range(Insts(c, k))) = Defined(Range(Insts(b, k)))
      BY <2>1, <3>1
    <3>. QED  BY <3>2 DEF Dests, Insts
  <2>3. \A n \in DOMAIN Insts(b, k) : 1..n - 1 \subseteq DOMAIN Insts(b, k)
    BY <1>4
  <2>. QED  BY <2>1, <2>2, <2>3
<1>7. \A ks \in SUBSET DOMAIN b.blocks : ValuesOf(c, ks) = ValuesOf(b, ks)
  BY <1>6 DEF ValuesOf
<1>8. DefinedOnce(c)
  <2>1. \A j, k \in DOMAIN b.blocks : j # k => Dests(c, j) \cap Dests(c, k) = {}
    BY <1>6 DEF WellFormed, DefinedOnce
  <2>2. ASSUME NEW k \in DOMAIN b.blocks, NEW n \in DOMAIN Insts(b, k)
        PROVE  \/ IsTerminator(Insts(c, k)[n])
               \/ Insts(c, k)[n].dest \notin Params \cup Defined({Insts(c, k)[m] : m \in 1..n - 1})
    <3>1. \/ IsTerminator(Insts(b, k)[n])
          \/ Insts(b, k)[n].dest \notin Params \cup Defined({Insts(b, k)[m] : m \in 1..n - 1})
      BY DEF WellFormed, DefinedOnce, Insts
    <3>2. Defined({Insts(c, k)[m] : m \in 1..n - 1}) = Defined({Insts(b, k)[m] : m \in 1..n - 1})
      BY <1>6
    <3>. QED  BY <1>4, <1>5, <3>1, <3>2
  <2>. QED  BY <1>2, <1>4, <2>1, <2>2 DEF DefinedOnce, Insts
<1>9. DefinedBefore(c)
  <2>. DEFINE dom == Dominators(b)
  <2>1. \A k \in DOMAIN b.blocks : dom[k] \subseteq DOMAIN b.blocks
    BY DominatorsAlongEdges
  <2>2. \A k \in DOMAIN b.blocks : /\ ValuesOf(c, dom[k]) = ValuesOf(b, dom[k])
                                   /\ ValuesOf(c, dom[k] \ {k}) = ValuesOf(b, dom[k] \ {k})
    BY <1>7, <2>1
  <2>3. ASSUME NEW k \in DOMAIN b.blocks, NEW n \in DOMAIN Insts(b, k)
        PROVE  IF Insts(c, k)[n].op = "phi"
               THEN \A j \in DOMAIN Insts(c, k)[n].args :
                      Insts(c, k)[n].args[j] \in [h \in DOMAIN c.blocks |-> ValuesOf(c, dom[h])][j]
               ELSE Uses(Insts(c, k)[n]) \subseteq
                      ValuesOf(c, dom[k] \ {k}) \cup Defined({Insts(c, k)[m] : m \in 1..n - 1})
    <3>1. IF Insts(b, k)[n].op = "phi"
          THEN \A j \in DOMAIN Insts(b, k)[n].args :
                 Insts(b, k)[n].args[j] \in [h \in DOMAIN b.blocks |-> ValuesOf(b, dom[h])][j]
          ELSE Uses(Insts(b, k)[n]) \subseteq
                 ValuesOf(b, dom[k] \ {k}) \cup Defined({Insts(b, k)[m] : m \in 1..n - 1})
      BY DEF WellFormed, DefinedBefore, Insts
    <3>2. [h \in DOMAIN c.blocks |-> ValuesOf(c, dom[h])] = [h \in DOMAIN b.blocks |-> ValuesOf(b, dom[h])]
      BY <1>2, <2>2
    <3>3. Defined({Insts(c, k)[m] : m \in 1..n - 1}) = Defined({Insts(b, k)[m] : m \in 1..n - 1})
      BY <1>6
    <3>4. CASE Insts(b, k)[n].op = "phi"
      <4>1. Insts(c, k)[n] = Insts(b, k)[n]
        BY <1>4, <1>5, <3>4
      <4>. QED  BY <3>1, <3>2, <3>4, <4>1
    <3>5. CASE Insts(b, k)[n].op # "phi"
      <4>1. Insts(c, k)[n].op # "phi" /\ Uses(Insts(c, k)[n]) \subseteq Uses(Insts(b, k)[n])
        BY <1>4, <1>5, <3>5
      <4>. QED  BY <2>2, <3>1, <3>3, <3>5, <4>1
    <3>. QED  BY <3>4, <3>5
  <2>. QED  BY <1>2, <1>4, <2>3 DEF DefinedBefore, Insts
<1>10. WellFormed(c)
  BY <1>2, <1>8, <1>9 DEF WellFormed
<1>. QED  BY <1>7, <1>10 DEF c

-----------------------------------------------------------------------------
(* Constant folding: the machine.                                          *)

(* The values that a machine has are the constants.                        *)
Agree(b, m) ==
  \A v \in DOMAIN Constants(b) \cap DOMAIN m.env : m.env[v] = Constants(b)[v]

(* An instruction changes no value but the one it defines.                 *)
LEMMA DoesEnv ==
  ASSUME NEW m, IsMachine(m), NEW i, Proper(i)
  PROVE  \/ Does(m, i).env = m.env
         \/ ~ IsTerminator(i) /\ i.dest # NoValue /\ \E x : Does(m, i).env = With(m.env, i.dest, x)
<1>. DEFINE r == Does(m, i)
<1>0. i.op \in {"phi", "assert", "const", "arith", "unary", "load", "store", "call",
                "return", "jump", "branch"}
  BY DEF Proper
<1>1. CASE i.op \in {"phi", "assert"}
  <2>1. r = m
    BY <1>1 DEF Does
  <2>. QED  BY <2>1
<1>2. ASSUME NEW v, r = Gets(m, i.dest, v), i.op \in {"const", "arith", "unary", "load", "call"}
      PROVE  ~ IsTerminator(i) /\ i.dest # NoValue /\ \E x : r.env = With(m.env, i.dest, x)
  <2>1. ~ IsTerminator(i) /\ i.dest # NoValue
    BY <1>2 DEF IsTerminator, Proper, NoValue
  <2>. HIDE DEF r
  <2>2. r.env = With(m.env, i.dest, v)
    BY <1>2, GetsIs
  <2>. QED  BY <2>1, <2>2
<1>3. CASE i.op = "const"
  <2>1. r = Gets(m, i.dest, i.n)
    BY <1>3 DEF Does
  <2>. QED  BY <1>2, <1>3, <2>1
<1>4. CASE i.op = "arith" /\ Trap(i, m.env) = None
  <2>1. r = Gets(m, i.dest, Arithmetic(i.f, m.env[i.l], m.env[i.r]))
    BY <1>4 DEF Does
  <2>. QED  BY <1>2, <1>4, <2>1
<1>5. CASE i.op = "arith" /\ Trap(i, m.env) # None
  <2>1. r = [m EXCEPT !.result = Trap(i, m.env)]
    BY <1>5 DEF Does
  <2>2. r.env = m.env
    BY <2>1 DEF IsMachine
  <2>. QED  BY <2>2
<1>6. CASE i.op = "unary"
  <2>1. r = Gets(m, i.dest, IF i.f = "neg" THEN Wrap(-m.env[i.s]) ELSE Complement(m.env[i.s]))
    BY <1>6 DEF Does
  <2>. QED  BY <1>2, <1>6, <2>1
<1>7. CASE i.op = "load"
  <2>1. r = Gets(m, i.dest, m.exc)
    BY <1>7 DEF Does
  <2>. QED  BY <1>2, <1>7, <2>1
<1>8. CASE i.op = "store"
  <2>1. r = [m EXCEPT !.exc = m.env[i.s]]
    BY <1>8 DEF Does
  <2>2. r.env = m.env
    BY <2>1 DEF IsMachine
  <2>. QED  BY <2>2
<1>9. CASE i.op = "call"
  <2>1. r = RunCall(m, i, m.env[i.arg])
    BY <1>9 DEF Does
  <2>2. CASE m.env[i.arg] \notin i.f.raises
    <3>1. r = Gets(m, i.dest, m.env[i.arg])
      BY <2>1, <2>2 DEF RunCall
    <3>. QED  BY <1>2, <1>9, <3>1
  <2>3. CASE m.env[i.arg] \in i.f.raises
    <3>. DEFINE g == Gets(m, i.dest, 0)
    <3>1. r = [g EXCEPT !.exc = i.f.id]
      BY <2>1, <2>3 DEF RunCall
    <3>2. IsMachine(g) /\ g.env = With(m.env, i.dest, 0)
      BY GetsIs
    <3>3. r.env = g.env
      <4>. HIDE DEF g
      <4>. QED  BY <3>1, <3>2 DEF IsMachine
    <3>4. ~ IsTerminator(i) /\ i.dest # NoValue
      BY <1>9 DEF IsTerminator, Proper, NoValue
    <3>. HIDE DEF g, r
    <3>. QED  BY <3>2, <3>3, <3>4 DEF r
  <2>. QED  BY <2>2, <2>3
<1>10. CASE i.op = "return"
  <2>1. r = [m EXCEPT !.result = Outcome(m, m.env[i.v])]
    BY <1>10 DEF Does
  <2>2. r.env = m.env
    BY <2>1 DEF IsMachine
  <2>. QED  BY <2>2
<1>11. CASE i.op \in {"jump", "branch"}
  <2>1. r = Goto(m, i)
    BY <1>11 DEF Does
  <2>2. r.env = m.env
    BY <2>1 DEF IsMachine, Goto
  <2>. QED  BY <2>2
<1>. HIDE DEF r
<1>. QED  BY <1>0, <1>1, <1>3, <1>4, <1>5, <1>6, <1>7, <1>8, <1>9, <1>10, <1>11 DEF r

(* A folded instruction does what the original one does, a machine         *)
(* agreeing with the constants: here folding has to compute what the       *)
(* machine does, wrapping included.                                        *)
LEMMA FoldStep ==
  ASSUME NEW b, WellFormed(b), NEW i \in Instructions(b),
         NEW m, IsMachine(m), Agree(b, m), m.to = 0,
         m.result = None => Uses(i) \subseteq DOMAIN m.env
  PROVE  /\ RunInst(m, Fold(Constants(b), i)) = RunInst(m, i)
         /\ Agree(b, RunInst(m, i))
<1>. DEFINE known == Constants(b)
            j == Fold(known, i)
<1>1. CASE m.result # None
  BY <1>1, RunInstIs
<1>2. CASE m.result = None
  <2>1. Proper(i) /\ Proper(j) /\ Uses(j) \subseteq Uses(i)
    BY Shape, FoldIs
  <2>2. RunInst(m, i) = Does(m, i) /\ RunInst(m, j) = Does(m, j)
    BY <1>2, <2>1, RunInstIs
  <2>3. CASE IsTerminator(i) \/ i.dest \notin DOMAIN known
    <3>1. j = i
      BY <2>3, FoldIs
    <3>2. Agree(b, Does(m, i))
      <4>1. CASE Does(m, i).env = m.env
        BY <4>1 DEF Agree
      <4>2. ASSUME ~ IsTerminator(i), NEW x, Does(m, i).env = With(m.env, i.dest, x)
            PROVE  Agree(b, Does(m, i))
        <5>. DEFINE e == With(m.env, i.dest, x)
        <5>1. DOMAIN e = DOMAIN m.env \cup {i.dest}
              /\ \A v \in DOMAIN m.env \ {i.dest} : e[v] = m.env[v]
          BY DEF With, Atop
        <5>2. Does(m, i).env = e
          BY <4>2
        <5>. HIDE DEF e
        <5>. QED  BY <2>3, <4>2, <5>1, <5>2 DEF Agree
      <4>. QED  BY <2>1, <4>1, <4>2, DoesEnv
    <3>. QED  BY <2>2, <3>1, <3>2
  <2>4. CASE ~ IsTerminator(i) /\ i.dest \in DOMAIN known
    <3>. DEFINE e == Learnt(known, i)
    <3>1. Learns(known, i) /\ j = ConstInt(i.dest, e)
      BY <2>4, FoldIs
    <3>2. known[i.dest] = e
      <4>1. PICK l \in Instructions(b) :
              ~ IsTerminator(l) /\ l.dest = i.dest /\ Learns(known, l) /\ known[i.dest] = Learnt(known, l)
        BY <2>4, ConstantsJustified DEF Justified
      <4>2. i.dest # NoValue
        BY <2>1, <3>1, LearnsNoTerminator
      <4>3. l = i
        BY <2>4, <4>1, <4>2, OneDefinition
      <4>. QED  BY <4>1, <4>3
    <3>3. Does(m, j) = Gets(m, i.dest, e)
      <4>. HIDE DEF e, j
      <4>1. j.op = "const" /\ j.dest = i.dest /\ j.n = e
        BY <3>1 DEF ConstInt
      <4>. QED  BY <4>1 DEF Does
    <3>4. Does(m, i) = Gets(m, i.dest, e)
      <4>a. Agree(b, m) /\ Uses(i) \subseteq DOMAIN m.env
        BY <1>2
      <4>b. \A v \in Uses(i) \cap DOMAIN known : m.env[v] = known[v]
        BY <4>a DEF Agree
      <4>. HIDE DEF known
      <4>1. CASE i.op = "const"
        BY <4>1 DEF Does, Learnt
      <4>2. CASE i.op = "arith" /\ i.f \in {"add", "sub", "mul"} /\ {i.l, i.r} \subseteq DOMAIN known
        <5>1. Uses(i) = {i.l, i.r}
          BY <4>2 DEF Uses
        <5>2. m.env[i.l] = known[i.l] /\ m.env[i.r] = known[i.r]
          BY <4>2, <4>b, <5>1
        <5>3. Trap(i, m.env) = None
          BY <4>2 DEF Trap
        <5>4. Arithmetic(i.f, m.env[i.l], m.env[i.r]) = Wrap(Binary(i.f, m.env[i.l], m.env[i.r]))
          BY <4>2 DEF Arithmetic
        <5>5. Does(m, i) = Gets(m, i.dest, Arithmetic(i.f, m.env[i.l], m.env[i.r]))
          BY <4>2, <5>3 DEF Does
        <5>6. e = Wrap(Binary(i.f, known[i.l], known[i.r]))
          BY <4>2 DEF Learnt
        <5>. HIDE DEF e
        <5>. QED  BY <5>2, <5>4, <5>5, <5>6
      <4>3. CASE i.op = "unary" /\ i.f = "neg" /\ i.s \in DOMAIN known
        <5>1. m.env[i.s] = known[i.s]
          BY <4>3, <4>b DEF Uses
        <5>2. Does(m, i) = Gets(m, i.dest, Wrap(-m.env[i.s]))
          BY <4>3 DEF Does
        <5>3. e = Wrap(-known[i.s])
          BY <4>3 DEF Learnt
        <5>. HIDE DEF e
        <5>. QED  BY <5>1, <5>2, <5>3
      <4>. QED  BY <3>1, <4>1, <4>2, <4>3 DEF Learns
    <3>5. Agree(b, Gets(m, i.dest, e))
      <4>. DEFINE f == With(m.env, i.dest, e)
      <4>1. Gets(m, i.dest, e).env = f
        BY GetsIs
      <4>2. /\ DOMAIN f = DOMAIN m.env \cup {i.dest} /\ f[i.dest] = e
            /\ \A v \in DOMAIN m.env \ {i.dest} : f[v] = m.env[v]
        BY DEF With, Atop
      <4>. HIDE DEF f, e
      <4>. QED  BY <3>2, <4>1, <4>2 DEF Agree
    <3>. HIDE DEF e, j
    <3>. QED  BY <2>2, <3>3, <3>4, <3>5 DEF j
  <2>. QED  BY <2>3, <2>4
<1>. QED  BY <1>1, <1>2

(* A folded block does what the original one does, and the machine agrees  *)
(* with the constants after it.                                            *)
LEMMA FoldBlock ==
  ASSUME NEW b, WellFormed(b), NEW m, Between(b, m), m.result = None, Agree(b, m)
  PROVE  RunBlock(FoldConstants(b), m) = RunBlock(b, m) /\ Agree(b, RunBlock(b, m))
<1>. DEFINE c == FoldConstants(b)
            k == m.to
            s == Insts(b, k)
            t == Insts(c, k)
            known == Constants(b)
<1>1. k \in DOMAIN b.blocks /\ Enterable(b, m) /\ IsMachine(m)
  BY EntersBlock DEF Between
<1>2. Phis(c, k) = Phis(b, k) /\ ReachableFrom(c, {1}) = ReachableFrom(b, {1})
  BY <1>1, FoldAlike, AlikeForm
<1>3. Enterable(c, m) /\ Into(c, m) = Into(b, m)
  <2>. HIDE DEF c
  <2>. QED  BY <1>1, <1>2 DEF Enterable, Into
<1>4. CASE m.left = 0
  <2>1. RunBlock(b, m) = [m EXCEPT !.result = OutOfFuel]
    BY <1>1, <1>4 DEF RunBlock
  <2>2. RunBlock(c, m) = [m EXCEPT !.result = OutOfFuel]
    <3>. HIDE DEF c
    <3>. QED  BY <1>3, <1>4 DEF RunBlock
  <2>3. RunBlock(b, m).env = m.env
    BY <1>1, <2>1 DEF IsMachine
  <2>. QED  BY <2>1, <2>2, <2>3 DEF Agree
<1>5. CASE m.left # 0
  <2>1. PICK f : Blockwise(b, m, f) /\ \A n \in 0..Len(s) : Inside(b, k, n, f[n])
    BY <1>5, BlockRuns
  <2>2. /\ f[0] = Into(b, m) /\ \A n \in 1..Len(s) : f[n] = RunInst(f[n - 1], s[n])
        /\ RunBlock(b, m) = f[Len(s)] /\ StuckIfNoWayOut(f[Len(s)]) = f[Len(s)]
    BY <2>1 DEF Blockwise, Steps, Step
  <2>3. /\ DOMAIN t = DOMAIN s /\ Len(t) = Len(s) /\ Len(s) \in Nat /\ DOMAIN s = 1..Len(s)
        /\ \A n \in DOMAIN s : s[n] \in Instructions(b) /\ t[n] = Fold(known, s[n])
    BY <1>1, FoldedInsts, Shape
  <2>4. PICK g : /\ Steps([is |-> "run"], Into(c, m), t, g)
                 /\ FoldLeft(RunInst, Into(c, m), t) = g[Len(t)]
    <3>1. DOMAIN t = 1..Len(t) /\ Len(t) \in Nat
      BY <2>3
    <3>. HIDE DEF t
    <3>. QED  BY <3>1, RunSteps
  <2>5. /\ g[0] = Into(b, m) /\ \A n \in 1..Len(s) : g[n] = RunInst(g[n - 1], t[n])
    BY <1>3, <2>3, <2>4 DEF Steps, Step
  <2>6. RunBlock(c, m) = StuckIfNoWayOut(g[Len(s)])
    <3>1. RunBlock(c, m) = StuckIfNoWayOut(FoldLeft(RunInst, Into(c, m), t))
      <4>. HIDE DEF c
      <4>. QED  BY <1>3, <1>5 DEF RunBlock, Insts
    <3>. QED  BY <2>3, <2>4, <3>1
  <2>7. Agree(b, Into(b, m))
    <3>1. /\ DOMAIN Passed(m, Phis(b, k)) = {i.dest : i \in Phis(b, k)}
          /\ \A i \in Phis(b, k) : i \in Instructions(b) /\ ~ IsTerminator(i) /\ i.dest # NoValue /\ i.op = "phi"
      <4>. HIDE DEF k
      <4>1. PhisPass(b, k, m)
        BY <1>1, PassedIs
      <4>. QED  BY <4>1 DEF PhisPass
    <3>2. Into(b, m).env = Atop(Passed(m, Phis(b, k)), m.env)
      BY <1>1, IntoIs
    <3>3. ASSUME NEW i \in Phis(b, k) PROVE i.dest \notin DOMAIN known
      <4>1. i \in Instructions(b) /\ ~ IsTerminator(i) /\ i.op = "phi"
        BY <3>1
      <4>2. i.dest \in DOMAIN known => Learns(known, i)
        BY <4>1, FoldIs
      <4>. QED  BY <4>1, <4>2 DEF Learns
    <3>. HIDE DEF k
    <3>. QED  BY <3>1, <3>2, <3>3 DEF Agree, Atop
  <2>. DEFINE holds == {n \in 0..Len(s) : g[n] = f[n] /\ Agree(b, f[n])}
  <2>8. 0 \in holds
    BY <2>2, <2>3, <2>5, <2>7
  <2>9. ASSUME NEW n \in 0..Len(s) - 1, n \in holds PROVE n + 1 \in holds
    <3>1. n + 1 \in 1..Len(s) /\ (n + 1) - 1 = n /\ n + 1 \in 0..Len(s) /\ n \in 0..Len(s)
      BY <2>3
    <3>2. Inside(b, k, n, f[n])
      BY <2>1, <3>1
    <3>3. /\ f[n].to = 0 /\ (f[n].result = None => Uses(s[n + 1]) \subseteq DOMAIN f[n].env)
          /\ IsMachine(f[n])
      <4>1. k \in DOMAIN b.blocks /\ Inside(b, k, (n + 1) - 1, f[n]) /\ n + 1 \in 1..Len(Insts(b, k))
        BY <1>1, <3>1, <3>2
      <4>2. IsMachine(f[n])
        BY <3>2 DEF Inside
      <4>. HIDE DEF k
      <4>. QED  BY <4>1, <4>2, StepInside
    <3>4. s[n + 1] \in Instructions(b) /\ t[n + 1] = Fold(known, s[n + 1])
      BY <2>3, <3>1
    <3>5. RunInst(f[n], t[n + 1]) = RunInst(f[n], s[n + 1]) /\ Agree(b, RunInst(f[n], s[n + 1]))
      <4>1. Agree(b, f[n])
        BY <2>9
      <4>. HIDE DEF s, t
      <4>. QED  BY <3>3, <3>4, <4>1, FoldStep
    <3>6. f[n + 1] = RunInst(f[n], s[n + 1]) /\ g[n + 1] = RunInst(g[n], t[n + 1])
      BY <2>2, <2>5, <3>1
    <3>7. g[n] = f[n]
      BY <2>9
    <3>. HIDE DEF s, t
    <3>. QED  BY <3>1, <3>5, <3>6, <3>7
  <2>10. \A n \in 0..Len(s) : n \in holds
    <3>1. Len(s) \in Nat
      BY <2>3
    <3>. HIDE DEF holds, s
    <3>. QED  BY <2>8, <2>9, <3>1, CountingUp
  <2>11. g[Len(s)] = f[Len(s)] /\ Agree(b, f[Len(s)])
    <3>1. Len(s) \in 0..Len(s)
      BY <2>3
    <3>. QED  BY <2>10, <3>1
  <2>. QED  BY <2>2, <2>6, <2>11
<1>. QED  BY <1>4, <1>5

-----------------------------------------------------------------------------
(* Dead code elimination: what is left.                                    *)

(* A finite function has finitely many values.                             *)
LEMMA FiniteRange ==
  ASSUME NEW f, IsFiniteSet(DOMAIN f)
  PROVE  IsFiniteSet({f[x] : x \in DOMAIN f})
<1>. DEFINE g == [x \in DOMAIN f |-> f[x]]
            T == {f[x] : x \in DOMAIN f}
<1>1. g \in Surjection(DOMAIN f, T)
  BY DEF Surjection
<1>. HIDE DEF T, g
<1>2. IsFiniteSet(T)
  BY <1>1, FS_Surjection
<1>. QED  BY <1>2 DEF T

(* A function has finitely many instructions and operands.                 *)
LEMMA InstructionsFinite ==
  ASSUME NEW b, WellFormed(b)
  PROVE  /\ IsFiniteSet(Instructions(b))
         /\ \A i \in Instructions(b) : IsFiniteSet(Operands(i))
<1>1. IsFiniteSet(Instructions(b))
  <2>. DEFINE f == [k \in DOMAIN b.blocks |-> Range(Insts(b, k))]
              S == {f[k] : k \in DOMAIN f}
  <2>1. IsFiniteSet(S)
    <3>1. IsFiniteSet(DOMAIN f)
      BY Shape
    <3>. HIDE DEF f
    <3>. QED  BY <3>1, FiniteRange
  <2>2. \A T \in S : IsFiniteSet(T)
    <3>1. ASSUME NEW k \in DOMAIN b.blocks PROVE IsFiniteSet(Range(Insts(b, k)))
      <4>1. IsFiniteSet(DOMAIN Insts(b, k))
        <5>1. DOMAIN Insts(b, k) = 1..Len(Insts(b, k)) /\ Len(Insts(b, k)) \in Nat
          BY Shape
        <5>. QED  BY <5>1, FS_Interval
      <4>2. IsFiniteSet({Insts(b, k)[n] : n \in DOMAIN Insts(b, k)})
        BY <4>1, FiniteRange
      <4>. QED  BY <4>2 DEF Range
    <3>. QED  BY <3>1
  <2>3. Instructions(b) = UNION S
    BY DEF Instructions, Insts
  <2>. HIDE DEF S
  <2>. QED  BY <2>1, <2>2, <2>3, FS_UNION
<1>2. ASSUME NEW i \in Instructions(b) PROVE IsFiniteSet(Operands(i))
  <2>1. CASE i.op = "phi"
    <3>1. PICK k \in DOMAIN b.blocks : i \in Range(b.blocks[k].insts)
      BY DEF Instructions
    <3>2. i \in Phis(b, k)
      BY <2>1, <3>1 DEF Phis
    <3>3. DOMAIN i.args \subseteq DOMAIN b.blocks
      BY <3>2 DEF WellFormed, PhisMatch
    <3>4. IsFiniteSet(DOMAIN i.args)
      BY <3>3, Shape, FS_Subset
    <3>5. IsFiniteSet({i.args[j] : j \in DOMAIN i.args})
      BY <3>4, FiniteRange
    <3>. QED  BY <2>1, <3>5 DEF Operands, Range
  <2>2. CASE i.op # "phi"
    <3>1. \A x, y : IsFiniteSet({x, y})
      <4>1. ASSUME NEW x, NEW y PROVE IsFiniteSet({x} \cup {y})
        BY FS_Singleton, FS_AddElement
      <4>2. \A x, y : {x, y} = {x} \cup {y}
        OBVIOUS
      <4>. QED  BY <4>1, <4>2
    <3>2. \A x : IsFiniteSet({x})
      BY FS_Singleton
    <3>3. IsFiniteSet({})
      BY FS_EmptySet
    <3>4. \/ Uses(i) = {} \/ (\E x : Uses(i) = {x}) \/ (\E x, y : Uses(i) = {x, y})
      BY DEF Uses
    <3>5. Operands(i) = Uses(i)
      BY <2>2 DEF Operands
    <3>6. CASE Uses(i) = {}
      BY <3>3, <3>5, <3>6
    <3>7. ASSUME NEW x, Uses(i) = {x} PROVE IsFiniteSet(Operands(i))
      BY <3>2, <3>5, <3>7
    <3>8. ASSUME NEW x, NEW y, Uses(i) = {x, y} PROVE IsFiniteSet(Operands(i))
      BY <3>1, <3>5, <3>8
    <3>. QED  BY <3>4, <3>6, <3>7, <3>8
  <2>. QED  BY <2>1, <2>2
<1>. QED  BY <1>1, <1>2

(* What an instruction that is kept is computed from is live.              *)
LEMMA OperandsLive ==
  ASSUME NEW b, WellFormed(b), NEW i \in Instructions(b), Kept(Live(b), i)
  PROVE  Operands(i) \subseteq Live(b)
<1>. DEFINE insts == Instructions(b)
            pure == {j \in insts : ~ HasSideEffects(j)}
            of == [v \in {j.dest : j \in pure} |-> UNION {Operands(j) : j \in {j \in pure : j.dest = v}}]
            vs == UNION {Operands(j) : j \in {j \in insts : HasSideEffects(j)}}
<1>1. Live(b) = Closure(of, vs)
  BY DEF Live, Used
<1>2. IsFiniteSet(Around(of, vs))
  <2>. DEFINE f == [j \in insts |-> Operands(j)]
              S == {f[j] : j \in DOMAIN f}
  <2>1. IsFiniteSet(UNION S)
    <3>1. IsFiniteSet(DOMAIN f) /\ \A j \in DOMAIN f : IsFiniteSet(f[j])
      BY InstructionsFinite
    <3>2. IsFiniteSet(S)
      <4>. HIDE DEF f
      <4>. QED  BY <3>1, FiniteRange
    <3>3. \A T \in S : IsFiniteSet(T)
      BY <3>1
    <3>. HIDE DEF S
    <3>. QED  BY <3>2, <3>3, FS_UNION
  <2>2. Around(of, vs) \subseteq UNION S
    <3>1. UNION S = UNION {Operands(j) : j \in insts}
      OBVIOUS
    <3>2. vs \subseteq UNION {Operands(j) : j \in insts}
      OBVIOUS
    <3>3. \A v \in DOMAIN of : of[v] \subseteq UNION {Operands(j) : j \in insts}
      OBVIOUS
    <3>. HIDE DEF S, of, vs, insts
    <3>. QED  BY <3>1, <3>2, <3>3 DEF Around
  <2>. HIDE DEF S, of, vs
  <2>. QED  BY <2>1, <2>2, FS_Subset
<1>3. vs \subseteq Live(b) /\ Closed(of, Live(b))
  <2>. HIDE DEF of, vs
  <2>. QED  BY <1>1, <1>2, ClosureIsLeast
<1>4. CASE HasSideEffects(i)
  BY <1>3, <1>4
<1>5. CASE ~ HasSideEffects(i)
  <2>1. i.dest \in Live(b) /\ i \in pure
    BY <1>5 DEF Kept
  <2>2. i.dest \in DOMAIN of /\ Operands(i) \subseteq of[i.dest]
    BY <2>1
  <2>. HIDE DEF of
  <2>. QED  BY <1>3, <2>1, <2>2 DEF Closed
<1>. QED  BY <1>4, <1>5

(* Dead code elimination removes instructions and leaves the edges.        *)
LEMMA RetainedBlocks ==
  ASSUME NEW b, WellFormed(b)
  PROVE  LET c == EliminateDeadCode(b)
         IN /\ "blocks" \in DOMAIN c
            /\ c.blocks = [k \in DOMAIN b.blocks |->
                   [insts |-> Insts(c, k), preds |-> b.blocks[k].preds, succs |-> b.blocks[k].succs]]
            /\ \A k \in DOMAIN b.blocks : Insts(c, k) = Retain(Live(b), Insts(b, k))
            /\ c.error = b.error
<1>. DEFINE c == EliminateDeadCode(b)
            live == Live(b)
            retained(k) == Retain(live, Insts(b, k))
<1>1. "blocks" \in DOMAIN b
  BY DEF WellFormed, IsFunction
<1>2. c = [b EXCEPT !.blocks = [k \in DOMAIN b.blocks |-> [b.blocks[k] EXCEPT !.insts = retained(k)]]]
  BY DEF EliminateDeadCode, Insts
<1>3. DOMAIN c = DOMAIN b /\ c.error = b.error
      /\ c.blocks = [k \in DOMAIN b.blocks |-> [b.blocks[k] EXCEPT !.insts = retained(k)]]
  <2>. HIDE DEF live
  <2>. QED  BY <1>1, <1>2
<1>4. ASSUME NEW k \in DOMAIN b.blocks
      PROVE  [b.blocks[k] EXCEPT !.insts = retained(k)]
               = [insts |-> retained(k), preds |-> b.blocks[k].preds, succs |-> b.blocks[k].succs]
  <2>1. b.blocks[k] \in [insts : Seq(Instructions(b)), preds : Seq(DOMAIN b.blocks),
                                  succs : Seq(DOMAIN b.blocks)]
    BY Shape
  <2>. HIDE DEF retained
  <2>. QED  BY <2>1
<1>5. ASSUME NEW k \in DOMAIN b.blocks
      PROVE  /\ Insts(c, k) = retained(k)
             /\ c.blocks[k] = [insts |-> Insts(c, k), preds |-> b.blocks[k].preds,
                               succs |-> b.blocks[k].succs]
  <2>. HIDE DEF retained, c
  <2>. QED  BY <1>3, <1>4 DEF Insts
<1>. QED
  <2>. HIDE DEF retained, c
  <2>1. c.blocks = [k \in DOMAIN b.blocks |->
           [insts |-> Insts(c, k), preds |-> b.blocks[k].preds, succs |-> b.blocks[k].succs]]
    BY <1>3, <1>5
  <2>2. \A k \in DOMAIN b.blocks : Insts(c, k) = retained(k)
    BY <1>5
  <2>3. "blocks" \in DOMAIN c /\ c.error = b.error
    BY <1>1, <1>3
  <2>. QED  BY <2>1, <2>2, <2>3 DEF retained, c

(* What is left of a block, and the count of what is kept.                 *)
LEMMA RetainedInsts ==
  ASSUME NEW b, WellFormed(b), NEW k \in DOMAIN b.blocks
  PROVE  LET s == Insts(b, k)
             r == Insts(EliminateDeadCode(b), k)
         IN /\ r \in Seq(Instructions(b)) /\ Len(r) \in Nat /\ DOMAIN r = 1..Len(r)
            /\ Range(r) = {i \in Range(s) : Kept(Live(b), i)}
            /\ \E c : Counts(Live(b), s, r, c)
<1>. DEFINE s == Insts(b, k)
            r == Insts(EliminateDeadCode(b), k)
<1>1. r = Retain(Live(b), s) /\ s \in Seq(Instructions(b))
  BY RetainedBlocks, Shape
<1>2. /\ r \in Seq(Instructions(b)) /\ Range(r) = {i \in Range(s) : Kept(Live(b), i)}
      /\ \E c : Counts(Live(b), s, r, c)
  <2>. HIDE DEF s, r
  <2>. QED  BY <1>1, RetainIs
<1>3. Len(r) \in Nat /\ DOMAIN r = 1..Len(r)
  <2>. HIDE DEF r
  <2>. QED  BY <1>2
<1>. QED  BY <1>2, <1>3

(* Jumps are kept, and what is removed defines a value that is not live.   *)
LEMMA TerminatorsKept ==
  ASSUME NEW live, NEW i
  PROVE  /\ IsTerminator(i) => Kept(live, i)
         /\ Proper(i) /\ ~ Kept(live, i) =>
              i.op \in {"phi", "const", "arith", "unary", "load"} /\ i.dest # NoValue
                /\ i.dest \notin live /\ ~ IsTerminator(i)
BY DEF Kept, HasSideEffects, Proper, IsTerminator, NoValue

(* Dead code elimination leaves the control flow.                          *)
LEMMA EliminateAlike ==
  ASSUME NEW b, WellFormed(b)
  PROVE  Alike(b, EliminateDeadCode(b))
<1>. DEFINE c == EliminateDeadCode(b)
            live == Live(b)
<1>1. /\ "blocks" \in DOMAIN c
      /\ c.blocks = [k \in DOMAIN b.blocks |->
              [insts |-> Insts(c, k), preds |-> b.blocks[k].preds, succs |-> b.blocks[k].succs]]
  BY RetainedBlocks
<1>2. ASSUME NEW k \in DOMAIN b.blocks
      PROVE  /\ Insts(c, k) \in Seq(Instructions(b)) /\ Len(Insts(c, k)) \in Nat
             /\ DOMAIN Insts(c, k) = 1..Len(Insts(c, k))
             /\ Range(Insts(c, k)) = {i \in Range(Insts(b, k)) : Kept(live, i)}
             /\ \E h : Counts(live, Insts(b, k), Insts(c, k), h)
  BY RetainedInsts
<1>. HIDE DEF c, live
<1>3. DOMAIN c.blocks = DOMAIN b.blocks
  BY <1>1
<1>4. ASSUME NEW k \in DOMAIN b.blocks
      PROVE  Ends(c, k) = Ends(b, k) /\ Phis(c, k) \subseteq Phis(b, k)
  <2>. DEFINE S == Range(Insts(b, k))
              T == Range(Insts(c, k))
  <2>1. T = {i \in S : Kept(live, i)}
    BY <1>2
  <2>. HIDE DEF S, T
  <2>. QED  BY <2>1, TerminatorsKept DEF Ends, Phis, Insts, S, T
<1>5. \A i \in Instructions(c) : Proper(i)
  <2>. SUFFICES ASSUME NEW k \in DOMAIN b.blocks, NEW i \in Range(Insts(c, k)) PROVE Proper(i)
    BY <1>3 DEF Instructions, Insts
  <2>1. i \in Range(Insts(b, k))
    BY <1>2
  <2>2. i \in Instructions(b)
    BY <2>1 DEF Instructions, Insts
  <2>. QED  BY <2>2, Shape
<1>6. ASSUME NEW k \in DOMAIN b.blocks
      PROVE  Insts(c, k) \in Seq(Instructions(c)) /\ EndsAtLast(Insts(c, k))
  <2>. DEFINE s == Insts(b, k)
              r == Insts(c, k)
  <2>1. \A n \in DOMAIN r : r[n] \in Instructions(c)
    BY <1>3 DEF Instructions, Insts, Range
  <2>2. r \in Seq(Instructions(b)) /\ Len(r) \in Nat /\ DOMAIN r = 1..Len(r)
    BY <1>2
  <2>3. PICK h : Counts(live, s, r, h)
    BY <1>2
  <2>4. s \in Seq(Instructions(b)) /\ Len(s) \in Nat
    BY Shape
  <2>5. s # <<>> /\ IsTerminator(s[Len(s)]) /\ \A n \in 1..Len(s) - 1 : ~ IsTerminator(s[n])
    BY DEF WellFormed, EndsAtLast, Last, Insts
  <2>. HIDE DEF s, r
  <2>6. r \in Seq(Instructions(c))
    BY <2>1, <2>2
  <2>7. Len(s) \in 1..Len(s)
    BY <2>4, <2>5
  <2>8. h[Len(s)] = Len(r) /\ r[Len(r)] = s[Len(s)] /\ Len(r) \in 1..Len(r)
    <3>1. Kept(live, s[Len(s)])
      BY <2>5, TerminatorsKept
    <3>. QED  BY <2>3, <2>7, <3>1 DEF Counts
  <2>9. ASSUME NEW p \in 1..Len(r) - 1 PROVE ~ IsTerminator(r[p])
    <3>0. Len(r) \in Nat
      BY <2>2
    <3>1. p \in 1..Len(r) /\ p # Len(r)
      BY <3>0
    <3>2. PICK n \in 1..Len(s) : h[n] = p /\ r[p] = s[n]
      BY <2>3, <3>1 DEF Counts
    <3>3. n \in 1..Len(s) - 1
      BY <2>4, <2>8, <3>1, <3>2
    <3>. QED  BY <2>5, <3>2, <3>3
  <2>10. r # <<>>
    BY <2>8
  <2>11. EndsAtLast(r)
    BY <2>5, <2>8, <2>9, <2>10 DEF EndsAtLast, Last
  <2>. QED  BY <2>6, <2>11 DEF r
<1>7. Alike(b, c)
  BY <1>1, <1>4, <1>5, <1>6 DEF Alike
<1>. QED  BY <1>7 DEF c

(* Dead code elimination keeps a function well-formed, dce.rs: an operand  *)
(* of what is kept is live, so that its definition is kept.                *)
LEMMA EliminateWellFormed ==
  ASSUME NEW b, WellFormed(b)
  PROVE  WellFormed(EliminateDeadCode(b))
<1>. DEFINE c == EliminateDeadCode(b)
            live == Live(b)
            dom == Dominators(b)
<1>1. Alike(b, c)
  BY EliminateAlike
<1>2. /\ DOMAIN c.blocks = DOMAIN b.blocks /\ Dominators(c) = Dominators(b)
      /\ IsFunction(c) /\ TracksEdges(c) /\ PhisMatch(c)
      /\ \A k \in DOMAIN c.blocks : EndsAtLast(c.blocks[k].insts)
  <2>. HIDE DEF c
  <2>. QED  BY <1>1, AlikeForm
<1>3. ASSUME NEW k \in DOMAIN b.blocks
      PROVE  /\ Range(Insts(c, k)) = {i \in Range(Insts(b, k)) : Kept(live, i)}
             /\ DOMAIN Insts(c, k) = 1..Len(Insts(c, k))
             /\ \E h : Counts(live, Insts(b, k), Insts(c, k), h)
             /\ DOMAIN Insts(b, k) = 1..Len(Insts(b, k)) /\ Len(Insts(b, k)) \in Nat
  BY RetainedInsts, Shape
<1>. HIDE DEF c
<1>4. ASSUME NEW k \in DOMAIN b.blocks, NEW p \in DOMAIN Insts(c, k)
      PROVE  \E n \in DOMAIN Insts(b, k) :
               /\ Kept(live, Insts(b, k)[n]) /\ Insts(c, k)[p] = Insts(b, k)[n]
               /\ {Insts(c, k)[m] : m \in 1..p - 1} = KeptOf(live, Insts(b, k), n - 1)
  <2>1. PICK h : Counts(live, Insts(b, k), Insts(c, k), h)
    BY <1>3
  <2>2. p \in 1..Len(Insts(c, k)) /\ DOMAIN Insts(b, k) = 1..Len(Insts(b, k))
    BY <1>3
  <2>. DEFINE s == Insts(b, k)
              r == Insts(c, k)
  <2>. HIDE DEF s, r
  <2>3. PICK n \in 1..Len(s) : /\ Kept(live, s[n]) /\ r[p] = s[n]
                              /\ FirstOf(r, p - 1) = KeptOf(live, s, n - 1)
    BY <2>1, <2>2 DEF Counts, s, r
  <2>4. n \in DOMAIN s /\ {r[m] : m \in 1..p - 1} = KeptOf(live, s, n - 1)
    BY <2>2, <2>3 DEF FirstOf, s
  <2>. QED  BY <2>3, <2>4 DEF s, r
<1>5. ASSUME NEW k \in DOMAIN b.blocks
      PROVE  Dests(c, k) \subseteq Dests(b, k) /\ live \cap Dests(b, k) \subseteq Dests(c, k)
  <2>. DEFINE S == Range(Insts(b, k))
              T == Range(Insts(c, k))
  <2>1. T = {i \in S : Kept(live, i)}
    BY <1>3
  <2>. HIDE DEF S, T
  <2>2. Defined(T) \subseteq Defined(S) /\ live \cap Defined(S) \subseteq Defined(T)
    BY <2>1 DEF Defined, Kept
  <2>. QED  BY <2>2 DEF Dests, Insts, S, T
<1>6. \A ks \in SUBSET DOMAIN b.blocks : live \cap ValuesOf(b, ks) \subseteq ValuesOf(c, ks)
  BY <1>5 DEF ValuesOf
<1>7. ASSUME NEW k \in DOMAIN b.blocks, NEW n \in DOMAIN Insts(b, k)
      PROVE  LET some == KeptOf(live, Insts(b, k), n - 1)
                 all == {Insts(b, k)[m] : m \in 1..n - 1}
             IN Defined(some) \subseteq Defined(all) /\ live \cap Defined(all) \subseteq Defined(some)
  BY DEF Defined, KeptOf, Kept
<1>8. DefinedOnce(c)
  <2>1. \A j, k \in DOMAIN b.blocks : j # k => Dests(c, j) \cap Dests(c, k) = {}
    BY <1>5 DEF WellFormed, DefinedOnce
  <2>2. ASSUME NEW k \in DOMAIN b.blocks, NEW p \in DOMAIN Insts(c, k)
        PROVE  \/ IsTerminator(Insts(c, k)[p])
               \/ Insts(c, k)[p].dest \notin Params \cup Defined({Insts(c, k)[m] : m \in 1..p - 1})
    <3>1. PICK n \in DOMAIN Insts(b, k) :
            /\ Insts(c, k)[p] = Insts(b, k)[n]
            /\ {Insts(c, k)[m] : m \in 1..p - 1} = KeptOf(live, Insts(b, k), n - 1)
      BY <1>4
    <3>2. \/ IsTerminator(Insts(b, k)[n])
          \/ Insts(b, k)[n].dest \notin Params \cup Defined({Insts(b, k)[m] : m \in 1..n - 1})
      BY DEF WellFormed, DefinedOnce, Insts
    <3>3. Defined({Insts(c, k)[m] : m \in 1..p - 1}) \subseteq Defined({Insts(b, k)[m] : m \in 1..n - 1})
      BY <1>7, <3>1
    <3>. QED  BY <3>1, <3>2, <3>3
  <2>. QED  BY <1>2, <2>1, <2>2 DEF DefinedOnce, Insts
<1>9. DefinedBefore(c)
  <2>1. \A k \in DOMAIN b.blocks : dom[k] \subseteq DOMAIN b.blocks
    BY DominatorsAlongEdges
  <2>. DEFINE afterB == [h \in DOMAIN b.blocks |-> ValuesOf(b, dom[h])]
              afterC == [h \in DOMAIN c.blocks |-> ValuesOf(c, dom[h])]
  <2>2. \A k \in DOMAIN b.blocks :
          /\ live \cap afterB[k] \subseteq afterC[k]
          /\ live \cap ValuesOf(b, dom[k] \ {k}) \subseteq ValuesOf(c, dom[k] \ {k})
    BY <1>2, <1>6, <2>1
  <2>3. ASSUME NEW k \in DOMAIN b.blocks, NEW p \in DOMAIN Insts(c, k)
        PROVE  IF Insts(c, k)[p].op = "phi"
               THEN \A j \in DOMAIN Insts(c, k)[p].args : Insts(c, k)[p].args[j] \in afterC[j]
               ELSE Uses(Insts(c, k)[p]) \subseteq
                      ValuesOf(c, dom[k] \ {k}) \cup Defined({Insts(c, k)[m] : m \in 1..p - 1})
    <3>1. PICK n \in DOMAIN Insts(b, k) :
            /\ Kept(live, Insts(b, k)[n]) /\ Insts(c, k)[p] = Insts(b, k)[n]
            /\ {Insts(c, k)[m] : m \in 1..p - 1} = KeptOf(live, Insts(b, k), n - 1)
      BY <1>4
    <3>. DEFINE i == Insts(b, k)[n]
    <3>2. IF i.op = "phi"
          THEN \A j \in DOMAIN i.args : i.args[j] \in afterB[j]
          ELSE Uses(i) \subseteq
                 ValuesOf(b, dom[k] \ {k}) \cup Defined({Insts(b, k)[m] : m \in 1..n - 1})
      BY DEF WellFormed, DefinedBefore, Insts
    <3>3. i \in Range(Insts(b, k))
      BY DEF Range
    <3>4. Operands(i) \subseteq live
      <4>1. i \in Instructions(b) /\ Kept(live, i)
        BY <3>1, <3>3 DEF Instructions, Insts
      <4>. HIDE DEF i
      <4>. QED  BY <4>1, OperandsLive
    <3>5. CASE i.op = "phi"
      <4>1. i \in Phis(b, k)
        BY <3>3, <3>5 DEF Phis, Insts
      <4>2. DOMAIN i.args \subseteq DOMAIN b.blocks
        <5>. HIDE DEF i
        <5>. QED  BY <4>1 DEF WellFormed, PhisMatch
      <4>3. \A j \in DOMAIN i.args : i.args[j] \in live
        BY <3>4, <3>5 DEF Operands, Range
      <4>. HIDE DEF i, afterB, afterC
      <4>4. \A j \in DOMAIN i.args : i.args[j] \in afterC[j]
        BY <2>2, <3>2, <3>5, <4>2, <4>3
      <4>. QED  BY <3>1, <3>5, <4>4 DEF i
    <3>6. CASE i.op # "phi"
      <4>1. Uses(i) \subseteq live
        BY <3>4, <3>6 DEF Operands
      <4>2. live \cap Defined({Insts(b, k)[m] : m \in 1..n - 1})
              \subseteq Defined({Insts(c, k)[m] : m \in 1..p - 1})
        BY <1>7, <3>1
      <4>3. Uses(i) \subseteq ValuesOf(c, dom[k] \ {k}) \cup Defined({Insts(c, k)[m] : m \in 1..p - 1})
        <5>. HIDE DEF i
        <5>. QED  BY <2>2, <3>2, <3>6, <4>1, <4>2
      <4>. QED  BY <3>1, <3>6, <4>3
    <3>. QED  BY <3>5, <3>6
  <2>. QED  BY <1>2, <2>3 DEF DefinedBefore, Insts
<1>. QED  BY <1>2, <1>8, <1>9 DEF WellFormed, c

-----------------------------------------------------------------------------
(* Dead code elimination: the machine.                                     *)

(* g is where m is, and has no value that m has not.                       *)
Follows(m, g) ==
  /\ IsMachine(m) /\ IsMachine(g)
  /\ g.at = m.at /\ g.to = m.to /\ g.exc = m.exc /\ g.result = m.result /\ g.left = m.left
  /\ \A v \in DOMAIN g.env : v \in DOMAIN m.env /\ g.env[v] = m.env[v]

(* Nor one that dead code has defined.                                     *)
Clean(b, g) == \A i \in Instructions(b) : ~ Kept(Live(b), i) => i.dest \notin DOMAIN g.env

(* Both get a value, and one follows the other.                            *)
LEMMA GetsFollows ==
  ASSUME NEW m, NEW g, Follows(m, g), NEW v, NEW n
  PROVE  Follows(Gets(m, v, n), Gets(g, v, n))
<1>. DEFINE p == Gets(m, v, n)
            q == Gets(g, v, n)
<1>1. IsMachine(m) /\ IsMachine(g)
  BY DEF Follows
<1>2. /\ IsMachine(p) /\ p.env = With(m.env, v, n)
      /\ p.exc = m.exc /\ p.at = m.at /\ p.to = m.to /\ p.result = m.result /\ p.left = m.left
  BY <1>1, GetsIs
<1>3. /\ IsMachine(q) /\ q.env = With(g.env, v, n)
      /\ q.exc = g.exc /\ q.at = g.at /\ q.to = g.to /\ q.result = g.result /\ q.left = g.left
  BY <1>1, GetsIs
<1>. HIDE DEF p, q
<1>4. \A w \in DOMAIN q.env : w \in DOMAIN p.env /\ q.env[w] = p.env[w]
  <2>1. \A w \in DOMAIN g.env : w \in DOMAIN m.env /\ g.env[w] = m.env[w]
    BY DEF Follows
  <2>. QED  BY <1>2, <1>3, <2>1 DEF With, Atop
<1>5. Follows(p, q)
  <2>1. g.at = m.at /\ g.to = m.to /\ g.exc = m.exc /\ g.result = m.result /\ g.left = m.left
    BY DEF Follows
  <2>. QED  BY <1>2, <1>3, <1>4, <2>1 DEF Follows
<1>. QED  BY <1>5 DEF p, q

(* So it is with all other fields.                                         *)
LEMMA OtherFieldsFollow ==
  ASSUME NEW m, NEW g, Follows(m, g), NEW x, NEW p, NEW q,
         \/ p = [m EXCEPT !.result = x] /\ q = [g EXCEPT !.result = x]
         \/ p = [m EXCEPT !.exc = x] /\ q = [g EXCEPT !.exc = x]
         \/ p = [m EXCEPT !.to = x] /\ q = [g EXCEPT !.to = x]
  PROVE  Follows(p, q)
<1>0. IsMachine(m) /\ IsMachine(g)
      /\ g.at = m.at /\ g.to = m.to /\ g.exc = m.exc /\ g.result = m.result /\ g.left = m.left
      /\ \A v \in DOMAIN g.env : v \in DOMAIN m.env /\ g.env[v] = m.env[v]
  BY DEF Follows
<1>a. ASSUME NEW o, IsMachine(o)
      PROVE  /\ [o EXCEPT !.result = x] = [env |-> o.env, exc |-> o.exc, at |-> o.at, to |-> o.to,
                                           result |-> x, left |-> o.left]
             /\ [o EXCEPT !.exc = x] = [env |-> o.env, exc |-> x, at |-> o.at, to |-> o.to,
                                        result |-> o.result, left |-> o.left]
             /\ [o EXCEPT !.to = x] = [env |-> o.env, exc |-> o.exc, at |-> o.at, to |-> x,
                                       result |-> o.result, left |-> o.left]
  BY <1>a DEF IsMachine
<1>1. CASE p = [m EXCEPT !.result = x] /\ q = [g EXCEPT !.result = x]
  BY <1>0, <1>a, <1>1 DEF Follows, IsMachine
<1>2. CASE p = [m EXCEPT !.exc = x] /\ q = [g EXCEPT !.exc = x]
  BY <1>0, <1>a, <1>2 DEF Follows, IsMachine
<1>3. CASE p = [m EXCEPT !.to = x] /\ q = [g EXCEPT !.to = x]
  BY <1>0, <1>a, <1>3 DEF Follows, IsMachine
<1>. QED  BY <1>1, <1>2, <1>3

(* So it is with any instruction of which the operands are there: they are *)
(* the same.                                                               *)
LEMMA DoesFollows ==
  ASSUME NEW m, NEW g, Follows(m, g), NEW i, Proper(i), Uses(i) \subseteq DOMAIN g.env
  PROVE  Follows(Does(m, i), Does(g, i))
<1>0. i.op \in {"phi", "assert", "const", "arith", "unary", "load", "store", "call",
                "return", "jump", "branch"}
  BY DEF Proper
<1>a. /\ \A v \in Uses(i) : g.env[v] = m.env[v]
      /\ g.exc = m.exc
  BY DEF Follows
<1>1. CASE i.op \in {"phi", "assert"}
  BY <1>1 DEF Does
<1>2. CASE i.op = "const"
  BY <1>2, GetsFollows DEF Does
<1>3. CASE i.op = "arith"
  <2>1. g.env[i.l] = m.env[i.l] /\ g.env[i.r] = m.env[i.r]
    BY <1>a, <1>3 DEF Uses
  <2>2. Trap(i, g.env) = Trap(i, m.env)
    BY <2>1 DEF Trap
  <2>3. CASE Trap(i, m.env) = None
    <3>. DEFINE n == Arithmetic(i.f, m.env[i.l], m.env[i.r])
    <3>1. Does(m, i) = Gets(m, i.dest, n)
      BY <1>3, <2>3 DEF Does
    <3>2. Does(g, i) = Gets(g, i.dest, Arithmetic(i.f, g.env[i.l], g.env[i.r]))
      BY <1>3, <2>2, <2>3 DEF Does
    <3>3. Arithmetic(i.f, g.env[i.l], g.env[i.r]) = n
      BY <2>1
    <3>. HIDE DEF n
    <3>. QED  BY <3>1, <3>2, <3>3, GetsFollows
  <2>4. CASE Trap(i, m.env) # None
    <3>1. Does(m, i) = [m EXCEPT !.result = Trap(i, m.env)]
      BY <1>3, <2>4 DEF Does
    <3>2. Does(g, i) = [g EXCEPT !.result = Trap(i, m.env)]
      BY <1>3, <2>2, <2>4 DEF Does
    <3>. QED  BY <3>1, <3>2, OtherFieldsFollow
  <2>. QED  BY <2>3, <2>4
<1>4. CASE i.op = "unary"
  <2>1. g.env[i.s] = m.env[i.s]
    BY <1>a, <1>4 DEF Uses
  <2>. DEFINE n == IF i.f = "neg" THEN Wrap(-m.env[i.s]) ELSE Complement(m.env[i.s])
  <2>2. Does(m, i) = Gets(m, i.dest, n)
    BY <1>4 DEF Does
  <2>3. Does(g, i) = Gets(g, i.dest, n)
    BY <1>4, <2>1 DEF Does
  <2>. HIDE DEF n
  <2>. QED  BY <2>2, <2>3, GetsFollows
<1>5. CASE i.op = "load"
  <2>1. Does(m, i) = Gets(m, i.dest, m.exc) /\ Does(g, i) = Gets(g, i.dest, m.exc)
    BY <1>a, <1>5 DEF Does
  <2>. QED  BY <2>1, GetsFollows
<1>6. CASE i.op = "store"
  <2>1. g.env[i.s] = m.env[i.s]
    BY <1>a, <1>6 DEF Uses
  <2>2. Does(m, i) = [m EXCEPT !.exc = m.env[i.s]] /\ Does(g, i) = [g EXCEPT !.exc = m.env[i.s]]
    BY <1>6, <2>1 DEF Does
  <2>. QED  BY <2>2, OtherFieldsFollow
<1>7. CASE i.op = "call"
  <2>1. g.env[i.arg] = m.env[i.arg]
    BY <1>a, <1>7 DEF Uses
  <2>2. Does(m, i) = RunCall(m, i, m.env[i.arg]) /\ Does(g, i) = RunCall(g, i, m.env[i.arg])
    BY <1>7, <2>1 DEF Does
  <2>3. CASE m.env[i.arg] \in i.f.raises
    <3>1. /\ Does(m, i) = [Gets(m, i.dest, 0) EXCEPT !.exc = i.f.id]
          /\ Does(g, i) = [Gets(g, i.dest, 0) EXCEPT !.exc = i.f.id]
      BY <2>2, <2>3 DEF RunCall
    <3>2. Follows(Gets(m, i.dest, 0), Gets(g, i.dest, 0))
      BY GetsFollows
    <3>. DEFINE h == Gets(m, i.dest, 0)
                k == Gets(g, i.dest, 0)
    <3>. HIDE DEF h, k
    <3>. QED  BY <3>1, <3>2, OtherFieldsFollow DEF h, k
  <2>4. CASE m.env[i.arg] \notin i.f.raises
    <3>1. /\ Does(m, i) = Gets(m, i.dest, m.env[i.arg])
          /\ Does(g, i) = Gets(g, i.dest, m.env[i.arg])
      BY <2>2, <2>4 DEF RunCall
    <3>. QED  BY <3>1, GetsFollows
  <2>. QED  BY <2>3, <2>4
<1>8. CASE i.op = "return"
  <2>1. g.env[i.v] = m.env[i.v]
    BY <1>a, <1>8 DEF Uses
  <2>2. Outcome(g, g.env[i.v]) = Outcome(m, m.env[i.v])
    BY <1>a, <2>1 DEF Outcome
  <2>3. /\ Does(m, i) = [m EXCEPT !.result = Outcome(m, m.env[i.v])]
        /\ Does(g, i) = [g EXCEPT !.result = Outcome(m, m.env[i.v])]
    BY <1>8, <2>2 DEF Does
  <2>. QED  BY <2>3, OtherFieldsFollow
<1>9. CASE i.op \in {"jump", "branch"}
  <2>1. i.op = "branch" => g.env[i.cond] = m.env[i.cond]
    BY <1>a, <1>9 DEF Uses
  <2>. DEFINE t == IF i.op = "branch" /\ m.env[i.cond] = 0 THEN i.targets[2] ELSE i.targets[1]
  <2>2. Does(m, i) = [m EXCEPT !.to = t] /\ Does(g, i) = [g EXCEPT !.to = t]
    BY <1>9, <2>1 DEF Does, Goto
  <2>. HIDE DEF t
  <2>. QED  BY <2>2, OtherFieldsFollow
<1>. QED  BY <1>0, <1>1, <1>2, <1>3, <1>4, <1>5, <1>6, <1>7, <1>8, <1>9

(* Both take a step that is kept.                                          *)
LEMMA KeptStep ==
  ASSUME NEW b, WellFormed(b), NEW i \in Instructions(b), Kept(Live(b), i),
         NEW m, NEW g, Follows(m, g), Clean(b, g), m.to = 0,
         g.result = None => Uses(i) \subseteq DOMAIN g.env
  PROVE  Follows(RunInst(m, i), RunInst(g, i)) /\ Clean(b, RunInst(g, i))
<1>0. Proper(i) /\ IsMachine(m) /\ IsMachine(g) /\ g.to = 0 /\ g.result = m.result
  BY Shape DEF Follows
<1>1. CASE m.result # None
  <2>1. RunInst(m, i) = m /\ RunInst(g, i) = g
    BY <1>0, <1>1, RunInstIs
  <2>. QED  BY <2>1
<1>2. CASE m.result = None
  <2>1. Uses(i) \subseteq DOMAIN g.env /\ Uses(i) \subseteq DOMAIN m.env
    BY <1>0, <1>2 DEF Follows
  <2>2. RunInst(m, i) = Does(m, i) /\ RunInst(g, i) = Does(g, i)
    BY <1>0, <1>2, <2>1, RunInstIs
  <2>3. Follows(Does(m, i), Does(g, i))
    BY <1>0, <2>1, DoesFollows
  <2>4. CASE Does(g, i).env = g.env
    BY <2>2, <2>3, <2>4 DEF Clean
  <2>5. ASSUME ~ IsTerminator(i), i.dest # NoValue, NEW x, Does(g, i).env = With(g.env, i.dest, x)
        PROVE  Clean(b, Does(g, i))
    <3>1. DOMAIN Does(g, i).env = DOMAIN g.env \cup {i.dest}
      <4>. DEFINE e == With(g.env, i.dest, x)
      <4>1. DOMAIN e = DOMAIN g.env \cup {i.dest}
        BY DEF With, Atop
      <4>. HIDE DEF e
      <4>. QED  BY <2>5, <4>1 DEF e
    <3>2. ASSUME NEW j \in Instructions(b), ~ Kept(Live(b), j) PROVE j.dest # i.dest
      <4>1. ~ IsTerminator(j)
        BY <3>2, TerminatorsKept
      <4>2. j.dest = i.dest => j = i
        BY <2>5, <4>1, OneDefinition
      <4>. QED  BY <3>2, <4>2
    <3>. QED  BY <3>1, <3>2 DEF Clean
  <2>. QED  BY <1>0, <2>2, <2>3, <2>4, <2>5, DoesEnv
<1>. QED  BY <1>1, <1>2

(* One takes a step that is dead: it changes nothing but a value that      *)
(* nobody reads, unless it traps.                                          *)
LEMMA DeadStep ==
  ASSUME NEW b, WellFormed(b), NEW i \in Instructions(b), ~ Kept(Live(b), i),
         NEW m, NEW g, Follows(m, g), Clean(b, g), m.to = 0,
         m.result = None => Uses(i) \subseteq DOMAIN m.env,
         RunInst(m, i).result \notin Traps
  PROVE  Follows(RunInst(m, i), g)
<1>0. IsMachine(m) /\ IsMachine(g) /\ i.op \in {"phi", "const", "arith", "unary", "load"}
      /\ i.dest \notin DOMAIN g.env
  BY Shape, TerminatorsKept DEF Follows, Clean
<1>1. CASE m.result # None
  BY <1>1, RunInstIs
<1>2. CASE m.result = None
  <2>1. RunInst(m, i) = Does(m, i)
    BY <1>2, RunInstIs
  <2>2. ASSUME NEW n PROVE Follows(Gets(m, i.dest, n), g)
    <3>. DEFINE p == Gets(m, i.dest, n)
    <3>1. /\ IsMachine(p) /\ p.env = With(m.env, i.dest, n)
          /\ p.exc = m.exc /\ p.at = m.at /\ p.to = m.to /\ p.result = m.result /\ p.left = m.left
      BY <1>0, GetsIs
    <3>. HIDE DEF p
    <3>2. \A v \in DOMAIN g.env : v \in DOMAIN m.env /\ g.env[v] = m.env[v]
      BY DEF Follows
    <3>3. \A v \in DOMAIN g.env : v \in DOMAIN p.env /\ g.env[v] = p.env[v]
      BY <1>0, <3>1, <3>2 DEF With, Atop
    <3>4. g.at = m.at /\ g.to = m.to /\ g.exc = m.exc /\ g.result = m.result /\ g.left = m.left
      BY DEF Follows
    <3>5. Follows(p, g)
      BY <1>0, <3>1, <3>3, <3>4 DEF Follows
    <3>. QED  BY <3>5 DEF p
  <2>3. CASE i.op = "phi"
    BY <2>1, <2>3 DEF Does
  <2>4. CASE i.op = "const"
    BY <2>1, <2>2, <2>4 DEF Does
  <2>5. CASE i.op = "arith"
    <3>1. CASE Trap(i, m.env) = None
      BY <2>1, <2>2, <2>5, <3>1 DEF Does
    <3>2. CASE Trap(i, m.env) # None
      <4>1. RunInst(m, i) = [m EXCEPT !.result = Trap(i, m.env)]
        BY <2>1, <2>5, <3>2 DEF Does
      <4>2. RunInst(m, i).result = Trap(i, m.env)
        BY <1>0, <4>1 DEF IsMachine
      <4>3. Trap(i, m.env) \in Traps
        BY <3>2 DEF Trap, Traps
      <4>. QED  BY <4>2, <4>3
    <3>. QED  BY <3>1, <3>2
  <2>6. CASE i.op = "unary"
    BY <2>1, <2>2, <2>6 DEF Does
  <2>7. CASE i.op = "load"
    BY <2>1, <2>2, <2>7 DEF Does
  <2>. QED  BY <1>0, <2>3, <2>4, <2>5, <2>6, <2>7
<1>. QED  BY <1>1, <1>2

(* Both take a jump: a phi that is removed is not live and its argument is *)
(* not missed.                                                             *)
LEMMA IntoFollows ==
  ASSUME NEW b, WellFormed(b), NEW m, NEW g, Follows(m, g), Clean(b, g),
         m.to \in DOMAIN b.blocks, Enterable(EliminateDeadCode(b), g)
  PROVE  /\ Follows(Into(b, m), Into(EliminateDeadCode(b), g))
         /\ Clean(b, Into(EliminateDeadCode(b), g))
<1>. DEFINE c == EliminateDeadCode(b)
            k == m.to
            all == Passed(m, Phis(b, k))
            some == Passed(g, Phis(c, k))
            p == Into(b, m)
            q == Into(c, g)
<1>1. /\ IsMachine(m) /\ IsMachine(g)
      /\ g.at = m.at /\ g.to = k /\ g.exc = m.exc /\ g.result = m.result /\ g.left = m.left
      /\ \A v \in DOMAIN g.env : v \in DOMAIN m.env /\ g.env[v] = m.env[v]
  BY DEF Follows
<1>2. k \in DOMAIN c.blocks /\ WellFormed(c) /\ \A i \in Phis(c, k) : i \in Phis(b, k) /\ Kept(Live(b), i)
  <2>1. k \in DOMAIN c.blocks /\ Phis(c, k) \subseteq Phis(b, k)
    BY EliminateAlike, AlikeForm DEF Alike
  <2>2. Range(Insts(c, k)) = {i \in Range(Insts(b, k)) : Kept(Live(b), i)}
    BY RetainedInsts
  <2>3. \A i \in Phis(c, k) : i \in Range(Insts(c, k))
    BY DEF Phis, Insts
  <2>. QED  BY <2>1, <2>2, <2>3, EliminateWellFormed
<1>3. /\ DOMAIN all = {i.dest : i \in Phis(b, k)}
      /\ \A i \in Phis(b, k) : /\ all[i.dest] = m.env[i.args[m.at]]
                               /\ i \in Instructions(b) /\ ~ IsTerminator(i) /\ i.dest # NoValue
  <2>1. k \in DOMAIN b.blocks
    OBVIOUS
  <2>. HIDE DEF k
  <2>2. PhisPass(b, k, m)
    BY <2>1, PassedIs
  <2>. QED  BY <2>2 DEF PhisPass
<1>4. /\ DOMAIN some = {i.dest : i \in Phis(c, k)}
      /\ \A i \in Phis(c, k) : some[i.dest] = g.env[i.args[g.at]]
  <2>1. k \in DOMAIN c.blocks /\ WellFormed(c)
    BY <1>2
  <2>. HIDE DEF c, k
  <2>2. PhisPass(c, k, g)
    BY <2>1, PassedIs
  <2>. QED  BY <2>2 DEF PhisPass
<1>5. \A i \in Phis(c, k) : g.env[i.args[g.at]] = m.env[i.args[m.at]]
  <2>1. \A i \in Phis(c, k) : i.args[g.at] \in DOMAIN g.env
    BY <1>1 DEF Enterable
  <2>. QED  BY <1>1, <2>1
<1>6. /\ IsMachine(p) /\ p.at = k /\ p.to = 0 /\ p.exc = m.exc /\ p.result = m.result
      /\ p.left = m.left - 1 /\ p.env = Atop(all, m.env)
  <2>1. /\ IsMachine(p) /\ p.at = m.to /\ p.to = 0 /\ p.exc = m.exc /\ p.result = m.result
        /\ p.left = m.left - 1 /\ p.env = Atop(Passed(m, Phis(b, m.to)), m.env)
    BY <1>1, IntoIs
  <2>. QED  BY <2>1
<1>7. /\ IsMachine(q) /\ q.at = k /\ q.to = 0 /\ q.exc = g.exc /\ q.result = g.result
      /\ q.left = g.left - 1 /\ q.env = Atop(some, g.env)
  <2>1. /\ IsMachine(q) /\ q.at = g.to /\ q.to = 0 /\ q.exc = g.exc /\ q.result = g.result
        /\ q.left = g.left - 1 /\ q.env = Atop(Passed(g, Phis(c, g.to)), g.env)
    BY <1>1, IntoIs
  <2>. QED  BY <1>1, <2>1
<1>8. \A i \in Phis(b, k) \ Phis(c, k) : i.dest \notin DOMAIN g.env
  <2>1. ASSUME NEW i \in Phis(b, k), Kept(Live(b), i) PROVE i \in Phis(c, k)
    <3>1. i \in Range(Insts(b, k)) /\ i.op = "phi"
      BY DEF Phis, Insts
    <3>2. i \in Range(Insts(c, k))
      BY <2>1, <3>1, RetainedInsts
    <3>. HIDE DEF c
    <3>. QED  BY <3>1, <3>2 DEF Phis, Insts
  <2>. QED  BY <1>3, <2>1 DEF Clean
<1>9. \A i \in Phis(b, k), j \in Phis(c, k) : j.dest = i.dest => i = j
  BY <1>2, <1>3, OneDefinition
<1>. HIDE DEF c, k, all, some, p, q
<1>10. ASSUME NEW v \in DOMAIN q.env PROVE v \in DOMAIN p.env /\ q.env[v] = p.env[v]
  <2>1. CASE v \in DOMAIN some
    <3>1. PICK i \in Phis(c, k) : v = i.dest
      BY <1>4, <2>1
    <3>2. i \in Phis(b, k) /\ v \in DOMAIN all /\ some[v] = all[v]
      BY <1>2, <1>3, <1>4, <1>5, <3>1
    <3>. QED  BY <1>6, <1>7, <2>1, <3>2 DEF Atop
  <2>2. CASE v \notin DOMAIN some
    <3>1. v \in DOMAIN g.env /\ q.env[v] = g.env[v]
      BY <1>7, <1>10, <2>2 DEF Atop
    <3>2. v \notin DOMAIN all
      BY <1>3, <1>4, <1>8, <2>2, <3>1
    <3>3. v \in DOMAIN m.env /\ g.env[v] = m.env[v]
      BY <1>1, <3>1
    <3>. QED  BY <1>6, <3>1, <3>2, <3>3 DEF Atop
  <2>. QED  BY <2>1, <2>2
<1>11. Follows(p, q)
  BY <1>1, <1>6, <1>7, <1>10 DEF Follows
<1>12. Clean(b, q)
  <2>1. ASSUME NEW i \in Instructions(b), ~ Kept(Live(b), i) PROVE i.dest \notin DOMAIN some
    <3>1. ASSUME NEW j \in Phis(c, k) PROVE j.dest # i.dest
      <4>1. ~ IsTerminator(i) /\ Kept(Live(b), j) /\ j \in Instructions(b) /\ ~ IsTerminator(j)
            /\ j.dest # NoValue
        BY <1>2, <1>3, <2>1, TerminatorsKept
      <4>. QED  BY <2>1, <4>1, OneDefinition
    <3>. QED  BY <1>4, <3>1
  <2>. QED  BY <1>7, <2>1 DEF Clean, Atop
<1>. QED  BY <1>11, <1>12 DEF p, q, c

(* A block without its dead code does what the block does, unless dead     *)
(* code traps.                                                             *)
LEMMA EliminateBlock ==
  ASSUME NEW b, WellFormed(b), NEW m, NEW g, m.result = None,
         Between(b, m), Between(EliminateDeadCode(b), g), Follows(m, g), Clean(b, g),
         RunBlock(b, m).result \notin Traps
  PROVE  /\ Follows(RunBlock(b, m), RunBlock(EliminateDeadCode(b), g))
         /\ Clean(b, RunBlock(EliminateDeadCode(b), g))
<1>. DEFINE c == EliminateDeadCode(b)
            k == m.to
            s == Insts(b, k)
            r == Insts(c, k)
<1>0. WellFormed(c)
  BY EliminateWellFormed
<1>1. g.to = k /\ g.result = None /\ g.left = m.left /\ IsMachine(m) /\ IsMachine(g)
  BY DEF Follows
<1>2. k \in DOMAIN b.blocks /\ Enterable(b, m)
  BY EntersBlock
<1>3. Enterable(c, g) /\ k \in DOMAIN c.blocks
  <2>1. Enterable(c, g) /\ g.to \in DOMAIN c.blocks
    <3>1. Between(c, g)
      OBVIOUS
    <3>. HIDE DEF c
    <3>. QED  BY <1>0, <1>1, <3>1, EntersBlock
  <2>. QED  BY <1>1, <2>1
<1>4. CASE m.left = 0
  <2>1. RunBlock(b, m) = [m EXCEPT !.result = OutOfFuel]
    BY <1>2, <1>4 DEF RunBlock
  <2>2. RunBlock(c, g) = [g EXCEPT !.result = OutOfFuel]
    <3>. HIDE DEF c
    <3>. QED  BY <1>1, <1>3, <1>4 DEF RunBlock
  <2>. DEFINE p == RunBlock(b, m)
              q == RunBlock(c, g)
  <2>3. q.env = g.env
    <3>. HIDE DEF q
    <3>. QED  BY <1>1, <2>2 DEF IsMachine, q
  <2>4. Follows(p, q) /\ Clean(b, q)
    <3>1. p = [m EXCEPT !.result = OutOfFuel] /\ q = [g EXCEPT !.result = OutOfFuel]
      BY <2>1, <2>2
    <3>. HIDE DEF p, q
    <3>2. Follows(p, q)
      BY <3>1, OtherFieldsFollow
    <3>. QED  BY <2>3, <3>2 DEF Clean
  <2>. QED  BY <2>4
<1>5. CASE m.left # 0
  <2>1. PICK f : Blockwise(b, m, f) /\ \A n \in 0..Len(s) : Inside(b, k, n, f[n])
    BY <1>5, BlockRuns
  <2>2. PICK h : Blockwise(c, g, h) /\ \A n \in 0..Len(r) : Inside(c, k, n, h[n])
    <3>1. Between(c, g) /\ g.left # 0
      BY <1>1, <1>5
    <3>2. \E h : Blockwise(c, g, h) /\ \A n \in 0..Len(Insts(c, g.to)) : Inside(c, g.to, n, h[n])
      <4>. HIDE DEF c
      <4>. QED  BY <1>0, <1>1, <3>1, BlockRuns
    <3>. QED  BY <1>1, <3>2
  <2>3. /\ f[0] = Into(b, m) /\ RunBlock(b, m) = f[Len(s)]
        /\ \A n \in 1..Len(s) : f[n] = RunInst(f[n - 1], s[n])
    BY <2>1 DEF Blockwise, Steps, Step
  <2>4. /\ h[0] = Into(c, g) /\ RunBlock(c, g) = h[Len(r)]
        /\ \A n \in 1..Len(r) : h[n] = RunInst(h[n - 1], r[n])
    <3>. HIDE DEF c
    <3>. QED  BY <1>1, <2>2 DEF Blockwise, Steps, Step
  <2>5. PICK d : Counts(Live(b), s, r, d)
    BY <1>2, RetainedInsts
  <2>6. /\ Len(s) \in Nat /\ DOMAIN s = 1..Len(s) /\ Len(r) \in Nat
        /\ \A n \in 1..Len(s) : s[n] \in Instructions(b)
    BY <1>2, Shape, RetainedInsts, OperandsAvailable
  <2>7. Follows(f[0], h[0]) /\ Clean(b, h[0])
    BY <1>2, <1>3, <2>3, <2>4, IntoFollows
  <2>. DEFINE holds == {n \in 0..Len(s) : /\ d[n] \in 0..Len(r)
                                          /\ f[n].result \notin Traps =>
                                               Follows(f[n], h[d[n]]) /\ Clean(b, h[d[n]])}
  <2>8. 0 \in holds
    BY <2>5, <2>6, <2>7 DEF Counts
  <2>9. ASSUME NEW n \in 0..Len(s) - 1, n \in holds PROVE n + 1 \in holds
    <3>1. n + 1 \in 1..Len(s) /\ (n + 1) - 1 = n /\ n + 1 \in 0..Len(s) /\ n \in 0..Len(s)
      BY <2>6
    <3>. DEFINE i == s[n + 1]
    <3>2. i \in Instructions(b) /\ f[n + 1] = RunInst(f[n], i)
      BY <2>3, <2>6, <3>1
    <3>3. /\ f[n].to = 0 /\ IsMachine(f[n])
          /\ f[n].result = None => Uses(i) \subseteq DOMAIN f[n].env
      <4>1. Inside(b, k, n, f[n])
        BY <2>1, <3>1
      <4>2. k \in DOMAIN b.blocks /\ Inside(b, k, (n + 1) - 1, f[n]) /\ n + 1 \in 1..Len(Insts(b, k))
        BY <1>2, <3>1, <4>1
      <4>3. IsMachine(f[n])
        BY <4>1 DEF Inside
      <4>. HIDE DEF k
      <4>. QED  BY <4>2, <4>3, StepInside
    <3>4. f[n + 1].result \notin Traps => f[n].result \notin Traps
      <4>1. CASE f[n].result # None
        <5>1. f[n + 1] = f[n]
          BY <3>2, <4>1, RunInstIs
        <5>. QED  BY <5>1
      <4>2. CASE f[n].result = None
        BY <4>2, ResultsDiffer
      <4>. QED  BY <4>1, <4>2
    <3>5. /\ d[n] \in 0..Len(r)
          /\ f[n + 1].result \notin Traps => Follows(f[n], h[d[n]]) /\ Clean(b, h[d[n]])
      BY <2>9, <3>4
    <3>6. CASE Kept(Live(b), i)
      <4>1. d[n + 1] = d[n] + 1 /\ r[d[n + 1]] = i /\ d[n + 1] \in 1..Len(r)
        BY <2>5, <3>1, <3>6 DEF Counts
      <4>2. d[n + 1] - 1 = d[n] /\ d[n + 1] \in 0..Len(r)
        BY <2>6, <3>5, <4>1
      <4>3. h[d[n + 1]] = RunInst(h[d[n]], i)
        BY <2>4, <4>1, <4>2
      <4>4. h[d[n]].result = None => Uses(i) \subseteq DOMAIN h[d[n]].env
        <5>1. Inside(c, k, d[n + 1] - 1, h[d[n]]) /\ d[n + 1] \in 1..Len(Insts(c, k))
          BY <2>2, <3>5, <4>1, <4>2
        <5>2. r[d[n + 1]] = Insts(c, k)[d[n + 1]]
          OBVIOUS
        <5>. HIDE DEF c, k, i, r
        <5>3. h[d[n]].result = None => Uses(Insts(c, k)[d[n + 1]]) \subseteq DOMAIN h[d[n]].env
          BY <1>0, <1>3, <5>1, StepInside
        <5>. QED  BY <4>1, <5>2, <5>3
      <4>5. f[n + 1].result \notin Traps => Follows(f[n + 1], h[d[n + 1]]) /\ Clean(b, h[d[n + 1]])
        <5>. HIDE DEF i
        <5>. QED  BY <3>2, <3>3, <3>5, <3>6, <4>3, <4>4, KeptStep
      <4>. QED  BY <3>1, <4>2, <4>5
    <3>7. CASE ~ Kept(Live(b), i)
      <4>1. d[n + 1] = d[n]
        BY <2>5, <3>1, <3>7 DEF Counts
      <4>2. f[n + 1].result \notin Traps => Follows(f[n + 1], h[d[n]])
        <5>. HIDE DEF i
        <5>. QED  BY <3>2, <3>3, <3>5, <3>7, DeadStep
      <4>. QED  BY <3>1, <3>5, <4>1, <4>2
    <3>. QED  BY <3>6, <3>7
  <2>10. \A n \in 0..Len(s) : n \in holds
    <3>1. Len(s) \in Nat
      BY <2>6
    <3>. HIDE DEF holds, s
    <3>. QED  BY <2>8, <2>9, <3>1, CountingUp
  <2>11. Len(s) \in holds /\ d[Len(s)] = Len(r)
    <3>1. Len(s) \in 0..Len(s)
      BY <2>6
    <3>. QED  BY <2>5, <2>10, <3>1 DEF Counts
  <2>. QED  BY <2>3, <2>4, <2>11
<1>. QED  BY <1>4, <1>5

-----------------------------------------------------------------------------
(* Optimised code beside the code that was built.                          *)

(* A machine between blocks of a function is between blocks of the folded  *)
(* one.                                                                    *)
LEMMA FoldBetween ==
  ASSUME NEW b, WellFormed(b), NEW m, Between(b, m)
  PROVE  Between(FoldConstants(b), m)
<1>. DEFINE c == FoldConstants(b)
<1>1. /\ \A k \in DOMAIN b.blocks : Targets(c, k) = Targets(b, k)
      /\ Dominators(c) = Dominators(b) /\ ReachableFrom(c, {1}) = ReachableFrom(b, {1})
  BY FoldAlike, AlikeForm
<1>2. \A ks \in SUBSET DOMAIN b.blocks : ValuesOf(c, ks) = ValuesOf(b, ks)
  BY FoldWellFormed
<1>3. /\ ReachableFrom(b, {1}) \subseteq DOMAIN b.blocks
      /\ \A k \in DOMAIN b.blocks : Dominators(b)[k] \subseteq DOMAIN b.blocks
  BY ReachedAlongEdges, DominatorsAlongEdges
<1>. HIDE DEF c
<1>4. Between(c, m)
  BY <1>1, <1>2, <1>3 DEF Between
<1>. QED  BY <1>4 DEF c

(* At the entry nothing is there but the parameters: no constant and       *)
(* nothing dead.                                                           *)
LEMMA Entering ==
  ASSUME NEW b, WellFormed(b), NEW args, NEW left
  PROVE  LET m == Entry(args, left)
         IN /\ Between(b, m) /\ Follows(m, m) /\ Agree(b, m) /\ Clean(b, m)
<1>. DEFINE m == Entry(args, left)
            e == [v \in 1..Len(Var) + 1 |-> IF v = 1 THEN 0 ELSE args[Var[v - 1]]]
<1>1. m = [env |-> e, exc |-> 0, at |-> 0, to |-> 1, result |-> None, left |-> left]
  BY DEF Entry
<1>2. DOMAIN e = Params
  BY DEF Params
<1>. HIDE DEF e, m
<1>3. IsMachine(m) /\ m.result = None /\ m.at = 0 /\ m.to = 1 /\ DOMAIN m.env = Params
  BY <1>1, <1>2 DEF IsMachine
<1>4. Between(b, m) /\ Follows(m, m)
  BY <1>3, ResultsDiffer DEF Between, Follows
<1>5. \A i \in Instructions(b) : ~ IsTerminator(i) /\ i.dest # NoValue => i.dest \notin DOMAIN m.env
  BY <1>3, OneDefinition
<1>6. Agree(b, m)
  <2>1. ASSUME NEW v \in DOMAIN Constants(b) PROVE v \notin DOMAIN m.env
    <3>1. PICK i \in Instructions(b) : i.dest = v /\ Learns(Constants(b), i)
      BY ConstantsJustified DEF Justified
    <3>2. Proper(i)
      BY Shape
    <3>3. ~ IsTerminator(i) /\ i.dest # NoValue
      BY <3>1, <3>2, LearnsNoTerminator
    <3>. QED  BY <1>5, <3>1, <3>3
  <2>. QED  BY <2>1 DEF Agree
<1>7. Clean(b, m)
  <2>1. ASSUME NEW i \in Instructions(b), ~ Kept(Live(b), i) PROVE i.dest \notin DOMAIN m.env
    <3>1. Proper(i)
      BY Shape
    <3>2. ~ IsTerminator(i) /\ i.dest # NoValue
      BY <2>1, <3>1, TerminatorsKept
    <3>. QED  BY <1>5, <3>2
  <2>. QED  BY <2>1 DEF Clean
<1>. QED  BY <1>4, <1>6, <1>7 DEF m

(* The machine beside has what optimised code has, until it traps.         *)
Beside(b, m, g) ==
  m.result \notin Traps =>
    Follows(m, g) /\ Clean(FoldConstants(b), g) /\ Agree(b, m)

(* Both passes, one after the other, keep a function well-formed.          *)
LEMMA OptimizeWellFormed ==
  ASSUME NEW b, WellFormed(b)
  PROVE  WellFormed(Optimize(b)) /\ Optimize(b).error = b.error
<1>. DEFINE c == FoldConstants(b)
            d == EliminateDeadCode(c)
<1>1. WellFormed(c) /\ c.error = b.error
  BY FoldWellFormed, FoldedBlocks
<1>2. WellFormed(d) /\ d.error = c.error
  <2>. HIDE DEF c
  <2>. QED  BY <1>1, EliminateWellFormed, RetainedBlocks
<1>. QED  BY <1>1, <1>2 DEF Optimize

(* A block of optimised code does what the block does that was built,      *)
(* unless that traps: FoldBlock and then EliminateBlock.                   *)
LEMMA BesideBlock ==
  ASSUME NEW b, WellFormed(b), NEW m, NEW g, m.result = None,
         Between(b, m), Between(Optimize(b), g), Beside(b, m, g)
  PROVE  Beside(b, RunBlock(b, m), RunBlock(Optimize(b), g))
<1>. DEFINE c == FoldConstants(b)
            d == EliminateDeadCode(c)
<1>1. Optimize(b) = d /\ WellFormed(c) /\ Between(c, m) /\ Between(d, g)
  BY FoldWellFormed, FoldBetween DEF Optimize
<1>2. Follows(m, g) /\ Clean(c, g) /\ Agree(b, m)
  BY ResultsDiffer DEF Beside
<1>3. RunBlock(c, m) = RunBlock(b, m) /\ Agree(b, RunBlock(b, m))
  BY <1>2, FoldBlock
<1>4. RunBlock(b, m).result \notin Traps =>
        Follows(RunBlock(c, m), RunBlock(d, g)) /\ Clean(c, RunBlock(d, g))
  <2>. HIDE DEF c
  <2>. QED  BY <1>1, <1>2, <1>3, EliminateBlock
<1>. QED  BY <1>1, <1>3, <1>4 DEF Beside

(* What functions have to be: what the builder has made without an error   *)
(* has the form that CompiledCall's runs check.                            *)
Sound(functions) == \A b \in functions : b.error = "" => WellFormed(b)

(* The inductive invariant.                                                *)
Alongside ==
  /\ Compiled => WellFormed(built) /\ fn = Optimize(built)
  /\ got # None =>
       /\ Compiled
       /\ Between(built, plain) /\ Between(fn, got)
       /\ Beside(built, plain, got)

(* A machine is there.                                                     *)
LEMMA MachineNotNone ==
  ASSUME NEW m, IsMachine(m)
  PROVE  m # None
<1>1. "env" \in DOMAIN m
  BY DEF IsMachine
<1>2. "env" \notin DOMAIN None
  BY DEF None
<1>. QED  BY <1>1, <1>2

(* The invariant is inductive, action by action.                           *)
LEMMA AlongsideStep ==
  ASSUME NEW functions, NEW calls, NEW left, Sound(functions),
         Alongside, [NextRun(functions, calls, left)]_run
  PROVE  Alongside'
<1>1. ASSUME NEW b \in functions, CompileTo(b) PROVE Alongside'
  <2>1. got' = None
    BY <1>1 DEF CompileTo, Alongside
  <2>2. ASSUME Compiled' PROVE WellFormed(built') /\ fn' = Optimize(built')
    <3>1. built' = b /\ fn' = Transform(b) /\ fn'.error = ""
      BY <1>1, <2>2 DEF CompileTo, Compiled
    <3>2. b.error = ""
      BY <3>1 DEF Transform
    <3>. QED  BY <3>1, <3>2 DEF Transform, Sound
  <2>. QED  BY <2>1, <2>2 DEF Alongside
<1>2. ASSUME NEW args \in calls, BeginCall(args, left) PROVE Alongside'
  <2>. DEFINE m == Entry(args, left)
  <2>1. /\ Compiled /\ WellFormed(built) /\ fn = Optimize(built)
        /\ got' = m /\ plain' = m /\ built' = built /\ fn' = fn
    BY <1>2 DEF BeginCall, Alongside
  <2>2. WellFormed(fn) /\ WellFormed(FoldConstants(built))
    BY <2>1, OptimizeWellFormed, FoldWellFormed
  <2>3. Between(built, m) /\ Between(fn, m) /\ Follows(m, m) /\ Agree(built, m)
        /\ Clean(FoldConstants(built), m)
    BY <2>1, <2>2, Entering
  <2>. HIDE DEF m
  <2>4. Beside(built, m, m)
    BY <2>3 DEF Beside
  <2>5. Compiled'
    BY <2>1 DEF Compiled
  <2>. QED  BY <2>1, <2>3, <2>4, <2>5 DEF Alongside
<1>3. ASSUME Advance PROVE Alongside'
  <2>1. /\ got # None /\ got.result = None /\ Compiled /\ WellFormed(built) /\ fn = Optimize(built)
        /\ Between(built, plain) /\ Between(fn, got) /\ Beside(built, plain, got)
        /\ got' = RunBlock(fn, got) /\ built' = built /\ fn' = fn
        /\ plain' = IF plain.result = None THEN RunBlock(built, plain) ELSE plain
    BY <1>3 DEF Advance, Running, Alongside
  <2>2. Between(fn, got')
    BY <2>1, OptimizeWellFormed, NeverStuck
  <2>3. Between(built, plain')
    BY <2>1, NeverStuck
  <2>4. Beside(built, plain', got')
    <3>1. CASE plain.result = None
      BY <2>1, <3>1, BesideBlock
    <3>2. CASE plain.result # None
      <4>1. plain.result \in Traps
        BY <2>1, <3>2 DEF Beside, Follows
      <4>. QED  BY <2>1, <3>2, <4>1 DEF Beside
    <3>. QED  BY <3>1, <3>2
  <2>5. Compiled'
    BY <2>1 DEF Compiled
  <2>. QED  BY <2>1, <2>2, <2>3, <2>4, <2>5 DEF Alongside
<1>4. ASSUME Finish PROVE Alongside'
  BY <1>4 DEF Finish, Alongside, Compiled
<1>5. ASSUME UNCHANGED run PROVE Alongside'
  BY <1>5 DEF run, Alongside, Compiled
<1>. QED  BY <1>1, <1>2, <1>3, <1>4, <1>5 DEF NextRun

(* The invariant holds.                                                    *)
LEMMA AlongsideAlways ==
  ASSUME NEW functions, NEW calls, NEW left, Sound(functions)
  PROVE  SpecRun(functions, calls, left) => []Alongside
<1>1. InitRun => Alongside
  BY DEF InitRun, Alongside, Compiled
<1>2. Alongside /\ [NextRun(functions, calls, left)]_run => Alongside'
  BY AlongsideStep
<1>. QED  BY <1>1, <1>2, PTL DEF SpecRun

(* The result, for optimization/mod.rs: for any well-formed functions, any *)
(* arguments and any bound on blocks neither code gets stuck, and the      *)
(* optimised one is in the same block, with the same exception and the     *)
(* same result, until the one that was built traps.                        *)
THEOREM OptimisedRunsAlike ==
  ASSUME NEW functions, NEW calls, NEW left, Sound(functions)
  PROVE  SpecRun(functions, calls, left) => []RunsAlike
<1>1. Alongside => RunsAlike
  BY DEF Alongside, RunsAlike, Between, Beside, Follows, Traps
<1>. QED  BY <1>1, AlongsideAlways, PTL

(* What is compiled is well-formed, as it was built and optimised.         *)
LEMMA CompiledWellFormed ==
  ASSUME Alongside, Compiled
  PROVE  WellFormed(built) /\ WellFormed(fn)
BY OptimizeWellFormed DEF Alongside

(* Optimised code has its jumps in the lists of predecessors and           *)
(* successors.                                                             *)
THEOREM OptimisedEdgesTracked ==
  ASSUME NEW functions, NEW calls, NEW left, Sound(functions)
  PROVE  SpecRun(functions, calls, left) => []EdgesTracked
<1>1. Alongside => EdgesTracked
  BY CompiledWellFormed DEF EdgesTracked, Form, WellFormed
<1>. QED  BY <1>1, AlongsideAlways, PTL

(* Optimised blocks are left at their last instruction.                    *)
THEOREM OptimisedLeavesAtLast ==
  ASSUME NEW functions, NEW calls, NEW left, Sound(functions)
  PROVE  SpecRun(functions, calls, left) => []LeavesAtLast
<1>1. Alongside => LeavesAtLast
  BY CompiledWellFormed DEF LeavesAtLast, Form, WellFormed
<1>. QED  BY <1>1, AlongsideAlways, PTL

(* The phis of optimised code have one operand per jump: a dead block is   *)
(* not removed without its edges.                                          *)
THEOREM OptimisedPhiPerEdge ==
  ASSUME NEW functions, NEW calls, NEW left, Sound(functions)
  PROVE  SpecRun(functions, calls, left) => []PhiPerEdge
<1>1. Alongside => PhiPerEdge
  BY CompiledWellFormed DEF PhiPerEdge, Form, WellFormed
<1>. QED  BY <1>1, AlongsideAlways, PTL

(* Optimised code is in strict SSA form: no value is used of which the     *)
(* definition has been eliminated.                                         *)
THEOREM OptimisedStrictSsa ==
  ASSUME NEW functions, NEW calls, NEW left, Sound(functions)
  PROVE  SpecRun(functions, calls, left) => []StrictSsa
<1>1. Alongside => StrictSsa
  BY CompiledWellFormed DEF StrictSsa, Form, WellFormed
<1>. QED  BY <1>1, AlongsideAlways, PTL

=============================================================================
