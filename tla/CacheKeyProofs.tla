--------------------------- MODULE CacheKeyProofs ---------------------------
(***************************************************************************)
(* What compute_hash_full tells apart, for any names, sources and sizes:   *)
(* a request's key does not depend on the order in which a process meets   *)
(* the keys of its maps, and every edit of the request changes it.         *)
(***************************************************************************)
EXTENDS CacheKey, FiniteSetTheorems, FunctionTheorems, SequenceTheorems, WellFoundedInduction, TLAPS

-----------------------------------------------------------------------------
(* What is sorted                                                          *)

\* How many of `names` come up to `x`.
UpTo(names, x) == {y \in names : y <= x}
Rank(names, x) == Cardinality(UpTo(names, x))

Ascending(s, n) == \A i, j \in 1 .. n : i < j => s[i] < s[j]

\* Ranks count from 1.
LEMMA RankInRange ==
  ASSUME NEW names \in SUBSET Nat, IsFiniteSet(names), NEW x \in names
  PROVE  Rank(names, x) \in 1 .. Cardinality(names)
<1>1. UpTo(names, x) \subseteq names /\ UpTo(names, x) # {}
  BY DEF UpTo
<1>2. /\ IsFiniteSet(UpTo(names, x)) /\ Cardinality(UpTo(names, x)) <= Cardinality(names)
  BY <1>1, FS_Subset
<1>3. Cardinality(UpTo(names, x)) \in Nat /\ Cardinality(names) \in Nat
  BY <1>2, FS_CardinalityType
<1>4. Cardinality(UpTo(names, x)) # 0
  BY <1>1, <1>2, FS_EmptySet
<1>. QED  BY <1>2, <1>3, <1>4 DEF Rank

\* A lesser name has a lower rank.
LEMMA RankGrows ==
  ASSUME NEW names \in SUBSET Nat, IsFiniteSet(names), NEW x \in names, NEW y \in names, x < y
  PROVE  Rank(names, x) < Rank(names, y)
<1>1. UpTo(names, x) \subseteq UpTo(names, y) /\ UpTo(names, x) # UpTo(names, y)
  <2>1. y \in UpTo(names, y) /\ y \notin UpTo(names, x)
    BY DEF UpTo
  <2>2. ASSUME NEW z \in names, z <= x PROVE z <= y
    <3>1. z \in Nat /\ x \in Nat /\ y \in Nat
      OBVIOUS
    <3>. QED  BY <2>2, <3>1
  <2>3. UpTo(names, x) \subseteq UpTo(names, y)
    BY <2>2 DEF UpTo
  <2>. QED  BY <2>1, <2>3
<1>2. IsFiniteSet(UpTo(names, y))
  <2>1. UpTo(names, y) \subseteq names
    BY DEF UpTo
  <2>. QED  BY <2>1, FS_Subset
<1>3. /\ Cardinality(UpTo(names, x)) <= Cardinality(UpTo(names, y))
      /\ Cardinality(UpTo(names, x)) # Cardinality(UpTo(names, y))
  BY <1>1, <1>2, FS_Subset
<1>4. Cardinality(UpTo(names, x)) \in Nat /\ Cardinality(UpTo(names, y)) \in Nat
  BY <1>1, <1>2, FS_Subset, FS_CardinalityType
<1>. QED  BY <1>3, <1>4 DEF Rank

\* Equal ranks, equal names; and a lower rank is a lesser name.
LEMMA RankTells ==
  ASSUME NEW names \in SUBSET Nat, IsFiniteSet(names)
  PROVE  \A x, y \in names : /\ Rank(names, x) = Rank(names, y) => x = y
                             /\ Rank(names, x) < Rank(names, y) => x < y
<1>. SUFFICES ASSUME NEW x \in names, NEW y \in names
              PROVE  /\ Rank(names, x) = Rank(names, y) => x = y
                     /\ Rank(names, x) < Rank(names, y) => x < y
  OBVIOUS
<1>1. Rank(names, x) \in Nat /\ Rank(names, y) \in Nat
  <2>1. /\ Rank(names, x) \in 1 .. Cardinality(names)
        /\ Rank(names, y) \in 1 .. Cardinality(names)
    BY RankInRange
  <2>. QED  BY <2>1, FS_CardinalityType
<1>2. x < y => Rank(names, x) < Rank(names, y)
  BY RankGrows
<1>3. y < x => Rank(names, y) < Rank(names, x)
  BY RankGrows
<1>4. x \in Nat /\ y \in Nat
  OBVIOUS
<1>. QED  BY <1>1, <1>2, <1>3, <1>4

\* In ascending order the i-th name has rank i.
LEMMA AscendingByRank ==
  ASSUME NEW names \in SUBSET Nat, IsFiniteSet(names), NEW n \in Nat, n = Cardinality(names),
         NEW s \in [1 .. n -> names], Ascending(s, n), NEW i \in 1 .. n
  PROVE  Rank(names, s[i]) = i
<1>1. \A j, k \in 1 .. n : s[j] = s[k] => j = k
  <2>1. \A j \in 1 .. n : s[j] \in Nat
    OBVIOUS
  <2>. QED  BY <2>1 DEF Ascending
<1>2. s \in Injection(1 .. n, names)
  BY <1>1, Fun_IsInj
<1>3. \A x \in names : \E j \in 1 .. n : s[j] = x
  <2>1. Cardinality(1 .. n) = n
    BY FS_Interval
  <2>2. s \in Surjection(1 .. n, names)
    BY <1>2, <2>1, FS_Injection
  <2>. QED  BY <2>2, Fun_SurjectionProperties
<1>. DEFINE first == [j \in 1 .. i |-> s[j]]
<1>4. ASSUME NEW j \in 1 .. n PROVE s[j] <= s[i] <=> j <= i
  <2>1. i \in Int /\ j \in Int
    OBVIOUS
  <2>2. s[j] \in names /\ s[i] \in names
    OBVIOUS
  <2>3. \A x \in names : x \in Nat
    OBVIOUS
  <2>4. s[j] \in Nat /\ s[i] \in Nat
    BY <2>2, <2>3
  <2>5. (j < i => s[j] < s[i]) /\ (i < j => s[i] < s[j])
    BY DEF Ascending
  <2>. QED  BY <2>1, <2>4, <2>5
<1>5. first \in [1 .. i -> UpTo(names, s[i])]
  BY <1>4 DEF UpTo
<1>6. \A j, k \in 1 .. i : first[j] = first[k] => j = k
  BY <1>1
<1>7. \A x \in UpTo(names, s[i]) : \E j \in 1 .. i : first[j] = x
  BY <1>3, <1>4 DEF UpTo
<1>8. first \in Bijection(1 .. i, UpTo(names, s[i]))
  <2>. HIDE DEF first
  <2>. QED  BY <1>5, <1>6, <1>7, Fun_IsBij
<1>9. ExistsBijection(1 .. i, UpTo(names, s[i]))
  BY <1>8 DEF ExistsBijection
<1>10. IsFiniteSet(1 .. i) /\ Cardinality(1 .. i) = i
  BY FS_Interval
<1>. QED  BY <1>9, <1>10, FS_Bijection DEF Rank

\* Whatever order keys() gives, there is a permutation that sorts it: each
\* key goes to the place that its rank says.
LEMMA SortingExists ==
  ASSUME NEW names \in SUBSET Nat, IsFiniteSet(names), NEW n \in Nat, n = Cardinality(names),
         NEW keys \in SetToSeqs(names)
  PROVE  \E p \in SetToSeqs(1 .. n) :
           \A i, j \in 1 .. n : i < j => keys[p[i]] < keys[p[j]]
<1>1. /\ keys \in [1 .. n -> names]
      /\ \A i, j \in 1 .. n : i # j => keys[i] # keys[j]
  BY DEF SetToSeqs
<1>2. IsFiniteSet(1 .. n) /\ Cardinality(1 .. n) = n
  BY FS_Interval
<1>. DEFINE rank == [i \in 1 .. n |-> Rank(names, keys[i])]
            place == [i \in 1 .. n |-> CHOOSE j \in 1 .. n : rank[j] = i]
<1>3. rank \in [1 .. n -> 1 .. n]
  BY <1>1, RankInRange
<1>4. ASSUME NEW i \in 1 .. n, NEW j \in 1 .. n, rank[i] = rank[j] PROVE i = j
  <2>1. Rank(names, keys[i]) = Rank(names, keys[j])
    BY <1>4
  <2>2. keys[i] \in names /\ keys[j] \in names
    BY <1>1
  <2>3. keys[i] = keys[j]
    BY <2>1, <2>2, RankTells
  <2>. QED  BY <1>1, <2>3
<1>5. \A i \in 1 .. n : \E j \in 1 .. n : rank[j] = i
  <2>. HIDE DEF rank
  <2>1. rank \in Injection(1 .. n, 1 .. n)
    BY <1>3, <1>4, Fun_IsInj
  <2>2. rank \in Surjection(1 .. n, 1 .. n)
    BY <1>2, <2>1, FS_Injection
  <2>. QED  BY <2>2, Fun_SurjectionProperties
<1>6. \A i \in 1 .. n : place[i] \in 1 .. n /\ rank[place[i]] = i
  <2>. HIDE DEF rank
  <2>. QED  BY <1>5
<1>7. place \in SetToSeqs(1 .. n)
  <2>1. \A i, j \in 1 .. n : i # j => place[i] # place[j]
    <3>. HIDE DEF rank, place
    <3>. QED  BY <1>6
  <2>2. place \in [1 .. n -> 1 .. n]
    <3>1. \A i \in 1 .. n : (CHOOSE j \in 1 .. n : rank[j] = i) \in 1 .. n
      BY <1>6
    <3>. QED  BY <3>1
  <2>. HIDE DEF place
  <2>. QED  BY <1>2, <2>1, <2>2 DEF SetToSeqs
<1>8. ASSUME NEW i \in 1 .. n, NEW j \in 1 .. n, i < j
      PROVE  keys[place[i]] < keys[place[j]]
  <2>1. place[i] \in 1 .. n /\ place[j] \in 1 .. n
    BY <1>6
  <2>2. Rank(names, keys[place[i]]) = i /\ Rank(names, keys[place[j]]) = j
    BY <1>6, <2>1
  <2>. HIDE DEF rank, place
  <2>3. keys[place[i]] \in names /\ keys[place[j]] \in names
    BY <1>1, <2>1
  <2>4. Rank(names, keys[place[i]]) < Rank(names, keys[place[j]])
    BY <1>8, <2>2
  <2>. QED  BY <2>3, <2>4, RankTells
<1>. HIDE DEF place
<1>. QED  BY <1>7, <1>8

\* sort() leaves the keys in ascending order.
LEMMA SortedAscends ==
  ASSUME NEW names \in SUBSET Nat, IsFiniteSet(names), NEW n \in Nat, n = Cardinality(names),
         NEW keys \in SetToSeqs(names)
  PROVE  Sorted(keys) \in [1 .. n -> names] /\ Ascending(Sorted(keys), n)
<1>1. keys \in [1 .. n -> names] /\ DOMAIN keys = 1 .. n
  BY DEF SetToSeqs
<1>2. Cardinality(1 .. n) = n
  BY FS_Interval
<1>. DEFINE ascending(p) == \A i, j \in 1 .. n : i < j => keys[p[i]] < keys[p[j]]
            order == CHOOSE p \in SetToSeqs(1 .. n) : ascending(p)
<1>3. order \in SetToSeqs(1 .. n) /\ ascending(order)
  <2>1. \E p \in SetToSeqs(1 .. n) : ascending(p)
    BY SortingExists
  <2>. QED  BY <2>1
<1>4. Sorted(keys) = [i \in 1 .. n |-> keys[order[i]]]
  BY <1>1 DEF Sorted
<1>5. order \in [1 .. n -> 1 .. n]
  <2>. HIDE DEF order
  <2>. QED  BY <1>2, <1>3 DEF SetToSeqs
<1>6. \A i, j \in 1 .. n : i < j => keys[order[i]] < keys[order[j]]
  BY <1>3
<1>. HIDE DEF order
<1>. QED  BY <1>1, <1>4, <1>5, <1>6 DEF Ascending

\* keys().collect() followed by sort() gives one sequence.
LEMMA SortForgetsOrder ==
  ASSUME NEW names \in SUBSET Nat, IsFiniteSet(names),
         NEW met \in SetToSeqs(names), NEW again \in SetToSeqs(names)
  PROVE  Sorted(met) = Sorted(again)
<1>. DEFINE n == Cardinality(names)
<1>1. n \in Nat
  BY FS_CardinalityType
<1>. HIDE DEF n
<1>2. /\ Sorted(met) \in [1 .. n -> names] /\ Ascending(Sorted(met), n)
      /\ Sorted(again) \in [1 .. n -> names] /\ Ascending(Sorted(again), n)
  BY <1>1, SortedAscends DEF n
<1>3. ASSUME NEW i \in 1 .. n PROVE Sorted(met)[i] = Sorted(again)[i]
  <2>1. Rank(names, Sorted(met)[i]) = i /\ Rank(names, Sorted(again)[i]) = i
    BY <1>1, <1>2, AscendingByRank DEF n
  <2>2. Sorted(met)[i] \in names /\ Sorted(again)[i] \in names
    BY <1>2
  <2>3. Rank(names, Sorted(met)[i]) = Rank(names, Sorted(again)[i])
    BY <2>1
  <2>. QED  BY <2>2, <2>3, RankTells
<1>4. /\ Sorted(met) = [i \in 1 .. n |-> Sorted(met)[i]]
      /\ Sorted(again) = [i \in 1 .. n |-> Sorted(again)[i]]
  BY <1>2
<1>5. [i \in 1 .. n |-> Sorted(met)[i]] = [i \in 1 .. n |-> Sorted(again)[i]]
  BY <1>3
<1>. QED  BY <1>4, <1>5
-----------------------------------------------------------------------------
(* Strings one after the other                                             *)

\* Induction, on the members of a set.
LEMMA CountingUp ==
  ASSUME NEW lo \in Nat, NEW hi \in Nat, NEW holds, lo \in holds,
         \A m \in lo .. (hi - 1) : m \in holds => m + 1 \in holds
  PROVE  \A m \in lo .. hi : m \in holds
<1>. SUFFICES ASSUME NEW n \in lo .. hi, n \notin holds PROVE FALSE
  OBVIOUS
<1>. DEFINE less == {p \in Nat \X Nat : p[1] < p[2]}
            bad == {m \in lo .. hi : m \notin holds}
<1>1. IsWellFoundedOn(OpToRel(<, Nat), Nat)
  BY NatLessThanWellFounded
<1>2. OpToRel(<, Nat) = less
  BY DEF OpToRel
<1>3. IsWellFoundedOn(less, Nat)
  BY <1>1, <1>2
<1>4. PICK m \in bad : \A k \in bad : ~ <<k, m>> \in less
  <2>1. bad \subseteq Nat /\ bad # {}
    OBVIOUS
  <2>. HIDE DEF less, bad
  <2>. QED  BY <1>3, <2>1, WFMin
<1>5. m \in lo .. hi /\ m \notin holds /\ m # lo
  BY <1>4
<1>6. m - 1 \in lo .. (hi - 1) /\ m - 1 \in Nat /\ m \in Nat
  BY <1>5
<1>7. m - 1 \notin holds
  BY <1>5, <1>6
<1>8. m - 1 \in bad /\ <<m - 1, m>> \in less
  BY <1>6, <1>7
<1>. QED  BY <1>4, <1>8

\* f[i] is the first i of `seqs`, one after the other.
Joins(S, seqs, n, f) ==
  /\ f \in [0 .. n -> Seq(S)] /\ f[0] = <<>>
  /\ \A i \in 1 .. n : f[i] = f[i - 1] \o seqs[i]

\* They can be had for every n.
LEMMA JoinsExist ==
  ASSUME NEW S, NEW seqs \in Seq(Seq(S)), NEW n \in 0 .. Len(seqs)
  PROVE  \E f : Joins(S, seqs, n, f)
<1>. DEFINE holds == {m \in 0 .. Len(seqs) : \E f : Joins(S, seqs, m, f)}
<1>1. 0 \in holds
  <2>1. Joins(S, seqs, 0, [i \in 0 .. 0 |-> <<>>])
    BY EmptySeq DEF Joins
  <2>. QED  BY <2>1
<1>2. ASSUME NEW m \in 0 .. (Len(seqs) - 1), m \in holds PROVE m + 1 \in holds
  <2>1. PICK f : Joins(S, seqs, m, f)
    BY <1>2
  <2>2. m \in Nat /\ m + 1 \in 1 .. Len(seqs) /\ seqs[m + 1] \in Seq(S)
    OBVIOUS
  <2>. DEFINE g == [i \in 0 .. (m + 1) |-> IF i = m + 1 THEN f[m] \o seqs[m + 1] ELSE f[i]]
  <2>3. f[m] \o seqs[m + 1] \in Seq(S)
    BY <2>1, <2>2, ConcatProperties DEF Joins
  <2>4. g \in [0 .. (m + 1) -> Seq(S)] /\ g[0] = <<>>
    BY <2>1, <2>2, <2>3 DEF Joins
  <2>5. ASSUME NEW i \in 1 .. (m + 1) PROVE g[i] = g[i - 1] \o seqs[i]
    <3>1. i \in 0 .. (m + 1) /\ i - 1 \in 0 .. (m + 1) /\ i - 1 # m + 1
      BY <2>2
    <3>2. g[i - 1] = f[i - 1] /\ g[i] = IF i = m + 1 THEN f[m] \o seqs[m + 1] ELSE f[i]
      BY <3>1
    <3>3. CASE i = m + 1
      <4>1. i - 1 = m
        BY <2>2, <3>3
      <4>. QED  BY <3>2, <3>3, <4>1
    <3>4. CASE i # m + 1
      <4>1. i \in 1 .. m
        BY <2>2, <3>4
      <4>2. f[i] = f[i - 1] \o seqs[i]
        BY <2>1, <4>1 DEF Joins
      <4>. QED  BY <3>2, <3>4, <4>2
    <3>. QED  BY <3>3, <3>4
  <2>6. Joins(S, seqs, m + 1, g)
    BY <2>4, <2>5 DEF Joins
  <2>. QED  BY <2>2, <2>6
<1>3. Len(seqs) \in Nat
  OBVIOUS
<1>4. \A m \in 0 .. Len(seqs) : m \in holds
  <2>. HIDE DEF holds
  <2>. QED  BY <1>1, <1>2, <1>3, CountingUp
<1>. QED  BY <1>4

\* FlattenSeq is the last of them.
LEMMA Flattened ==
  ASSUME NEW S, NEW seqs \in Seq(Seq(S)), NEW f, Joins(S, seqs, Len(seqs), f)
  PROVE  FlattenSeq(seqs) = f[Len(seqs)]
<1>. DEFINE n == Len(seqs)
<1>0. n \in Nat
  OBVIOUS
<1>1. CASE n = 0
  <2>1. seqs = <<>> /\ FlattenSeq(seqs) = seqs
    BY <1>1 DEF FlattenSeq
  <2>. QED  BY <1>1, <2>1 DEF Joins
<1>2. CASE n # 0
  <2>. DEFINE Rec(g) == g = [i \in 1 .. n |-> IF i = 1 THEN seqs[i] ELSE g[i - 1] \o seqs[i]]
              flatten == CHOOSE g : Rec(g)
  <2>1. FlattenSeq(seqs) = flatten[n]
    BY <1>2 DEF FlattenSeq
  <2>a. f[0] = <<>> /\ \A i \in 1 .. n : f[i] = f[i - 1] \o seqs[i]
    BY DEF Joins
  <2>2. f[1] = seqs[1]
    <3>1. seqs[1] \in Seq(S) /\ 1 \in 1 .. n /\ 1 - 1 = 0
      BY <1>0, <1>2
    <3>2. f[1] = <<>> \o seqs[1]
      BY <2>a, <3>1
    <3>. QED  BY <3>1, <3>2, ConcatEmptySeq
  <2>3. Rec([i \in 1 .. n |-> f[i]])
    <3>. HIDE DEF n
    <3>a. \A i \in 1 .. n : i # 1 => i - 1 \in 1 .. n
      BY <1>0
    <3>1. \A i \in 1 .. n : i # 1 => i - 1 \in 1 .. n /\ f[i] = f[i - 1] \o seqs[i]
      BY <2>a, <3>a
    <3>2. \A i \in 1 .. n : i # 1 => [j \in 1 .. n |-> f[j]][i - 1] = f[i - 1]
      BY <3>1
    <3>3. \A i \in 1 .. n :
            f[i] = IF i = 1 THEN seqs[i] ELSE [j \in 1 .. n |-> f[j]][i - 1] \o seqs[i]
      BY <2>2, <3>1, <3>2
    <3>. QED  BY <3>3
  <2>4. Rec(flatten)
    <3>. HIDE DEF Rec
    <3>. QED  BY <2>3
  <2>. DEFINE same == {i \in 1 .. n : flatten[i] = f[i]}
  <2>. HIDE DEF flatten
  <2>5. 1 \in same
    BY <1>0, <1>2, <2>2, <2>4
  <2>6. ASSUME NEW m \in 1 .. (n - 1), m \in same PROVE m + 1 \in same
    <3>1. m + 1 \in 1 .. n /\ m + 1 # 1 /\ (m + 1) - 1 = m
      BY <1>0
    <3>2. flatten[m + 1] = flatten[m] \o seqs[m + 1]
      BY <2>4, <3>1
    <3>3. f[m + 1] = f[m] \o seqs[m + 1]
      BY <3>1 DEF Joins
    <3>. QED  BY <2>6, <3>1, <3>2, <3>3
  <2>7. \A m \in 1 .. n : m \in same
    <3>. HIDE DEF same, n
    <3>. QED  BY <1>0, <2>5, <2>6, CountingUp
  <2>. QED  BY <1>0, <1>2, <2>1, <2>7
<1>. QED  BY <1>1, <1>2

\* Strings joined are strings.
LEMMA FlattenSeqType ==
  ASSUME NEW S, NEW seqs \in Seq(Seq(S))
  PROVE  FlattenSeq(seqs) \in Seq(S)
<1>1. PICK f : Joins(S, seqs, Len(seqs), f)
  BY JoinsExist
<1>2. Len(seqs) \in 0 .. Len(seqs)
  OBVIOUS
<1>. QED  BY <1>1, <1>2, Flattened DEF Joins

\* As a quantified fact, for steps with hidden definitions.
LEMMA AnyConcatAssociative ==
  \A S : \A s, t, u \in Seq(S) : (s \o t) \o u = s \o (t \o u)
BY ConcatAssociative

\* `b` is `a` with `x` put in as the q-th.
Inserted(a, q, x, b) ==
  /\ Len(b) = Len(a) + 1 /\ b[q] = x
  /\ \A i \in 1 .. Len(a) : a[i] = IF i < q THEN b[i] ELSE b[i + 1]

\* Then its strings come between what is before and what is behind.
Around(S, a, q, X, Y) ==
  /\ X \in Seq(S) /\ Y \in Seq(S)
  /\ FlattenSeq(a) = X \o Y
  /\ \A x \in Seq(S), b \in Seq(Seq(S)) :
       Inserted(a, q, x, b) => FlattenSeq(b) = (X \o x) \o Y

LEMMA InsertedBetween ==
  ASSUME NEW S, NEW a \in Seq(Seq(S)), NEW q \in 1 .. (Len(a) + 1)
  PROVE  \E X, Y : Around(S, a, q, X, Y)
<1>. DEFINE n == Len(a)
<1>0. n \in Nat /\ q \in Nat /\ q - 1 \in 0 .. n
  OBVIOUS
<1>a. \A s, t, u \in Seq(S) : (s \o t) \o u = s \o (t \o u)
  BY AnyConcatAssociative
<1>1. PICK f : Joins(S, a, n, f)
  BY JoinsExist
<1>. DEFINE X == f[q - 1]
            Behind(m, Y) ==
              /\ Y \in Seq(S) /\ f[m] = X \o Y
              /\ \A x \in Seq(S), b \in Seq(Seq(S)) : \A g :
                   Inserted(a, q, x, b) /\ Joins(S, b, n + 1, g) => g[m + 1] = (X \o x) \o Y
            holds == {m \in (q - 1) .. n : \E Y : Behind(m, Y)}
<1>2. X \in Seq(S)
  BY <1>0, <1>1 DEF Joins
<1>3. ASSUME NEW x \in Seq(S), NEW b \in Seq(Seq(S)), NEW g,
             Inserted(a, q, x, b), Joins(S, b, n + 1, g)
      PROVE  g[q - 1] = X
  <2>. DEFINE same == {i \in 0 .. (q - 1) : g[i] = f[i]}
  <2>1. 0 \in same
    BY <1>0, <1>1, <1>3 DEF Joins
  <2>2. ASSUME NEW m \in 0 .. ((q - 1) - 1), m \in same PROVE m + 1 \in same
    <3>1. m + 1 \in 1 .. n /\ m + 1 < q /\ m + 1 \in 0 .. (q - 1) /\ (m + 1) - 1 = m
          /\ m + 1 \in 1 .. (n + 1)
      BY <1>0
    <3>2. a[m + 1] = b[m + 1]
      BY <1>3, <3>1 DEF Inserted
    <3>3. f[m + 1] = f[m] \o a[m + 1] /\ g[m + 1] = g[m] \o b[m + 1]
      <4>. HIDE DEF n
      <4>. QED  BY <1>1, <1>3, <3>1 DEF Joins
    <3>. QED  BY <2>2, <3>1, <3>2, <3>3
  <2>3. \A m \in 0 .. (q - 1) : m \in same
    <3>1. q - 1 \in Nat
      BY <1>0
    <3>. HIDE DEF same
    <3>. QED  BY <2>1, <2>2, <3>1, CountingUp
  <2>. QED  BY <1>0, <2>3
<1>4. q - 1 \in holds
  <2>1. <<>> \in Seq(S) /\ f[q - 1] = X \o <<>>
    BY <1>2, EmptySeq, ConcatEmptySeq
  <2>2. ASSUME NEW x \in Seq(S), NEW b \in Seq(Seq(S)), NEW g,
               Inserted(a, q, x, b), Joins(S, b, n + 1, g)
        PROVE  g[(q - 1) + 1] = (X \o x) \o <<>>
    <3>1. g[q - 1] = X
      BY <1>3, <2>2
    <3>2. g[q] = g[q - 1] \o b[q]
      BY <1>0, <2>2 DEF Joins
    <3>3. b[q] = x /\ (q - 1) + 1 = q
      BY <1>0, <2>2 DEF Inserted
    <3>4. X \o x \in Seq(S)
      BY <1>2, ConcatProperties
    <3>. HIDE DEF X
    <3>. QED  BY <3>1, <3>2, <3>3, <3>4, ConcatEmptySeq
  <2>3. \A x \in Seq(S), b \in Seq(Seq(S)) : \A g :
          Inserted(a, q, x, b) /\ Joins(S, b, n + 1, g)
            => g[(q - 1) + 1] = (X \o x) \o <<>>
    <3>. HIDE DEF n, X
    <3>. QED  BY <2>2
  <2>4. Behind(q - 1, <<>>)
    <3>. HIDE DEF n, X
    <3>. QED  BY <2>1, <2>3
  <2>. HIDE DEF Behind
  <2>. QED  BY <1>0, <2>4
<1>5. ASSUME NEW m \in (q - 1) .. (n - 1), m \in holds PROVE m + 1 \in holds
  <2>1. PICK Y : Behind(m, Y)
    BY <1>5
  <2>2. m \in Nat /\ m + 1 \in 1 .. n /\ m + 1 \in (q - 1) .. n /\ (m + 1) - 1 = m
        /\ m + 2 \in 1 .. (n + 1) /\ (m + 2) - 1 = m + 1 /\ ~(m + 1 < q)
        /\ (m + 1) + 1 = m + 2
    BY <1>0
  <2>3. a[m + 1] \in Seq(S)
    BY <2>2
  <2>. DEFINE Z == Y \o a[m + 1]
  <2>4. Z \in Seq(S)
    BY <2>1, <2>3, ConcatProperties
  <2>5. f[m + 1] = X \o Z
    <3>1. f[m + 1] = f[m] \o a[m + 1]
      BY <1>1, <2>2 DEF Joins
    <3>2. f[m] = X \o Y /\ Y \in Seq(S)
      BY <2>1
    <3>. HIDE DEF X
    <3>3. (X \o Y) \o a[m + 1] = X \o (Y \o a[m + 1])
      <4>. DEFINE w == a[m + 1]
      <4>1. X \in Seq(S) /\ Y \in Seq(S) /\ w \in Seq(S)
        BY <1>2, <2>3, <3>2
      <4>. HIDE DEF w
      <4>2. (X \o Y) \o w = X \o (Y \o w)
        BY <1>a, <4>1, Zenon
      <4>. QED  BY <4>2 DEF w
    <3>. QED  BY <3>1, <3>2, <3>3
  <2>6. ASSUME NEW x \in Seq(S), NEW b \in Seq(Seq(S)), NEW g,
               Inserted(a, q, x, b), Joins(S, b, n + 1, g)
        PROVE  g[(m + 1) + 1] = (X \o x) \o Z
    <3>1. g[m + 2] = g[m + 1] \o b[m + 2]
      <4>. HIDE DEF n, X, Z, Behind, holds
      <4>. QED  BY <2>2, <2>6 DEF Joins
    <3>2. a[m + 1] = b[m + 2]
      BY <2>2, <2>6 DEF Inserted
    <3>3. g[m + 1] = (X \o x) \o Y /\ Y \in Seq(S)
      BY <2>1, <2>6
    <3>4. X \o x \in Seq(S)
      BY <1>2, ConcatProperties
    <3>. HIDE DEF X
    <3>5. ((X \o x) \o Y) \o a[m + 1] = (X \o x) \o (Y \o a[m + 1])
      <4>. DEFINE w == a[m + 1]  v == X \o x
      <4>1. v \in Seq(S) /\ Y \in Seq(S) /\ w \in Seq(S)
        BY <2>3, <3>3, <3>4
      <4>. HIDE DEF w, v
      <4>2. (v \o Y) \o w = v \o (Y \o w)
        BY <1>a, <4>1, Zenon
      <4>. QED  BY <4>2 DEF w, v
    <3>. QED  BY <2>2, <3>1, <3>2, <3>3, <3>5
  <2>7. Behind(m + 1, Z)
    BY <2>4, <2>5, <2>6
  <2>. HIDE DEF Behind, Z
  <2>. QED  BY <2>2, <2>7
<1>6. n \in holds
  <2>1. \A m \in (q - 1) .. n : m \in holds
    <3>1. q - 1 \in Nat
      BY <1>0
    <3>. HIDE DEF holds, n
    <3>. QED  BY <1>0, <1>4, <1>5, <3>1, CountingUp
  <2>2. n \in (q - 1) .. n
    BY <1>0
  <2>. QED  BY <2>1, <2>2
<1>7. PICK Y : Behind(n, Y)
  BY <1>6
<1>8. Y \in Seq(S) /\ FlattenSeq(a) = X \o Y
  BY <1>1, <1>7, Flattened
<1>9. ASSUME NEW x \in Seq(S), NEW b \in Seq(Seq(S)), Inserted(a, q, x, b)
      PROVE  FlattenSeq(b) = (X \o x) \o Y
  <2>1. Len(b) = n + 1
    BY <1>9 DEF Inserted
  <2>2. PICK g : Joins(S, b, Len(b), g)
    BY JoinsExist
  <2>3. FlattenSeq(b) = g[n + 1]
    BY <2>1, <2>2, Flattened
  <2>. QED  BY <1>7, <1>9, <2>1, <2>2, <2>3
<1>. HIDE DEF X
<1>. QED  BY <1>2, <1>8, <1>9 DEF Around

\* How many strings of `s` are `v`.
Count(v, s) == Cardinality({i \in 1 .. Len(s) : s[i] = v})

\* Counts add up.
LEMMA CountConcat ==
  ASSUME NEW S, NEW v, NEW s \in Seq(S), NEW t \in Seq(S)
  PROVE  /\ Count(v, s) \in Nat /\ Count(v, t) \in Nat
         /\ Count(v, s \o t) = Count(v, s) + Count(v, t)
<1>. DEFINE A == {i \in 1 .. Len(s) : s[i] = v}
            B == {i \in 1 .. Len(t) : t[i] = v}
            C == {i \in (Len(s) + 1) .. (Len(s) + Len(t)) : t[i - Len(s)] = v}
            shift == [i \in B |-> i + Len(s)]
<1>1. IsFiniteSet(A) /\ IsFiniteSet(B) /\ IsFiniteSet(C)
  <2>1. IsFiniteSet(1 .. Len(s)) /\ IsFiniteSet(1 .. Len(t))
        /\ IsFiniteSet((Len(s) + 1) .. (Len(s) + Len(t)))
    BY FS_Interval
  <2>2. A \subseteq 1 .. Len(s) /\ B \subseteq 1 .. Len(t)
        /\ C \subseteq (Len(s) + 1) .. (Len(s) + Len(t))
    OBVIOUS
  <2>. HIDE DEF A, B, C
  <2>. QED  BY <2>1, <2>2, FS_Subset
<1>2. Cardinality(B) = Cardinality(C)
  <2>1. shift \in [B -> C]
    OBVIOUS
  <2>2. \A i, j \in B : shift[i] = shift[j] => i = j
    OBVIOUS
  <2>3. \A c \in C : \E i \in B : shift[i] = c
    <3>1. ASSUME NEW c \in C PROVE c - Len(s) \in B /\ shift[c - Len(s)] = c
      OBVIOUS
    <3>. QED  BY <3>1
  <2>4. shift \in Bijection(B, C)
    <3>. HIDE DEF shift, B, C
    <3>. QED  BY <2>1, <2>2, <2>3, Fun_IsBij
  <2>5. ExistsBijection(B, C)
    BY <2>4 DEF ExistsBijection
  <2>. QED  BY <1>1, <2>5, FS_Bijection
<1>3. {i \in 1 .. Len(s \o t) : (s \o t)[i] = v} = A \cup C
  <2>. DEFINE w == s \o t
  <2>1. /\ Len(w) = Len(s) + Len(t) /\ Len(s) \in Nat /\ Len(t) \in Nat
        /\ \A i \in 1 .. (Len(s) + Len(t)) : w[i] = IF i <= Len(s) THEN s[i] ELSE t[i - Len(s)]
    BY ConcatProperties
  <2>. HIDE DEF w
  <2>2. {i \in 1 .. Len(w) : w[i] = v} = A \cup C
    BY <2>1
  <2>. QED  BY <2>2 DEF w
<1>4. A \cap C = {}
  OBVIOUS
<1>5. Cardinality(A \cup C) = Cardinality(A) + Cardinality(C) - Cardinality(A \cap C)
  <2>. HIDE DEF A, B, C
  <2>. QED  BY <1>1, FS_Union
<1>6. Cardinality(A) \in Nat /\ Cardinality(B) \in Nat
  <2>. HIDE DEF A, B, C
  <2>. QED  BY <1>1, FS_CardinalityType
<1>7. Cardinality(A \cap C) = 0
  BY <1>4, FS_EmptySet
<1>8. Count(v, s) = Cardinality(A) /\ Count(v, t) = Cardinality(B)
      /\ Count(v, s \o t) = Cardinality(A \cup C)
  BY <1>3 DEF Count
<1>. HIDE DEF A, B, C
<1>. QED  BY <1>2, <1>5, <1>6, <1>7, <1>8

\* A sequence of one string has it once and no other.
LEMMA CountOne ==
  ASSUME NEW S, NEW n \in S, NEW m \in S, m # n
  PROVE  Count(n, <<n>>) = 1 /\ Count(m, <<n>>) = 0
<1>1. {i \in 1 .. Len(<<n>>) : <<n>>[i] = n} = {1}
  OBVIOUS
<1>2. {i \in 1 .. Len(<<n>>) : <<n>>[i] = m} = {}
  OBVIOUS
<1>. QED  BY <1>1, <1>2, FS_Singleton, FS_EmptySet DEF Count

\* Two sequences that differ in one of their segments are joined to
\* different strings.
LEMMA OneSegmentTells ==
  ASSUME NEW S, NEW a \in Seq(Seq(S)), NEW q \in 1 .. (Len(a) + 1),
         NEW x \in Seq(S), NEW y \in Seq(S), NEW b \in Seq(Seq(S)), NEW c \in Seq(Seq(S)),
         Inserted(a, q, x, b), Inserted(a, q, y, c), FlattenSeq(b) = FlattenSeq(c)
  PROVE  x = y
<1>1. PICK X, Y : Around(S, a, q, X, Y)
  BY InsertedBetween
<1>2. (X \o x) \o Y = (X \o y) \o Y
  <2>1. FlattenSeq(b) = (X \o x) \o Y /\ FlattenSeq(c) = (X \o y) \o Y
    BY <1>1 DEF Around
  <2>. QED  BY <2>1
<1>a. X \in Seq(S) /\ Y \in Seq(S)
  BY <1>1 DEF Around
<1>3. X \o x \in Seq(S) /\ X \o y \in Seq(S)
  BY <1>a, ConcatProperties
<1>4. X \o x = X \o y
  <2>. DEFINE l == X \o x  r == X \o y
  <2>1. l \in Seq(S) /\ r \in Seq(S) /\ l \o Y = r \o Y /\ Y \in Seq(S)
    BY <1>a, <1>2, <1>3
  <2>. HIDE DEF l, r
  <2>2. l = r
    BY <2>1, ConcatSimplifications, Zenon
  <2>. QED  BY <2>2 DEF l, r
<1>. QED  BY <1>a, <1>4, ConcatSimplifications, Zenon

\* `t` has a name more than `s`: at its rank, and the others keep their order.
ComesIn(names, n, s, t) ==
  LET q == Rank(names \cup {n}, n)
      N == Cardinality(names)
  IN  /\ N \in Nat /\ q \in 1 .. (N + 1)
      /\ s \in [1 .. N -> names]
      /\ t \in [1 .. (N + 1) -> names \cup {n}]
      /\ t[q] = n
      /\ \A i \in 1 .. N : s[i] = IF i < q THEN t[i] ELSE t[i + 1]

\* Sorted, the keys of a map with a name more are so related.
LEMMA SortedInsert ==
  ASSUME NEW names \in SUBSET Nat, IsFiniteSet(names), NEW n \in Nat \ names,
         NEW met \in SetToSeqs(names), NEW again \in SetToSeqs(names \cup {n})
  PROVE  ComesIn(names, n, Sorted(met), Sorted(again))
<1>. DEFINE more == names \cup {n}
            N == Cardinality(names)
            q == Rank(more, n)
            s == Sorted(met)
            t == Sorted(again)
            u == [i \in 1 .. N |-> IF i < q THEN t[i] ELSE t[i + 1]]
<1>1. /\ IsFiniteSet(more) /\ Cardinality(more) = N + 1 /\ N \in Nat /\ more \in SUBSET Nat
  BY FS_AddElement, FS_CardinalityType
<1>2. s \in [1 .. N -> names] /\ Ascending(s, N)
  BY <1>1, SortedAscends
<1>3. t \in [1 .. (N + 1) -> more] /\ Ascending(t, N + 1)
  <2>. DEFINE M == N + 1
  <2>1. M \in Nat /\ M = Cardinality(more)
    BY <1>1
  <2>. HIDE DEF N, M, more
  <2>2. t \in [1 .. M -> more] /\ Ascending(t, M)
    <3>1. again \in SetToSeqs(more)
      BY DEF more
    <3>. QED  BY <1>1, <2>1, <3>1, SortedAscends
  <2>. QED  BY <2>2 DEF M
<1>4. q \in 1 .. (N + 1)
  <2>1. n \in more
    OBVIOUS
  <2>. HIDE DEF N, more
  <2>2. Rank(more, n) \in 1 .. Cardinality(more)
    BY <1>1, <2>1, RankInRange
  <2>. QED  BY <1>1, <2>2
<1>5. t[q] = n
  <2>1. n \in more
    OBVIOUS
  <2>. HIDE DEF N, more, q, t
  <2>2. t[q] \in more
    BY <1>3, <1>4
  <2>. DEFINE M == N + 1
  <2>3. M \in Nat /\ M = Cardinality(more) /\ t \in [1 .. M -> more] /\ Ascending(t, M)
        /\ q \in 1 .. M
    BY <1>1, <1>3, <1>4
  <2>. HIDE DEF M
  <2>4. Rank(more, t[q]) = q
    BY <1>1, <2>3, AscendingByRank
  <2>5. Rank(more, t[q]) = Rank(more, n)
    BY <2>4 DEF q
  <2>. QED  BY <1>1, <2>1, <2>2, <2>5, RankTells
<1>6. \A i, j \in 1 .. (N + 1) : i < j => t[i] < t[j]
  <2>. HIDE DEF N, t, more
  <2>. QED  BY <1>3 DEF Ascending
<1>7. \A i \in 1 .. (N + 1) : i # q => t[i] \in names
  <2>. HIDE DEF N, t, q
  <2>1. ASSUME NEW i \in 1 .. (N + 1), i # q PROVE t[i] # n
    <3>1. t[i] \in Nat /\ t[q] \in Nat
      BY <1>3, <1>4, <1>1
    <3>2. i < q \/ q < i
      BY <1>1, <1>4, <2>1
    <3>3. t[i] < t[q] \/ t[q] < t[i]
      BY <1>4, <1>6, <3>2
    <3>. QED  BY <1>5, <3>1, <3>3
  <2>. QED  BY <1>3, <2>1
<1>8. \A i \in 1 .. N : u[i] = IF i < q THEN t[i] ELSE t[i + 1]
  OBVIOUS
<1>9. u \in [1 .. N -> names]
  <2>. HIDE DEF N, t, q
  <2>1. \A i \in 1 .. N : /\ i \in 1 .. (N + 1) /\ i + 1 \in 1 .. (N + 1)
                          /\ i < q => i # q
                          /\ ~(i < q) => i + 1 # q
    BY <1>1, <1>4
  <2>. QED  BY <1>7, <2>1
<1>10. Ascending(u, N)
  <2>. HIDE DEF N, t, q, u
  <2>1. ASSUME NEW i \in 1 .. N, NEW j \in 1 .. N, i < j PROVE u[i] < u[j]
    <3>1. /\ i \in 1 .. (N + 1) /\ i + 1 \in 1 .. (N + 1) /\ i + 1 < j + 1 /\ i < j + 1
          /\ j \in 1 .. (N + 1) /\ j + 1 \in 1 .. (N + 1) /\ (j < q => i < q)
      BY <1>1, <1>4, <2>1
    <3>. QED  BY <1>6, <1>8, <2>1, <3>1
  <2>. QED  BY <2>1 DEF Ascending
<1>11. ASSUME NEW i \in 1 .. N PROVE s[i] = u[i]
  <2>. HIDE DEF s, u
  <2>1. N \in Nat /\ N = Cardinality(names)
    BY <1>1
  <2>. HIDE DEF N
  <2>2. Rank(names, s[i]) = i
    BY <1>2, <2>1, AscendingByRank
  <2>3. Rank(names, u[i]) = i
    BY <1>9, <1>10, <2>1, AscendingByRank
  <2>4. Rank(names, s[i]) = Rank(names, u[i]) /\ s[i] \in names /\ u[i] \in names
    BY <1>2, <1>9, <2>2, <2>3
  <2>. QED  BY <2>4, RankTells
<1>. HIDE DEF N, s, t, q, u
<1>12. \A i \in 1 .. N : s[i] = IF i < q THEN t[i] ELSE t[i + 1]
  BY <1>8, <1>11
<1>. QED  BY <1>1, <1>2, <1>3, <1>4, <1>5, <1>12 DEF ComesIn, N, s, t, q
-----------------------------------------------------------------------------
(* The strings of a map                                                    *)

\* The names of a map and what they stand for.
IsMap(map) ==
  /\ map = [m \in DOMAIN map |-> map[m]]
  /\ DOMAIN map \in SUBSET Str /\ IsFiniteSet(DOMAIN map)
  /\ \A m \in DOMAIN map : map[m] \in Seq(Str)

\* Sorted keys are keys.
LEMMA SortedType ==
  ASSUME KeyAssumption, NEW map, IsMap(map), NEW met \in SetToSeqs(DOMAIN map)
  PROVE  Sorted(met) \in Seq(DOMAIN map)
<1>. DEFINE names == DOMAIN map  n == Cardinality(names)
<1>1. names \in SUBSET Nat /\ IsFiniteSet(names) /\ n \in Nat
  BY FS_CardinalityType DEF IsMap, KeyAssumption
<1>2. met \in SetToSeqs(names)
  OBVIOUS
<1>. HIDE DEF names
<1>3. Sorted(met) \in [1 .. n -> names]
  BY <1>1, <1>2, SortedAscends
<1>. HIDE DEF n
<1>4. Sorted(met) \in Seq(names)
  BY <1>1, <1>3
<1>. QED  BY <1>4 DEF names

\* What a map feeds the hasher, entry by entry.
Entries(map, keys) == [i \in DOMAIN keys |-> <<keys[i]>> \o EntryStrings(map[keys[i]])]

\* Each entry is the key and what EntryStrings gives, which is all of it.
LEMMA EntriesType ==
  ASSUME KeyAssumption, NEW map, IsMap(map), NEW keys \in Seq(DOMAIN map)
  PROVE  /\ Entries(map, keys) \in Seq(Seq(Str)) /\ Len(Entries(map, keys)) = Len(keys)
         /\ \A i \in 1 .. Len(keys) : Entries(map, keys)[i] = <<keys[i]>> \o map[keys[i]]
<1>1. DOMAIN keys = 1 .. Len(keys) /\ Len(keys) \in Nat
  OBVIOUS
<1>2. ASSUME NEW i \in 1 .. Len(keys) PROVE <<keys[i]>> \o map[keys[i]] \in Seq(Str)
  <2>1. keys[i] \in DOMAIN map
    OBVIOUS
  <2>2. <<keys[i]>> \in Seq(Str) /\ map[keys[i]] \in Seq(Str)
    BY <2>1 DEF IsMap
  <2>. QED  BY <2>2, ConcatProperties
<1>3. Entries(map, keys) = [i \in 1 .. Len(keys) |-> <<keys[i]>> \o map[keys[i]]]
  BY <1>1 DEF Entries, EntryStrings
<1>. DEFINE e == [i \in 1 .. Len(keys) |-> <<keys[i]>> \o map[keys[i]]]
            n == Len(keys)
<1>4. e \in [1 .. n -> Seq(Str)] /\ n \in Nat
  BY <1>1, <1>2
<1>5. \A i \in 1 .. n : e[i] = <<keys[i]>> \o map[keys[i]]
  OBVIOUS
<1>6. e \in Seq(Seq(Str)) /\ Len(e) = n
  <2>. HIDE DEF e, n
  <2>. QED  BY <1>4
<1>. HIDE DEF e
<1>. QED  BY <1>3, <1>5, <1>6 DEF e

\* A map feeds the hasher strings.
LEMMA MapStringsType ==
  ASSUME KeyAssumption, NEW map, IsMap(map), NEW met \in SetToSeqs(DOMAIN map)
  PROVE  MapStrings(map, Sorted(met)) \in Seq(Str)
<1>1. Entries(map, Sorted(met)) \in Seq(Seq(Str))
  BY SortedType, EntriesType
<1>2. MapStrings(map, Sorted(met)) = FlattenSeq(Entries(map, Sorted(met)))
  BY DEF MapStrings, Entries
<1>. QED  BY <1>1, <1>2, FlattenSeqType

\* Maps stay maps when an entry is put in,
LEMMA PutIsMap ==
  ASSUME NEW map, IsMap(map), NEW n \in Str, NEW fs \in Seq(Str)
  PROVE  IsMap(Put(map, n, fs)) /\ DOMAIN Put(map, n, fs) = DOMAIN map \cup {n}
<1>1. DOMAIN Put(map, n, fs) = DOMAIN map \cup {n}
  BY DEF Put
<1>2. IsFiniteSet(DOMAIN map \cup {n})
  BY FS_AddElement DEF IsMap
<1>3. \A m \in DOMAIN map \cup {n} : Put(map, n, fs)[m] \in Seq(Str)
  BY DEF IsMap, Put
<1>4. Put(map, n, fs) = [m \in DOMAIN map \cup {n} |-> Put(map, n, fs)[m]]
  BY DEF Put
<1>. QED  BY <1>1, <1>2, <1>3, <1>4 DEF IsMap

\* and when one is dropped.
LEMMA DropIsMap ==
  ASSUME NEW map, IsMap(map), NEW n
  PROVE  IsMap(Drop(map, n)) /\ DOMAIN Drop(map, n) = DOMAIN map \ {n}
<1>1. DOMAIN Drop(map, n) = DOMAIN map \ {n}
  BY DEF Drop
<1>2. IsFiniteSet(DOMAIN map \ {n})
  BY FS_RemoveElement DEF IsMap
<1>3. Drop(map, n) = [m \in DOMAIN map \ {n} |-> Drop(map, n)[m]]
      /\ \A m \in DOMAIN map \ {n} : Drop(map, n)[m] = map[m]
  BY DEF Drop
<1>. QED  BY <1>1, <1>2, <1>3 DEF IsMap

\* The strings of an entry that `map` has not come between X and Y.
EntryBetween(map, met, n, X, Y) ==
  /\ X \in Seq(Str) /\ Y \in Seq(Str)
  /\ MapStrings(map, Sorted(met)) = X \o Y
  /\ \A fs \in Seq(Str) : \A again \in SetToSeqs(DOMAIN map \cup {n}) :
       MapStrings(Put(map, n, fs), Sorted(again)) = (X \o (<<n>> \o fs)) \o Y

\* Such X and Y exist, the same ones whatever the entry holds.
LEMMA EntryComesBetween ==
  ASSUME KeyAssumption, NEW map, IsMap(map), NEW n \in Str, n \notin DOMAIN map,
         NEW met \in SetToSeqs(DOMAIN map)
  PROVE  \E X, Y : EntryBetween(map, met, n, X, Y)
<1>. DEFINE names == DOMAIN map
            N == Cardinality(names)
            q == Rank(names \cup {n}, n)
            a == Entries(map, Sorted(met))
<1>1. names \in SUBSET Nat /\ IsFiniteSet(names) /\ n \in Nat \ names /\ N \in Nat
  BY FS_CardinalityType DEF IsMap, KeyAssumption
<1>2. q \in 1 .. (N + 1)
  <2>1. IsFiniteSet(names \cup {n}) /\ Cardinality(names \cup {n}) = N + 1
    BY <1>1, FS_AddElement
  <2>2. n \in names \cup {n} /\ names \cup {n} \in SUBSET Nat
    BY <1>1
  <2>. DEFINE more == names \cup {n}
  <2>. HIDE DEF names, more
  <2>3. Rank(more, n) \in 1 .. Cardinality(more)
    BY <2>1, <2>2, RankInRange DEF more
  <2>. QED  BY <2>1, <2>3 DEF more
<1>3. Sorted(met) \in Seq(names) /\ Len(Sorted(met)) = N
  <2>1. Sorted(met) \in [1 .. N -> names]
    <3>1. met \in SetToSeqs(names)
      OBVIOUS
    <3>. HIDE DEF names
    <3>. QED  BY <1>1, <3>1, SortedAscends
  <2>. HIDE DEF N, names
  <2>. QED  BY <1>1, <2>1
<1>4. a \in Seq(Seq(Str)) /\ Len(a) = N
      /\ \A i \in 1 .. N : a[i] = <<Sorted(met)[i]>> \o map[Sorted(met)[i]]
  BY <1>3, EntriesType
<1>5. PICK X, Y : Around(Str, a, q, X, Y)
  <2>. HIDE DEF a, q, N
  <2>. QED  BY <1>2, <1>4, InsertedBetween
<1>6. MapStrings(map, Sorted(met)) = X \o Y /\ X \in Seq(Str) /\ Y \in Seq(Str)
  BY <1>5 DEF Around, MapStrings, Entries
<1>7. ASSUME NEW fs \in Seq(Str), NEW again \in SetToSeqs(names \cup {n})
      PROVE  MapStrings(Put(map, n, fs), Sorted(again)) = (X \o (<<n>> \o fs)) \o Y
  <2>. DEFINE more == Put(map, n, fs)
              t == Sorted(again)
              b == Entries(more, t)
  <2>1. IsMap(more) /\ DOMAIN more = names \cup {n} /\ more[n] = fs
        /\ \A m \in names : more[m] = map[m]
    <3>1. IsMap(Put(map, n, fs)) /\ DOMAIN Put(map, n, fs) = DOMAIN map \cup {n}
      BY PutIsMap
    <3>2. Put(map, n, fs)[n] = fs /\ \A m \in DOMAIN map : Put(map, n, fs)[m] = map[m]
      BY DEF Put
    <3>. QED  BY <3>1, <3>2
  <2>2. /\ Sorted(met) \in [1 .. N -> names]
        /\ t \in [1 .. (N + 1) -> names \cup {n}]
        /\ t[q] = n
        /\ \A i \in 1 .. N : Sorted(met)[i] = IF i < q THEN t[i] ELSE t[i + 1]
    <3>1. met \in SetToSeqs(names)
      OBVIOUS
    <3>2. again \in SetToSeqs(names \cup {n})
      OBVIOUS
    <3>. HIDE DEF names
    <3>3. ComesIn(names, n, Sorted(met), Sorted(again))
      BY <1>1, <3>1, <3>2, SortedInsert
    <3>. QED  BY <3>3 DEF ComesIn
  <2>3. t \in Seq(names \cup {n}) /\ Len(t) = N + 1
    <3>. DEFINE M == N + 1
    <3>1. M \in Nat
      BY <1>1
    <3>2. t \in [1 .. M -> names \cup {n}]
      BY <2>2
    <3>. HIDE DEF M, t, names
    <3>3. t \in Seq(names \cup {n}) /\ Len(t) = M
      BY <3>1, <3>2
    <3>. QED  BY <3>3 DEF M
  <2>4. b \in Seq(Seq(Str)) /\ Len(b) = N + 1
        /\ \A i \in 1 .. (N + 1) : b[i] = <<t[i]>> \o more[t[i]]
    <3>1. t \in Seq(DOMAIN more)
      BY <2>1, <2>3
    <3>. HIDE DEF more, t
    <3>. QED  BY <2>1, <2>3, <3>1, EntriesType
  <2>5. <<n>> \o fs \in Seq(Str)
    <3>1. <<n>> \in Seq(Str)
      OBVIOUS
    <3>. QED  BY <3>1, ConcatProperties
  <2>6. Inserted(a, q, <<n>> \o fs, b)
    <3>. HIDE DEF a, q, N, names, more, t, b
    <3>1. b[q] = <<n>> \o fs
      BY <1>2, <2>1, <2>2, <2>4
    <3>2. ASSUME NEW i \in 1 .. N PROVE a[i] = IF i < q THEN b[i] ELSE b[i + 1]
      <4>1. i \in 1 .. (N + 1) /\ i + 1 \in 1 .. (N + 1)
        BY <1>1
      <4>2. Sorted(met)[i] \in names
        BY <2>2
      <4>3. a[i] = <<Sorted(met)[i]>> \o more[Sorted(met)[i]]
        BY <1>4, <2>1, <4>2
      <4>4. b[i] = <<t[i]>> \o more[t[i]] /\ b[i + 1] = <<t[i + 1]>> \o more[t[i + 1]]
        BY <2>4, <4>1
      <4>5. Sorted(met)[i] = IF i < q THEN t[i] ELSE t[i + 1]
        BY <2>2
      <4>. QED  BY <4>3, <4>4, <4>5
    <3>. QED  BY <1>4, <2>4, <3>1, <3>2 DEF Inserted
  <2>7. FlattenSeq(b) = (X \o (<<n>> \o fs)) \o Y
    <3>. DEFINE x == <<n>> \o fs
    <3>1. x \in Seq(Str) /\ Inserted(a, q, x, b)
      BY <2>5, <2>6
    <3>. HIDE DEF x, a, b, q
    <3>2. FlattenSeq(b) = (X \o x) \o Y
      BY <1>5, <2>4, <3>1 DEF Around
    <3>. QED  BY <3>2 DEF x
  <2>8. MapStrings(more, t) = FlattenSeq(b)
    BY DEF MapStrings, Entries
  <2>. QED  BY <2>7, <2>8
<1>8. EntryBetween(map, met, n, X, Y)
  BY <1>6, <1>7 DEF EntryBetween
<1>. QED  BY <1>8

\* keys() can be collected in some order.
LEMMA SomeOrder ==
  ASSUME NEW map, IsMap(map)
  PROVE  \E order : order \in SetToSeqs(DOMAIN map)
<1>. DEFINE names == DOMAIN map  N == Cardinality(names)
<1>1. IsFiniteSet(names) /\ N \in Nat /\ ExistsBijection(1 .. N, names)
  BY FS_CardinalityType DEF IsMap
<1>2. PICK f : f \in Bijection(1 .. N, names)
  BY <1>1 DEF ExistsBijection
<1>3. f \in SetToSeqs(names)
  <2>1. f \in [1 .. N -> names] /\ \A i, j \in 1 .. N : f[i] = f[j] => i = j
    BY <1>2 DEF Bijection, Injection, Surjection, IsInjective
  <2>. HIDE DEF names
  <2>. QED  BY <2>1 DEF SetToSeqs
<1>. QED  BY <1>3

\* An entry is one string longer than what it stands for.
LEMMA EntryType ==
  ASSUME NEW n \in Str, NEW fs \in Seq(Str)
  PROVE  <<n>> \o fs \in Seq(Str) /\ Len(<<n>> \o fs) = Len(fs) + 1
<1>1. <<n>> \in Seq(Str) /\ Len(<<n>>) = 1
  OBVIOUS
<1>. QED  BY <1>1, ConcatProperties

\* A map feeds the hasher more strings when an entry is added to it,
LEMMA NewEntryShows ==
  ASSUME KeyAssumption, NEW map, IsMap(map), NEW n \in Str, n \notin DOMAIN map,
         NEW fs \in Seq(Str),
         NEW met \in SetToSeqs(DOMAIN map), NEW again \in SetToSeqs(DOMAIN map \cup {n})
  PROVE  MapStrings(map, Sorted(met)) # MapStrings(Put(map, n, fs), Sorted(again))
<1>1. PICK X, Y : EntryBetween(map, met, n, X, Y)
  BY EntryComesBetween
<1>. DEFINE x == <<n>> \o fs
<1>2. X \in Seq(Str) /\ Y \in Seq(Str) /\ x \in Seq(Str) /\ Len(x) = Len(fs) + 1
  BY <1>1, EntryType DEF EntryBetween
<1>3. /\ MapStrings(map, Sorted(met)) = X \o Y
      /\ MapStrings(Put(map, n, fs), Sorted(again)) = (X \o x) \o Y
  BY <1>1 DEF EntryBetween
<1>. HIDE DEF x
<1>4. Len(X \o Y) = Len(X) + Len(Y) /\ X \o x \in Seq(Str) /\ Len(X \o x) = Len(X) + Len(x)
  BY <1>2, ConcatProperties
<1>5. Len((X \o x) \o Y) = Len(X \o x) + Len(Y)
  BY <1>2, <1>4, ConcatProperties
<1>6. Len(X) \in Nat /\ Len(Y) \in Nat /\ Len(fs) \in Nat
  BY <1>2
<1>7. Len(X \o Y) # Len((X \o x) \o Y)
  BY <1>2, <1>4, <1>5, <1>6
<1>. QED  BY <1>3, <1>7

\* others when what an entry stands for changes,
LEMMA FieldsShow ==
  ASSUME KeyAssumption, NEW map, IsMap(map), NEW n \in Str, n \notin DOMAIN map,
         NEW fs \in Seq(Str), NEW gs \in Seq(Str), fs # gs,
         NEW met \in SetToSeqs(DOMAIN map \cup {n}), NEW again \in SetToSeqs(DOMAIN map \cup {n})
  PROVE  MapStrings(Put(map, n, fs), Sorted(met)) # MapStrings(Put(map, n, gs), Sorted(again))
<1>0. PICK rest : rest \in SetToSeqs(DOMAIN map)
  BY SomeOrder
<1>1. PICK X, Y : EntryBetween(map, rest, n, X, Y)
  BY <1>0, EntryComesBetween
<1>. DEFINE x == <<n>> \o fs
            y == <<n>> \o gs
<1>2. X \in Seq(Str) /\ Y \in Seq(Str) /\ x \in Seq(Str) /\ y \in Seq(Str)
  BY <1>1, EntryType DEF EntryBetween
<1>3. /\ MapStrings(Put(map, n, fs), Sorted(met)) = (X \o x) \o Y
      /\ MapStrings(Put(map, n, gs), Sorted(again)) = (X \o y) \o Y
  BY <1>1 DEF EntryBetween
<1>4. x # y
  <2>1. <<n>> \in Seq(Str) /\ fs \in Seq(Str) /\ gs \in Seq(Str)
    OBVIOUS
  <2>2. <<n>> \o fs = <<n>> \o gs => fs = gs
    BY <2>1, ConcatSimplifications, Zenon
  <2>. QED  BY <2>2
<1>. HIDE DEF x, y
<1>5. X \o x \in Seq(Str) /\ X \o y \in Seq(Str)
  BY <1>2, ConcatProperties
<1>6. X \o x # X \o y
  BY <1>2, <1>4, ConcatSimplifications, Zenon
<1>7. (X \o x) \o Y # (X \o y) \o Y
  <2>. DEFINE l == X \o x  r == X \o y
  <2>1. l \in Seq(Str) /\ r \in Seq(Str) /\ l # r /\ Y \in Seq(Str)
    BY <1>2, <1>5, <1>6
  <2>. HIDE DEF l, r
  <2>2. l \o Y # r \o Y
    BY <2>1, ConcatSimplifications, Zenon
  <2>. QED  BY <2>2 DEF l, r
<1>. QED  BY <1>3, <1>7

\* and others when an entry gets another name: the old one is there once less.
LEMMA NameShows ==
  ASSUME KeyAssumption, NEW map, IsMap(map), NEW n \in Str, n \notin DOMAIN map,
         NEW m \in Str, m \notin DOMAIN map, m # n, NEW fs \in Seq(Str),
         NEW rest \in SetToSeqs(DOMAIN map),
         NEW met \in SetToSeqs(DOMAIN map \cup {n}), NEW again \in SetToSeqs(DOMAIN map \cup {m})
  PROVE  MapStrings(Put(map, n, fs), Sorted(met)) # MapStrings(Put(map, m, fs), Sorted(again))
<1>. DEFINE C(s) == Count(n, s)
<1>1. ASSUME NEW l \in Str, l \notin DOMAIN map, NEW order \in SetToSeqs(DOMAIN map \cup {l})
      PROVE  /\ C(MapStrings(Put(map, l, fs), Sorted(order)))
                  = C(MapStrings(map, Sorted(rest))) + C(<<l>>) + C(fs)
             /\ C(MapStrings(map, Sorted(rest))) \in Nat /\ C(fs) \in Nat
  <2>1. PICK X, Y : EntryBetween(map, rest, l, X, Y)
    BY <1>1, EntryComesBetween
  <2>. DEFINE x == <<l>> \o fs
              Xx == X \o x
  <2>2. X \in Seq(Str) /\ Y \in Seq(Str) /\ x \in Seq(Str) /\ <<l>> \in Seq(Str)
    BY <2>1, EntryType DEF EntryBetween
  <2>3. Xx \in Seq(Str)
    <3>. HIDE DEF x
    <3>. QED  BY <2>2, ConcatProperties
  <2>4. C(x) = C(<<l>>) + C(fs) /\ C(<<l>>) \in Nat /\ C(fs) \in Nat
    BY <2>2, CountConcat
  <2>5. C(Xx) = C(X) + C(x) /\ C(X) \in Nat
    <3>. HIDE DEF x
    <3>. QED  BY <2>2, CountConcat
  <2>6. C(Xx \o Y) = C(Xx) + C(Y) /\ C(Y) \in Nat
    <3>. HIDE DEF Xx
    <3>. QED  BY <2>2, <2>3, CountConcat
  <2>7. C(X \o Y) = C(X) + C(Y)
    BY <2>2, CountConcat
  <2>8. /\ MapStrings(map, Sorted(rest)) = X \o Y
        /\ MapStrings(Put(map, l, fs), Sorted(order)) = Xx \o Y
    BY <2>1 DEF EntryBetween
  <2>. HIDE DEF C, x, Xx
  <2>9. C(Xx \o Y) = C(X \o Y) + C(<<l>>) + C(fs) /\ C(X \o Y) \in Nat
    BY <2>4, <2>5, <2>6, <2>7
  <2>. QED  BY <2>4, <2>8, <2>9
<1>2. C(<<n>>) = 1 /\ C(<<m>>) = 0
  BY CountOne
<1>. HIDE DEF C
<1>3. C(MapStrings(Put(map, n, fs), Sorted(met))) # C(MapStrings(Put(map, m, fs), Sorted(again)))
  BY <1>1, <1>2
<1>. QED  BY <1>3
-----------------------------------------------------------------------------
(* The key                                                                 *)

Requests ==
  /\ req = [src |-> req.src, verify |-> req.verify,
            maps |-> [k \in Kind |-> req.maps[k]]]
  /\ req.verify \in BOOLEAN
  /\ \A k \in Kind : IsMap(req.maps[k])

\* The key is that of the request, for some order of iteration.
KeyInv == Requests /\ \E it \in Orders(req) : key = Hash(req, it)

\* The order of iteration does not show in the hash.
LEMMA OneHash ==
  ASSUME KeyAssumption, NEW r, NEW it \in Orders(r), NEW jt \in Orders(r),
         \A k \in Kind : IsMap(r.maps[k])
  PROVE  Hash(r, it) = Hash(r, jt)
<1>1. ASSUME NEW k \in Kind PROVE Sorted(it[k]) = Sorted(jt[k])
  <2>1. it[k] \in SetToSeqs(DOMAIN r.maps[k]) /\ jt[k] \in SetToSeqs(DOMAIN r.maps[k])
    BY DEF Orders
  <2>2. DOMAIN r.maps[k] \in SUBSET Nat /\ IsFiniteSet(DOMAIN r.maps[k])
    BY DEF KeyAssumption, IsMap
  <2>. QED  BY <2>1, <2>2, SortForgetsOrder
<1>2. \A i \in DOMAIN Kinds : Kinds[i] \in Kind
  BY DEF Kind, Range
<1>3. \A i \in DOMAIN Kinds : MapStrings(r.maps[Kinds[i]], Sorted(it[Kinds[i]]))
                              = MapStrings(r.maps[Kinds[i]], Sorted(jt[Kinds[i]]))
  BY <1>1, <1>2
<1>4. [i \in DOMAIN Kinds |-> MapStrings(r.maps[Kinds[i]], Sorted(it[Kinds[i]]))]
      = [i \in DOMAIN Kinds |-> MapStrings(r.maps[Kinds[i]], Sorted(jt[Kinds[i]]))]
  BY <1>3
<1>. QED  BY <1>4 DEF Hash

\* Requests that differ in one map have one key only if that map feeds the
\* hasher the same strings in both.
LEMMA OneMapShows ==
  ASSUME KeyAssumption, NEW r, NEW s, NEW k \in Kind,
         \A j \in Kind : IsMap(r.maps[j]) /\ IsMap(s.maps[j]),
         \A j \in Kind \ {k} : s.maps[j] = r.maps[j],
         NEW it \in Orders(r), NEW jt \in Orders(s), Hash(r, it) = Hash(s, jt)
  PROVE  MapStrings(r.maps[k], Sorted(it[k])) = MapStrings(s.maps[k], Sorted(jt[k]))
<1>. DEFINE Text(m, o, i) == MapStrings(m[Kinds[i]], Sorted(o[Kinds[i]]))
            b == [i \in 1 .. 5 |-> Text(r.maps, it, i)]
            c == [i \in 1 .. 5 |-> Text(s.maps, jt, i)]
<1>1. DOMAIN Kinds = 1 .. 5 /\ \A i \in 1 .. 5 : Kinds[i] \in Kind
  BY DEF Kinds, Kind, Range
<1>2. PICK q \in 1 .. 5 : Kinds[q] = k
  BY <1>1 DEF Kind, Range
<1>3. \A i \in 1 .. 5 : i # q => Kinds[i] # k
  BY <1>2 DEF Kinds
<1>4. \A j \in Kind : /\ it[j] \in SetToSeqs(DOMAIN r.maps[j])
                      /\ jt[j] \in SetToSeqs(DOMAIN s.maps[j])
  BY DEF Orders
<1>5. ASSUME NEW i \in 1 .. 5
      PROVE  /\ Text(r.maps, it, i) \in Seq(Str) /\ Text(s.maps, jt, i) \in Seq(Str)
             /\ i # q => Text(r.maps, it, i) = Text(s.maps, jt, i)
  <2>. DEFINE j == Kinds[i]
  <2>1. j \in Kind /\ IsMap(r.maps[j]) /\ IsMap(s.maps[j])
    BY <1>1
  <2>2. it[j] \in SetToSeqs(DOMAIN r.maps[j]) /\ jt[j] \in SetToSeqs(DOMAIN s.maps[j])
    BY <1>4, <2>1
  <2>3. i # q => s.maps[j] = r.maps[j]
    BY <1>3, <2>1
  <2>. HIDE DEF j
  <2>4. /\ MapStrings(r.maps[j], Sorted(it[j])) \in Seq(Str)
        /\ MapStrings(s.maps[j], Sorted(jt[j])) \in Seq(Str)
    BY <2>1, <2>2, MapStringsType
  <2>5. i # q => Sorted(it[j]) = Sorted(jt[j])
    <3>1. DOMAIN r.maps[j] \in SUBSET Nat /\ IsFiniteSet(DOMAIN r.maps[j])
      BY <2>1 DEF KeyAssumption, IsMap
    <3>. QED  BY <2>2, <2>3, <3>1, SortForgetsOrder
  <2>6. i # q => MapStrings(r.maps[j], Sorted(it[j])) = MapStrings(s.maps[j], Sorted(jt[j]))
    BY <2>3, <2>5
  <2>. QED  BY <2>4, <2>6 DEF j
<1>. HIDE DEF Text
<1>6. b \in [1 .. 5 -> Seq(Str)] /\ c \in [1 .. 5 -> Seq(Str)]
  BY <1>5
<1>7. \A i \in 1 .. 5 : i # q => b[i] = c[i]
  BY <1>5
<1>8. FlattenSeq(b) = FlattenSeq(c)
  <2>1. /\ Hash(r, it).strings = FlattenSeq([i \in DOMAIN Kinds |-> Text(r.maps, it, i)])
        /\ Hash(s, jt).strings = FlattenSeq([i \in DOMAIN Kinds |-> Text(s.maps, jt, i)])
    BY DEF Hash, Text
  <2>. QED  BY <1>1, <2>1
<1>9. b[q] = MapStrings(r.maps[k], Sorted(it[k])) /\ c[q] = MapStrings(s.maps[k], Sorted(jt[k]))
  BY <1>2 DEF Text
<1>. HIDE DEF b, c
<1>. DEFINE a == [i \in 1 .. 4 |-> IF i < q THEN b[i] ELSE b[i + 1]]
<1>10. /\ \A i \in 1 .. 4 : a[i] = IF i < q THEN b[i] ELSE b[i + 1]
       /\ a \in [1 .. 4 -> Seq(Str)]
  BY <1>6
<1>11. \A i \in 1 .. 4 : a[i] = IF i < q THEN c[i] ELSE c[i + 1]
  BY <1>7, <1>10
<1>. HIDE DEF a
<1>12. /\ a \in Seq(Seq(Str)) /\ Len(a) = 4
       /\ b \in Seq(Seq(Str)) /\ Len(b) = 5
       /\ c \in Seq(Seq(Str)) /\ Len(c) = 5
  <2>1. \A n \in Nat : \A f \in [1 .. n -> Seq(Str)] : f \in Seq(Seq(Str)) /\ Len(f) = n
    OBVIOUS
  <2>2. 4 \in Nat /\ 5 \in Nat
    OBVIOUS
  <2>. QED  BY <1>6, <1>10, <2>1, <2>2, Zenon
<1>13. q \in 1 .. (Len(a) + 1) /\ b[q] \in Seq(Str) /\ c[q] \in Seq(Str)
  BY <1>6, <1>12
<1>14. Inserted(a, q, b[q], b) /\ Inserted(a, q, c[q], c)
  BY <1>10, <1>11, <1>12 DEF Inserted
<1>15. b[q] = c[q]
  BY <1>8, <1>12, <1>13, <1>14, OneSegmentTells
<1>. QED  BY <1>9, <1>15

\* The fields of a class are strings.
LEMMA FieldsType ==
  ASSUME KeyAssumption, NEW kind, NEW fs \in Fields(kind)
  PROVE  fs \in Seq(Str)
<1>1. CASE kind = "alias"
  <2>1. PICK t \in Str : fs = <<t>>
    BY <1>1 DEF Fields
  <2>2. <<t>> \in Seq(Str)
    OBVIOUS
  <2>. QED  BY <2>1, <2>2
<1>2. CASE kind # "alias"
  <2>1. PICK s \in UNION {[1 .. n -> Str \X Str] : n \in 0 .. MaxFields} : fs = FlattenSeq(s)
    BY <1>2 DEF Fields
  <2>2. PICK n \in 0 .. MaxFields : s \in [1 .. n -> Str \X Str]
    BY <2>1
  <2>3. n \in Nat
    BY DEF KeyAssumption
  <2>4. \A p \in Str \X Str : p \in Seq(Str)
    <3>. TAKE p \in Str \X Str
    <3>1. p[1] \in Str /\ p[2] \in Str /\ p = <<p[1], p[2]>>
      OBVIOUS
    <3>2. \A v, w \in Str : <<v, w>> \in Seq(Str)
      OBVIOUS
    <3>. QED  BY <3>1, <3>2
  <2>5. s \in [1 .. n -> Seq(Str)]
    BY <2>2, <2>4
  <2>6. s \in Seq(Seq(Str))
    BY <2>3, <2>5
  <2>. QED  BY <2>1, <2>6, FlattenSeqType
<1>. QED  BY <1>1, <1>2

\* One map is replaced.
LEMMA OneMapChanges ==
  ASSUME Requests, NEW k \in Kind, NEW map, req' = [req EXCEPT !.maps[k] = map],
         IsMap(map)
  PROVE  /\ Requests'
         /\ \A j \in Kind : req'.maps[j] = IF j = k THEN map ELSE req.maps[j]
<1>1. req'.maps = [req.maps EXCEPT ![k] = map] /\ req'.src = req.src /\ req'.verify = req.verify
  BY DEF Requests
<1>2. \A j \in Kind : req'.maps[j] = IF j = k THEN map ELSE req.maps[j]
  BY <1>1 DEF Requests
<1>3. req' = [src |-> req'.src, verify |-> req'.verify, maps |-> [j \in Kind |-> req'.maps[j]]]
  BY <1>1, <1>2 DEF Requests
<1>4. req'.verify \in BOOLEAN
  BY <1>1 DEF Requests
<1>. QED  BY <1>2, <1>3, <1>4 DEF Requests

\* Edits keep a request a request.
LEMMA RequestsStep == ASSUME Requests, Next PROVE Requests'
<1>0. \A k \in Kind : IsMap(req.maps[k])
  BY DEF Requests
<1>1. CASE CallAgain
  BY <1>1 DEF CallAgain, Requests
<1>2. CASE EditSource
  BY <1>2 DEF EditSource, Requests
<1>3. CASE ToggleVerify
  BY <1>3 DEF ToggleVerify, Requests
<1>4. CASE Define
  <2>1. PICK k \in Kind, n \in Str : \E fs \in Fields(k) :
          req' = [req EXCEPT !.maps[k] = Put(req.maps[k], n, fs)]
    BY <1>4 DEF Define
  <2>2. PICK fs \in Fields(k) : req' = [req EXCEPT !.maps[k] = Put(req.maps[k], n, fs)]
    BY <2>1
  <2>3. IsMap(Put(req.maps[k], n, fs))
    <3>1. fs \in Seq(Str)
      BY KeyAssumption, FieldsType
    <3>. QED  BY <1>0, <3>1, PutIsMap
  <2>. QED  BY <2>2, <2>3, OneMapChanges
<1>5. CASE Forget
  <2>1. PICK k \in Kind : \E n \in DOMAIN req.maps[k] :
          req' = [req EXCEPT !.maps[k] = Drop(req.maps[k], n)]
    BY <1>5 DEF Forget
  <2>2. PICK n : req' = [req EXCEPT !.maps[k] = Drop(req.maps[k], n)]
    BY <2>1
  <2>3. IsMap(Drop(req.maps[k], n))
    BY <1>0, DropIsMap
  <2>. QED  BY <2>2, <2>3, OneMapChanges
<1>6. CASE Rename
  <2>1. PICK k \in Kind : \E n \in DOMAIN req.maps[k], m \in Str :
          req' = [req EXCEPT !.maps[k] = Put(Drop(req.maps[k], n), m, req.maps[k][n])]
    BY <1>6 DEF Rename
  <2>2. PICK n \in DOMAIN req.maps[k], m \in Str :
          req' = [req EXCEPT !.maps[k] = Put(Drop(req.maps[k], n), m, req.maps[k][n])]
    BY <2>1
  <2>3. IsMap(Drop(req.maps[k], n)) /\ req.maps[k][n] \in Seq(Str)
    BY <1>0, DropIsMap DEF IsMap
  <2>4. IsMap(Put(Drop(req.maps[k], n), m, req.maps[k][n]))
    BY <2>3, PutIsMap
  <2>. QED  BY <2>2, <2>4, OneMapChanges
<1>. QED  BY <1>1, <1>2, <1>3, <1>4, <1>5, <1>6 DEF Next, Edit

\* Every step ends in a call.
LEMMA StepCalls == Next => Call
BY DEF Next, Edit, CallAgain, EditSource, ToggleVerify, Define, Forget, Rename

\* The key is always the hash of the latest request.
THEOREM InductiveInvariant == Spec => []KeyInv
<1>1. Init => KeyInv
  <2>. SUFFICES ASSUME Init PROVE KeyInv
    OBVIOUS
  <2>1. req = [src |-> CHOOSE s \in Source : TRUE, verify |-> TRUE,
               maps |-> [k \in Kind |-> Empty]]
    BY DEF Init
  <2>2. (\A k \in Kind : req.maps[k] = Empty) /\ req.verify = TRUE
    BY <2>1
  <2>3. IsMap(Empty)
    <3>1. DOMAIN Empty = {} /\ IsFiniteSet({}) /\ Empty = [m \in {} |-> Empty[m]]
      BY FS_EmptySet DEF Empty
    <3>. QED  BY <3>1 DEF IsMap
  <2>4. req = [src |-> req.src, verify |-> req.verify, maps |-> [k \in Kind |-> req.maps[k]]]
    BY <2>1
  <2>. QED  BY <2>2, <2>3, <2>4 DEF KeyInv, Requests, Init
<1>2. KeyInv /\ [Next]_vars => KeyInv'
  <2>. SUFFICES ASSUME KeyInv, [Next]_vars PROVE KeyInv'
    OBVIOUS
  <2>1. CASE UNCHANGED vars
    BY <2>1 DEF vars, KeyInv, Requests, Orders, Hash
  <2>2. CASE Next
    BY <2>2, RequestsStep, StepCalls DEF KeyInv, Call
  <2>. QED  BY <2>1, <2>2
<1>. QED  BY <1>1, <1>2, PTL DEF Spec

\* compute_hash_full gives equal requests one key, in whatever orders the
\* HashMaps of the processes that make them are iterated.
THEOREM EqualRequestsMeet == Spec => SameRequestSameKey
<1>1. KeyInv /\ [Next]_vars => [req' = req => key' = key]_vars
  <2>. SUFFICES ASSUME KeyInv, Next, req' = req PROVE key' = key
    OBVIOUS
  <2>1. PICK it \in Orders(req) : key = Hash(req, it)
    BY DEF KeyInv
  <2>2. PICK jt \in Orders(req) : key' = Hash(req, jt)
    BY StepCalls DEF Call
  <2>3. Hash(req, it) = Hash(req, jt)
    BY OneHash, KeyAssumption DEF KeyInv, Requests
  <2>. QED  BY <2>1, <2>2, <2>3
<1>. QED  BY <1>1, InductiveInvariant, PTL DEF Spec, SameRequestSameKey
-----------------------------------------------------------------------------
(* Edits                                                                   *)

\* What is left without `n`, and back again.
LEMMA DropPut ==
  ASSUME NEW map, IsMap(map), NEW n \in Str
  PROVE  /\ n \notin DOMAIN map => Drop(map, n) = map
         /\ \A fs : Put(map, n, fs) = Put(Drop(map, n), n, fs)
         /\ n \in DOMAIN map => map = Put(Drop(map, n), n, map[n])
<1>1. map = [m \in DOMAIN map |-> map[m]]
  BY DEF IsMap
<1>2. n \notin DOMAIN map => DOMAIN map \ {n} = DOMAIN map
  OBVIOUS
<1>3. n \notin DOMAIN map => Drop(map, n) = map
  BY <1>1, <1>2 DEF Drop
<1>4. ASSUME NEW fs PROVE Put(map, n, fs) = Put(Drop(map, n), n, fs)
  <2>1. DOMAIN Drop(map, n) = DOMAIN map \ {n} /\ \A m \in DOMAIN map \ {n} : Drop(map, n)[m] = map[m]
    BY DEF Drop
  <2>2. (DOMAIN map \ {n}) \cup {n} = DOMAIN map \cup {n}
    OBVIOUS
  <2>3. \A m \in DOMAIN map \cup {n} :
          (IF m = n THEN fs ELSE map[m]) = (IF m = n THEN fs ELSE Drop(map, n)[m])
    BY <2>1
  <2>. QED  BY <2>1, <2>2, <2>3 DEF Put
<1>5. n \in DOMAIN map => map = Put(map, n, map[n])
  <2>1. n \in DOMAIN map => DOMAIN map \cup {n} = DOMAIN map
    OBVIOUS
  <2>. QED  BY <1>1, <2>1 DEF Put
<1>. QED  BY <1>3, <1>4, <1>5

\* A map replaced by one that feeds the hasher other strings shows in the key.
OtherStrings(map, new) ==
  \A met \in SetToSeqs(DOMAIN map), again \in SetToSeqs(DOMAIN new) :
    MapStrings(map, Sorted(met)) # MapStrings(new, Sorted(again))

LEMMA KeyTells ==
  ASSUME KeyInv, Next, NEW k \in Kind, NEW map, req' = [req EXCEPT !.maps[k] = map],
         IsMap(map), OtherStrings(req.maps[k], map)
  PROVE  key' # key
<1>. SUFFICES ASSUME key' = key PROVE FALSE
  OBVIOUS
<1>1. PICK it \in Orders(req) : key = Hash(req, it)
  BY DEF KeyInv
<1>2. PICK jt \in Orders(req') : key' = Hash(req', jt)
  BY StepCalls DEF Call
<1>3. Requests /\ Requests' /\ \A j \in Kind : req'.maps[j] = IF j = k THEN map ELSE req.maps[j]
  BY OneMapChanges DEF KeyInv
<1>4. \A j \in Kind : IsMap(req.maps[j]) /\ IsMap(req'.maps[j])
  BY <1>3 DEF Requests
<1>5. \A j \in Kind \ {k} : req'.maps[j] = req.maps[j]
  BY <1>3
<1>6. Hash(req, it) = Hash(req', jt)
  BY <1>1, <1>2
<1>7. MapStrings(req.maps[k], Sorted(it[k])) = MapStrings(req'.maps[k], Sorted(jt[k]))
  <2>1. PICK r : r = req
    OBVIOUS
  <2>2. PICK s : s = req'
    OBVIOUS
  <2>3. /\ it \in Orders(r) /\ jt \in Orders(s) /\ Hash(r, it) = Hash(s, jt)
        /\ \A j \in Kind : IsMap(r.maps[j]) /\ IsMap(s.maps[j])
        /\ \A j \in Kind \ {k} : s.maps[j] = r.maps[j]
    BY <1>4, <1>5, <1>6, <2>1, <2>2
  <2>4. MapStrings(r.maps[k], Sorted(it[k])) = MapStrings(s.maps[k], Sorted(jt[k]))
    BY <2>3, KeyAssumption, OneMapShows
  <2>. QED  BY <2>1, <2>2, <2>4
<1>8. it[k] \in SetToSeqs(DOMAIN req.maps[k]) /\ jt[k] \in SetToSeqs(DOMAIN req'.maps[k])
  BY DEF Orders
<1>. QED  BY <1>3, <1>7, <1>8 DEF OtherStrings

\* compute_hash_full gives a request another key after any one edit: of the
\* source, of the verify flag, of a class or an alias.
THEOREM EditsMissTheCaches == Spec => EditChangesKey
<1>1. KeyInv /\ [Next]_vars => [req' # req => key' # key]_vars
  <2>. SUFFICES ASSUME KeyInv, Next, req' # req PROVE key' # key
    OBVIOUS
  <2>0. Requests /\ \A k \in Kind : IsMap(req.maps[k])
    BY DEF KeyInv, Requests
  <2>k. KeyAssumption
    BY KeyAssumption
  <2>1. CASE CallAgain
    BY <2>1 DEF CallAgain
  <2>2. CASE EditSource \/ ToggleVerify
    <3>1. req'.src # req.src \/ req'.verify # req.verify
      BY <2>0, <2>2 DEF EditSource, ToggleVerify, Requests
    <3>2. PICK it \in Orders(req) : key = Hash(req, it)
      BY DEF KeyInv
    <3>3. PICK jt \in Orders(req') : key' = Hash(req', jt)
      BY StepCalls DEF Call
    <3>4. /\ Hash(req, it).src = req.src /\ Hash(req, it).verify = req.verify
          /\ Hash(req', jt).src = req'.src /\ Hash(req', jt).verify = req'.verify
      BY DEF Hash
    <3>. QED  BY <3>1, <3>2, <3>3, <3>4
  <2>3. CASE Define
    <3>1. PICK k \in Kind, n \in Str : \E fs \in Fields(k) :
            req' = [req EXCEPT !.maps[k] = Put(req.maps[k], n, fs)]
      BY <2>3 DEF Define
    <3>2. PICK fs \in Fields(k) : req' = [req EXCEPT !.maps[k] = Put(req.maps[k], n, fs)]
      BY <3>1
    <3>. DEFINE map == req.maps[k]  rest == Drop(map, n)  new == Put(map, n, fs)
    <3>3. fs \in Seq(Str) /\ IsMap(map)
      BY <2>0, <2>k, FieldsType
    <3>4. IsMap(rest) /\ DOMAIN rest = DOMAIN map \ {n}
      <4>. HIDE DEF map
      <4>. QED  BY <3>3, DropIsMap
    <3>5. IsMap(new) /\ DOMAIN new = DOMAIN map \cup {n}
      <4>. HIDE DEF map
      <4>. QED  BY <3>3, PutIsMap
    <3>6. OtherStrings(map, new)
      <4>. HIDE DEF map
      <4>1. CASE n \notin DOMAIN map
        BY <2>k, <3>3, <3>5, <4>1, NewEntryShows DEF OtherStrings
      <4>2. CASE n \in DOMAIN map
        <5>. DEFINE old == map[n]
        <5>1. map = Put(rest, n, old) /\ new = Put(rest, n, fs) /\ old \in Seq(Str)
          BY <3>3, <4>2, DropPut DEF IsMap
        <5>2. old # fs
          <6>. SUFFICES ASSUME old = fs PROVE FALSE
            OBVIOUS
          <6>1. new = map
            BY <5>1
          <6>2. req' = [req EXCEPT !.maps[k] = req.maps[k]]
            BY <3>2, <6>1 DEF map
          <6>3. req' = req
            BY <2>0, <6>2 DEF Requests
          <6>. QED  BY <6>3
        <5>3. DOMAIN map = DOMAIN rest \cup {n} /\ DOMAIN new = DOMAIN rest \cup {n}
              /\ n \notin DOMAIN rest
          BY <3>4, <3>5, <4>2
        <5>. HIDE DEF old, rest, new
        <5>4. ASSUME NEW met \in SetToSeqs(DOMAIN rest \cup {n}),
                     NEW again \in SetToSeqs(DOMAIN rest \cup {n})
              PROVE  MapStrings(Put(rest, n, old), Sorted(met))
                       # MapStrings(Put(rest, n, fs), Sorted(again))
          BY <2>k, <3>3, <3>4, <5>1, <5>2, <5>3, FieldsShow
        <5>. QED  BY <5>1, <5>3, <5>4 DEF OtherStrings
      <4>. QED  BY <4>1, <4>2
    <3>. QED  BY <3>2, <3>5, <3>6, KeyTells
  <2>4. CASE Forget
    <3>1. PICK k \in Kind : \E n \in DOMAIN req.maps[k] :
            req' = [req EXCEPT !.maps[k] = Drop(req.maps[k], n)]
      BY <2>4 DEF Forget
    <3>2. PICK n \in DOMAIN req.maps[k] : req' = [req EXCEPT !.maps[k] = Drop(req.maps[k], n)]
      BY <3>1
    <3>. DEFINE map == req.maps[k]  rest == Drop(map, n)
    <3>3. IsMap(map) /\ n \in Str /\ map[n] \in Seq(Str)
      BY <2>0 DEF IsMap
    <3>4. IsMap(rest) /\ DOMAIN rest = DOMAIN map \ {n} /\ map = Put(rest, n, map[n])
      <4>1. n \in DOMAIN map
        OBVIOUS
      <4>. HIDE DEF map
      <4>. QED  BY <3>3, <4>1, DropIsMap, DropPut
    <3>5. OtherStrings(map, rest)
      <4>1. n \in DOMAIN map
        OBVIOUS
      <4>. DEFINE old == map[n]
      <4>. HIDE DEF map, rest
      <4>2. DOMAIN map = DOMAIN rest \cup {n} /\ n \notin DOMAIN rest /\ old \in Seq(Str)
            /\ map = Put(rest, n, old)
        BY <3>3, <3>4, <4>1
      <4>. HIDE DEF old
      <4>3. ASSUME NEW met \in SetToSeqs(DOMAIN map), NEW again \in SetToSeqs(DOMAIN rest)
            PROVE  MapStrings(map, Sorted(met)) # MapStrings(rest, Sorted(again))
        BY <2>k, <3>3, <3>4, <4>2, NewEntryShows
      <4>. QED  BY <4>3 DEF OtherStrings
    <3>. QED  BY <3>2, <3>4, <3>5, KeyTells
  <2>5. CASE Rename
    <3>1. PICK k \in Kind : \E n \in DOMAIN req.maps[k], m \in Str :
            /\ m \notin DOMAIN req.maps[k]
            /\ req' = [req EXCEPT !.maps[k] = Put(Drop(req.maps[k], n), m, req.maps[k][n])]
      BY <2>5 DEF Rename
    <3>2. PICK n \in DOMAIN req.maps[k], m \in Str :
            /\ m \notin DOMAIN req.maps[k]
            /\ req' = [req EXCEPT !.maps[k] = Put(Drop(req.maps[k], n), m, req.maps[k][n])]
      BY <3>1
    <3>. DEFINE map == req.maps[k]  rest == Drop(map, n)  new == Put(rest, m, map[n])
    <3>3. IsMap(map) /\ n \in Str /\ map[n] \in Seq(Str) /\ m # n /\ n \in DOMAIN map
          /\ m \notin DOMAIN map
      BY <2>0, <3>2 DEF IsMap
    <3>4. IsMap(rest) /\ DOMAIN rest = DOMAIN map \ {n} /\ map = Put(rest, n, map[n])
      <4>. HIDE DEF map
      <4>. QED  BY <3>3, DropIsMap, DropPut
    <3>5. IsMap(new) /\ DOMAIN new = DOMAIN rest \cup {m}
      <4>. HIDE DEF map, rest
      <4>. QED  BY <3>3, <3>4, PutIsMap
    <3>6. OtherStrings(map, new)
      <4>1. PICK order : order \in SetToSeqs(DOMAIN rest)
        <5>. HIDE DEF rest
        <5>. QED  BY <3>4, SomeOrder
      <4>. DEFINE old == map[n]
      <4>. HIDE DEF map, rest, new
      <4>2. /\ DOMAIN map = DOMAIN rest \cup {n} /\ n \notin DOMAIN rest /\ m \notin DOMAIN rest
            /\ old \in Seq(Str) /\ map = Put(rest, n, old) /\ new = Put(rest, m, old)
        BY <3>3, <3>4 DEF new
      <4>. HIDE DEF old
      <4>3. ASSUME NEW met \in SetToSeqs(DOMAIN rest \cup {n}),
                   NEW again \in SetToSeqs(DOMAIN rest \cup {m})
            PROVE  MapStrings(Put(rest, n, old), Sorted(met))
                     # MapStrings(Put(rest, m, old), Sorted(again))
        BY <2>k, <3>3, <3>4, <4>1, <4>2, NameShows
      <4>. QED  BY <3>5, <4>2, <4>3 DEF OtherStrings
    <3>. QED  BY <3>2, <3>5, <3>6, KeyTells
  <2>. QED  BY <2>1, <2>2, <2>3, <2>4, <2>5 DEF Next, Edit
<1>. QED  BY <1>1, InductiveInvariant, PTL DEF Spec, EditChangesKey
=============================================================================
