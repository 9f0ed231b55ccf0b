------------------------- MODULE StructLayoutProofs -------------------------
(***************************************************************************)
(* That fields of any number, sizes and alignments lie where they should:  *)
(* aligned, apart from each other, within the struct.                      *)
(***************************************************************************)
EXTENDS StructLayout, WellFoundedInduction, TLAPS

-----------------------------------------------------------------------------
(* Rounding                                                                *)

\* What division is.
LEMMA Division ==
  ASSUME NEW m \in Nat, NEW a \in Nat \ {0}
  PROVE  /\ m \div a \in Nat
         /\ m < (m \div a) * a + a /\ (m \div a) * a <= m
OBVIOUS

\* RoundUp gives the next multiple.
LEMMA RoundsUp ==
  ASSUME NEW n \in Nat, NEW a \in Nat \ {0}
  PROVE  /\ RoundUp(n, a) \in Nat /\ n <= RoundUp(n, a) /\ RoundUp(n, a) < n + a
         /\ RoundUp(n, a) % a = 0
<1>. DEFINE m == n + a - 1  q == m \div a
<1>1. m \in Nat
  OBVIOUS
<1>2. q \in Nat /\ m < q * a + a /\ q * a <= m
  <2>. HIDE DEF m
  <2>. QED  BY <1>1, Division
<1>. HIDE DEF q
<1>3. q * a \in Nat
  BY <1>2
<1>4. RoundUp(n, a) = q * a
  BY DEF RoundUp, q
<1>5. (q * a) % a = 0
  BY <1>2
<1>6. n <= q * a /\ q * a < n + a
  <2>. DEFINE p == q * a
  <2>1. p \in Nat /\ n + a - 1 < p + a /\ p <= n + a - 1
    BY <1>2, <1>3
  <2>. HIDE DEF p
  <2>2. n <= p /\ p < n + a
    BY <2>1
  <2>. QED  BY <2>2 DEF p
<1>. QED  BY <1>3, <1>4, <1>5, <1>6

-----------------------------------------------------------------------------
(* Where fields begin                                                      *)

\* Induction, on the members of a set.
LEMMA CountingUp ==
  ASSUME NEW lo \in Nat, NEW hi \in Nat, NEW holds, lo \in holds,
         \A m \in lo .. (hi - 1) : m \in holds => m + 1 \in holds
  PROVE  \A m \in lo .. hi : m \in holds
<1>. SUFFICES ASSUME NEW n \in lo .. hi, n \notin holds PROVE FALSE
  OBVIOUS
<1>. DEFINE less == {p \in Nat \X Nat : p[1] < p[2]}
            bad == {m \in lo .. hi : m \notin holds}
<1>1. IsWellFoundedOn(OpToRel(<, Nat), Nat)
  BY NatLessThanWellFounded
<1>2. OpToRel(<, Nat) = less
  BY DEF OpToRel
<1>3. IsWellFoundedOn(less, Nat)
  BY <1>1, <1>2
<1>4. PICK m \in bad : \A k \in bad : ~ <<k, m>> \in less
  <2>1. bad \subseteq Nat /\ bad # {}
    OBVIOUS
  <2>. HIDE DEF less, bad
  <2>. QED  BY <1>3, <2>1, WFMin
<1>5. m \in lo .. hi /\ m \notin holds /\ m # lo
  BY <1>4
<1>6. m - 1 \in lo .. (hi - 1) /\ m - 1 \in Nat /\ m \in Nat
  BY <1>5
<1>7. m - 1 \notin holds
  BY <1>5, <1>6
<1>8. m - 1 \in bad /\ <<m - 1, m>> \in less
  BY <1>6, <1>7
<1>. QED  BY <1>4, <1>8

\* The recursion of Offsets.
Begins(n, sizes, aligns, f) ==
  /\ f \in [1 .. n -> Nat]
  /\ \A k \in 1 .. n : f[k] = IF k = 1 THEN 0 ELSE RoundUp(f[k - 1] + sizes[k - 1], aligns[k])

\* By induction on the number of fields.
LEMMA OffsetsExist ==
  ASSUME NEW n \in Nat, NEW sizes \in [1 .. n -> Nat], NEW aligns \in [1 .. n -> Alignments]
  PROVE  \A m \in 0 .. n : \E f : Begins(m, sizes, aligns, f)
<1>. DEFINE holds == {m \in 0 .. n : \E f : Begins(m, sizes, aligns, f)}
<1>1. 0 \in holds
  <2>1. Begins(0, sizes, aligns, [k \in 1 .. 0 |-> 0])
    BY DEF Begins
  <2>. QED  BY <2>1
<1>2. ASSUME NEW m \in 0 .. (n - 1), m \in holds PROVE m + 1 \in holds
  <2>1. PICK f : Begins(m, sizes, aligns, f)
    BY <1>2
  <2>. DEFINE end == IF m = 0 THEN 0 ELSE RoundUp(f[m] + sizes[m], aligns[m + 1])
              g == [k \in 1 .. (m + 1) |-> IF k = m + 1 THEN end ELSE f[k]]
  <2>2. m \in Nat /\ m + 1 \in 1 .. n
    OBVIOUS
  <2>3. end \in Nat
    <3>1. CASE m = 0
      BY <3>1
    <3>2. CASE m # 0
      <4>1. m \in 1 .. m /\ m \in 1 .. n
        BY <2>2, <3>2
      <4>a. f[m] \in Nat /\ sizes[m] \in Nat /\ aligns[m + 1] \in Alignments
        BY <2>1, <2>2, <4>1 DEF Begins
      <4>b. aligns[m + 1] \in Nat \ {0}
        BY <4>a DEF Alignments
      <4>2. f[m] + sizes[m] \in Nat
        BY <4>a
      <4>. QED  BY <3>2, <4>a, <4>b, <4>2, RoundsUp
    <3>. QED  BY <3>1, <3>2
  <2>. HIDE DEF end
  <2>4. g \in [1 .. (m + 1) -> Nat]
    BY <2>1, <2>2, <2>3 DEF Begins
  <2>5. ASSUME NEW k \in 1 .. (m + 1)
        PROVE  g[k] = IF k = 1 THEN 0 ELSE RoundUp(g[k - 1] + sizes[k - 1], aligns[k])
    <3>1. CASE k = m + 1
      <4>1. k # 1 => g[k - 1] = f[m] /\ k - 1 = m /\ m # 0
        BY <2>2, <3>1
      <4>. QED  BY <2>2, <3>1, <4>1 DEF end
    <3>2. CASE k # m + 1
      <4>1. k \in 1 .. m /\ (k # 1 => k - 1 \in 1 .. m /\ k - 1 # m + 1)
        BY <2>2, <3>2
      <4>2. g[k] = f[k] /\ (k # 1 => g[k - 1] = f[k - 1])
        BY <2>2, <3>2, <4>1
      <4>. QED  BY <2>1, <4>1, <4>2 DEF Begins
    <3>. QED  BY <3>1, <3>2
  <2>6. Begins(m + 1, sizes, aligns, g)
    <3>. HIDE DEF g
    <3>. QED  BY <2>4, <2>5 DEF Begins
  <2>. QED  BY <2>2, <2>6
<1>3. \A m \in 0 .. n : m \in holds
  <2>. HIDE DEF holds
  <2>. QED  BY <1>1, <1>2, CountingUp
<1>. QED  BY <1>3

\* Offsets is that function.
LEMMA OffsetsBegin ==
  ASSUME NEW n \in Nat, NEW sizes \in [1 .. n -> Nat], NEW aligns \in [1 .. n -> Alignments]
  PROVE  Begins(n, sizes, aligns, Offsets(sizes, aligns))
<1>. DEFINE Rec(f) == f = [k \in 1 .. n |-> IF k = 1 THEN 0
                                           ELSE RoundUp(f[k - 1] + sizes[k - 1], aligns[k])]
            offset == CHOOSE f : Rec(f)
<1>1. Offsets(sizes, aligns) = offset
  BY DEF Offsets
<1>2. PICK f : Begins(n, sizes, aligns, f)
  BY OffsetsExist
<1>3. Rec(f)
  BY <1>2 DEF Begins
<1>4. Rec(offset)
  <2>. HIDE DEF Rec
  <2>. QED  BY <1>3
<1>. HIDE DEF offset
<1>5. \A k \in 1 .. n : offset[k] = IF k = 1 THEN 0
                                   ELSE RoundUp(offset[k - 1] + sizes[k - 1], aligns[k])
  BY <1>4
<1>6. offset = [k \in 1 .. n |-> offset[k]]
  BY <1>4
<1>. DEFINE same == {k \in 1 .. n : offset[k] = f[k]}
<1>7. CASE n = 0
  BY <1>1, <1>5, <1>6, <1>7 DEF Begins
<1>8. CASE n # 0
  <2>1. 1 \in same /\ 1 \in Nat
    BY <1>2, <1>5, <1>8 DEF Begins
  <2>2. ASSUME NEW m \in 1 .. (n - 1), m \in same PROVE m + 1 \in same
    <3>1. m + 1 \in 1 .. n /\ m + 1 # 1 /\ (m + 1) - 1 = m
      OBVIOUS
    <3>2. offset[m + 1] = RoundUp(offset[m] + sizes[m], aligns[m + 1])
      BY <1>5, <3>1
    <3>3. f[m + 1] = RoundUp(f[m] + sizes[m], aligns[m + 1])
      BY <1>2, <3>1 DEF Begins
    <3>. QED  BY <2>2, <3>1, <3>2, <3>3
  <2>3. \A m \in 1 .. n : m \in same
    <3>. HIDE DEF same
    <3>. QED  BY <2>1, <2>2, CountingUp
  <2>4. \A k \in 1 .. n : offset[k] \in Nat
    BY <1>2, <2>3 DEF Begins
  <2>5. offset \in [1 .. n -> Nat]
    BY <1>6, <2>4
  <2>. QED  BY <1>1, <1>5, <2>5 DEF Begins
<1>. QED  BY <1>7, <1>8

\* The strictest alignment meets all others, which are powers of two too.
LEMMA StrictestIs ==
  ASSUME NEW n \in Nat, NEW aligns \in [1 .. n -> Alignments]
  PROVE  /\ Strictest(aligns) \in Alignments
         /\ \A k \in 1 .. n : Strictest(aligns) % aligns[k] = 0
<1>. DEFINE S == {1} \cup {aligns[i] : i \in 1 .. n}
<1>1. S \subseteq Alignments /\ 1 \in S
  BY DEF Alignments
<1>2. \E m \in S : \A k \in S : k <= m
  <2>. HIDE DEF S
  <2>0. CASE 16 \in S
    BY <1>1, <2>0 DEF Alignments
  <2>1. CASE 16 \notin S /\ 8 \in S
    BY <1>1, <2>1 DEF Alignments
  <2>2. CASE 16 \notin S /\ 8 \notin S /\ 4 \in S
    BY <1>1, <2>2 DEF Alignments
  <2>3. CASE 16 \notin S /\ 8 \notin S /\ 4 \notin S /\ 2 \in S
    BY <1>1, <2>3 DEF Alignments
  <2>4. CASE 16 \notin S /\ 8 \notin S /\ 4 \notin S /\ 2 \notin S
    BY <1>1, <2>4 DEF Alignments
  <2>. QED  BY <2>0, <2>1, <2>2, <2>3, <2>4
<1>3. Largest(S) \in S /\ \A k \in S : k <= Largest(S)
  <2>. HIDE DEF S
  <2>. QED  BY <1>2 DEF Largest
<1>4. Strictest(aligns) = Largest(S)
  BY DEF Strictest
<1>5. \A m, k \in Alignments : k <= m => m % k = 0
  BY DEF Alignments
<1>6. \A k \in 1 .. n : aligns[k] \in S
  OBVIOUS
<1>. HIDE DEF S
<1>. QED  BY <1>1, <1>3, <1>4, <1>5, <1>6

\* For any number of fields of any sizes: the fields of a struct are aligned
\* wherever the struct is as its strictest field demands, none reaches into
\* the next, all lie within its size, and so do those of its neighbours in an
\* array.
THEOREM LayoutIsSound ==
  ASSUME NEW n \in Nat, NEW sizes \in [1 .. n -> Nat], NEW aligns \in [1 .. n -> Alignments]
  PROVE  LET at == Offsets(sizes, aligns)
             room == Room(sizes, aligns)
             strictest == Strictest(aligns)
         IN  /\ \A k \in 1 .. n : \A base \in Nat :
                  base % strictest = 0 => (base + at[k]) % aligns[k] = 0
             /\ \A i, j \in 1 .. n : i < j => at[i] + sizes[i] <= at[j]
             /\ \A k \in 1 .. n : at[k] + sizes[k] <= room
             /\ room % strictest = 0
<1>. DEFINE at == Offsets(sizes, aligns)
            room == Room(sizes, aligns)
            strictest == Strictest(aligns)
<1>1. Begins(n, sizes, aligns, at)
  BY OffsetsBegin
<1>2. strictest \in Alignments /\ \A k \in 1 .. n : strictest % aligns[k] = 0
  BY StrictestIs
<1>3. room = IF n = 0 THEN 0 ELSE RoundUp(at[n] + sizes[n], strictest)
  <2>1. Len(sizes) = n
    OBVIOUS
  <2>. QED  BY <2>1 DEF Room
<1>. HIDE DEF at, room, strictest
<1>4. \A k \in 1 .. n : at[k] \in Nat /\ sizes[k] \in Nat /\ aligns[k] \in Nat \ {0}
  <2>1. \A a \in Alignments : a \in Nat \ {0}
    BY DEF Alignments
  <2>2. \A k \in 1 .. n : at[k] \in Nat /\ sizes[k] \in Nat /\ aligns[k] \in Alignments
    BY <1>1 DEF Begins
  <2>. QED  BY <2>1, <2>2
<1>5. \A k \in 1 .. n : at[k] % aligns[k] = 0
  <2>. SUFFICES ASSUME NEW k \in 1 .. n PROVE at[k] % aligns[k] = 0
    OBVIOUS
  <2>1. CASE k = 1
    <3>1. at[k] = 0
      BY <1>1, <2>1 DEF Begins
    <3>. QED  BY <1>4, <3>1
  <2>2. CASE k # 1
    <3>1. k - 1 \in 1 .. n
      BY <2>2
    <3>2. at[k] = RoundUp(at[k - 1] + sizes[k - 1], aligns[k])
      BY <1>1, <2>2 DEF Begins
    <3>3. at[k - 1] + sizes[k - 1] \in Nat
      BY <1>4, <3>1
    <3>. QED  BY <1>4, <3>2, <3>3, RoundsUp
  <2>. QED  BY <2>1, <2>2
<1>6. \A k \in 1 .. (n - 1) : at[k] + sizes[k] <= at[k + 1]
  <2>. SUFFICES ASSUME NEW k \in 1 .. (n - 1) PROVE at[k] + sizes[k] <= at[k + 1]
    OBVIOUS
  <2>1. k \in 1 .. n /\ k + 1 \in 1 .. n /\ k + 1 # 1 /\ (k + 1) - 1 = k
    OBVIOUS
  <2>2. at[k + 1] = RoundUp(at[k] + sizes[k], aligns[k + 1])
    BY <1>1, <2>1 DEF Begins
  <2>3. at[k] + sizes[k] \in Nat
    BY <1>4, <2>1
  <2>. QED  BY <1>4, <2>1, <2>2, <2>3, RoundsUp
<1>7. ASSUME NEW i \in 1 .. n, NEW j \in 1 .. n, i < j PROVE at[i] + sizes[i] <= at[j]
  <2>. DEFINE holds == {m \in (i + 1) .. n : at[i] + sizes[i] <= at[m]}
  <2>1. i + 1 \in holds /\ i + 1 \in Nat /\ j \in (i + 1) .. n
    BY <1>6, <1>7
  <2>2. ASSUME NEW m \in (i + 1) .. (n - 1), m \in holds PROVE m + 1 \in holds
    <3>1. m \in 1 .. (n - 1) /\ m \in 1 .. n /\ m + 1 \in 1 .. n /\ m + 1 \in (i + 1) .. n
      OBVIOUS
    <3>2. at[m] + sizes[m] <= at[m + 1]
      BY <1>6, <3>1
    <3>3. at[m] \in Nat /\ sizes[m] \in Nat /\ at[m + 1] \in Nat /\ at[i] \in Nat /\ sizes[i] \in Nat
      BY <1>4, <3>1
    <3>. QED  BY <2>2, <3>1, <3>2, <3>3
  <2>3. \A m \in (i + 1) .. n : m \in holds
    <3>. HIDE DEF holds
    <3>. QED  BY <2>1, <2>2, CountingUp
  <2>. QED  BY <2>1, <2>3
<1>8. /\ \A k \in 1 .. n : at[k] + sizes[k] <= room
      /\ room % strictest = 0
  <2>1. strictest \in Nat \ {0}
    BY <1>2 DEF Alignments
  <2>2. CASE n = 0
    BY <1>3, <2>1, <2>2
  <2>3. CASE n # 0
    <3>1. n \in 1 .. n
      BY <2>3
    <3>2. at[n] + sizes[n] \in Nat
      BY <1>4, <3>1
    <3>3. at[n] + sizes[n] <= room /\ room % strictest = 0 /\ room \in Nat
      BY <1>3, <2>1, <2>3, <3>2, RoundsUp
    <3>4. ASSUME NEW k \in 1 .. n PROVE at[k] + sizes[k] <= room
      <4>1. k # n => at[k] + sizes[k] <= at[n]
        BY <1>7, <3>1
      <4>2. at[k] \in Nat /\ sizes[k] \in Nat /\ at[n] \in Nat /\ sizes[n] \in Nat
        BY <1>4, <3>1
      <4>. QED  BY <3>3, <4>1, <4>2
    <3>. QED  BY <3>3, <3>4
  <2>. QED  BY <2>2, <2>3
<1>9. ASSUME NEW k \in 1 .. n, NEW base \in Nat, base % strictest = 0
      PROVE  (base + at[k]) % aligns[k] = 0
  <2>1. \A s, a \in Alignments : \A b, o \in Nat :
          s % a = 0 /\ b % s = 0 /\ o % a = 0 => (b + o) % a = 0
    BY DEF Alignments
  <2>2. aligns[k] \in Alignments /\ at[k] \in Nat
    BY <1>4
  <2>. QED  BY <1>2, <1>5, <1>9, <2>1, <2>2
<1>. QED  BY <1>7, <1>8, <1>9 DEF at, room, strictest
=============================================================================
