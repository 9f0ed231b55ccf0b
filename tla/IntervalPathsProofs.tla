------------------------- MODULE IntervalPathsProofs -------------------------
(***************************************************************************)
(* Along one way the interval analysis is right, whatever the width of the *)
(* integers and the number of values: TypeOK /\ InRange is inductive.      *)
(* Each operation on intervals has a lemma: what it makes of intervals is  *)
(* an interval, and holds what the operation makes of their members.       *)
(***************************************************************************)
EXTENDS IntervalPaths, TLAPS

(* Inf is out of reach of one operation.                                   *)
LEMMA Sizes ==
  /\ MaxInt \in Int /\ MaxInt >= 1
  /\ MinInt \in Int /\ MinInt = -(MaxInt + 1)
  /\ PosInf \in Int /\ NegInf \in Int /\ NegInf = -PosInf
  /\ PosInf > 2 * (MaxInt + 1)
<1> DEFINE M == MaxInt + 1
<1>1. M \in Int /\ M >= 2
  BY MaxIntAssumption
<1>2. M * M >= M
  BY <1>1, SMT
<1>3. Inf = 4 * (M * M)
  BY <1>1 DEF Inf
<1> QED
  BY <1>1, <1>2, <1>3, MaxIntAssumption DEF MinInt, PosInf, NegInf

(* Intervals before they are clamped.                                      *)
Raw == [low : {b \in Int : NegInf <= b /\ b < PosInf},
        high : {b \in Int : NegInf < b /\ b <= PosInf}]

LEMMA IntervalIsRaw ==
  ASSUME NEW i \in Interval
  PROVE  i \in Raw
BY Sizes DEF Interval, Machine, Raw

(* Clamping keeps the integers of the machine.                             *)
LEMMA ClampRight ==
  ASSUME NEW i \in Raw
  PROVE  /\ Clamp(i) \in Interval
         /\ \A n \in Machine : Within(n, i) => Within(n, Clamp(i))
<1> DEFINE lo == Clamp(i).low  hi == Clamp(i).high
<1>1. i.low \in Int /\ i.high \in Int /\ NegInf <= i.low /\ i.low < PosInf
      /\ NegInf < i.high /\ i.high <= PosInf
  BY DEF Raw
<1>2. Clamp(i) = [low |-> lo, high |-> hi]
  BY DEF Clamp
<1>3. /\ i.low = NegInf => lo = NegInf
      /\ NegInf < i.low /\ i.low < MinInt => lo = NegInf
      /\ i.low > MaxInt => lo = MaxInt
      /\ MinInt <= i.low /\ i.low <= MaxInt => lo = i.low
  BY <1>1, Sizes DEF Clamp, Finite
<1>4. /\ i.high = PosInf => hi = PosInf
      /\ i.high < PosInf /\ i.high > MaxInt => hi = PosInf
      /\ i.high < MinInt => hi = MinInt
      /\ MinInt <= i.high /\ i.high <= MaxInt => hi = i.high
  BY <1>1, Sizes DEF Clamp, Finite
<1>5. lo \in {NegInf} \cup Machine /\ hi \in Machine \cup {PosInf}
  BY <1>1, <1>3, <1>4, Sizes DEF Machine
<1>6. \A n \in Machine : Within(n, i) => lo <= n /\ n <= hi
  BY <1>1, <1>3, <1>4, Sizes DEF Machine, Within
<1> HIDE DEF lo, hi
<1> QED
  BY <1>2, <1>5, <1>6 DEF Interval, Within

LEMMA JoinRight ==
  ASSUME NEW i \in Interval, NEW j \in Interval, NEW n \in Machine, Within(n, i)
  PROVE  Join(i, j) \in Interval /\ Within(n, Join(i, j))
BY Sizes DEF Join, Lesser, Greater, Interval, Machine, Within

LEMMA MeetRight ==
  ASSUME NEW i \in Interval, NEW j \in Interval
  PROVE  /\ Meet(i, j) \in Interval
         /\ \A n \in Machine : Within(n, i) /\ Within(n, j) => Within(n, Meet(i, j))
BY Sizes DEF Meet, Lesser, Greater, Interval, Machine, Within

LEMMA WidenRight ==
  ASSUME NEW i \in Interval, NEW j \in Interval, NEW n \in Machine, Within(n, j)
  PROVE  Widen(i, j) \in Interval /\ Within(n, Widen(i, j))
BY Sizes DEF Widen, Interval, Machine, Within

(* Bounds whose sums and negations are within reach.                       *)
Small == -(MaxInt + 1)..(MaxInt + 1)

LEMMA SmallBounds ==
  /\ Machine \subseteq Small
  /\ \A b \in Small : b \in Int /\ -b \in Small
  /\ \A b, c \in Small : b + c \in Int /\ NegInf < b + c /\ b + c < PosInf
  /\ \A b \in Small : NegInf < b /\ b < PosInf
BY Sizes DEF Small, Machine

LEMMA AddLowRight ==
  ASSUME NEW b \in {NegInf} \cup Small, NEW c \in {NegInf} \cup Small
  PROVE  /\ AddLow(b, c) \in Int /\ NegInf <= AddLow(b, c) /\ AddLow(b, c) < PosInf
         /\ \A m, n \in Small : b <= m /\ c <= n => AddLow(b, c) <= m + n
<1>1. CASE b = NegInf \/ c = NegInf
  <2>1. AddLow(b, c) = NegInf
    BY <1>1 DEF AddLow
  <2> QED
    BY <2>1, Sizes DEF Small
<1>2. CASE b \in Small /\ c \in Small
  <2>1. AddLow(b, c) = b + c
    BY <1>2, Sizes DEF AddLow, Small
  <2> QED
    BY <2>1, <1>2, Sizes DEF Small
<1> QED
  BY <1>1, <1>2

LEMMA AddHighRight ==
  ASSUME NEW b \in Small \cup {PosInf}, NEW c \in Small \cup {PosInf}
  PROVE  /\ AddHigh(b, c) \in Int /\ NegInf < AddHigh(b, c) /\ AddHigh(b, c) <= PosInf
         /\ \A m, n \in Small : m <= b /\ n <= c => m + n <= AddHigh(b, c)
<1>1. CASE b = PosInf \/ c = PosInf
  <2>1. AddHigh(b, c) = PosInf
    BY <1>1 DEF AddHigh
  <2> QED
    BY <2>1, Sizes DEF Small
<1>2. CASE b \in Small /\ c \in Small
  <2>1. AddHigh(b, c) = b + c
    BY <1>2, Sizes DEF AddHigh, Small
  <2> QED
    BY <2>1, <1>2, Sizes DEF Small
<1> QED
  BY <1>1, <1>2

Wide == [low : {NegInf} \cup Small, high : Small \cup {PosInf}]

LEMMA AddRight ==
  ASSUME NEW i \in Wide, NEW j \in Wide
  PROVE  /\ Add(i, j) \in Raw
         /\ \A m, n \in Small : Within(m, i) /\ Within(n, j) => Within(m + n, Add(i, j))
<1>1. /\ i.low \in {NegInf} \cup Small /\ j.low \in {NegInf} \cup Small
      /\ i.high \in Small \cup {PosInf} /\ j.high \in Small \cup {PosInf}
  BY DEF Wide
<1>2. Add(i, j) = [low |-> AddLow(i.low, j.low), high |-> AddHigh(i.high, j.high)]
  BY DEF Add
<1> QED
  BY <1>1, <1>2, AddLowRight, AddHighRight DEF Raw, Within

LEMMA NegateRight ==
  ASSUME NEW i \in Interval
  PROVE  /\ i \in Wide /\ Negate(i) \in Wide /\ Negate(i) \in Raw
         /\ \A n \in Machine : Within(n, i) => -n \in Small /\ Within(-n, Negate(i))
<1>1. /\ i.low \in {NegInf} \cup Machine /\ i.high \in Machine \cup {PosInf}
      /\ i = [low |-> i.low, high |-> i.high]
  BY DEF Interval
<1>2. Negate(i) = [low |-> -i.high, high |-> -i.low]
  BY DEF Negate
<1>3. -i.high \in {NegInf} \cup Small /\ -i.low \in Small \cup {PosInf}
  BY <1>1, Sizes, SmallBounds
<1>4. \A n \in Machine : Within(n, i) => -i.high <= -n /\ -n <= -i.low
  BY <1>1, Sizes, SmallBounds DEF Within, Machine
<1>5. i \in Wide
  BY <1>1, SmallBounds DEF Wide
<1>6. Negate(i) \in Raw
  BY <1>2, <1>3, Sizes DEF Raw, Small
<1> QED
  BY <1>2, <1>3, <1>4, <1>5, <1>6, SmallBounds DEF Wide, Within

LEMMA SubRight ==
  ASSUME NEW i \in Interval, NEW j \in Interval
  PROVE  /\ Sub(i, j) \in Raw
         /\ \A m, n \in Machine : Within(m, i) /\ Within(n, j) => Within(m - n, Sub(i, j))
<1> DEFINE d == Add(i, Negate(j))
           special == Finite(i.low) /\ i.low >= 2 /\ j = OfConst(1)
<1>1. d \in Raw /\ \A m, n \in Machine : Within(m, i) /\ Within(n, j) => Within(m - n, d)
  <2>1. /\ d \in Raw
        /\ \A m, n \in Small : Within(m, i) /\ Within(n, Negate(j)) => Within(m + n, d)
    BY AddRight, NegateRight
  <2>2. ASSUME NEW m \in Machine, NEW n \in Machine, Within(m, i), Within(n, j)
        PROVE  Within(m - n, d)
    <3>1. m \in Small /\ -n \in Small /\ Within(-n, Negate(j))
      BY <2>2, NegateRight, SmallBounds
    <3>2. Within(m + (-n), d)
      BY <2>1, <2>2, <3>1
    <3>3. m - n = m + (-n)
      BY Sizes DEF Machine
    <3> QED
      BY <3>2, <3>3
  <2> QED
    BY <2>1, <2>2
<1>2. CASE ~special
  BY <1>1, <1>2 DEF Sub
<1>3. CASE special
  <2>1. Sub(i, j) = [d EXCEPT !.low = Greater(@, 1)]
    BY <1>3 DEF Sub
  <2>2. \A m, n \in Machine : Within(m, i) /\ Within(n, j) => m - n >= 1
    BY <1>3, Sizes DEF Within, OfConst, Machine, Interval
  <2> HIDE DEF d
  <2>3. /\ Sub(i, j) = [low |-> Greater(d.low, 1), high |-> d.high]
        /\ d.low \in Int /\ d.high \in Int
    BY <2>1, <1>1 DEF Raw
  <2>4. Greater(d.low, 1) \in Int /\ NegInf <= Greater(d.low, 1) /\ Greater(d.low, 1) < PosInf
    BY <1>1, <2>3, Sizes DEF Greater, Raw
  <2>5. Sub(i, j) \in Raw
    BY <2>3, <2>4, <1>1 DEF Raw
  <2>6. ASSUME NEW m \in Machine, NEW n \in Machine, Within(m, i), Within(n, j)
        PROVE  Within(m - n, Sub(i, j))
    BY <2>6, <2>2, <2>3, <1>1 DEF Within, Greater
  <2> QED
    BY <2>5, <2>6
<1> QED
  BY <1>2, <1>3

(* Products: monotonic in each factor, and out of Inf's reach.             *)
LEMMA Monotonic ==
  ASSUME NEW a \in Int, NEW b \in Int, NEW z \in Int, a <= b
  PROVE  /\ z >= 0 => a * z <= b * z
         /\ z <= 0 => b * z <= a * z
         /\ a * z = z * a /\ b * z = z * b
BY SMT

LEMMA ProductReach ==
  ASSUME NEW a \in Small, NEW b \in Small
  PROVE  a * b \in Int /\ NegInf < a * b /\ a * b < PosInf
<1> DEFINE M == MaxInt + 1
<1>1. M \in Int /\ M >= 2 /\ a \in Int /\ b \in Int
      /\ -M <= a /\ a <= M /\ -M <= b /\ b <= M
  BY Sizes DEF Small
<1>2. -(M * M) <= a * b /\ a * b <= M * M
  <2>1. CASE b >= 0
    <3>1. (-M) * b <= a * b /\ a * b <= M * b
      BY <1>1, <2>1, Monotonic
    <3>2. M * b <= M * M
      BY <1>1, <2>1, Monotonic
    <3>3. (-M) * b = -(M * b)
      BY <1>1
    <3> QED
      BY <3>1, <3>2, <3>3, <1>1
  <2>2. CASE b <= 0
    <3>1. M * b <= a * b /\ a * b <= (-M) * b
      BY <1>1, <2>2, Monotonic
    <3>2. M * (-b) <= M * M
      BY <1>1, <2>2, Monotonic
    <3>3. (-M) * b = -(M * b) /\ M * (-b) = -(M * b)
      BY <1>1
    <3> QED
      BY <3>1, <3>2, <3>3, <1>1
  <2> QED
    BY <2>1, <2>2, <1>1
<1>3. PosInf = 4 * (M * M) /\ M * M >= 2
  <2>1. M * M >= 2
    BY <1>1, Monotonic
  <2> QED
    BY <2>1, <1>1 DEF PosInf, Inf
<1>4. a * b \in Int /\ M * M \in Int
  BY <1>1
<1> HIDE DEF M
<1> QED
  BY <1>2, <1>3, <1>4, Sizes

(* A product lies between the least and the greatest product of bounds.    *)
LEMMA ProductBetween ==
  ASSUME NEW a \in Int, NEW b \in Int, NEW c \in Int, NEW d \in Int,
         NEW m \in Int, NEW n \in Int, a <= m, m <= b, c <= n, n <= d
  PROVE  /\ a * c <= m * n \/ a * d <= m * n \/ b * c <= m * n \/ b * d <= m * n
         /\ m * n <= a * c \/ m * n <= a * d \/ m * n <= b * c \/ m * n <= b * d
<1>1. \/ a * n <= m * n /\ m * n <= b * n
      \/ b * n <= m * n /\ m * n <= a * n
  BY Monotonic
<1>2. \/ a * c <= a * n /\ a * n <= a * d
      \/ a * d <= a * n /\ a * n <= a * c
  <2>1. \/ c * a <= n * a /\ n * a <= d * a
        \/ d * a <= n * a /\ n * a <= c * a
    BY Monotonic
  <2> QED
    BY <2>1
<1>3. \/ b * c <= b * n /\ b * n <= b * d
      \/ b * d <= b * n /\ b * n <= b * c
  <2>1. \/ c * b <= n * b /\ n * b <= d * b
        \/ d * b <= n * b /\ n * b <= c * b
    BY Monotonic
  <2> QED
    BY <2>1
<1>4. a * c \in Int /\ a * d \in Int /\ b * c \in Int /\ b * d \in Int
      /\ a * n \in Int /\ b * n \in Int /\ m * n \in Int
  OBVIOUS
<1> QED
  BY <1>1, <1>2, <1>3, <1>4

(* Four integers have a least and a greatest one.                          *)
LEMMA Extremes ==
  ASSUME NEW p \in Int, NEW q \in Int, NEW r \in Int, NEW s \in Int
  PROVE  LET S == {p, q, r, s}
         IN /\ Least(S) \in S /\ \A x \in S : Least(S) <= x
            /\ Greatest(S) \in S /\ \A x \in S : x <= Greatest(S)
<1> DEFINE S == {p, q, r, s}
<1>1. \E x \in S : \A y \in S : x <= y
  OBVIOUS
<1>2. \E x \in S : \A y \in S : x >= y
  OBVIOUS
<1>3. Least(S) \in S /\ \A y \in S : Least(S) <= y
  BY <1>1 DEF Least
<1>4. Greatest(S) \in S /\ \A y \in S : Greatest(S) >= y
  BY <1>2 DEF Greatest
<1>5. S \subseteq Int
  OBVIOUS
<1> HIDE DEF S
<1>6. \A x \in S : x <= Greatest(S)
  BY <1>4, <1>5
<1> QED
  BY <1>3, <1>4, <1>6 DEF S

LEMMA MulLowRight ==
  ASSUME NEW i \in Interval, NEW j \in Interval
  PROVE  /\ MulLow(i, j) \in Int /\ NegInf <= MulLow(i, j) /\ MulLow(i, j) < PosInf
         /\ \A m, n \in Machine : Within(m, i) /\ Within(n, j) => MulLow(i, j) <= m * n
<1> DEFINE a == i.low  c == j.low
           positive == a \in Machine /\ c \in Machine /\ a > 0 /\ c > 0
           zero == a \in Machine /\ c \in Machine /\ a >= 0 /\ c >= 0 /\ (a = 0 \/ c = 0)
<1>1. /\ a \in {NegInf} \cup Machine /\ c \in {NegInf} \cup Machine
      /\ a \in Int /\ c \in Int
      /\ Finite(a) <=> a \in Machine
      /\ Finite(c) <=> c \in Machine
  BY Sizes DEF Interval, Machine, Finite
<1>2. CASE positive
  <2>1. MulLow(i, j) = a * c
    BY <1>1, <1>2 DEF MulLow
  <2>2. a * c \in Int /\ NegInf < a * c /\ a * c < PosInf
    BY <1>2, ProductReach, SmallBounds
  <2>3. ASSUME NEW m \in Machine, NEW n \in Machine, Within(m, i), Within(n, j)
        PROVE  a * c <= m * n
    <3>1. m \in Int /\ n \in Int /\ a <= m /\ c <= n /\ 0 <= c /\ 0 <= m
      BY <2>3, <1>1, <1>2 DEF Within, Machine
    <3>2. a * c <= m * c /\ c * m <= n * m /\ c * m = m * c /\ n * m = m * n
      BY <3>1, <1>1, Monotonic
    <3>3. a * c \in Int /\ m * c \in Int /\ m * n \in Int
      BY <3>1, <1>1
    <3> QED
      BY <3>2, <3>3
  <2> QED
    BY <2>1, <2>2, <2>3, Sizes
<1>3. CASE zero
  <2>1. MulLow(i, j) = 0
    BY <1>1, <1>3 DEF MulLow
  <2>2. ASSUME NEW m \in Machine, NEW n \in Machine, Within(m, i), Within(n, j)
        PROVE  0 <= m * n
    <3>1. m \in Int /\ n \in Int /\ 0 <= m /\ 0 <= n
      BY <2>2, <1>1, <1>3 DEF Within, Machine
    <3>2. 0 * n <= m * n
      BY <3>1, Monotonic
    <3> QED
      BY <3>1, <3>2
  <2> QED
    BY <2>1, <2>2, Sizes
<1>4. CASE ~positive /\ ~zero
  <2>1. MulLow(i, j) = NegInf
    BY <1>1, <1>4, Sizes DEF MulLow
  <2>2. \A m, n \in Machine : m * n \in Int /\ NegInf < m * n
    BY ProductReach, SmallBounds
  <2> QED
    BY <2>1, <2>2, Sizes
<1> QED
  BY <1>2, <1>3, <1>4

LEMMA MulRight ==
  ASSUME NEW i \in Interval, NEW j \in Interval
  PROVE  /\ Mul(i, j) \in Raw
         /\ \A m, n \in Machine : Within(m, i) /\ Within(n, j) => Within(m * n, Mul(i, j))
<1> DEFINE a == i.low  b == i.high  c == j.low  d == j.high
           S == {a * c, a * d, b * c, b * d}
           bounded == a \in Machine /\ b \in Machine /\ c \in Machine /\ d \in Machine
<1>1. /\ a \in {NegInf} \cup Machine /\ c \in {NegInf} \cup Machine
      /\ b \in Machine \cup {PosInf} /\ d \in Machine \cup {PosInf}
  BY DEF Interval
<1>2. (\A x \in {a, b, c, d} : Finite(x)) <=> bounded
  BY <1>1, Sizes DEF Finite, Machine
<1>3. CASE bounded
  <2>1. Mul(i, j) = [low |-> Least(S), high |-> Greatest(S)]
    BY <1>2, <1>3 DEF Mul
  <2>2. /\ a * c \in Int /\ NegInf < a * c /\ a * c < PosInf
        /\ a * d \in Int /\ NegInf < a * d /\ a * d < PosInf
        /\ b * c \in Int /\ NegInf < b * c /\ b * c < PosInf
        /\ b * d \in Int /\ NegInf < b * d /\ b * d < PosInf
    BY <1>3, ProductReach, SmallBounds
  <2>3. /\ Least(S) \in S /\ \A x \in S : Least(S) <= x
        /\ Greatest(S) \in S /\ \A x \in S : x <= Greatest(S)
    BY <2>2, Extremes
  <2>4. Mul(i, j) \in Raw
    <3>1. \A x \in S : x \in Int /\ NegInf < x /\ x < PosInf
      BY <2>2
    <3> HIDE DEF S
    <3> QED
      BY <2>1, <2>3, <3>1, Sizes DEF Raw
  <2>5. ASSUME NEW m \in Machine, NEW n \in Machine, Within(m, i), Within(n, j)
        PROVE  Within(m * n, Mul(i, j))
    <3>1. m \in Int /\ n \in Int /\ a <= m /\ m <= b /\ c <= n /\ n <= d
          /\ a \in Int /\ b \in Int /\ c \in Int /\ d \in Int
      BY <2>5, <1>3 DEF Within, Machine
    <3>2. (\E p \in S : p <= m * n) /\ (\E p \in S : m * n <= p)
      <4> HIDE DEF a, b, c, d
      <4>1. /\ a * c <= m * n \/ a * d <= m * n \/ b * c <= m * n \/ b * d <= m * n
            /\ m * n <= a * c \/ m * n <= a * d \/ m * n <= b * c \/ m * n <= b * d
        BY <3>1, ProductBetween, Zenon
      <4> QED
        BY <4>1, Zenon
    <3>3. m * n \in Int /\ \A p \in S : p \in Int
      BY <3>1, <2>2
    <3> HIDE DEF S
    <3>4. Least(S) <= m * n /\ m * n <= Greatest(S)
      BY <2>3, <3>2, <3>3
    <3> QED
      BY <2>1, <3>4 DEF Within
  <2> QED
    BY <2>4, <2>5
<1>4. CASE ~bounded
  <2>1. Mul(i, j) = [low |-> MulLow(i, j), high |-> PosInf]
    BY <1>2, <1>4 DEF Mul
  <2>2. \A m, n \in Machine : m * n \in Int /\ m * n < PosInf
    BY ProductReach, SmallBounds
  <2> QED
    BY <2>1, <2>2, MulLowRight, Sizes DEF Raw, Within
<1> QED
  BY <1>3, <1>4

LEMMA SquareRight ==
  ASSUME NEW i \in Raw
  PROVE  LET k == [i EXCEPT !.low = Greater(@, 0)]
         IN /\ k \in Raw
            /\ \A n \in Int : Within(n, i) /\ n >= 0 => Within(n, k)
BY Sizes DEF Raw, Within, Greater

LEMMA AbsoluteRight ==
  ASSUME NEW i \in Interval
  PROVE  /\ \A n \in Machine : Within(n, i) =>
               /\ Absolute(i) \in Raw
               /\ n >= 0 => Within(n, Absolute(i))
               /\ n < 0 => Within(-n, Absolute(i))
<1> SUFFICES ASSUME NEW n \in Machine, Within(n, i)
             PROVE  /\ Absolute(i) \in Raw
                    /\ n >= 0 => Within(n, Absolute(i))
                    /\ n < 0 => Within(-n, Absolute(i))
  OBVIOUS
<1> DEFINE lo == Absolute(i).low  hi == Absolute(i).high
<1>1. /\ i.low \in {NegInf} \cup Machine /\ i.high \in Machine \cup {PosInf}
      /\ i.low \in Int /\ i.high \in Int /\ i.low <= n /\ n <= i.high
      /\ n \in Int
  BY Sizes DEF Interval, Machine, Within
<1>2. Absolute(i) = [low |-> lo, high |-> hi]
  BY DEF Absolute
<1>3. /\ lo \in Int /\ NegInf < lo /\ lo < PosInf
      /\ n >= 0 => lo <= n
      /\ n < 0 => lo <= -n
  BY <1>1, Sizes DEF Absolute, Machine
<1>4. /\ hi \in Int /\ NegInf < hi /\ hi <= PosInf
      /\ n >= 0 => n <= hi
      /\ n < 0 => -n <= hi
  <2>1. CASE i.low \in Machine /\ i.high \in Machine
    <3>1. hi = Greatest({i.low, -i.low, i.high, -i.high})
      BY <2>1, <1>1, Sizes DEF Absolute, Finite, Machine
    <3> DEFINE S == {i.low, -i.low, i.high, -i.high}
    <3>2. Greatest(S) \in S /\ \A x \in S : x <= Greatest(S)
      <4>1. i.low \in Int /\ -i.low \in Int /\ i.high \in Int /\ -i.high \in Int
        BY <1>1
      <4> QED
        BY <4>1, Extremes, Zenon
    <3>3. \A x \in S : x \in Int /\ NegInf < x /\ x < PosInf
      BY <2>1, Sizes DEF Machine
    <3>4. i.high <= hi /\ -i.low <= hi
      BY <3>1, <3>2
    <3>5. hi \in Int /\ NegInf < hi /\ hi < PosInf
      BY <3>1, <3>2, <3>3, Zenon
    <3> HIDE DEF hi, S
    <3> QED
      BY <3>4, <3>5, <1>1, Sizes
  <2>2. CASE ~(i.low \in Machine /\ i.high \in Machine)
    <3>1. hi = PosInf
      BY <2>2, <1>1, Sizes DEF Absolute, Finite
    <3> QED
      BY <3>1, Sizes DEF Machine
  <2> QED
    BY <2>1, <2>2
<1> HIDE DEF lo, hi
<1> QED
  BY <1>1, <1>2, <1>3, <1>4, Sizes DEF Raw, Within
-----------------------------------------------------------------------------
(* What a comparison tells of its left operand is true of it.              *)
LEMMA BoundsRight ==
  ASSUME NEW i \in Interval, NEW j \in Interval, NEW m \in Machine, NEW n \in Machine,
         Within(m, i), Within(n, j)
  PROVE  /\ m < n => \A k \in Under(i, j) : k \in Interval /\ Within(m, k)
         /\ m <= n => \A k \in UpTo(i, j) : k \in Interval /\ Within(m, k)
         /\ m > n => \A k \in Over(i, j) : k \in Interval /\ Within(m, k)
         /\ m >= n => \A k \in DownTo(i, j) : k \in Interval /\ Within(m, k)
<1>1. /\ i.low \in {NegInf} \cup Machine /\ i.high \in Machine \cup {PosInf}
      /\ j.low \in {NegInf} \cup Machine /\ j.high \in Machine \cup {PosInf}
      /\ m \in Int /\ n \in Int /\ MinInt <= m /\ m <= MaxInt /\ MinInt <= n /\ n <= MaxInt
      /\ i.low <= m /\ m <= i.high /\ j.low <= n /\ n <= j.high
  BY Sizes DEF Interval, Machine, Within
<1>2. \A b : /\ AtMost(i, b) = [low |-> i.low, high |-> Lesser(i.high, b)]
             /\ AtLeast(i, b) = [low |-> Greater(i.low, b), high |-> i.high]
  BY DEF AtMost, AtLeast, Interval
<1>3. ASSUME NEW b \in Machine, m <= b
      PROVE  AtMost(i, b) \in Interval /\ Within(m, AtMost(i, b))
  BY <1>1, <1>2, <1>3, Sizes DEF Lesser, Machine, Interval, Within
<1>4. ASSUME NEW b \in Machine, b <= m
      PROVE  AtLeast(i, b) \in Interval /\ Within(m, AtLeast(i, b))
  BY <1>1, <1>2, <1>4, Sizes DEF Greater, Machine, Interval, Within
<1>5. ASSUME m < n, Finite(j.high)
      PROVE  j.high - 1 \in Machine /\ m <= j.high - 1
  BY <1>1, <1>5, Sizes DEF Finite, Machine
<1>6. ASSUME m <= n, Finite(j.high)
      PROVE  j.high \in Machine /\ m <= j.high
  BY <1>1, <1>6, Sizes DEF Finite, Machine
<1>7. ASSUME m > n, Finite(j.low)
      PROVE  j.low + 1 \in Machine /\ j.low + 1 <= m
  BY <1>1, <1>7, Sizes DEF Finite, Machine
<1>8. ASSUME m >= n, Finite(j.low)
      PROVE  j.low \in Machine /\ j.low <= m
  BY <1>1, <1>8, Sizes DEF Finite, Machine
<1>9. /\ m < n => \A k \in Under(i, j) : k \in Interval /\ Within(m, k)
      /\ m <= n => \A k \in UpTo(i, j) : k \in Interval /\ Within(m, k)
  BY <1>3, <1>5, <1>6 DEF Under, UpTo
<1>10. /\ m > n => \A k \in Over(i, j) : k \in Interval /\ Within(m, k)
       /\ m >= n => \A k \in DownTo(i, j) : k \in Interval /\ Within(m, k)
  BY <1>4, <1>7, <1>8 DEF Over, DownTo
<1> QED
  BY <1>9, <1>10

LEMMA ExceptRight ==
  ASSUME NEW i \in Interval, NEW b \in Machine, NEW m \in Machine, Within(m, i), m # b
  PROVE  \A k \in Except(i, b) : k \in Interval /\ Within(m, k)
<1>1. /\ i.low \in {NegInf} \cup Machine /\ i.high \in Machine \cup {PosInf}
      /\ m \in Int /\ MinInt <= m /\ m <= MaxInt /\ i.low <= m /\ m <= i.high
  BY Sizes DEF Interval, Machine, Within
<1>2. [i EXCEPT !.low = b + 1] = [low |-> b + 1, high |-> i.high]
      /\ [i EXCEPT !.high = b - 1] = [low |-> i.low, high |-> b - 1]
  BY DEF Interval
<1>3. CASE i.low = b
  <2>1. b + 1 \in Machine /\ b + 1 <= m
    BY <1>1, <1>3, Sizes DEF Machine
  <2> QED
    BY <2>1, <1>1, <1>2, <1>3 DEF Except, Interval, Within
<1>4. CASE i.low # b /\ i.high = b
  <2>1. b - 1 \in Machine /\ m <= b - 1
    BY <1>1, <1>4, Sizes DEF Machine
  <2> QED
    BY <2>1, <1>1, <1>2, <1>4 DEF Except, Interval, Within
<1>5. CASE i.low # b /\ i.high # b
  BY <1>5 DEF Except
<1> QED
  BY <1>3, <1>4, <1>5

LEMMA SingletonRight ==
  ASSUME NEW j \in Interval, NEW n \in Machine, Within(n, j), Singleton(j)
  PROVE  j.low = n
BY Sizes DEF Singleton, Finite, Within, Interval, Machine

LEMMA WhenTrueRight ==
  ASSUME NEW i \in Interval, NEW j \in Interval, NEW m \in Machine, NEW n \in Machine,
         Within(m, i), Within(n, j), NEW f \in Comparison, Holds(f, m, n),
         NEW k \in WhenTrue(f, i, j)
  PROVE  k \in Interval /\ Within(m, k)
<1>1. CASE f = "lt"
  BY <1>1, BoundsRight DEF Holds, WhenTrue
<1>2. CASE f = "le"
  BY <1>2, BoundsRight DEF Holds, WhenTrue
<1>3. CASE f = "gt"
  BY <1>3, BoundsRight DEF Holds, WhenTrue
<1>4. CASE f = "ge"
  BY <1>4, BoundsRight DEF Holds, WhenTrue
<1>5. CASE f = "eq"
  <2>1. k = Meet(i, j) /\ m = n
    BY <1>5 DEF Holds, WhenTrue
  <2> QED
    BY <2>1, MeetRight
<1>6. CASE f = "ne"
  <2>1. m # n /\ Singleton(j) /\ k \in Except(i, j.low)
    BY <1>6 DEF Holds, WhenTrue
  <2>2. j.low = n
    BY <2>1, SingletonRight
  <2> QED
    BY <2>1, <2>2, ExceptRight
<1> QED
  BY <1>1, <1>2, <1>3, <1>4, <1>5, <1>6 DEF Comparison

LEMMA WhenFalseRight ==
  ASSUME NEW i \in Interval, NEW j \in Interval, NEW m \in Machine, NEW n \in Machine,
         Within(m, i), Within(n, j), NEW f \in Comparison, ~Holds(f, m, n),
         NEW k \in WhenFalse(f, i, j)
  PROVE  k \in Interval /\ Within(m, k)
<1>0. m \in Int /\ n \in Int
  BY Sizes DEF Machine
<1>1. CASE f = "lt"
  <2>1. m >= n
    BY <1>0, <1>1 DEF Holds
  <2> QED
    BY <1>1, <2>1, BoundsRight DEF WhenFalse
<1>2. CASE f = "le"
  <2>1. m > n
    BY <1>0, <1>2 DEF Holds
  <2> QED
    BY <1>2, <2>1, BoundsRight DEF WhenFalse
<1>3. CASE f = "gt"
  <2>1. m <= n
    BY <1>0, <1>3 DEF Holds
  <2> QED
    BY <1>3, <2>1, BoundsRight DEF WhenFalse
<1>4. CASE f = "ge"
  <2>1. m < n
    BY <1>0, <1>4 DEF Holds
  <2> QED
    BY <1>4, <2>1, BoundsRight DEF WhenFalse
<1>5. CASE f = "eq"
  BY <1>5 DEF WhenFalse
<1>6. CASE f = "ne"
  <2>1. m = n /\ k = j
    BY <1>6 DEF Holds, WhenFalse
  <2> QED
    BY <2>1
<1> QED
  BY <1>1, <1>2, <1>3, <1>4, <1>5, <1>6 DEF Comparison
-----------------------------------------------------------------------------
LEMMA WrapRight ==
  ASSUME NEW n \in Int
  PROVE  Wrap(n) \in Machine /\ (n \in Machine => Wrap(n) = n)
<1> DEFINE W == 2 * (MaxInt + 1)
           k == n - MinInt
<1>1. W \in Int /\ W > 0 /\ k \in Int
  BY Sizes
<1>2. k % W \in Int /\ 0 <= k % W /\ k % W < W
  BY <1>1
<1>3. 0 <= k /\ k < W => k % W = k
  BY <1>1
<1>4. Wrap(n) = MinInt + (k % W)
  BY DEF Wrap
<1>5. n \in Machine => 0 <= k /\ k < W
  BY Sizes DEF Machine
<1> QED
  BY <1>1, <1>2, <1>3, <1>4, <1>5, Sizes DEF Machine
-----------------------------------------------------------------------------
Inv == TypeOK /\ InRange

(* What an operation starts from holds its operand.                        *)
LEMMA KnownRight ==
  ASSUME Inv, ~wrapped, NEW r \in Reg, NEW i \in Known(r)
  PROVE  i \in Interval /\ val[r] \in Machine /\ val[r] \in Int /\ Within(val[r], i)
BY Sizes DEF Inv, TypeOK, InRange, Known, Machine

(* Setting a register to a value in its new range keeps the invariant.     *)
LEMMA SetRight ==
  ASSUME Inv, ~wrapped, NEW d \in Reg, NEW n \in Int, NEW i \in Interval,
         n \in Machine => Within(n, i), Set(d, n, i)
  PROVE  Inv'
<1>1. Wrap(n) \in Machine /\ (n \in Machine => Wrap(n) = n)
  BY WrapRight
<1>2. /\ val' = [val EXCEPT ![d] = Wrap(n)]
      /\ rng' = [rng EXCEPT ![d] = i]
      /\ near' = [near EXCEPT ![d] = {}]
      /\ wrapped' = (n \notin Machine)
  BY DEF Set
<1>3. TypeOK'
  <2>1. val' \in [Reg -> Machine] /\ rng' \in [Reg -> Interval]
        /\ near' \in [Reg -> SUBSET Interval]
    BY <1>1, <1>2 DEF Inv, TypeOK
  <2>2. wrapped' \in BOOLEAN
    BY <1>2
  <2> QED
    BY <2>1, <2>2 DEF TypeOK
<1>4. ASSUME ~wrapped', NEW r \in Reg
      PROVE  Within(val'[r], rng'[r]) /\ \A k \in near'[r] : Within(val'[r], k)
  <2>1. n \in Machine
    BY <1>2, <1>4
  <2>2. CASE r = d
    BY <1>1, <1>2, <2>1, <2>2 DEF Inv, TypeOK
  <2>3. CASE r # d
    BY <1>2, <2>3 DEF Inv, TypeOK, InRange
  <2> QED
    BY <2>2, <2>3
<1> QED
  BY <1>3, <1>4 DEF Inv, InRange

(* So does taking what a comparison tells of a register.                   *)
LEMMA NarrowRight ==
  ASSUME Inv, ~wrapped, NEW l \in Reg, NEW is, Narrow(l, is),
         \A k \in is : k \in Interval /\ Within(val[l], k)
  PROVE  Inv'
<1>1. near' = [near EXCEPT ![l] = News(l, is)] /\ val' = val /\ rng' = rng /\ wrapped' = wrapped
  BY DEF Narrow
<1>2. \A k \in News(l, is) : k \in Interval /\ Within(val[l], k)
  BY DEF News, Inv, TypeOK, InRange
<1>3. near' \in [Reg -> SUBSET Interval]
  BY <1>1, <1>2 DEF Inv, TypeOK
<1>4. \A r \in Reg : \A k \in near'[r] : Within(val[r], k)
  BY <1>1, <1>2 DEF Inv, TypeOK, InRange
<1> QED
  BY <1>1, <1>3, <1>4 DEF Inv, TypeOK, InRange

LEMMA InitRight == Init => Inv
<1> SUFFICES ASSUME Init PROVE Inv
  OBVIOUS
<1>1. PICK ref \in [Reg -> Refinements] :
        /\ rng = [r \in Reg |-> Meet(OfType, ref[r])]
        /\ val \in [Reg -> Machine]
        /\ \A r \in Reg : Within(val[r], ref[r])
  BY DEF Init
<1>2. OfType \in Interval /\ \A n \in Machine : Within(n, OfType)
  BY Sizes DEF OfType, Interval, Machine, Within
<1>3. \A r \in Reg : /\ rng[r] \in Interval
                     /\ val[r] \in Machine
                     /\ Within(val[r], rng[r])
  BY <1>1, <1>2, MeetRight, RefinementsAssumption
<1>4. near = [r \in Reg |-> {}] /\ wrapped = FALSE
  BY DEF Init
<1>5. rng \in [Reg -> Interval]
  BY <1>1, <1>3
<1> QED
  BY <1>1, <1>3, <1>4, <1>5 DEF Inv, TypeOK, InRange

LEMMA NextRight == Inv /\ [Next]_vars => Inv'
<1> SUFFICES ASSUME Inv, [Next]_vars PROVE Inv'
  OBVIOUS
<1>1. CASE UNCHANGED vars
  BY <1>1 DEF vars, Inv, TypeOK, InRange
<1>2. ASSUME ~wrapped, NEW d \in Reg, NEW n \in Machine, Const(d, n)
      PROVE  Inv'
  <2>1. OfConst(n) \in Interval /\ Within(n, OfConst(n)) /\ n \in Int
    BY Sizes DEF OfConst, Interval, Machine, Within
  <2> QED
    BY <1>2, <2>1, SetRight DEF Const
<1>3. ASSUME ~wrapped, NEW d \in Reg, NEW n \in Machine, NEW ref \in Refinements,
             Call(d, n, ref)
      PROVE  Inv'
  <2>1. OfType \in Interval /\ Within(n, OfType) /\ n \in Int
    BY Sizes DEF OfType, Interval, Machine, Within
  <2>2. Meet(OfType, ref) \in Interval /\ Within(n, Meet(OfType, ref))
    BY <1>3, <2>1, MeetRight, RefinementsAssumption DEF Call
  <2> QED
    BY <1>3, <2>1, <2>2, SetRight DEF Call
<1>4. ASSUME ~wrapped, NEW d \in Reg, NEW l \in Reg, NEW r \in Reg, Plus(d, l, r)
      PROVE  Inv'
  <2>1. PICK i \in Known(l), j \in Known(r) : Set(d, val[l] + val[r], Clamp(Add(i, j)))
    BY <1>4 DEF Plus
  <2>2. /\ i \in Interval /\ val[l] \in Machine /\ val[l] \in Int /\ Within(val[l], i)
        /\ j \in Interval /\ val[r] \in Machine /\ val[r] \in Int /\ Within(val[r], j)
    BY <1>4, <2>1, KnownRight
  <2>3. Add(i, j) \in Raw /\ Within(val[l] + val[r], Add(i, j))
    BY <2>2, AddRight, NegateRight, SmallBounds
  <2> QED
    BY <1>4, <2>1, <2>2, <2>3, ClampRight, SetRight
<1>5. ASSUME ~wrapped, NEW d \in Reg, NEW l \in Reg, NEW r \in Reg, Minus(d, l, r)
      PROVE  Inv'
  <2>1. PICK i \in Known(l), j \in Known(r) : Set(d, val[l] - val[r], Clamp(Sub(i, j)))
    BY <1>5 DEF Minus
  <2>2. /\ i \in Interval /\ val[l] \in Machine /\ val[l] \in Int /\ Within(val[l], i)
        /\ j \in Interval /\ val[r] \in Machine /\ val[r] \in Int /\ Within(val[r], j)
    BY <1>5, <2>1, KnownRight
  <2>3. Sub(i, j) \in Raw /\ Within(val[l] - val[r], Sub(i, j))
    BY <2>2, SubRight
  <2> QED
    BY <1>5, <2>1, <2>2, <2>3, ClampRight, SetRight
<1>6. ASSUME ~wrapped, NEW d \in Reg, NEW l \in Reg, NEW r \in Reg, Times(d, l, r)
      PROVE  Inv'
  <2> DEFINE square(p) == IF l = r THEN [p EXCEPT !.low = Greater(@, 0)] ELSE p
  <2>1. PICK i \in Known(l), j \in Known(r) :
          Set(d, val[l] * val[r], Clamp(square(Mul(i, j))))
    BY <1>6 DEF Times
  <2>2. /\ i \in Interval /\ val[l] \in Machine /\ val[l] \in Int /\ Within(val[l], i)
        /\ j \in Interval /\ val[r] \in Machine /\ val[r] \in Int /\ Within(val[r], j)
    BY <1>6, <2>1, KnownRight
  <2>3. Mul(i, j) \in Raw /\ Within(val[l] * val[r], Mul(i, j)) /\ val[l] * val[r] \in Int
    BY <2>2, MulRight
  <2>4. l = r => val[l] * val[r] >= 0
    <3>1. val[l] * val[l] >= 0
      BY <2>2, Monotonic
    <3> QED
      BY <3>1
  <2>5. square(Mul(i, j)) \in Raw /\ Within(val[l] * val[r], square(Mul(i, j)))
    <3> DEFINE p == Mul(i, j)  n == val[l] * val[r]
    <3>1. CASE l = r
      <4>1. p \in Raw /\ n \in Int /\ Within(n, p) /\ n >= 0
        BY <2>3, <2>4, <3>1
      <4> HIDE DEF p, n
      <4>2. [p EXCEPT !.low = Greater(@, 0)] \in Raw /\ Within(n, [p EXCEPT !.low = Greater(@, 0)])
        BY <4>1, SquareRight
      <4> QED
        BY <3>1, <4>2 DEF p, n
    <3>2. CASE l # r
      BY <2>3, <3>2
    <3> QED
      BY <3>1, <3>2
  <2> HIDE DEF square
  <2> QED
    BY <1>6, <2>1, <2>3, <2>5, ClampRight, SetRight
<1>7. ASSUME ~wrapped, NEW d \in Reg, NEW s \in Reg, Neg(d, s)
      PROVE  Inv'
  <2>1. PICK i \in Known(s) : Set(d, -val[s], Clamp(Negate(i)))
    BY <1>7 DEF Neg
  <2>2. i \in Interval /\ val[s] \in Machine /\ val[s] \in Int /\ Within(val[s], i)
    BY <1>7, <2>1, KnownRight
  <2>3. Negate(i) \in Raw /\ Within(-val[s], Negate(i)) /\ -val[s] \in Int
    BY <2>2, NegateRight
  <2> QED
    BY <1>7, <2>1, <2>3, ClampRight, SetRight
<1>8. ASSUME ~wrapped, NEW d \in Reg, NEW s \in Reg, Abs(d, s)
      PROVE  Inv'
  <2> DEFINE n == IF val[s] < 0 THEN -val[s] ELSE val[s]
  <2>1. PICK i \in Known(s) : Set(d, n, Clamp(Absolute(i)))
    BY <1>8 DEF Abs
  <2>2. i \in Interval /\ val[s] \in Machine /\ val[s] \in Int /\ Within(val[s], i)
    BY <1>8, <2>1, KnownRight
  <2>3. Absolute(i) \in Raw /\ Within(n, Absolute(i)) /\ n \in Int
    BY <2>2, AbsoluteRight
  <2> HIDE DEF n
  <2> QED
    BY <1>8, <2>1, <2>3, ClampRight, SetRight
<1>9. ASSUME ~wrapped, NEW d \in Reg, NEW l \in Reg, NEW r \in Reg, Phi(d, l, r)
      PROVE  Inv'
  <2>1. PICK i \in Known(l), j \in Known(r) :
          Set(d, val[l], Join(i, j)) \/ Set(d, val[l], Widen(rng[d], Join(i, j)))
    BY <1>9 DEF Phi
  <2>2. /\ i \in Interval /\ val[l] \in Machine /\ val[l] \in Int /\ Within(val[l], i)
        /\ j \in Interval
    BY <1>9, <2>1, KnownRight
  <2>3. Join(i, j) \in Interval /\ Within(val[l], Join(i, j))
    BY <2>2, JoinRight
  <2>4. Widen(rng[d], Join(i, j)) \in Interval /\ Within(val[l], Widen(rng[d], Join(i, j)))
    BY <2>2, <2>3, WidenRight DEF Inv, TypeOK
  <2> QED
    BY <1>9, <2>1, <2>2, <2>3, <2>4, SetRight
<1>10. \A r \in Reg : rng[r] \in Interval /\ val[r] \in Machine
                     /\ (~wrapped => Within(val[r], rng[r]))
  BY DEF Inv, TypeOK, InRange
<1>11. ASSUME ~wrapped, NEW l \in Reg, NEW r \in Reg, NEW f \in Comparison,
              BranchTrue(f, l, r)
       PROVE  Inv'
  <2>1. Holds(f, val[l], val[r]) /\ Narrow(l, WhenTrue(f, rng[l], rng[r]))
    BY <1>11 DEF BranchTrue
  <2>2. \A k \in WhenTrue(f, rng[l], rng[r]) : k \in Interval /\ Within(val[l], k)
    BY <1>10, <1>11, <2>1, WhenTrueRight
  <2> QED
    BY <1>11, <2>1, <2>2, NarrowRight
<1>12. ASSUME ~wrapped, NEW l \in Reg, NEW r \in Reg, NEW f \in Comparison,
              BranchFalse(f, l, r)
       PROVE  Inv'
  <2>1. ~Holds(f, val[l], val[r]) /\ Narrow(l, WhenFalse(f, rng[l], rng[r]))
    BY <1>12 DEF BranchFalse
  <2>2. \A k \in WhenFalse(f, rng[l], rng[r]) : k \in Interval /\ Within(val[l], k)
    BY <1>10, <1>12, <2>1, WhenFalseRight
  <2> QED
    BY <1>12, <2>1, <2>2, NarrowRight
<1>13. ASSUME ~wrapped, NEW l \in Reg, NEW r \in Reg, BranchEqual(l, r)
       PROVE  Inv'
  <2>1. /\ Meet(rng[l], rng[r]) \in Interval /\ Within(val[l], Meet(rng[l], rng[r]))
        /\ Meet(rng[r], rng[l]) \in Interval /\ Within(val[r], Meet(rng[r], rng[l]))
    BY <1>10, <1>13, MeetRight DEF BranchEqual
  <2>2. /\ near' = [near EXCEPT ![l] = {Meet(rng[l], rng[r])}, ![r] = {Meet(rng[r], rng[l])}]
        /\ val' = val /\ rng' = rng /\ wrapped' = wrapped
    BY <1>13 DEF BranchEqual
  <2>3. near' \in [Reg -> SUBSET Interval]
    BY <2>1, <2>2 DEF Inv, TypeOK
  <2>4. \A s \in Reg : \A k \in near'[s] : Within(val[s], k)
    BY <1>13, <2>1, <2>2 DEF Inv, TypeOK, InRange
  <2> QED
    BY <2>2, <2>3, <2>4 DEF Inv, TypeOK, InRange
<1> QED
  BY <1>1, <1>2, <1>3, <1>4, <1>5, <1>6, <1>7, <1>8, <1>9, <1>11, <1>12, <1>13 DEF Next

(* The bounds the analysis computes along a way stay bounds of the type.   *)
THEOREM TypeCorrect == Spec => []TypeOK
<1>1. Inv => TypeOK
  BY DEF Inv
<1> QED
  BY <1>1, InitRight, NextRight, PTL DEF Spec

(* Up to the first operation that wraps around, every value lies in the    *)
(* intervals that analyze gives it along the way.                          *)
THEOREM IntervalsRight == Spec => []InRange
<1>1. Inv => InRange
  BY DEF Inv
<1> QED
  BY <1>1, InitRight, NextRight, PTL DEF Spec
=============================================================================
