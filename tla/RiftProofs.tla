------------------------------- MODULE RiftProofs ------------------------------
(***************************************************************************)
(* RiftTable::multiply, reverse and internal_reduce (src/lzx/rift.rs), and *)
(* the copy rift of a PE delta (build_pe_copy_rift_with_cli_rift in        *)
(* src/pa30/mod.rs), for every sorted table and every width of a word: the *)
(* product of two tables is their composition at every position, the       *)
(* intervals a reversal keeps lie apart and fit the arrays that hold them, *)
(* the table it returns maps the image of a position back to the lowest    *)
(* position with that image, each position of the target copies from the   *)
(* offset the tables of the three maps name, and a reduced map sends each  *)
(* source to the target most of its entries name.                          *)
(***************************************************************************)
EXTENDS PeCopyRift, RiftReduce,
        FiniteSetTheorems, SequenceTheorems, WellFoundedInduction, TLAPS

-----------------------------------------------------------------------------
(***************************************************************************)
(* Wrapping arithmetic.                                                    *)
(***************************************************************************)
Words == 2 * Half

\* The words and their bounds.
LEMMA WordsAre ==
  /\ Half \in Nat \ {0} /\ Words \in Nat \ {0} /\ Words = 2 * Half
  /\ Min \in Int /\ Max \in Int /\ Min = -Half /\ Max = Half - 1
  /\ Min \in Word /\ Max \in Word
  /\ \A w \in Word : w \in Int /\ Min <= w /\ w <= Max
  /\ \A w \in Int : Min <= w /\ w <= Max => w \in Word
BY HalfAssumption DEF Words, Word, Min, Max

\* What is left behind a division.
LEMMA ModuloIs ==
  ASSUME NEW n \in Int, NEW m \in Nat \ {0}
  PROVE  n % m \in 0 .. m - 1 /\ \E k \in Int : n = (n % m) + k * m
<1>1. n % m \in 0 .. m - 1 OBVIOUS
<1> DEFINE d == n \div m
           r == n % m
<1>2. n = m * d + r OBVIOUS
<1>3. d \in Int OBVIOUS
<1>4. r \in Int OBVIOUS
<1> SUFFICES r \in 0 .. m - 1 /\ \E k \in Int : n = r + k * m OBVIOUS
<1>5. r \in 0 .. m - 1 BY <1>1
<1> HIDE DEF d, r
<1>6. n = r + d * m BY <1>2, <1>3, <1>4
<1> QED BY <1>3, <1>5, <1>6

\* A nonzero multiple of m is no difference of two numbers less than m apart.
LEMMA NoMultipleBetween ==
  ASSUME NEW m \in Nat \ {0}, NEW k \in Int, NEW d \in Int, d = k * m, -m < d, d < m
  PROVE  k = 0
<1>1. ASSUME k >= 1 PROVE FALSE
  <2>1. k * m >= m
    <3>1. PICK j \in Nat : k = j + 1 BY <1>1
    <3>2. k * m = j * m + m BY <3>1
    <3>3. j * m >= 0 OBVIOUS
    <3>4. j * m \in Int OBVIOUS
    <3> QED BY <3>2, <3>3, <3>4
  <2> QED BY <2>1
<1>2. ASSUME k <= -1 PROVE FALSE
  <2>1. k * m <= -m
    <3>1. PICK j \in Nat : k = -j - 1 BY <1>2
    <3>2. k * m = -(j * m) - m BY <3>1
    <3>3. j * m >= 0 OBVIOUS
    <3>4. j * m \in Int OBVIOUS
    <3> QED BY <3>2, <3>3, <3>4
  <2> QED BY <2>1
<1> QED BY <1>1, <1>2

\* A number and what it wraps to differ by whole turns of the number line,
LEMMA WrapIs ==
  ASSUME NEW n \in Int
  PROVE  Wrap(n) \in Word /\ \E k \in Int : n = Wrap(n) + k * Words
<1> DEFINE m == (n + Half) % Words
<1>1. Words \in Nat \ {0} /\ Half \in Nat \ {0} BY HalfAssumption DEF Words
<1>0. n + Half \in Int BY <1>1
<1>2. m \in 0 .. Words - 1 /\ \E k \in Int : n + Half = m + k * Words
  <2> HIDE DEF Words
  <2> QED BY <1>0, <1>1, ModuloIs
<1>3. Wrap(n) = m - Half BY DEF Wrap, Words
<1> HIDE DEF m
<1>4. PICK k \in Int : n + Half = m + k * Words BY <1>2
<1>5. k * Words \in Int BY <1>1
<1>6. n = Wrap(n) + k * Words BY <1>1, <1>2, <1>3, <1>4, <1>5
<1>7. Wrap(n) \in Word BY <1>1, <1>2, <1>3 DEF Word, Words
<1> QED BY <1>6, <1>7

\* ... what it wraps to is a word,
LEMMA WrapTyped == ASSUME NEW n \in Int PROVE Wrap(n) \in Word /\ Wrap(n) \in Int
<1>1. Wrap(n) \in Word BY WrapIs
<1> QED BY <1>1, HalfAssumption DEF Word

\* ... the only one that differs by whole turns,
LEMMA WrapUnique ==
  ASSUME NEW n \in Int, NEW w \in Word, NEW k \in Int, n = w + k * Words
  PROVE  Wrap(n) = w
<1>1. Words \in Nat \ {0} /\ Half \in Nat \ {0} BY HalfAssumption DEF Words
<1>2. PICK j \in Int : n = Wrap(n) + j * Words BY WrapIs
<1>3. Wrap(n) \in Word /\ Wrap(n) \in Int /\ w \in Int BY WrapIs, <1>1 DEF Word
<1>4. j * Words \in Int /\ k * Words \in Int BY <1>1
<1>5. (j - k) * Words = j * Words - k * Words BY <1>1
<1>6. w - Wrap(n) = (j - k) * Words BY <1>2, <1>3, <1>4, <1>5
<1>7. -Words < w - Wrap(n) /\ w - Wrap(n) < Words BY <1>1, <1>3 DEF Word, Words
<1>8. j - k = 0
  <2>1. j - k \in Int /\ w - Wrap(n) \in Int BY <1>3
  <2> QED BY <1>1, <1>6, <1>7, <2>1, NoMultipleBetween
<1>9. j * Words = k * Words BY <1>8
<1> QED BY <1>2, <1>3, <1>4, <1>9

\* ... and a word wraps to itself.
LEMMA WrapsWord == ASSUME NEW w \in Word PROVE Wrap(w) = w
<1>1. Words \in Int /\ w \in Int BY HalfAssumption DEF Words, Word
<1>2. w = w + 0 * Words BY <1>1
<1> QED BY <1>1, <1>2, WrapUnique

\* Wrapping a part of a sum does not change what it wraps to.
LEMMA WrapsSum ==
  ASSUME NEW x \in Int, NEW y \in Int
  PROVE  Wrap(x + Wrap(y)) = Wrap(x + y)
<1>1. Words \in Int BY HalfAssumption DEF Words
<1>2. PICK k \in Int : y = Wrap(y) + k * Words BY WrapIs
<1>3. Wrap(y) \in Int BY WrapIs, HalfAssumption DEF Word
<1>4. x + Wrap(y) \in Int BY <1>3
<1>5. PICK j \in Int : x + Wrap(y) = Wrap(x + Wrap(y)) + j * Words BY <1>4, WrapIs
<1>6. Wrap(x + Wrap(y)) \in Word /\ Wrap(x + Wrap(y)) \in Int
  BY <1>4, WrapIs, HalfAssumption DEF Word
<1>7. (j + k) * Words = j * Words + k * Words BY <1>1
<1>8. j * Words \in Int /\ k * Words \in Int BY <1>1
<1>9. x + y = Wrap(x + Wrap(y)) + (j + k) * Words
  <2> DEFINE v == Wrap(x + Wrap(y))
             w == Wrap(y)
             p == j * Words
             q == k * Words
  <2>1. y = w + q /\ x + w = v + p /\ (j + k) * Words = p + q BY <1>2, <1>5, <1>7
  <2>2. w \in Int /\ v \in Int /\ p \in Int /\ q \in Int BY <1>3, <1>6, <1>8
  <2> SUFFICES x + y = v + (j + k) * Words OBVIOUS
  <2> HIDE DEF v, w, p, q
  <2> QED BY <2>1, <2>2
<1> QED BY <1>6, <1>9, WrapUnique

\* The same of the unsigned reading of a number.
LEMMA UnsignedIs ==
  ASSUME NEW n \in Int
  PROVE  /\ Unsigned(n) \in 0 .. Words - 1 /\ Unsigned(n) \in Nat
         /\ \E k \in Int : n = Unsigned(n) + k * Words
<1>1. Words \in Nat \ {0} /\ Unsigned(n) = n % Words BY HalfAssumption DEF Unsigned, Words
<1>2. n % Words \in 0 .. Words - 1 /\ \E k \in Int : n = (n % Words) + k * Words
  BY <1>1, ModuloIs
<1> DEFINE u == Unsigned(n)
<1>3. u \in 0 .. Words - 1 /\ \E k \in Int : n = u + k * Words BY <1>1, <1>2
<1> SUFFICES u \in 0 .. Words - 1 /\ u \in Nat /\ \E k \in Int : n = u + k * Words OBVIOUS
<1> HIDE DEF u
<1> QED BY <1>1, <1>3

\* ... which is the only one that differs by whole turns,
LEMMA UnsignedUnique ==
  ASSUME NEW n \in Int, NEW u \in 0 .. Words - 1, NEW k \in Int, n = u + k * Words
  PROVE  Unsigned(n) = u
<1> DEFINE v == Unsigned(n)
<1>1. Words \in Nat \ {0} BY HalfAssumption DEF Words
<1>2. v \in 0 .. Words - 1 /\ \E j \in Int : n = v + j * Words BY UnsignedIs
<1> HIDE DEF v
<1>3. PICK j \in Int : n = v + j * Words BY <1>2
<1>4. v \in Int /\ u \in Int BY <1>1, <1>2
<1>5. j * Words \in Int /\ k * Words \in Int /\ (j - k) * Words = j * Words - k * Words
  BY <1>1
<1>6. u - v = (j - k) * Words BY <1>3, <1>4, <1>5
<1>7. -Words < u - v /\ u - v < Words BY <1>1, <1>2, <1>4
<1>8. j - k \in Int /\ u - v \in Int BY <1>4
<1>9. j - k = 0 BY <1>1, <1>6, <1>7, <1>8, NoMultipleBetween
<1>10. j * Words = k * Words BY <1>9
<1>11. u = v BY <1>3, <1>4, <1>5, <1>10
<1> QED BY <1>11 DEF v

\* ... and its own, of one in range.
LEMMA UnsignedOf == ASSUME NEW n \in 0 .. Words - 1 PROVE Unsigned(n) = n
<1>1. Words \in Int BY HalfAssumption DEF Words
<1>2. n \in Int /\ n = n + 0 * Words BY <1>1
<1> QED BY <1>2, UnsignedUnique

\* A set of indices has a largest one.
LEMMA LargestIndex ==
  ASSUME NEW n \in Nat, NEW S \in SUBSET (1 .. n), S # {}
  PROVE  \E m \in S : \A k \in S : k <= m
<1> DEFINE From(k) == {j \in S : j >= k}
<1> DEFINE T == {From(k) : k \in S}
<1>1. IsFiniteSet(1 .. n) BY FS_Interval
<1>2. IsFiniteSet(S) BY <1>1, FS_Subset
<1>3. T \subseteq FiniteSubsetsOf(S)
  BY <1>2, FS_Subset DEF FiniteSubsetsOf
<1>4. T # {} OBVIOUS
<1>5. PICK x \in T : \A y \in T : ~ (<<y, x>> \in StrictSubsetOrdering(S))
  <2> HIDE DEF T
  <2> QED BY <1>3, <1>4, WFMin, FS_StrictSubsetOrderingWellFounded
<1>6. PICK m \in S : x = From(m) OBVIOUS
<1>7. ASSUME NEW k \in S, k > m PROVE FALSE
  <2>1. k \in Int /\ m \in Int /\ \A j \in S : j \in Int OBVIOUS
  <2>2. From(k) \subseteq x
    <3>1. ASSUME NEW j \in S, j >= k PROVE j >= m BY <3>1, <1>7, <2>1
    <3> QED BY <3>1, <1>6
  <2>3. m \in x /\ m \notin From(k) BY <1>6, <1>7, <2>1
  <2>4. From(k) \in T OBVIOUS
  <2>5. <<From(k), x>> \in StrictSubsetOrdering(S)
    BY <2>2, <2>3, <1>6 DEF StrictSubsetOrdering
  <2> QED BY <1>5, <2>4, <2>5
<1> QED BY <1>7

-----------------------------------------------------------------------------
(***************************************************************************)
(* The sort.                                                               *)
(***************************************************************************)

\* A set of indices has a smallest one.
LEMMA SmallestIndex ==
  ASSUME NEW n \in Nat, NEW S \in SUBSET (1 .. n), S # {}
  PROVE  \E m \in S : \A k \in S : m <= k
<1> DEFINE T == {k \in 1 .. n : n + 1 - k \in S}
<1>1. \A k \in S : k \in Int /\ n + 1 - k \in T /\ n + 1 - (n + 1 - k) = k
  <2>1. TAKE k \in S
  <2>2. k \in 1 .. n OBVIOUS
  <2>3. n + 1 - k \in 1 .. n /\ n + 1 - (n + 1 - k) = k BY <2>2
  <2> QED BY <2>2, <2>3
<1>2. T # {} BY <1>1
<1>3. PICK m \in T : \A k \in T : k <= m
  <2>1. T \in SUBSET (1 .. n) OBVIOUS
  <2> HIDE DEF T
  <2> QED BY <1>2, <2>1, LargestIndex
<1>4. n + 1 - m \in S /\ m \in Int OBVIOUS
<1>5. ASSUME NEW k \in S PROVE n + 1 - m <= k
  <2>1. n + 1 - k <= m BY <1>1, <1>3
  <2> QED BY <1>1, <1>4, <2>1
<1> QED BY <1>4, <1>5

-----------------------------------------------------------------------------
(***************************************************************************)
(* Lookups in a table.                                                     *)
(***************************************************************************)
LEMMA TableTyped ==
  ASSUME NEW t \in Table
  PROVE  /\ Len(t) \in Nat /\ DOMAIN t = 1 .. Len(t)
         /\ t # <<>> => Len(t) \in 1 .. Len(t)
         /\ \A i \in DOMAIN t :
              /\ i \in Int /\ t[i] \in [source : Word, target : Word]
              /\ t[i].source \in Word /\ t[i].target \in Word
              /\ t[i].source \in Int /\ Offset(t[i]) \in Int
              /\ Offset(t[i]) = t[i].target - t[i].source
<1>1. Word \subseteq Int BY HalfAssumption DEF Word
<1>2. t \in Seq([source : Word, target : Word]) BY DEF Table
<1>3. Len(t) \in Nat /\ DOMAIN t = 1 .. Len(t) BY <1>2
<1>4. ASSUME NEW i \in DOMAIN t
      PROVE  /\ i \in Int /\ t[i] \in [source : Word, target : Word]
             /\ t[i].source \in Word /\ t[i].target \in Word
             /\ t[i].source \in Int /\ Offset(t[i]) \in Int
             /\ Offset(t[i]) = t[i].target - t[i].source
  <2>1. i \in Int /\ t[i] \in [source : Word, target : Word]
    <3> DEFINE R == [source : Word, target : Word]
    <3>1. t \in Seq(R) /\ i \in 1 .. Len(t) /\ i \in Int BY <1>2, <1>3
    <3> SUFFICES i \in Int /\ t[i] \in R OBVIOUS
    <3> HIDE DEF R
    <3> QED BY <3>1
  <2>2. t[i].source \in Word /\ t[i].target \in Word BY <2>1
  <2>3. t[i].source \in Int /\ t[i].target \in Int BY <1>1, <2>2
  <2>4. Offset(t[i]) = t[i].target - t[i].source BY DEF Offset
  <2>5. Offset(t[i]) \in Int BY <2>3, <2>4
  <2> QED BY <2>1, <2>2, <2>3, <2>4, <2>5
<1>5. t # <<>> => Len(t) \in 1 .. Len(t)
  <2>1. t # <<>> => Len(t) # 0 BY <1>2
  <2> QED BY <1>3, <2>1
<1> QED BY <1>3, <1>4, <1>5

\* The segment of a position is the last entry at or before it ...
LEMMA SegmentAt ==
  ASSUME NEW t \in Table, Sorted(t), NEW i \in DOMAIN t, NEW x \in Int,
         t[i].source <= x, i < Len(t) => x < t[i + 1].source
  PROVE  SegmentOf(t, x) = i
<1> DEFINE before == {j \in DOMAIN t : t[j].source <= x}
<1>1. Len(t) \in Nat /\ DOMAIN t = 1 .. Len(t) /\ \A j \in DOMAIN t : t[j].source \in Int
  BY TableTyped
<1>2. i \in before OBVIOUS
<1>3. ASSUME NEW j \in before PROVE j <= i
  <2>1. SUFFICES ASSUME j > i PROVE FALSE BY <1>1
  <2>2. i + 1 \in DOMAIN t /\ i + 1 <= j /\ i < Len(t) BY <1>1, <2>1
  <2>3. t[i + 1].source <= t[j].source BY <2>2 DEF Sorted
  <2> QED BY <1>1, <2>2, <2>3
<1>4. ASSUME NEW k \in before, \A j \in before : j <= k PROVE k = i
  BY <1>1, <1>2, <1>3, <1>4
<1>5. SegmentOf(t, x) = CHOOSE k \in before : \A j \in before : j <= k
  BY <1>2 DEF SegmentOf
<1> HIDE DEF before
<1> QED BY <1>2, <1>3, <1>4, <1>5

\* ... and the last one for a position in front of the first.
LEMMA SegmentInFront ==
  ASSUME NEW t \in Table, Sorted(t), t # <<>>, NEW x \in Int, x < t[1].source
  PROVE  SegmentOf(t, x) = Len(t)
<1>1. Len(t) \in Nat /\ DOMAIN t = 1 .. Len(t) /\ \A j \in DOMAIN t : t[j].source \in Int
  BY TableTyped
<1>2. ASSUME NEW j \in DOMAIN t PROVE ~(t[j].source <= x)
  <2>1. 1 \in DOMAIN t /\ 1 <= j BY <1>1
  <2>2. t[1].source <= t[j].source BY <2>1 DEF Sorted
  <2> QED BY <1>1, <2>1, <2>2
<1>3. {j \in DOMAIN t : t[j].source <= x} = {} BY <1>2
<1> QED BY <1>3 DEF SegmentOf

\* The segment of a position is an entry of the table.
LEMMA SegmentTyped ==
  ASSUME NEW t \in Table, t # <<>>, NEW x \in Int
  PROVE  SegmentOf(t, x) \in DOMAIN t
<1> DEFINE before == {j \in DOMAIN t : t[j].source <= x}
<1>1. Len(t) \in Nat /\ DOMAIN t = 1 .. Len(t) /\ Len(t) \in 1 .. Len(t) BY TableTyped
<1>2. CASE before = {} BY <1>1, <1>2 DEF SegmentOf
<1>3. CASE before # {}
  <2>1. before \in SUBSET (1 .. Len(t)) BY <1>1
  <2>2. SegmentOf(t, x) = CHOOSE k \in before : \A j \in before : j <= k
    BY <1>3 DEF SegmentOf
  <2>3. before \subseteq DOMAIN t OBVIOUS
  <2> HIDE DEF before
  <2>4. \E k \in before : \A j \in before : j <= k BY <1>1, <1>3, <2>1, LargestIndex
  <2> QED BY <2>2, <2>3, <2>4
<1> QED BY <1>2, <1>3

\* A position is mapped to a position.
LEMMA MappedTyped ==
  ASSUME NEW t \in Table, NEW x \in Int
  PROVE  /\ RiftOffset(t, x) \in Word /\ RiftOffset(t, x) \in Int
         /\ Mapped(t, x) \in Word /\ Mapped(t, x) \in Int
<1>1. Word \subseteq Int /\ 0 \in Word BY HalfAssumption DEF Word
<1>2. RiftOffset(t, x) \in Word
  <2>1. CASE t = <<>> BY <1>1, <2>1 DEF RiftOffset
  <2>2. CASE t # <<>>
    <3>1. Offset(t[SegmentOf(t, x)]) \in Int BY <2>2, SegmentTyped, TableTyped
    <3> QED BY <2>2, <3>1, WrapIs DEF RiftOffset
  <2> QED BY <2>1, <2>2
<1>5. RiftOffset(t, x) \in Int BY <1>1, <1>2
<1>3. x + RiftOffset(t, x) \in Int BY <1>5
<1>4. Mapped(t, x) \in Word BY <1>3, WrapIs DEF Mapped
<1>6. Mapped(t, x) \in Int BY <1>1, <1>4
<1> QED BY <1>2, <1>4, <1>5, <1>6

\* An empty table maps every position to itself.
LEMMA MappedByEmpty == ASSUME NEW x \in Word PROVE Mapped(<<>>, x) = x
<1>1. x \in Int /\ x + 0 = x BY HalfAssumption DEF Word
<1>2. RiftOffset(<<>>, x) = 0 BY DEF RiftOffset
<1> QED BY <1>1, <1>2, WrapsWord DEF Mapped

\* One offset applies from a position up to its next break.
LEMMA OneOffsetUpToBreak ==
  ASSUME NEW t \in Table, Sorted(t), NEW x \in Word
  PROVE  /\ NextBreak(t, x) \in x .. Max
         /\ \A y \in x .. NextBreak(t, x) : RiftOffset(t, y) = RiftOffset(t, x)
<1> DEFINE after == {i \in DOMAIN t : t[i].source > x}
           n == NextBreak(t, x)
<1>1. /\ Len(t) \in Nat /\ DOMAIN t = 1 .. Len(t)
      /\ \A j \in DOMAIN t : t[j].source \in Int /\ t[j].source \in Word
  BY TableTyped
<1>2. x \in Int /\ Max \in Int /\ x <= Max /\ \A w \in Word : w <= Max
  BY HalfAssumption DEF Word, Max
<1>3. n \in x .. Max /\ \A i \in after : n < t[i].source
  <2>1. CASE after = {} BY <1>2, <2>1 DEF NextBreak
  <2>2. CASE after # {}
    <3>1. after \in SUBSET (1 .. Len(t)) BY <1>1
    <3>2. n = t[CHOOSE i \in after : \A j \in after : i <= j].source - 1
      BY <2>2 DEF NextBreak
    <3>3. \A i \in after : i \in DOMAIN t /\ t[i].source > x OBVIOUS
    <3> HIDE DEF after, n
    <3>4. \E i \in after : \A j \in after : i <= j BY <1>1, <2>2, <3>1, SmallestIndex
    <3>5. PICK i \in after : (\A j \in after : i <= j) /\ n = t[i].source - 1
      BY <3>2, <3>4
    <3>6. t[i].source \in Int /\ t[i].source > x /\ t[i].source <= Max BY <1>1, <1>2, <3>3
    <3>7. \A j \in after : t[i].source <= t[j].source BY <3>3, <3>5 DEF Sorted
    <3>8. n \in x .. Max BY <1>2, <3>5, <3>6
    <3>9. ASSUME NEW j \in after PROVE n < t[j].source
      <4>1. t[i].source <= t[j].source /\ t[j].source \in Int BY <1>1, <3>3, <3>7
      <4> QED BY <3>5, <3>6, <4>1
    <3> QED BY <3>8, <3>9
  <2> QED BY <2>1, <2>2
<1>4. ASSUME NEW y \in x .. n PROVE RiftOffset(t, y) = RiftOffset(t, x)
  <2>0. n \in Int /\ y \in Int /\ x <= y /\ y <= n BY <1>2, <1>3
  <2>1. ASSUME NEW i \in DOMAIN t PROVE t[i].source <= y <=> t[i].source <= x
    <3>1. CASE t[i].source <= x BY <1>1, <1>2, <2>0, <3>1
    <3>2. CASE ~(t[i].source <= x)
      <4>1. t[i].source > x BY <1>1, <1>2, <3>2
      <4>2. n < t[i].source BY <1>3, <4>1
      <4> QED BY <1>1, <2>0, <3>2, <4>2
    <3> QED BY <3>1, <3>2
  <2>2. {i \in DOMAIN t : t[i].source <= y} = {i \in DOMAIN t : t[i].source <= x}
    BY <2>1
  <2>3. SegmentOf(t, y) = SegmentOf(t, x)
    <3> DEFINE B == {i \in DOMAIN t : t[i].source <= y}
               C == {i \in DOMAIN t : t[i].source <= x}
               Last(S) == IF S = {} THEN Len(t) ELSE CHOOSE i \in S : \A j \in S : j <= i
    <3>1. SegmentOf(t, y) = Last(B) /\ SegmentOf(t, x) = Last(C) BY DEF SegmentOf
    <3>2. B = C BY <2>2
    <3> HIDE DEF B, C, Last
    <3> QED BY <3>1, <3>2
  <2> QED BY <2>3 DEF RiftOffset
<1> QED BY <1>3, <1>4

\* A table whose sources ascend is sorted, and the sort leaves it as it is.
LEMMA SortKeepsAscending ==
  ASSUME NEW t \in Table, StrictlySorted(t)
  PROVE  Sorted(t) /\ SortBySource(t) = t
<1>1. /\ Len(t) \in Nat /\ DOMAIN t = 1 .. Len(t)
      /\ \A j \in DOMAIN t : j \in Int /\ t[j].source \in Int
  BY TableTyped
<1>2. ASSUME NEW i \in DOMAIN t, NEW j \in DOMAIN t PROVE Before(t, i, j) <=> i <= j
  <2>1. CASE i < j BY <1>1, <2>1 DEF StrictlySorted, Before
  <2>2. CASE i = j BY <1>1, <2>2 DEF Before
  <2>3. CASE j < i
    <3>1. t[j].source < t[i].source BY <1>1, <2>3 DEF StrictlySorted
    <3> QED BY <1>1, <2>3, <3>1 DEF Before
  <2> QED BY <1>1, <2>1, <2>2, <2>3
<1>3. ASSUME NEW j \in DOMAIN t PROVE Rank(t, j) = j
  <2>1. {i \in DOMAIN t : Before(t, i, j)} = 1 .. j
    <3>1. \A i \in DOMAIN t : Before(t, i, j) <=> i <= j BY <1>2
    <3>2. \A i : i \in 1 .. j <=> i \in DOMAIN t /\ i <= j BY <1>1
    <3> QED BY <3>1, <3>2
  <2>2. Cardinality(1 .. j) = j
    <3>1. 1 \in Int /\ j \in Int /\ 1 <= j /\ j - 1 + 1 = j BY <1>1
    <3> QED BY <3>1, FS_Interval
  <2> QED BY <2>1, <2>2 DEF Rank
<1>4. ASSUME NEW k \in DOMAIN t
      PROVE  (CHOOSE i \in DOMAIN t : Rank(t, i) = k) = k
  BY <1>3
<1>5. SortBySource(t) = [k \in DOMAIN t |-> t[k]]
  <2> DEFINE at(k) == CHOOSE i \in DOMAIN t : Rank(t, i) = k
  <2>1. SortBySource(t) = [k \in DOMAIN t |-> t[at(k)]] BY DEF SortBySource
  <2>2. \A k \in DOMAIN t : at(k) = k BY <1>4
  <2> HIDE DEF at
  <2> QED BY <2>1, <2>2
<1>6. t = [k \in DOMAIN t |-> t[k]] BY <1>1 DEF Table
<1>7. Sorted(t)
  <2>1. SUFFICES ASSUME NEW i \in DOMAIN t, NEW j \in DOMAIN t, i <= j
                 PROVE  t[i].source <= t[j].source
    BY DEF Sorted
  <2>2. CASE i = j BY <1>1, <2>2
  <2>3. CASE i < j BY <1>1, <2>3 DEF StrictlySorted
  <2> QED BY <1>1, <2>1, <2>2, <2>3
<1> QED BY <1>5, <1>6, <1>7
-----------------------------------------------------------------------------
(***************************************************************************)
(* The walk.  Below Reached, the first position no piece covers, each      *)
(* position lies in a piece of the product that maps it as the operands    *)
(* do; the pieces ascend, and at "split" the last starts at source.        *)
(***************************************************************************)
WalkTypeOK ==
  /\ a \in Table /\ Sorted(a)
  /\ b \in Table /\ Sorted(b)
  /\ out \in Table
  /\ segment \in 0 .. Len(a) + 1
  /\ pc \in {"start", "next", "split", "done"}

\* Position x lies in the i-th piece, which maps it as the operands do.
MapsAsOperands(i, x) == Wrap(x + Offset(out[i])) = Mapped(b, Mapped(a, x))

PieceOf(i, x) == out[i].source <= x /\ (i < Len(out) => x < out[i + 1].source)

Covered(upto) ==
  \A x \in Word : x < upto => \E i \in DOMAIN out : PieceOf(i, x) /\ MapsAsOperands(i, x)

Ascending ==
  /\ StrictlySorted(out)
  /\ out # <<>> => out[1].source = Min

\* Where the next segment of a starts.
NextStart == IF segment <= Len(a) THEN SegmentSource ELSE Half

\* The last position of the piece at source.
PieceEnd == IF nextBreak - image < SegmentEnd - source
            THEN source + (nextBreak - image) ELSE SegmentEnd

AtNext ==
  /\ Covered(NextStart)
  /\ \A i \in DOMAIN out : out[i].source < NextStart
  /\ out = <<>> => NextStart = Min

AtSplit ==
  /\ segment \in 0 .. Len(a) /\ ~EmptySegment
  /\ source \in SegmentSource .. SegmentEnd
  /\ image = Mapped(a, source) /\ image \in Word
  /\ nextBreak = NextBreak(b, image) /\ nextBreak \in image .. Max
  /\ out # <<>> /\ out[Len(out)] = Entry(source, Mapped(b, image))
  /\ Covered(PieceEnd + 1)

WalkInv ==
  /\ WalkTypeOK
  /\ pc = "start" => out = <<>> /\ segment = 0
  /\ pc \in {"next", "split"} => a # <<>> /\ b # <<>> /\ Ascending
  /\ pc = "next" => AtNext
  /\ pc = "split" => AtSplit
  /\ ReturnsProduct

-----------------------------------------------------------------------------
(***************************************************************************)
(* Pieces.                                                                 *)
(***************************************************************************)
\* Where one offset of first and one of second apply, the image of the first position
\* tells that of the others.
LEMMA PieceMaps ==
  ASSUME NEW first \in Table, NEW second \in Table, Sorted(second),
         NEW s \in Word, NEW x \in Int, s <= x,
         RiftOffset(first, x) = RiftOffset(first, s),
         NEW img, img = Mapped(first, s), x - s <= NextBreak(second, img) - img
  PROVE  Wrap(x + (Mapped(second, img) - s)) = Mapped(second, Mapped(first, x))
<1> DEFINE A == RiftOffset(first, s)
           B == RiftOffset(second, img)
           d == x - s
<1>1. Word \subseteq Int /\ s \in Int /\ d \in Int /\ 0 <= d BY HalfAssumption DEF Word
<1>2. A \in Int BY <1>1, MappedTyped
<1>3. img \in Word /\ img \in Int BY <1>1, MappedTyped
<1>4. B \in Int BY <1>3, MappedTyped
<1>5. /\ NextBreak(second, img) \in img .. Max
      /\ \A y \in img .. NextBreak(second, img) : RiftOffset(second, y) = B
  BY <1>3, OneOffsetUpToBreak
<1>6. img = Wrap(s + A) BY DEF Mapped
<1>7. img + d \in img .. NextBreak(second, img) /\ img + d \in Word /\ img + d \in Int
  BY <1>1, <1>3, <1>5, HalfAssumption DEF Word, Max
<1>8. Mapped(first, x) = img + d
  <2>1. Mapped(first, x) = Wrap(x + A) BY DEF Mapped
  <2> HIDE DEF A
  <2>2. x + A = d + (s + A) /\ s + A \in Int BY <1>1, <1>2
  <2>3. Wrap(d + Wrap(s + A)) = Wrap(d + (s + A)) BY <1>1, <2>2, WrapsSum
  <2>4. d + img = img + d BY <1>1, <1>3
  <2>5. Wrap(img + d) = img + d BY <1>7, WrapsWord
  <2> QED BY <1>6, <2>1, <2>2, <2>3, <2>4, <2>5
<1>9. Mapped(second, img + d) = Wrap(img + d + B) BY <1>5, <1>7 DEF Mapped
<1>10. Wrap(x + (Mapped(second, img) - s)) = Wrap(img + d + B)
  <2>1. Mapped(second, img) = Wrap(img + B) BY DEF Mapped
  <2> HIDE DEF B
  <2>2. img + B \in Int /\ Wrap(img + B) \in Int BY <1>3, <1>4, WrapTyped
  <2>3. x + (Wrap(img + B) - s) = d + Wrap(img + B) BY <1>1, <2>2
  <2>4. Wrap(d + Wrap(img + B)) = Wrap(d + (img + B)) BY <1>1, <2>2, WrapsSum
  <2>5. d + (img + B) = img + d + B BY <1>1, <1>3, <1>4
  <2> QED BY <2>1, <2>3, <2>4, <2>5
<1> QED BY <1>8, <1>9, <1>10

\* The segment the walk is in, and where a maps its positions.
LEMMA SegmentIs ==
  ASSUME WalkTypeOK, a # <<>>, segment \in 0 .. Len(a), ~EmptySegment
  PROVE  /\ SegmentSource \in Word /\ SegmentEnd \in Word /\ SegmentSource <= SegmentEnd
         /\ \A x \in SegmentSource .. SegmentEnd :
              RiftOffset(a, x) = RiftOffset(a, SegmentSource)
         /\ SegmentImage = Mapped(a, SegmentSource)
<1> DEFINE k == IF segment = 0 THEN Len(a) ELSE segment
           s == SegmentSource
           e == SegmentEnd
<1>1. a \in Table /\ Sorted(a) BY DEF WalkTypeOK
<1>2. /\ Len(a) \in Nat /\ DOMAIN a = 1 .. Len(a) /\ Len(a) \in 1 .. Len(a)
      /\ \A i \in DOMAIN a : a[i].source \in Word /\ a[i].source \in Int
  BY <1>1, TableTyped
<1>3. segment \in Int /\ 0 <= segment /\ segment <= Len(a) BY <1>2
<1>4. /\ Min \in Word /\ Max \in Word /\ Min \in Int /\ Max \in Int
      /\ \A w \in Word : w \in Int /\ Min <= w /\ w <= Max
      /\ \A w \in Int : Min <= w /\ w <= Max => w \in Word
  BY HalfAssumption DEF Word, Min, Max
<1>5. s \in Word /\ (segment # 0 => segment \in DOMAIN a /\ s = a[segment].source)
  BY <1>2, <1>3, <1>4 DEF SegmentSource
<1>6. ASSUME segment < Len(a)
      PROVE  e \in Word /\ s <= e /\ \A x \in s .. e : x \in Int /\ SegmentOf(a, x) = k
  <2>1. segment + 1 \in DOMAIN a /\ e = a[segment + 1].source - 1
    BY <1>2, <1>3, <1>6 DEF SegmentEnd
  <2>2. s # a[segment + 1].source BY <1>6 DEF EmptySegment
  <2>3. s <= a[segment + 1].source
    <3>1. CASE segment = 0 BY <1>2, <1>4, <2>1, <3>1 DEF SegmentSource
    <3>2. CASE segment # 0
      <4>1. segment <= segment + 1 BY <1>3
      <4> QED BY <1>1, <1>5, <2>1, <3>2, <4>1 DEF Sorted
    <3> QED BY <3>1, <3>2
  <2>4. a[segment + 1].source \in Int /\ a[segment + 1].source \in Word BY <1>2, <2>1
  <2>5. s \in Int BY <1>4, <1>5
  <2> HIDE DEF s, e
  <2>6. s <= e /\ e \in Int /\ e < a[segment + 1].source BY <2>1, <2>2, <2>3, <2>4, <2>5
  <2>7. e \in Word BY <1>4, <1>5, <2>1, <2>4, <2>5, <2>6
  <2>8. ASSUME NEW x \in s .. e PROVE x \in Int /\ SegmentOf(a, x) = k
    <3>1. x \in Int /\ s <= x /\ x < a[segment + 1].source BY <2>4, <2>5, <2>6
    <3>2. CASE segment = 0
      <4>1. x < a[1].source BY <3>1, <3>2
      <4> QED BY <1>1, <3>1, <3>2, <4>1, SegmentInFront
    <3>3. CASE segment # 0
      <4>1. segment \in DOMAIN a /\ a[segment].source <= x BY <1>5, <3>1, <3>3
      <4>2. SegmentOf(a, x) = segment BY <1>1, <3>1, <4>1, SegmentAt
      <4> QED BY <3>1, <3>3, <4>2
    <3> QED BY <3>2, <3>3
  <2> QED BY <2>6, <2>7, <2>8
<1>7. ASSUME ~(segment < Len(a))
      PROVE  e \in Word /\ s <= e /\ \A x \in s .. e : x \in Int /\ SegmentOf(a, x) = k
  <2>1. segment = Len(a) /\ segment # 0
    <3>1. Len(a) \in Int /\ Len(a) # 0 BY <1>2
    <3>2. segment = Len(a) BY <1>3, <1>7, <3>1
    <3> QED BY <3>1, <3>2
  <2>6. e = Max BY <1>7 DEF SegmentEnd
  <2> HIDE DEF s, e
  <2>2. s \in Int /\ s <= e /\ e \in Word BY <1>4, <1>5, <2>6
  <2>3. ASSUME NEW x \in s .. e PROVE x \in Int /\ SegmentOf(a, x) = k
    <3>1. x \in Int /\ s <= x BY <2>2
    <3>2. segment \in DOMAIN a /\ a[segment].source <= x BY <1>5, <2>1, <3>1
    <3>3. SegmentOf(a, x) = segment BY <1>1, <1>7, <3>1, <3>2, SegmentAt
    <3> QED BY <2>1, <3>1, <3>3
  <2> QED BY <2>2, <2>3
<1>8. s \in Word /\ e \in Word /\ s <= e /\ \A x \in s .. e : SegmentOf(a, x) = k
  <2> HIDE DEF s, e, k
  <2> QED BY <1>5, <1>6, <1>7
<1>9. s \in s .. e /\ s \in Int
  <2> HIDE DEF s, e
  <2> QED BY <1>4, <1>8
<1>10. \A x \in s .. e : RiftOffset(a, x) = Wrap(Offset(a[k]))
  <2> HIDE DEF s, e, k
  <2> QED BY <1>8 DEF RiftOffset
<1>11. SegmentImage = Mapped(a, s)
  <2>1. Mapped(a, s) = Wrap(s + Wrap(Offset(a[k]))) BY <1>9, <1>10 DEF Mapped
  <2>2. k \in DOMAIN a /\ Offset(a[k]) \in Int
    <3>1. k \in DOMAIN a BY <1>2, <1>5
    <3> QED BY <1>1, <3>1, TableTyped
  <2>3. Mapped(a, s) = Wrap(s + Offset(a[k]))
    <3> HIDE DEF s, k
    <3> QED BY <1>9, <2>1, <2>2, WrapsSum
  <2>4. CASE segment = 0
    <3>1. SegmentImage = Wrap(Offset(a[Len(a)]) + Min) /\ s = Min /\ k = Len(a)
      BY <2>4 DEF SegmentImage, SegmentSource
    <3> HIDE DEF k, s
    <3>2. Offset(a[k]) + s = s + Offset(a[k]) BY <1>9, <2>2
    <3> QED BY <2>3, <3>1, <3>2
  <2>5. CASE segment # 0
    <3>1. SegmentImage = a[segment].target /\ s = a[segment].source /\ k = segment
      BY <2>5 DEF SegmentImage, SegmentSource
    <3>2. /\ a[segment].target \in Word /\ a[segment].source \in Int
          /\ Offset(a[segment]) = a[segment].target - a[segment].source
      BY <1>1, <1>5, <2>5, TableTyped
    <3>3. a[segment].target \in Int BY <1>4, <3>2
    <3> HIDE DEF k, s
    <3>4. s + Offset(a[k]) = a[segment].target BY <3>1, <3>2, <3>3
    <3>5. Wrap(a[segment].target) = a[segment].target BY <3>2, WrapsWord
    <3> QED BY <2>3, <3>1, <3>4, <3>5
  <2> QED BY <2>4, <2>5
<1> QED BY <1>8, <1>9, <1>10, <1>11

\* A piece emitted where the walk has got to takes the cover on to the end of it.
LEMMA EmitCovers ==
  ASSUME WalkTypeOK, a # <<>>, segment \in 0 .. Len(a), ~EmptySegment, Ascending,
         NEW s \in SegmentSource .. SegmentEnd, NEW img, img = Mapped(a, s),
         Covered(s), \A i \in DOMAIN out : out[i].source < s, out = <<>> => s = Min,
         Emit(s, img), UNCHANGED <<a, b, segment>>
  PROVE  out' \in Table /\ out' # <<>> /\ Ascending' /\ AtSplit'
<1> DEFINE n == Len(out)
           new == Entry(s, Mapped(b, img))
           end == PieceEnd'
<1>1. /\ a \in Table /\ Sorted(a) /\ b \in Table /\ Sorted(b) /\ out \in Table
  BY DEF WalkTypeOK
<1>2. /\ SegmentSource \in Word /\ SegmentEnd \in Word /\ SegmentSource <= SegmentEnd
      /\ \A x \in SegmentSource .. SegmentEnd :
           RiftOffset(a, x) = RiftOffset(a, SegmentSource)
  BY SegmentIs
<1>3. /\ Word \subseteq Int
      /\ Max \in Int /\ Min \in Int
      /\ \A w \in Word : w \in Int /\ Min <= w /\ w <= Max
      /\ \A w \in Int : Min <= w /\ w <= Max => w \in Word
  BY HalfAssumption DEF Word, Min, Max
<1>4. s \in Word /\ s \in Int /\ SegmentSource <= s /\ s <= SegmentEnd
      /\ SegmentEnd \in Int /\ SegmentSource \in Int
  <2>1. SegmentEnd \in Int /\ SegmentSource \in Int BY <1>2, <1>3
  <2>2. Min <= SegmentSource /\ SegmentEnd <= Max BY <1>2, <1>3
  <2>3. s \in Int /\ SegmentSource <= s /\ s <= SegmentEnd BY <2>1
  <2>4. Min <= s /\ s <= Max BY <1>3, <2>1, <2>2, <2>3
  <2> QED BY <1>3, <2>1, <2>3, <2>4
<1>5. img \in Word /\ img \in Int /\ Mapped(b, img) \in Word /\ Mapped(b, img) \in Int
  BY <1>1, <1>4, MappedTyped
<1>6. NextBreak(b, img) \in img .. Max BY <1>1, <1>5, OneOffsetUpToBreak
<1>7. new \in [source : Word, target : Word] /\ new.source = s /\ new.target = Mapped(b, img)
  BY <1>4, <1>5 DEF Entry
<1>8. /\ out' = Append(out, new) /\ source' = s /\ image' = img
      /\ nextBreak' = NextBreak(b, img) /\ a' = a /\ b' = b /\ segment' = segment
  BY DEF Emit
<1>9. n \in Nat /\ DOMAIN out = 1 .. n BY <1>1, TableTyped
<1> HIDE DEF new
<1>10. /\ out' \in Table /\ Len(out') = n + 1 /\ DOMAIN out' = 1 .. n + 1
       /\ out'[n + 1] = new /\ \A i \in 1 .. n : out'[i] = out[i]
  <2> DEFINE R == [source : Word, target : Word]
  <2>1. out \in Seq(R) /\ new \in R BY <1>1, <1>7 DEF Table
  <2> HIDE DEF R
  <2>2. /\ out' \in Seq(R) /\ Len(out') = n + 1 /\ DOMAIN out' = 1 .. n + 1
        /\ out'[n + 1] = new /\ \A i \in 1 .. n : out'[i] = out[i]
    BY <1>8, <1>9, <2>1
  <2> QED BY <2>2 DEF Table, R
<1> HIDE DEF n
<1>11. out' # <<>> BY <1>9, <1>10
<1>12. Ascending'
  <2>1. ASSUME NEW i \in 1 .. n + 1, NEW j \in 1 .. n + 1, i < j
        PROVE  out'[i].source < out'[j].source
    <3>1. i \in 1 .. n /\ out'[i] = out[i] BY <1>9, <1>10, <2>1
    <3>2. CASE j = n + 1
      <4>1. out[i].source < s BY <1>9, <3>1
      <4>2. out'[j].source = s BY <1>7, <1>10, <3>2
      <4> QED BY <3>1, <4>1, <4>2
    <3>3. CASE j # n + 1
      <4>1. j \in 1 .. n /\ out'[j] = out[j] BY <1>9, <1>10, <3>3
      <4>2. out[i].source < out[j].source
        BY <1>9, <2>1, <3>1, <4>1 DEF Ascending, StrictlySorted
      <4> QED BY <3>1, <4>1, <4>2
    <3> QED BY <3>2, <3>3
  <2>2. StrictlySorted(out')
    BY <1>10, <2>1 DEF StrictlySorted
  <2>3. out'[1].source = Min
    <3>1. CASE out = <<>>
      <4>1. n = 0 BY <3>1 DEF n
      <4> QED BY <1>7, <1>10, <3>1, <4>1
    <3>2. CASE out # <<>>
      <4>1. 1 \in 1 .. n BY <1>1, <1>9, <3>2, TableTyped DEF n
      <4> QED BY <1>10, <3>2, <4>1 DEF Ascending
    <3> QED BY <3>1, <3>2
  <2> QED BY <2>2, <2>3 DEF Ascending
<1>13. /\ SegmentSource' = SegmentSource /\ SegmentEnd' = SegmentEnd
       /\ EmptySegment' = EmptySegment
  BY <1>8 DEF SegmentSource, SegmentEnd, EmptySegment
<1>14. /\ end \in Int /\ s <= end /\ end <= SegmentEnd /\ end - s <= NextBreak(b, img) - img
  <2>1. end = IF NextBreak(b, img) - img < SegmentEnd - s
              THEN s + (NextBreak(b, img) - img) ELSE SegmentEnd
    BY <1>8, <1>13 DEF PieceEnd
  <2> DEFINE m == NextBreak(b, img)
  <2>2. m \in Int /\ img <= m BY <1>3, <1>5, <1>6
  <2> SUFFICES /\ end \in Int /\ s <= end /\ end <= SegmentEnd /\ end - s <= m - img OBVIOUS
  <2> HIDE DEF m, end
  <2>3. end = IF m - img < SegmentEnd - s THEN s + (m - img) ELSE SegmentEnd
    BY <2>1 DEF m
  <2>4. CASE m - img < SegmentEnd - s BY <1>4, <1>5, <2>2, <2>3, <2>4
  <2>5. CASE ~(m - img < SegmentEnd - s) BY <1>4, <1>5, <2>2, <2>3, <2>5
  <2> QED BY <2>4, <2>5
<1>15. ASSUME NEW x \in Word, x < s
       PROVE  \E i \in DOMAIN out' : PieceOf(i, x)' /\ MapsAsOperands(i, x)'
  <2>1. PICK i \in DOMAIN out : PieceOf(i, x) /\ MapsAsOperands(i, x)
    BY <1>15 DEF Covered
  <2>2. i \in 1 .. n /\ i \in 1 .. n + 1 /\ out'[i] = out[i] BY <1>9, <1>10
  <2>3. MapsAsOperands(i, x)' BY <1>8, <2>1, <2>2 DEF MapsAsOperands
  <2>4. out'[i].source <= x BY <2>1, <2>2 DEF PieceOf
  <2>5. ASSUME i < n + 1 PROVE x < out'[i + 1].source
    <3>1. CASE i = n BY <1>7, <1>10, <1>15, <3>1
    <3>2. CASE i # n
      <4>1. i < n /\ i + 1 \in 1 .. n BY <1>9, <2>2, <3>2
      <4>2. out'[i + 1] = out[i + 1] BY <1>10, <4>1
      <4>3. x < out[i + 1].source BY <2>1, <4>1 DEF PieceOf, n
      <4> QED BY <4>2, <4>3
    <3> QED BY <3>1, <3>2
  <2>6. PieceOf(i, x)' BY <1>10, <2>4, <2>5 DEF PieceOf
  <2> QED BY <1>10, <2>2, <2>3, <2>6
<1>16. ASSUME NEW x \in Word, s <= x, x <= end
       PROVE  \E i \in DOMAIN out' : PieceOf(i, x)' /\ MapsAsOperands(i, x)'
  <2>0. x \in Int BY <1>3
  <2>1. x \in SegmentSource .. SegmentEnd /\ x - s <= NextBreak(b, img) - img
    <3> DEFINE m == NextBreak(b, img)
    <3>1. m \in Int BY <1>3, <1>5, <1>6
    <3> SUFFICES x \in SegmentSource .. SegmentEnd /\ x - s <= m - img OBVIOUS
    <3>2. end - s <= m - img BY <1>14
    <3> HIDE DEF m, end
    <3>3. end \in Int /\ end <= SegmentEnd BY <1>14
    <3> QED BY <1>4, <1>5, <1>16, <2>0, <3>1, <3>2, <3>3
  <2>2. RiftOffset(a, x) = RiftOffset(a, s) BY <1>2, <2>1
  <2>3. Wrap(x + (Mapped(b, img) - s)) = Mapped(b, Mapped(a, x))
    BY <1>1, <1>4, <1>16, <2>0, <2>1, <2>2, PieceMaps
  <2>4. PICK i \in DOMAIN out' : i = n + 1 BY <1>9, <1>10
  <2>5. out'[i] = new /\ Offset(new) = Mapped(b, img) - s BY <1>7, <1>10, <2>4 DEF Offset
  <2>6. MapsAsOperands(i, x)' BY <1>8, <2>3, <2>5 DEF MapsAsOperands
  <2>7. PieceOf(i, x)'
    <3>1. out'[i].source <= x BY <1>7, <1>16, <2>5
    <3>2. ~(i < Len(out')) BY <1>9, <1>10, <2>4
    <3> QED BY <3>1, <3>2 DEF PieceOf
  <2> QED BY <2>4, <2>6, <2>7
<1>17. Covered(PieceEnd + 1)'
  <2>1. ASSUME NEW x \in Word, x < end + 1
        PROVE  \E i \in DOMAIN out' : PieceOf(i, x)' /\ MapsAsOperands(i, x)'
    <3>1. x \in Int BY <1>3
    <3>2. CASE x < s BY <1>15, <3>2
    <3>3. CASE ~(x < s)
      <4>1. s <= x /\ x <= end
        <5>1. end \in Int BY <1>14
        <5> HIDE DEF end
        <5> QED BY <1>4, <2>1, <3>1, <3>3, <5>1
      <4> QED BY <1>16, <4>1
    <3> QED BY <3>2, <3>3
  <2> QED BY <2>1 DEF Covered
<1>18. AtSplit'
  <2>1. segment' \in 0 .. Len(a') /\ ~EmptySegment' BY <1>8, <1>13
  <2>2. source' \in SegmentSource' .. SegmentEnd' BY <1>8, <1>13
  <2>3. image' = Mapped(a', source') /\ image' \in Word BY <1>5, <1>8
  <2>4. nextBreak' = NextBreak(b', image') /\ nextBreak' \in image' .. Max BY <1>6, <1>8
  <2>5. out'[Len(out')] = Entry(source', Mapped(b', image')) BY <1>8, <1>10 DEF new
  <2> QED BY <1>11, <1>17, <2>1, <2>2, <2>3, <2>4, <2>5 DEF AtSplit
<1> QED BY <1>10, <1>11, <1>12, <1>18

-----------------------------------------------------------------------------
(***************************************************************************)
(* Every step keeps the walk's invariant.                                  *)
(***************************************************************************)
LEMMA StartKeeps == ASSUME WalkInv, StartMultiply PROVE WalkInv'
<1>1. a \in Table /\ Sorted(a) /\ b \in Table /\ Sorted(b) /\ out = <<>> /\ segment = 0
      /\ pc = "start"
  BY DEF WalkInv, WalkTypeOK, StartMultiply
<1>2. a' = a /\ b' = b /\ segment' = 0 BY <1>1 DEF StartMultiply
<1>3. Len(a) \in Nat BY <1>1, TableTyped
<1>4. CASE a = <<>> \/ b = <<>>
  <2>1. out' = (IF a = <<>> THEN b ELSE a) /\ pc' = "done" BY <1>4 DEF StartMultiply
  <2>2. WalkTypeOK' BY <1>1, <1>2, <1>3, <2>1 DEF WalkTypeOK
  <2>3. ASSUME NEW x \in Word PROVE Mapped(out', x) = Mapped(b, Mapped(a, x))
    <3>1. x \in Int BY WordsAre
    <3>2. CASE a = <<>> BY <2>1, <3>2, MappedByEmpty
    <3>3. CASE a # <<>>
      <4>1. b = <<>> /\ out' = a BY <1>4, <2>1, <3>3
      <4>2. Mapped(a, x) \in Word BY <1>1, <3>1, MappedTyped
      <4> QED BY <4>1, <4>2, MappedByEmpty
    <3> QED BY <3>2, <3>3
  <2>4. ReturnsProduct' BY <1>2, <2>3 DEF ReturnsProduct
  <2> QED BY <2>1, <2>2, <2>4 DEF WalkInv
<1>5. CASE ~(a = <<>> \/ b = <<>>)
  <2>1. out' = out /\ pc' = "next" BY <1>5 DEF StartMultiply
  <2>2. WalkTypeOK' BY <1>1, <1>2, <1>3, <2>1 DEF WalkInv, WalkTypeOK
  <2>3. NextStart' = Min BY <1>2, <1>3 DEF NextStart, SegmentSource
  <2>4. Covered(NextStart)'
    <3>1. \A x \in Word : ~(x < Min) BY WordsAre
    <3> QED BY <2>3, <3>1 DEF Covered
  <2>5. out' = <<>> /\ DOMAIN out' = {} BY <1>1, <2>1
  <2>6. Ascending' BY <2>5 DEF Ascending, StrictlySorted
  <2>7. AtNext' BY <2>3, <2>4, <2>5 DEF AtNext
  <2>8. ReturnsProduct' BY <2>1 DEF ReturnsProduct
  <2> QED BY <1>2, <1>5, <2>1, <2>2, <2>6, <2>7, <2>8 DEF WalkInv
<1> QED BY <1>4, <1>5

\* The steps of the product: a segment no position lies in is passed over,
LEMMA SkipKeeps == ASSUME WalkInv, SkipSegment PROVE WalkInv'
<1>1. /\ WalkTypeOK /\ Ascending /\ a # <<>> /\ b # <<>> /\ AtNext
      /\ pc = "next" /\ segment <= Len(a) /\ EmptySegment
  BY DEF WalkInv, SkipSegment
<1>2. /\ segment' = segment + 1 /\ a' = a /\ b' = b /\ out' = out /\ pc' = pc
  BY DEF SkipSegment, FollowingSegment
<1>3. Len(a) \in Nat /\ segment \in 0 .. Len(a) + 1 BY <1>1, TableTyped DEF WalkTypeOK
<1>4. segment < Len(a) /\ a[segment + 1].source = SegmentSource BY <1>1 DEF EmptySegment
<1>5. NextStart' = NextStart
  <2>1. NextStart = SegmentSource BY <1>1 DEF NextStart
  <2>2. segment + 1 <= Len(a) /\ segment + 1 # 0 BY <1>3, <1>4
  <2>3. NextStart' = a[segment + 1].source BY <1>2, <2>2 DEF NextStart, SegmentSource
  <2> QED BY <1>4, <2>1, <2>3
<1>6. WalkTypeOK'
  <2>1. segment' \in 0 .. Len(a) + 1 BY <1>2, <1>3, <1>4
  <2> QED BY <1>1, <1>2, <2>1 DEF WalkTypeOK
<1>7. Ascending' BY <1>1, <1>2 DEF Ascending
<1>8. AtNext'
  <2>1. Covered(NextStart)' BY <1>1, <1>2, <1>5 DEF AtNext, Covered, PieceOf, MapsAsOperands
  <2> QED BY <1>1, <1>2, <1>5, <2>1 DEF AtNext
<1>9. ReturnsProduct' BY <1>1, <1>2 DEF ReturnsProduct
<1> QED BY <1>1, <1>2, <1>6, <1>7, <1>8, <1>9 DEF WalkInv

\* ... a segment is entered at its first position,
LEMMA EnterKeeps == ASSUME WalkInv, EnterSegment PROVE WalkInv'
<1>1. /\ WalkTypeOK /\ Ascending /\ a # <<>> /\ b # <<>> /\ AtNext
      /\ pc = "next" /\ segment <= Len(a) /\ ~EmptySegment
  BY DEF WalkInv, EnterSegment
<1>2. /\ Emit(SegmentSource, SegmentImage) /\ UNCHANGED <<a, b, segment>> /\ pc' = "split"
  BY DEF EnterSegment
<1>3. Len(a) \in Nat /\ segment \in 0 .. Len(a)
  <2>1. Len(a) \in Nat /\ segment \in 0 .. Len(a) + 1 BY <1>1, TableTyped DEF WalkTypeOK
  <2> QED BY <1>1, <2>1
<1>4. NextStart = SegmentSource BY <1>1 DEF NextStart
<1>5. /\ SegmentImage = Mapped(a, SegmentSource)
      /\ SegmentSource \in Word /\ SegmentEnd \in Word /\ SegmentSource <= SegmentEnd
  BY <1>1, <1>3, SegmentIs
<1>6. SegmentSource \in SegmentSource .. SegmentEnd BY <1>5, WordsAre
<1>7. /\ Covered(SegmentSource) /\ \A i \in DOMAIN out : out[i].source < SegmentSource
      /\ out = <<>> => SegmentSource = Min
  BY <1>1, <1>4 DEF AtNext
<1>8. out' \in Table /\ out' # <<>> /\ Ascending' /\ AtSplit'
  BY <1>1, <1>2, <1>3, <1>5, <1>6, <1>7, EmitCovers
<1>9. WalkTypeOK' BY <1>1, <1>2, <1>8 DEF WalkTypeOK
<1>10. ReturnsProduct' BY <1>2 DEF ReturnsProduct
<1> QED BY <1>1, <1>2, <1>8, <1>9, <1>10 DEF WalkInv

\* Neither width reaches the number of words, so that they compare as they are.
LEMMA SplitsIs ==
  ASSUME WalkInv, pc = "split"
  PROVE  /\ Splits <=> nextBreak - image < SegmentEnd - source
         /\ SegmentSource \in Word /\ SegmentEnd \in Word /\ source \in Word
         /\ image \in Word /\ nextBreak \in Word /\ image <= nextBreak /\ source <= SegmentEnd
         /\ SegmentSource <= source
<1>1. WalkTypeOK /\ a # <<>> /\ AtSplit BY DEF WalkInv
<1>2. segment \in 0 .. Len(a) /\ ~EmptySegment BY <1>1 DEF AtSplit
<1>3. SegmentSource \in Word /\ SegmentEnd \in Word /\ SegmentSource <= SegmentEnd
  BY <1>1, <1>2, SegmentIs
<1>4. source \in SegmentSource .. SegmentEnd /\ image \in Word /\ nextBreak \in image .. Max
  BY <1>1 DEF AtSplit
<1>5. source \in Word /\ SegmentSource <= source /\ source <= SegmentEnd
  <2>1. SegmentSource \in Int /\ SegmentEnd \in Int /\ Min <= SegmentSource /\ SegmentEnd <= Max
    BY <1>3, WordsAre
  <2>2. source \in Int /\ SegmentSource <= source /\ source <= SegmentEnd BY <1>4, <2>1
  <2>3. Min <= source /\ source <= Max BY <2>1, <2>2, WordsAre
  <2> QED BY <2>2, <2>3, WordsAre
<1>6. nextBreak \in Word /\ image <= nextBreak
  <2>1. image \in Int /\ Min <= image /\ Max \in Int /\ Min \in Int BY <1>4, WordsAre
  <2>2. nextBreak \in Int /\ image <= nextBreak /\ nextBreak <= Max BY <1>4, <2>1
  <2>3. Min <= nextBreak BY <2>1, <2>2
  <2> QED BY <2>2, <2>3, WordsAre
<1>7. ASSUME NEW u \in Word, NEW w \in Word, u <= w
      PROVE  Unsigned(w - u) = w - u
  <2>1. u \in Int /\ w \in Int /\ Min <= u /\ w <= Max BY WordsAre
  <2>2. w - u \in 0 .. Words - 1 BY <1>7, <2>1, WordsAre
  <2> QED BY <2>2, UnsignedOf
<1>8. Unsigned(nextBreak - image) = nextBreak - image BY <1>4, <1>6, <1>7
<1>9. Unsigned(SegmentEnd - source) = SegmentEnd - source BY <1>3, <1>5, <1>7
<1>10. Splits <=> nextBreak - image < SegmentEnd - source BY <1>8, <1>9 DEF Splits
<1> QED BY <1>3, <1>4, <1>5, <1>6, <1>10

\* ... and split where its image leaves a segment of the other table,
LEMMA SplitKeeps == ASSUME WalkInv, Split PROVE WalkInv'
<1> DEFINE next == source + 1 + nextBreak - image
<1>1. /\ WalkTypeOK /\ Ascending /\ a # <<>> /\ b # <<>> /\ AtSplit
      /\ pc = "split" /\ Splits
  BY DEF WalkInv, Split
<1>2. /\ Emit(Wrap(next), Wrap(nextBreak + 1)) /\ a' = a /\ b' = b /\ pc' = pc
      /\ segment' = segment
  BY DEF Split
<1>3. /\ segment \in 0 .. Len(a) /\ ~EmptySegment /\ image = Mapped(a, source)
      /\ out # <<>> /\ out[Len(out)] = Entry(source, Mapped(b, image))
      /\ Covered(PieceEnd + 1)
  BY <1>1 DEF AtSplit
<1>4. /\ nextBreak - image < SegmentEnd - source
      /\ SegmentSource \in Word /\ SegmentEnd \in Word /\ source \in Word
      /\ image \in Word /\ nextBreak \in Word /\ image <= nextBreak /\ source <= SegmentEnd
      /\ SegmentSource <= source
  BY <1>1, SplitsIs
<1>5. /\ SegmentSource \in Int /\ SegmentEnd \in Int /\ source \in Int /\ image \in Int
      /\ nextBreak \in Int /\ SegmentEnd <= Max /\ Min <= SegmentSource
  BY <1>4, WordsAre
<1>6. PieceEnd + 1 = next
  <2>1. PieceEnd = source + (nextBreak - image) BY <1>4 DEF PieceEnd
  <2> QED BY <1>5, <2>1
<1>7. next \in Int /\ source < next /\ next <= SegmentEnd BY <1>4, <1>5
<1> HIDE DEF next
<1>8. next \in SegmentSource .. SegmentEnd BY <1>4, <1>5, <1>7
<1>9. Wrap(next) = next
  <2>1. Min <= next /\ next <= Max BY <1>4, <1>5, <1>7, WordsAre
  <2> QED BY <1>7, <2>1, WordsAre, WrapsWord
<1>10. Wrap(nextBreak + 1) = Mapped(a, next)
  <2> DEFINE A == RiftOffset(a, source)
             d == 1 + nextBreak - image
  <2>1. a \in Table BY <1>1 DEF WalkTypeOK
  <2>2. A \in Int /\ d \in Int BY <1>5, <2>1, MappedTyped
  <2>3. RiftOffset(a, next) = A
    <3>1. \A x \in SegmentSource .. SegmentEnd :
            RiftOffset(a, x) = RiftOffset(a, SegmentSource)
      BY <1>1, <1>3, SegmentIs
    <3>2. source \in SegmentSource .. SegmentEnd BY <1>4, <1>5
    <3> QED BY <1>8, <3>1, <3>2
  <2>4. Mapped(a, next) = Wrap(next + A) BY <2>3 DEF Mapped
  <2>5. image = Wrap(source + A) BY <1>3 DEF Mapped
  <2>6. next = source + d BY <1>5 DEF next
  <2>7. nextBreak + 1 = d + image BY <1>5
  <2> HIDE DEF A, d
  <2>8. Wrap(d + Wrap(source + A)) = Wrap(d + (source + A))
    <3>1. source + A \in Int BY <1>5, <2>2
    <3> QED BY <2>2, <3>1, WrapsSum
  <2>9. next + A = d + (source + A) BY <1>5, <2>2, <2>6
  <2> QED BY <2>4, <2>5, <2>7, <2>8, <2>9
<1>11. \A i \in DOMAIN out : out[i].source < next
  <2>1. out \in Table BY <1>1 DEF WalkTypeOK
  <2>2. /\ Len(out) \in Nat /\ DOMAIN out = 1 .. Len(out) /\ Len(out) \in 1 .. Len(out)
        /\ \A i \in DOMAIN out : out[i].source \in Int
    BY <1>3, <2>1, TableTyped
  <2>3. out[Len(out)].source = source BY <1>3 DEF Entry
  <2>4. TAKE i \in DOMAIN out
  <2>5. CASE i = Len(out) BY <1>7, <2>3, <2>5
  <2>6. CASE i # Len(out)
    <3>1. i < Len(out) /\ Len(out) \in DOMAIN out BY <2>2, <2>6
    <3>2. out[i].source < out[Len(out)].source BY <1>1, <3>1 DEF Ascending, StrictlySorted
    <3> QED BY <1>5, <1>7, <2>2, <2>3, <3>2
  <2> QED BY <2>5, <2>6
<1>12. out' \in Table /\ out' # <<>> /\ Ascending' /\ AtSplit'
  <2>1. Covered(next) BY <1>3, <1>6
  <2>2. Emit(next, Wrap(nextBreak + 1)) BY <1>2, <1>9
  <2>3. UNCHANGED <<a, b, segment>> BY <1>2
  <2> QED BY <1>1, <1>3, <1>8, <1>10, <1>11, <2>1, <2>2, <2>3, EmitCovers
<1>13. WalkTypeOK' BY <1>1, <1>2, <1>12 DEF WalkTypeOK
<1>14. ReturnsProduct' BY <1>1, <1>2 DEF ReturnsProduct
<1> QED BY <1>1, <1>2, <1>12, <1>13, <1>14 DEF WalkInv

\* ... it is left behind its last position,
LEMMA LeaveKeeps == ASSUME WalkInv, LeaveSegment PROVE WalkInv'
<1>1. /\ WalkTypeOK /\ Ascending /\ a # <<>> /\ b # <<>> /\ AtSplit
      /\ pc = "split" /\ ~Splits
  BY DEF WalkInv, LeaveSegment
<1>2. /\ segment' = segment + 1 /\ a' = a /\ b' = b /\ out' = out /\ pc' = "next"
  BY DEF LeaveSegment, FollowingSegment
<1>3. /\ segment \in 0 .. Len(a) /\ out # <<>>
      /\ out[Len(out)] = Entry(source, Mapped(b, image)) /\ Covered(PieceEnd + 1)
  BY <1>1 DEF AtSplit
<1>4. /\ ~(nextBreak - image < SegmentEnd - source)
      /\ SegmentEnd \in Word /\ source \in Word /\ source <= SegmentEnd
  BY <1>1, SplitsIs
<1>5. Len(a) \in Nat /\ segment \in Int /\ 0 <= segment /\ segment <= Len(a)
  <2>1. Len(a) \in Nat BY <1>1, TableTyped DEF WalkTypeOK
  <2> QED BY <1>3, <2>1
<1>6. PieceEnd = SegmentEnd BY <1>4 DEF PieceEnd
<1>7. SegmentEnd \in Int /\ source \in Int BY <1>4, WordsAre
<1>8. NextStart' = SegmentEnd + 1
  <2>1. CASE segment < Len(a)
    <3>1. segment + 1 <= Len(a) /\ segment + 1 # 0 /\ segment + 1 \in DOMAIN a
      <4>1. DOMAIN a = 1 .. Len(a) BY <1>1, TableTyped DEF WalkTypeOK
      <4> QED BY <1>5, <2>1, <4>1
    <3>2. NextStart' = a[segment + 1].source BY <1>2, <3>1 DEF NextStart, SegmentSource
    <3>3. SegmentEnd = a[segment + 1].source - 1 BY <2>1 DEF SegmentEnd
    <3>4. a[segment + 1].source \in Int BY <1>1, <3>1, TableTyped DEF WalkTypeOK
    <3> QED BY <3>2, <3>3, <3>4
  <2>2. CASE ~(segment < Len(a))
    <3>1. ~(segment + 1 <= Len(a)) BY <1>5, <2>2
    <3>2. NextStart' = Half BY <1>2, <3>1 DEF NextStart
    <3>3. SegmentEnd = Max BY <2>2 DEF SegmentEnd
    <3> QED BY <3>2, <3>3, WordsAre
  <2> QED BY <2>1, <2>2
<1>9. WalkTypeOK'
  <2>1. segment' \in 0 .. Len(a) + 1 BY <1>2, <1>5
  <2> QED BY <1>1, <1>2, <2>1 DEF WalkTypeOK
<1>10. Ascending' BY <1>1, <1>2 DEF Ascending
<1>11. \A i \in DOMAIN out : out[i].source < SegmentEnd + 1
  <2>1. out \in Table BY <1>1 DEF WalkTypeOK
  <2>2. /\ Len(out) \in Nat /\ DOMAIN out = 1 .. Len(out) /\ Len(out) \in 1 .. Len(out)
        /\ \A i \in DOMAIN out : out[i].source \in Int
    BY <1>3, <2>1, TableTyped
  <2>3. out[Len(out)].source = source BY <1>3 DEF Entry
  <2>4. TAKE i \in DOMAIN out
  <2>5. CASE i = Len(out) BY <1>4, <1>7, <2>3, <2>5
  <2>6. CASE i # Len(out)
    <3>1. i < Len(out) /\ Len(out) \in DOMAIN out BY <2>2, <2>6
    <3>2. out[i].source < out[Len(out)].source BY <1>1, <3>1 DEF Ascending, StrictlySorted
    <3> QED BY <1>4, <1>7, <2>2, <2>3, <3>2
  <2> QED BY <2>5, <2>6
<1>12. AtNext'
  <2>1. Covered(SegmentEnd + 1) BY <1>3, <1>6
  <2>2. Covered(NextStart)' BY <1>2, <1>8, <2>1 DEF Covered, PieceOf, MapsAsOperands
  <2> QED BY <1>2, <1>3, <1>8, <1>11, <2>2 DEF AtNext
<1>13. ReturnsProduct' BY <1>2 DEF ReturnsProduct
<1> QED BY <1>1, <1>2, <1>9, <1>10, <1>12, <1>13 DEF WalkInv

\* ... and the sort at the end finds the entries in order.
LEMMA SortKeeps == ASSUME WalkInv, Sort PROVE WalkInv'
<1>1. /\ WalkTypeOK /\ Ascending /\ a # <<>> /\ b # <<>> /\ AtNext
      /\ pc = "next" /\ segment > Len(a)
  BY DEF WalkInv, Sort
<1>2. out \in Table /\ StrictlySorted(out) BY <1>1 DEF WalkTypeOK, Ascending
<1>3. Sorted(out) /\ SortBySource(out) = out BY <1>2, SortKeepsAscending
<1>4. out' = out /\ a' = a /\ b' = b /\ pc' = "done" /\ segment' = segment
  BY <1>3 DEF Sort
<1>5. Covered(Half)
  <2>1. Len(a) \in Nat /\ segment \in 0 .. Len(a) + 1 BY <1>1, TableTyped DEF WalkTypeOK
  <2>2. ~(segment <= Len(a)) BY <1>1, <2>1
  <2> QED BY <1>1, <2>2 DEF AtNext, NextStart
<1>6. ASSUME NEW x \in Word PROVE Mapped(out, x) = Mapped(b, Mapped(a, x))
  <2>1. x \in Int /\ x < Half BY WordsAre
  <2>2. PICK i \in DOMAIN out : PieceOf(i, x) /\ MapsAsOperands(i, x)
    BY <1>5, <2>1 DEF Covered
  <2>3. SegmentOf(out, x) = i BY <1>2, <1>3, <2>1, <2>2, SegmentAt DEF PieceOf
  <2>4. Mapped(out, x) = Wrap(x + Wrap(Offset(out[i])))
    <3>1. out # <<>> BY <2>2
    <3> QED BY <2>3, <3>1 DEF Mapped, RiftOffset
  <2>5. Offset(out[i]) \in Int BY <1>2, <2>2, TableTyped
  <2> QED BY <2>1, <2>2, <2>4, <2>5, WrapsSum DEF MapsAsOperands
<1>7. WalkTypeOK' BY <1>1, <1>4 DEF WalkTypeOK
<1>8. ReturnsProduct' BY <1>4, <1>6 DEF ReturnsProduct
<1> QED BY <1>4, <1>7, <1>8 DEF WalkInv

-----------------------------------------------------------------------------
\* The walk starts with nothing mapped.
LEMMA InitWalkInv == ASSUME MultipliedAreTables, MultiplyInit PROVE WalkInv
<1>1. a \in Table /\ Sorted(a) /\ b \in Table /\ Sorted(b)
  BY DEF MultipliedAreTables, MultiplyInit
<1>2. out \in Table /\ out = <<>> BY DEF MultiplyInit, Table
<1>3. segment \in 0 .. Len(a) + 1
  <2>1. Len(a) \in Nat /\ segment = 0 BY <1>1, TableTyped DEF MultiplyInit
  <2> QED BY <2>1
<1>4. pc = "start" BY DEF MultiplyInit
<1>5. segment = 0 BY DEF MultiplyInit
<1> QED BY <1>1, <1>2, <1>3, <1>4, <1>5 DEF WalkInv, WalkTypeOK, ReturnsProduct

\* Every step of a product keeps the invariant.
LEMMA WalkStays == ASSUME WalkInv, [MultiplyNext]_multiplyVars PROVE WalkInv'
<1>1. CASE StartMultiply BY <1>1, StartKeeps
<1>2. CASE SkipSegment BY <1>2, SkipKeeps
<1>3. CASE EnterSegment BY <1>3, EnterKeeps
<1>4. CASE Split BY <1>4, SplitKeeps
<1>5. CASE LeaveSegment BY <1>5, LeaveKeeps
<1>6. CASE Sort BY <1>6, SortKeeps
<1>7. CASE UNCHANGED multiplyVars
  <2>1. /\ a' = a /\ b' = b /\ out' = out /\ pc' = pc /\ segment' = segment
        /\ source' = source /\ image' = image /\ nextBreak' = nextBreak
    BY <1>7 DEF multiplyVars
  <2> QED BY <2>1 DEF WalkInv, WalkTypeOK, Ascending, AtNext, AtSplit, Covered, PieceOf,
             MapsAsOperands, NextStart, PieceEnd, SegmentSource, SegmentEnd, EmptySegment,
             ReturnsProduct
<1> QED BY <1>1, <1>2, <1>3, <1>4, <1>5, <1>6, <1>7 DEF MultiplyNext

\* multiply's promise, result.f(x) == B.f(A.f(x)), at every position of the wrapped
\* number line: for every pair of sorted tables, of any length, and words of any width,
\* with equal sources, overlapping targets and sums that wrap.
THEOREM MultiplyAlwaysReturnsProduct == MultipliedAreTables => (MultiplySpec => []ReturnsProduct)
<1> SUFFICES ASSUME MultipliedAreTables PROVE MultiplySpec => []ReturnsProduct OBVIOUS
<1>1. MultiplyInit => WalkInv BY InitWalkInv
<1>2. WalkInv /\ [MultiplyNext]_multiplyVars => WalkInv' BY WalkStays
<1>3. WalkInv => ReturnsProduct BY DEF WalkInv
<1> QED BY <1>1, <1>2, <1>3, PTL DEF MultiplySpec
-----------------------------------------------------------------------------
(***************************************************************************)
(* The reversal.  A segment adds two intervals at most: where its image is *)
(* cut at the end of the number line, the rest of it starts at Min and is  *)
(* not cut again.                                                          *)
(***************************************************************************)
\* The segments walked so far.
Walked == IF active >= StopSegment THEN active - StopSegment
          ELSE active + Len(table) - StopSegment

RoomLeft ==
  \/ Len(intervals) <= 2 * Walked
  \/ Len(intervals) <= 2 * Walked + 1 /\ ImageStart = Min

AtWalk ==
  /\ table # <<>>
  /\ active \in DOMAIN table
  /\ boundary = Following(active)
  /\ RoomLeft

ReverseInv ==
  /\ TypeOK /\ Apart(intervals)
  /\ reversing = "start" => intervals = <<>> /\ inverse = <<>>
  /\ reversing = "walk" => AtWalk
  /\ Len(intervals) <= Capacity /\ reversing # "panic"

\* The piece walked: it is not empty unless the boundary is reached, its image does
\* not cross the end of the number line, and where that cuts it the rest starts at Min.
LEMMA SpanIs ==
  ASSUME TypeOK, AtWalk
  PROVE  /\ boundary \in DOMAIN table
         /\ SegmentOffset \in Int /\ ImageStart \in Word /\ Span \in Nat
         /\ ImageStart + Span <= Half
         /\ ImageEnd = IF ImageStart + Span = Half THEN Min ELSE ImageStart + Span
         /\ \/ Wrap(cursor + Span) = Source(boundary)
            \/ ImageStart # Min /\ Wrap(SegmentOffset + Wrap(cursor + Span)) = Min
<1> DEFINE o == SegmentOffset
           s == ImageStart
           toBoundary == Unsigned(Source(boundary) - cursor)
           toWrap     == Unsigned(Min - o - cursor)
           b1 == Source(boundary)
<1>1. /\ table \in Table /\ table # <<>> /\ cursor \in Word
      /\ active \in DOMAIN table /\ boundary = Following(active)
  BY DEF TypeOK, AtWalk
<1>2. Len(table) \in Nat /\ DOMAIN table = 1 .. Len(table) /\ Len(table) \in 1 .. Len(table)
  BY <1>1, TableTyped
<1>3. boundary \in DOMAIN table
  <2>1. CASE active < Len(table) BY <1>1, <1>2, <2>1 DEF Following
  <2>2. CASE ~(active < Len(table))
    <3>1. 1 \in DOMAIN table BY <1>2
    <3> QED BY <1>1, <2>2, <3>1 DEF Following
  <2> QED BY <2>1, <2>2
<1>4. o \in Int
  <2>1. Offset(table[active]) \in Int BY <1>1, TableTyped
  <2> QED BY <2>1, WrapTyped DEF SegmentOffset
<1>5. b1 \in Word /\ b1 \in Int BY <1>1, <1>3, TableTyped DEF Source
<1>6. cursor \in Int /\ Min \in Int /\ Half \in Int /\ Words \in Int /\ Words = 2 * Half
      /\ Min = -Half
  BY <1>1, WordsAre
<1>7. s \in Word /\ s \in Int /\ Min <= s /\ s < Half /\ s = Wrap(o + cursor)
  <2> HIDE DEF o
  <2>1. ImageStart = Wrap(o + cursor) BY DEF ImageStart, o
  <2>2. o + cursor \in Int BY <1>4, <1>6
  <2>3. s \in Word /\ s = Wrap(o + cursor) BY <2>1, <2>2, WrapTyped
  <2> QED BY <2>3, WordsAre
<1>8. Min - o - cursor \in Int /\ b1 - cursor \in Int
  <2> HIDE DEF o, b1
  <2> QED BY <1>4, <1>5, <1>6
<1>9. toBoundary \in 0 .. Words - 1 /\ toBoundary \in Nat BY <1>8, UnsignedIs
<1>10. toWrap \in 0 .. Words - 1 /\ toWrap \in Nat BY <1>8, UnsignedIs
<1>11. Span = IF s # Min /\ toWrap < toBoundary THEN toWrap ELSE toBoundary
  BY DEF Span
<1>12. s # Min => toWrap = Half - s
  <2> SUFFICES ASSUME s # Min PROVE toWrap = Half - s OBVIOUS
  <2> HIDE DEF o, s
  <2>1. PICK k \in Int : o + cursor = s + k * Words
    <3>1. o + cursor \in Int BY <1>4, <1>6
    <3> QED BY <1>7, <3>1, WrapIs
  <2>2. k * Words \in Int /\ (-1 - k) * Words = -Words - k * Words /\ -1 - k \in Int BY <1>6
  <2>3. Min - o - cursor = (Half - s) + (-1 - k) * Words
    BY <1>4, <1>6, <1>7, <2>1, <2>2
  <2>4. Half - s \in 0 .. Words - 1 BY <1>6, <1>7
  <2> QED BY <1>8, <2>2, <2>3, <2>4, UnsignedUnique
<1>13. Wrap(cursor + toBoundary) = b1
  <2> DEFINE u == toBoundary
  <2>1. PICK k \in Int : b1 - cursor = u + k * Words BY <1>8, UnsignedIs
  <2> SUFFICES Wrap(cursor + u) = b1 OBVIOUS
  <2> HIDE DEF b1, u
  <2>0. u \in Nat BY <1>9 DEF u
  <2>2. k * Words \in Int /\ (-k) * Words = -(k * Words) /\ -k \in Int BY <1>6
  <2>3. cursor + u = b1 + (-k) * Words BY <1>5, <1>6, <2>0, <2>1, <2>2
  <2>4. cursor + u \in Int BY <1>6, <2>0
  <2> QED BY <1>5, <2>2, <2>3, <2>4, WrapUnique
<1>14. s # Min => Wrap(o + Wrap(cursor + toWrap)) = Min
  <2> SUFFICES ASSUME s # Min PROVE Wrap(o + Wrap(cursor + toWrap)) = Min OBVIOUS
  <2> DEFINE u == toWrap
  <2>1. u \in Nat BY <1>10
  <2>2. PICK k \in Int : Min - o - cursor = u + k * Words BY <1>8, UnsignedIs
  <2> SUFFICES Wrap(o + Wrap(cursor + u)) = Min OBVIOUS
  <2> HIDE DEF o, u
  <2>3. cursor + u \in Int BY <1>6, <2>1
  <2>4. Wrap(o + Wrap(cursor + u)) = Wrap(o + (cursor + u)) BY <1>4, <2>3, WrapsSum
  <2>5. k * Words \in Int /\ (-k) * Words = -(k * Words) /\ -k \in Int BY <1>6
  <2>6. o + (cursor + u) = Min + (-k) * Words BY <1>4, <1>6, <2>1, <2>2, <2>5
  <2>7. o + (cursor + u) \in Int BY <1>4, <2>3
  <2>8. Min \in Word BY WordsAre
  <2> QED BY <2>4, <2>5, <2>6, <2>7, <2>8, WrapUnique
<1>15. Span \in Nat /\ s + Span <= Half
       /\ (Wrap(cursor + Span) = b1 \/ (s # Min /\ Wrap(o + Wrap(cursor + Span)) = Min))
  <2>1. CASE s # Min /\ toWrap < toBoundary
    <3>1. Span = toWrap /\ s + toWrap = Half
      <4> DEFINE u == toWrap
      <4>1. u = Half - s BY <1>12, <2>1
      <4>2. s + u = Half
        <5> HIDE DEF s, u
        <5> QED BY <1>6, <1>7, <4>1
      <4> QED BY <1>11, <2>1, <4>2
    <3> QED BY <1>6, <1>10, <1>14, <2>1, <3>1
  <2>2. CASE ~(s # Min /\ toWrap < toBoundary)
    <3>1. Span = toBoundary BY <1>11, <2>2
    <3>2. s + toBoundary <= Half
      <4> DEFINE u == toBoundary
                 w == toWrap
      <4>1. u \in Nat /\ u \in 0 .. Words - 1 /\ w \in Nat /\ (s # Min => w = Half - s)
        BY <1>9, <1>10, <1>12
      <4>2. ~(s # Min /\ w < u) BY <2>2
      <4> SUFFICES s + u <= Half OBVIOUS
      <4> HIDE DEF s, u, w
      <4>3. CASE s = Min BY <1>6, <1>7, <4>1, <4>3
      <4>4. CASE s # Min BY <1>6, <1>7, <4>1, <4>2, <4>4
      <4> QED BY <4>3, <4>4
    <3> QED BY <1>9, <1>13, <3>1, <3>2
  <2> QED BY <2>1, <2>2
<1>16. ImageEnd = IF s + Span = Half THEN Min ELSE s + Span
  <2> DEFINE n == Span
  <2>1. ImageEnd = Wrap(s + n) BY DEF ImageEnd
  <2>2. n \in Nat /\ s + n <= Half BY <1>15
  <2> SUFFICES ImageEnd = IF s + n = Half THEN Min ELSE s + n OBVIOUS
  <2> HIDE DEF s, n
  <2>3. CASE s + n = Half
    <3>1. Half \in Int /\ 1 \in Int /\ Half = Min + 1 * Words BY <1>6
    <3>2. Wrap(Half) = Min BY <3>1, WordsAre, WrapUnique
    <3> QED BY <2>1, <2>3, <3>2
  <2>4. CASE s + n # Half
    <3>1. s + n \in Int /\ Min <= s + n /\ s + n <= Max BY <1>6, <1>7, <2>2, <2>4, WordsAre
    <3>2. s + n \in Word BY <3>1, WordsAre
    <3>3. Wrap(s + n) = s + n BY <3>2, WrapsWord
    <3> QED BY <2>1, <2>4, <3>3
  <2> QED BY <2>3, <2>4
<1> QED BY <1>3, <1>4, <1>7, <1>15, <1>16

\* An interval of images.
Interval == [first : Word, end : Word]

\* The first of a set of indices.
LEMMA FirstOfIs ==
  ASSUME NEW n \in Nat, NEW S \in SUBSET (1 .. n)
  PROVE  LET f == FirstOf(S, n + 1) IN
         /\ f \in 1 .. n + 1
         /\ f <= n => f \in S
         /\ \A i \in S : f <= i
<1> DEFINE f == FirstOf(S, n + 1)
<1>1. CASE S = {} BY <1>1 DEF FirstOf
<1>2. CASE S # {}
  <2>1. f = CHOOSE i \in S : \A j \in S : i <= j BY <1>2 DEF FirstOf
  <2>2. \E i \in S : \A j \in S : i <= j BY <1>2, SmallestIndex
  <2> HIDE DEF f
  <2>3. f \in S /\ \A j \in S : f <= j BY <2>1, <2>2
  <2>4. f \in 1 .. n + 1 BY <2>3
  <2> QED BY <2>3, <2>4 DEF f
<1> QED BY <1>1, <1>2

\* What an interval is made of.
LEMMA IntervalsTyped ==
  ASSUME intervals \in Seq(Interval)
  PROVE  /\ Len(intervals) \in Nat /\ DOMAIN intervals = 1 .. Len(intervals)
         /\ \A i \in DOMAIN intervals :
              /\ intervals[i].first \in Word /\ intervals[i].end \in Word
              /\ intervals[i].first \in Int /\ intervals[i].end \in Int /\ i \in Int
<1>1. Len(intervals) \in Nat /\ DOMAIN intervals = 1 .. Len(intervals) OBVIOUS
<1>2. ASSUME NEW i \in DOMAIN intervals
      PROVE  /\ intervals[i].first \in Word /\ intervals[i].end \in Word
             /\ intervals[i].first \in Int /\ intervals[i].end \in Int /\ i \in Int
  <2>1. intervals[i] \in Interval OBVIOUS
  <2>2. intervals[i].first \in Word /\ intervals[i].end \in Word BY <2>1 DEF Interval
  <2>3. intervals[i].first \in Int /\ intervals[i].end \in Int BY <2>2, WordsAre
  <2>4. i \in Int BY <1>1
  <2> QED BY <2>2, <2>3, <2>4
<1> QED BY <1>1, <1>2

\* The intervals the image touches, and those on both sides of them.
LEMMA TouchedIs ==
  ASSUME intervals \in Seq(Interval), ImageStart \in Word, ImageEnd \in Word
  PROVE  /\ Touched \in 1 .. Len(intervals) + 1 /\ Behind \in 1 .. Len(intervals) + 1
         /\ Touched <= Behind
         /\ \A i \in DOMAIN intervals : i < Touched =>
              intervals[i].end # Min /\ intervals[i].end < ImageStart
         /\ Behind <= Len(intervals) =>
              ImageEnd # Min /\ ImageEnd < intervals[Behind].first
<1> DEFINE n == Len(intervals)
           S == {i \in DOMAIN intervals :
                   ImageStart <= intervals[i].end \/ intervals[i].end = Min}
           B == {i \in DOMAIN intervals :
                   i >= Touched /\ ImageEnd # Min /\ ImageEnd < intervals[i].first}
<1>1. n \in Nat /\ DOMAIN intervals = 1 .. n OBVIOUS
<1>2. \A i \in DOMAIN intervals : intervals[i].end \in Int /\ i \in Int
  BY IntervalsTyped
<1>3. ImageStart \in Int BY WordsAre
<1>4. S \in SUBSET (1 .. n) /\ B \in SUBSET (1 .. n) BY <1>1
<1>5. Touched = FirstOf(S, n + 1) /\ Behind = FirstOf(B, n + 1) BY DEF Touched, Behind
<1>6. \A i \in S : i \in DOMAIN intervals OBVIOUS
<1>7. \A i \in DOMAIN intervals :
        i \notin S => intervals[i].end # Min /\ intervals[i].end < ImageStart
  BY <1>2, <1>3
<1>8. \A i \in B : i >= Touched /\ ImageEnd # Min /\ ImageEnd < intervals[i].first
  OBVIOUS
<1> HIDE DEF n, S, B
<1>9. Touched \in 1 .. n + 1 /\ \A i \in S : Touched <= i BY <1>1, <1>4, <1>5, FirstOfIs
<1>10. Behind \in 1 .. n + 1 /\ (Behind <= n => Behind \in B)
  BY <1>1, <1>4, <1>5, FirstOfIs
<1>11. Touched <= Behind
  <2>1. CASE Behind <= n BY <1>8, <1>10, <2>1
  <2>2. CASE ~(Behind <= n) BY <1>1, <1>9, <1>10, <2>2
  <2> QED BY <2>1, <2>2
<1>12. ASSUME NEW i \in DOMAIN intervals, i < Touched
       PROVE  intervals[i].end # Min /\ intervals[i].end < ImageStart
  <2>1. i \notin S BY <1>1, <1>2, <1>9, <1>12
  <2> QED BY <1>7, <2>1
<1>13. Behind <= n => ImageEnd # Min /\ ImageEnd < intervals[Behind].first
  BY <1>8, <1>10
<1> QED BY <1>9, <1>10, <1>11, <1>12, <1>13 DEF n

\* What the touched intervals and the image become lies apart from the others.
LEMMA MergedIs ==
  ASSUME intervals \in Seq(Interval), Apart(intervals),
         ImageStart \in Word, ImageEnd \in Word, ImageEnd = Min \/ ImageStart < ImageEnd
  PROVE  /\ Merged \in Interval
         /\ Merged.end = Min \/ Merged.first < Merged.end
         /\ \A i \in DOMAIN intervals : i < Touched =>
              intervals[i].end # Min /\ intervals[i].end < Merged.first
         /\ Behind <= Len(intervals) =>
              Merged.end # Min /\ Merged.end < intervals[Behind].first
<1> DEFINE n == Len(intervals)
           s == ImageStart
           e == ImageEnd
           T == Touched
           B == Behind
<1>1. n \in Nat /\ DOMAIN intervals = 1 .. n OBVIOUS
<1>2. \A i \in DOMAIN intervals :
        /\ intervals[i].first \in Word /\ intervals[i].end \in Word
        /\ intervals[i].first \in Int /\ intervals[i].end \in Int /\ i \in Int
  BY IntervalsTyped
<1>3. s \in Int /\ e \in Int BY WordsAre
<1>4. /\ T \in 1 .. n + 1 /\ B \in 1 .. n + 1 /\ T <= B
      /\ \A i \in DOMAIN intervals : i < T => intervals[i].end # Min /\ intervals[i].end < s
      /\ B <= n => e # Min /\ e < intervals[B].first
  BY TouchedIs
<1>5. CASE T = B
  <2>1. Merged.first = s /\ Merged.end = e /\ Merged \in Interval
    BY <1>5 DEF Merged, Interval
  <2> QED BY <1>4, <2>1
<1>6. CASE T # B
  <2> DEFINE t == intervals[T].first
             l == LastEnd
             f == IF s < t THEN s ELSE t
  <2>1. T \in DOMAIN intervals /\ B - 1 \in DOMAIN intervals
    <3> HIDE DEF n, T, B
    <3> QED BY <1>1, <1>4, <1>6
  <2>2. t \in Int /\ t \in Word /\ l \in Int /\ l \in Word BY <1>2, <2>1 DEF LastEnd
  <2>3. AtEnd = <<>> <=> ~(l # Min /\ (e = Min \/ l < e)) BY DEF AtEnd
  <2>4. Merged.first = f /\ Merged.end = (IF AtEnd = <<>> THEN l ELSE e)
    BY <1>6 DEF Merged
  <2>5. f \in Word /\ f \in Int /\ f <= s /\ f <= t
    <3> HIDE DEF s, t
    <3> QED BY <1>3, <2>2 DEF s
  <2>6. Merged \in Interval
    <3>1. Merged = [first |-> f, end |-> IF AtEnd = <<>> THEN l ELSE e] BY <1>6 DEF Merged
    <3> HIDE DEF f, l, e
    <3>2. e \in Word BY DEF e
    <3> QED BY <2>2, <2>5, <3>1, <3>2 DEF Interval
  <2>7. ASSUME NEW i \in DOMAIN intervals, i < T
        PROVE  intervals[i].end # Min /\ intervals[i].end < f
    <3>1. intervals[i].end # Min /\ intervals[i].end < s BY <1>4, <2>7
    <3>2. intervals[i].end < t BY <2>1, <2>7 DEF Apart
    <3> QED BY <3>1, <3>2
  <2>8. B <= n => l # Min /\ l < intervals[B].first
    <3> SUFFICES ASSUME B <= n PROVE l # Min /\ l < intervals[B].first OBVIOUS
    <3> HIDE DEF n, B
    <3>1. B \in DOMAIN intervals /\ B - 1 \in DOMAIN intervals /\ B - 1 < B
      BY <1>1, <1>4, <2>1
    <3> QED BY <3>1 DEF Apart, LastEnd, B
  <2>9. CASE AtEnd = <<>>
    <3>1. Merged.end = l BY <2>4, <2>9
    <3>2. l = Min \/ (e # Min /\ e <= l) BY <1>3, <2>2, <2>3, <2>9
    <3>3. l = Min \/ f < l
      <4> HIDE DEF f, l, s, e
      <4>1. e = Min \/ s < e BY DEF s, e
      <4> QED BY <1>3, <2>2, <2>5, <3>2, <4>1
    <3> QED BY <2>4, <2>6, <2>7, <2>8, <3>1, <3>3
  <2>10. CASE AtEnd # <<>>
    <3>1. Merged.end = e BY <2>4, <2>10
    <3>2. e = Min \/ f < e
      <4> HIDE DEF f, s, e
      <4>1. e = Min \/ s < e BY DEF s, e
      <4> QED BY <1>3, <2>5, <4>1
    <3> QED BY <1>4, <2>4, <2>6, <2>7, <3>1, <3>2
  <2> QED BY <2>9, <2>10
<1> QED BY <1>5, <1>6

\* What is in place of the intervals: those in front of the touched ones, the
\* merged one, and those behind.
LEMMA ReplacedIs ==
  ASSUME intervals \in Seq(Interval), Apart(intervals),
         ImageStart \in Word, ImageEnd \in Word, ImageEnd = Min \/ ImageStart < ImageEnd
  PROVE  LET n == Len(intervals)
             r == ReplacedIntervals
         IN  /\ r \in Seq(Interval) /\ Len(r) = Touched + (n - Behind + 1)
             /\ DOMAIN r = 1 .. Touched + (n - Behind + 1)
             /\ r[Touched] = Merged
             /\ \A i \in 1 .. n : i < Touched => i \in DOMAIN r /\ r[i] = intervals[i]
             /\ \A i \in 1 .. n : i >= Behind => \E j \in DOMAIN r : r[j] = intervals[i]
             /\ \A i \in DOMAIN r :
                  \/ i \in 1 .. Touched - 1 /\ i \in 1 .. n /\ i < Touched /\ r[i] = intervals[i]
                  \/ i = Touched /\ r[i] = Merged
                  \/ i > Touched /\ \E j \in 1 .. n :
                       j >= Behind /\ j - Behind = i - Touched - 1 /\ r[i] = intervals[j]
<1> DEFINE n == Len(intervals)
           T == Touched
           B == Behind
           p == SubSeq(intervals, 1, T - 1)
           q == SubSeq(intervals, B, n)
           m == Merged
           r == ReplacedIntervals
<1>1. n \in Nat /\ DOMAIN intervals = 1 .. n OBVIOUS
<1>2. T \in 1 .. n + 1 /\ B \in 1 .. n + 1 /\ T <= B BY TouchedIs
<1>3. m \in Interval BY MergedIs
<1>4. r = p \o <<m>> \o q BY DEF ReplacedIntervals
<1> HIDE DEF T, B, m, r
<1>5. p \in Seq(Interval) /\ Len(p) = T - 1 /\ \A i \in 1 .. T - 1 : p[i] = intervals[i]
  BY <1>1, <1>2
<1>6. /\ q \in Seq(Interval) /\ Len(q) = n - B + 1
      /\ \A i \in 1 .. n - B + 1 : q[i] = intervals[B + i - 1]
  <2>1. CASE B <= n BY <1>1, <1>2, <2>1
  <2>2. CASE ~(B <= n) BY <1>1, <1>2, <2>2
  <2> QED BY <2>1, <2>2
<1> HIDE DEF n, p, q
<1>7. /\ r \in Seq(Interval) /\ Len(r) = T + (n - B + 1) /\ DOMAIN r = 1 .. T + (n - B + 1)
      /\ \A i \in 1 .. T - 1 : r[i] = p[i]
      /\ r[T] = m
      /\ \A i \in 1 .. n - B + 1 : r[T + i] = q[i]
  <2> DEFINE u == p \o <<m>>
  <2>1. /\ u \in Seq(Interval) /\ Len(u) = T
        /\ \A i \in 1 .. T - 1 : u[i] = p[i]
        /\ u[T] = m
    BY <1>2, <1>3, <1>5
  <2>2. r = u \o q BY <1>4
  <2> HIDE DEF u
  <2>7. r \in Seq(Interval) /\ Len(r) = Len(u) + Len(q)
    <3>1. ASSUME NEW x \in Seq(Interval), NEW y \in Seq(Interval)
          PROVE  x \o y \in Seq(Interval) /\ Len(x \o y) = Len(x) + Len(y)
      OBVIOUS
    <3>2. u \in Seq(Interval) /\ q \in Seq(Interval) BY <1>6, <2>1
    <3> QED BY <2>2, <3>1, <3>2
  <2>3. r \in Seq(Interval) /\ Len(r) = T + (n - B + 1) BY <1>1, <1>2, <1>6, <2>1, <2>7
  <2>4. DOMAIN r = 1 .. T + (n - B + 1) BY <2>3
  <2>5. \A i \in 1 .. T : r[i] = u[i] BY <1>1, <1>2, <1>6, <2>1, <2>2
  <2>6. \A i \in 1 .. n - B + 1 : r[T + i] = q[i] BY <1>1, <1>2, <1>6, <2>1, <2>2
  <2> QED BY <1>2, <2>1, <2>3, <2>4, <2>5, <2>6
\* An index lies in front of the merged one, on it or behind it.
<1>8. ASSUME NEW i \in DOMAIN r
      PROVE  \/ i \in 1 .. T - 1 /\ i \in 1 .. n /\ i < T /\ r[i] = intervals[i]
             \/ i = T /\ r[i] = m
             \/ i > T /\ \E j \in 1 .. n : j >= B /\ j - B = i - T - 1 /\ r[i] = intervals[j]
  <2>1. i \in 1 .. T + (n - B + 1) BY <1>7
  <2>2. CASE i < T
    <3>1. i \in 1 .. T - 1 /\ i \in 1 .. n BY <1>1, <1>2, <2>1, <2>2
    <3> QED BY <1>5, <1>7, <2>2, <3>1
  <2>3. CASE i = T BY <1>7, <2>3
  <2>4. CASE i > T
    <3>1. i - T \in 1 .. n - B + 1 BY <1>1, <1>2, <2>1, <2>4
    <3>2. r[T + (i - T)] = q[i - T] /\ q[i - T] = intervals[B + (i - T) - 1]
      BY <1>6, <1>7, <3>1
    <3>3. T + (i - T) = i BY <1>2, <2>1
    <3>4. B + (i - T) - 1 \in 1 .. n BY <1>1, <1>2, <3>1
    <3>5. PICK j \in 1 .. n : j = B + (i - T) - 1 BY <3>4
    <3>6. j >= B /\ j - B = i - T - 1 BY <1>1, <1>2, <2>1, <3>1, <3>5
    <3> QED BY <2>4, <3>2, <3>3, <3>5, <3>6
  <2> QED BY <1>2, <2>1, <2>2, <2>3, <2>4
<1>9. ASSUME NEW i \in 1 .. n, i < T PROVE i \in DOMAIN r /\ r[i] = intervals[i]
  <2>1. i \in 1 .. T - 1 /\ i \in 1 .. T + (n - B + 1) BY <1>1, <1>2, <1>9
  <2> QED BY <1>5, <1>7, <2>1
<1>10. ASSUME NEW i \in 1 .. n, i >= B PROVE \E j \in DOMAIN r : r[j] = intervals[i]
  <2>1. i - B + 1 \in 1 .. n - B + 1 /\ B + (i - B + 1) - 1 = i BY <1>1, <1>2, <1>10
  <2>2. r[T + (i - B + 1)] = intervals[i] BY <1>6, <1>7, <2>1
  <2>3. T + (i - B + 1) \in 1 .. T + (n - B + 1) BY <1>1, <1>2, <2>1
  <2> QED BY <1>7, <2>2, <2>3
<1> QED BY <1>7, <1>8, <1>9, <1>10 DEF n, T, B, m, r

\* Taking the merged one for those touched keeps the intervals apart.
LEMMA ReplacedApart ==
  ASSUME intervals \in Seq(Interval), Apart(intervals),
         ImageStart \in Word, ImageEnd \in Word, ImageEnd = Min \/ ImageStart < ImageEnd
  PROVE  /\ ReplacedIntervals \in Seq(Interval) /\ Apart(ReplacedIntervals)
         /\ Len(ReplacedIntervals) <= Len(intervals) + 1
<1> DEFINE n == Len(intervals)
           T == Touched
           B == Behind
           m == Merged
           r == ReplacedIntervals
<1>1. n \in Nat /\ DOMAIN intervals = 1 .. n OBVIOUS
<1>2. T \in 1 .. n + 1 /\ B \in 1 .. n + 1 /\ T <= B BY TouchedIs
<1>3. /\ m \in Interval /\ (m.end = Min \/ m.first < m.end)
      /\ \A i \in 1 .. n : i < T => intervals[i].end # Min /\ intervals[i].end < m.first
      /\ B <= n => m.end # Min /\ m.end < intervals[B].first
  BY <1>1, MergedIs
<1>7. /\ r \in Seq(Interval) /\ Len(r) = T + (n - B + 1) /\ DOMAIN r = 1 .. T + (n - B + 1)
      /\ r[T] = m
  BY ReplacedIs
<1>8. ASSUME NEW i \in DOMAIN r
      PROVE  \/ i \in 1 .. T - 1 /\ i \in 1 .. n /\ i < T /\ r[i] = intervals[i]
             \/ i = T /\ r[i] = m
             \/ i > T /\ \E j \in 1 .. n : j >= B /\ j - B = i - T - 1 /\ r[i] = intervals[j]
  BY ReplacedIs
<1> HIDE DEF n, T, B, m, r
<1>9. \A i \in 1 .. n : intervals[i].end = Min \/ intervals[i].first < intervals[i].end
  BY <1>1 DEF Apart, n
<1>10. \A i \in 1 .. n : \A j \in 1 .. n : i < j =>
         intervals[i].end # Min /\ intervals[i].end < intervals[j].first
  BY <1>1 DEF Apart, n
<1>11. \A i \in DOMAIN r : r[i].end = Min \/ r[i].first < r[i].end BY <1>3, <1>8, <1>9
<1>12. m.first \in Int /\ m.end \in Int
       /\ \A i \in 1 .. n : intervals[i].first \in Int /\ intervals[i].end \in Int
  <2>1. \A i \in 1 .. n : intervals[i] \in Interval BY <1>1 DEF n
  <2>2. \A i \in 1 .. n : intervals[i].first \in Word /\ intervals[i].end \in Word
    BY <2>1 DEF Interval
  <2>3. m.first \in Word /\ m.end \in Word BY <1>3 DEF Interval
  <2> QED BY <2>2, <2>3, WordsAre
<1>13. \A i \in 1 .. n : i >= B => m.end # Min /\ m.end < intervals[i].first
  <2>1. TAKE i \in 1 .. n
  <2>2. HAVE i >= B
  <2>3. B \in 1 .. n /\ B <= n BY <1>1, <1>2, <2>2
  <2>4. m.end # Min /\ m.end < intervals[B].first BY <1>3, <2>3
  <2>5. CASE i = B BY <2>4, <2>5
  <2>6. CASE i # B
    <3>1. B < i BY <1>1, <2>2, <2>3, <2>6
    <3>2. intervals[B].end # Min /\ intervals[B].end < intervals[i].first BY <1>10, <2>3, <3>1
    <3>3. intervals[B].first < intervals[B].end BY <1>9, <2>3, <3>2
    <3>4. intervals[B].first \in Int /\ intervals[B].end \in Int /\ intervals[i].first \in Int
      BY <1>12, <2>3
    <3> QED BY <1>12, <2>4, <3>2, <3>3, <3>4
  <2> QED BY <2>5, <2>6
<1>14. ASSUME NEW i \in DOMAIN r, NEW j \in DOMAIN r, i < j
       PROVE  r[i].end # Min /\ r[i].end < r[j].first
  <2>0. i \in Int /\ j \in Int BY <1>7
  <2>1. CASE i < T
    <3>1. i \in 1 .. n /\ r[i] = intervals[i] BY <1>2, <1>8, <2>0, <2>1
    <3>2. CASE j < T
      <4>1. j \in 1 .. n /\ r[j] = intervals[j] BY <1>2, <1>8, <2>0, <3>2
      <4> QED BY <1>10, <1>14, <3>1, <4>1
    <3>3. CASE j = T
      <4>1. r[j] = m BY <1>7, <3>3
      <4> QED BY <1>3, <2>1, <3>1, <4>1
    <3>4. CASE j > T
      <4>1. PICK k \in 1 .. n : k >= B /\ r[j] = intervals[k] BY <1>2, <1>8, <2>0, <3>4
      <4>2. i < k BY <1>1, <1>2, <2>0, <2>1, <4>1
      <4> QED BY <1>10, <3>1, <4>1, <4>2
    <3> QED BY <1>2, <2>0, <3>2, <3>3, <3>4
  <2>2. CASE i = T
    <3>1. r[i] = m BY <1>7, <2>2
    <3>2. PICK k \in 1 .. n : k >= B /\ r[j] = intervals[k]
      BY <1>2, <1>8, <1>14, <2>0, <2>2
    <3> QED BY <1>13, <3>1, <3>2
  <2>3. CASE i > T
    <3>1. PICK k \in 1 .. n : k >= B /\ k - B = i - T - 1 /\ r[i] = intervals[k]
      BY <1>2, <1>8, <2>0, <2>3
    <3>2. PICK l \in 1 .. n : l >= B /\ l - B = j - T - 1 /\ r[j] = intervals[l]
      BY <1>2, <1>8, <1>14, <2>0, <2>3
    <3>3. k < l BY <1>1, <1>2, <1>14, <2>0, <3>1, <3>2
    <3> QED BY <1>10, <3>1, <3>2, <3>3
  <2> QED BY <1>2, <2>0, <2>1, <2>2, <2>3
<1>15. Apart(r) BY <1>11, <1>14 DEF Apart
<1>16. Len(r) <= n + 1 BY <1>1, <1>2, <1>7
<1> QED BY <1>7, <1>15, <1>16 DEF r, n

\* What a piece emits is a table.
LEMMA EmittedTyped == ASSUME TypeOK, AtWalk PROVE Emitted \in Table
<1> DEFINE n == Len(intervals)
           T == Touched
           B == Behind
           E == [source : Word, target : Word]
<1>1. intervals \in Seq(Interval) /\ cursor \in Word BY DEF TypeOK, Interval
<1>2. /\ n \in Nat /\ DOMAIN intervals = 1 .. n
      /\ \A i \in 1 .. n : intervals[i].end \in Word /\ intervals[i].end \in Int
  BY <1>1, IntervalsTyped
<1>3. SegmentOffset \in Int /\ ImageStart \in Word /\ ImageEnd \in Word
  <2>1. SegmentOffset \in Int /\ ImageStart \in Word /\ ImageStart \in Int /\ Span \in Nat
    BY SpanIs, WordsAre
  <2>2. ImageStart + Span \in Int BY <2>1
  <2>3. ImageEnd \in Word BY <2>2, WrapTyped DEF ImageEnd
  <2> QED BY <2>1, <2>3
<1>4. T \in 1 .. n + 1 /\ B \in 1 .. n + 1 /\ T <= B BY <1>1, <1>3, TouchedIs
<1>5. Entry(ImageStart, cursor) \in E BY <1>1, <1>3 DEF Entry
<1>6. ASSUME NEW i \in 1 .. n PROVE Resumed(intervals[i].end) \in E
  <2> DEFINE e == intervals[i].end
  <2>1. e \in Word /\ e \in Int BY <1>2
  <2> HIDE DEF e
  <2>2. Wrap(e - SegmentOffset) \in Word
    <3>1. e - SegmentOffset \in Int BY <1>3, <2>1
    <3> QED BY <3>1, WrapTyped
  <2>3. Resumed(e) \in E BY <2>1, <2>2 DEF Resumed, Entry
  <2> QED BY <2>3 DEF e
<1> HIDE DEF n, E, T, B
<1>7. \A x \in E : <<x>> \in Seq(E) OBVIOUS
<1>8. <<>> \in Seq(E) OBVIOUS
<1>9. CASE T = B
  <2>1. Emitted = <<Entry(ImageStart, cursor)>> BY <1>9 DEF Emitted, T, B
  <2> QED BY <1>5, <1>7, <2>1 DEF Table, E
<1>10. CASE T # B
  <2>1. Emitted = InFront \o Between \o AtEnd BY <1>10 DEF Emitted, T, B
  <2>2. InFront \in Seq(E) BY <1>5, <1>7, <1>8 DEF InFront
  <2>3. B - 1 \in 1 .. n /\ B - 1 - T \in Nat BY <1>2, <1>4, <1>10
  <2>4. Between \in Seq(E)
    <3>1. \A k \in 1 .. B - 1 - T : T + k - 1 \in 1 .. n BY <1>2, <1>4, <2>3
    <3>2. \A k \in 1 .. B - 1 - T : Resumed(intervals[T + k - 1].end) \in E BY <1>6, <3>1
    <3>3. Between = [k \in 1 .. B - 1 - T |-> Resumed(intervals[T + k - 1].end)]
      BY DEF Between, T, B
    <3>4. Between \in [1 .. B - 1 - T -> E] BY <3>2, <3>3, Zenon
    <3> QED BY <2>3, <3>4
  <2>5. Resumed(LastEnd) \in E BY <1>6, <2>3 DEF LastEnd, B
  <2>6. AtEnd \in Seq(E) BY <1>7, <1>8, <2>5 DEF AtEnd
  <2>7. ASSUME NEW u \in Seq(E), NEW v \in Seq(E) PROVE u \o v \in Seq(E) OBVIOUS
  <2>8. InFront \o Between \in Seq(E) BY <2>2, <2>4, <2>7
  <2>9. (InFront \o Between) \o AtEnd \in Seq(E) BY <2>6, <2>7, <2>8
  <2> QED BY <2>1, <2>9 DEF Table, E
<1> QED BY <1>9, <1>10

\* What is left is a table: the entries left have different sources, and so
\* every place is that of one of them, and they ascend.
LEMMA CleanedTyped ==
  ASSUME NEW t \in Table
  PROVE  /\ Cleaned(t) \in Table /\ StrictlySorted(Cleaned(t))
         /\ \A i \in Left(t) : \E k \in DOMAIN Cleaned(t) : Cleaned(t)[k] = t[i]
         /\ \A k \in DOMAIN Cleaned(t) : \E i \in Left(t) : Cleaned(t)[k] = t[i]
<1> DEFINE n == Len(t)
           L == Left(t)
           c == Cardinality(L)
           P(i) == {j \in L : t[j].source <= t[i].source}
           E == [source : Word, target : Word]
<1>1. /\ n \in Nat /\ DOMAIN t = 1 .. n
      /\ \A i \in 1 .. n : i \in Int /\ t[i] \in E /\ t[i].source \in Int
  BY TableTyped
<1>2. L \in SUBSET (1 .. n) BY <1>1 DEF Left
<1>3. IsFiniteSet(L)
  <2>1. IsFiniteSet(1 .. n) BY <1>1, FS_Interval
  <2> QED BY <1>2, <2>1, FS_Subset
<1>4. c \in Nat BY <1>3, FS_CardinalityType
<1>5. \A i, j \in L : i < j => t[i].source # t[j].source BY DEF Left
<1>6. \A i, j \in L : i # j => t[i].source # t[j].source
  <2>1. TAKE i, j \in L
  <2>2. HAVE i # j
  <2>3. i \in Int /\ j \in Int BY <1>1, <1>2
  <2>4. i < j \/ j < i BY <2>2, <2>3
  <2> QED BY <1>5, <2>4
<1>7. \A i \in L : Place(t, i) = Cardinality(P(i)) BY DEF Place
<1> HIDE DEF n, L, E
<1>8. \A i \in L : IsFiniteSet(P(i)) /\ Cardinality(P(i)) \in Nat /\ Cardinality(P(i)) <= c
  <2>1. TAKE i \in L
  <2>2. P(i) \in SUBSET L OBVIOUS
  <2>3. IsFiniteSet(P(i)) /\ Cardinality(P(i)) <= c BY <1>3, <2>2, FS_Subset
  <2> QED BY <2>3, FS_CardinalityType
<1>9. \A i \in L : Cardinality(P(i)) \in 1 .. c
  <2>1. TAKE i \in L
  <2>2. i \in P(i) BY <1>1, <1>2
  <2>3. P(i) # {} BY <2>2
  <2>4. Cardinality(P(i)) # 0 BY <1>8, <2>3, FS_EmptySet
  <2> DEFINE p == Cardinality(P(i))
  <2>5. p \in Nat /\ p <= c /\ p # 0 /\ c \in Nat BY <1>4, <1>8, <2>4
  <2> HIDE DEF p, c
  <2>6. p \in 1 .. c BY <2>5
  <2> QED BY <2>6 DEF p
<1>10. \A i, j \in L : t[i].source < t[j].source => Cardinality(P(i)) # Cardinality(P(j))
  <2>1. TAKE i, j \in L
  <2>2. HAVE t[i].source < t[j].source
  <2>3. \A k \in L : t[k].source \in Int BY <1>1, <1>2
  <2>4. P(i) \in SUBSET P(j) BY <2>2, <2>3
  <2>5. j \in P(j) /\ j \notin P(i) BY <2>2, <2>3
  <2>6. P(i) # P(j) BY <2>5
  <2>7. IsFiniteSet(P(j)) BY <1>8
  <2> QED BY <2>4, <2>6, <2>7, FS_Subset
<1>11. \A i, j \in L : i # j => Place(t, i) # Place(t, j)
  <2>1. TAKE i, j \in L
  <2>2. HAVE i # j
  <2>3. t[i].source \in Int /\ t[j].source \in Int BY <1>1, <1>2
  <2>4. t[i].source # t[j].source BY <1>6, <2>2
  <2>5. t[i].source < t[j].source \/ t[j].source < t[i].source BY <2>3, <2>4
  <2>6. Cardinality(P(i)) # Cardinality(P(j)) BY <1>10, <2>5
  <2> QED BY <1>7, <2>6
<1>12. \A i \in L : Place(t, i) \in 1 .. c BY <1>7, <1>9
<1> HIDE DEF P
<1>13. ASSUME NEW k \in 1 .. c PROVE \E i \in L : Place(t, i) = k
  <2> SUFFICES ASSUME \A i \in L : Place(t, i) # k PROVE FALSE OBVIOUS
  <2> DEFINE C == (1 .. c) \ {k}
             f == [i \in L |-> Place(t, i)]
  <2>1. f \in [L -> C] BY <1>12
  <2>2. IsFiniteSet(1 .. c) /\ Cardinality(1 .. c) = c BY <1>4, FS_Interval
  <2>3. IsFiniteSet(C) /\ Cardinality(C) = c - 1 BY <2>2, FS_RemoveElement
  <2>4. Cardinality(C) < Cardinality(L) BY <1>4, <2>3
  <2> HIDE DEF C, c, f
  <2>5. \E x, y \in L : x # y /\ f[x] = f[y] BY <1>3, <2>1, <2>3, <2>4, FS_PigeonHole
  <2> QED BY <1>11, <2>5 DEF f
<1> DEFINE at(k) == CHOOSE i \in L : Place(t, i) = k
<1>14. ASSUME NEW k \in 1 .. c PROVE at(k) \in L /\ Place(t, at(k)) = k /\ t[at(k)] \in E
  <2>1. at(k) \in L /\ Place(t, at(k)) = k BY <1>13
  <2> QED BY <1>1, <1>2, <2>1
<1>15. Cleaned(t) = [k \in 1 .. c |-> t[at(k)]]
  BY DEF Cleaned, L
<1> HIDE DEF at
<1>16. Cleaned(t) \in [1 .. c -> E] BY <1>14, <1>15, Zenon
<1>17. DOMAIN Cleaned(t) = 1 .. c /\ \A k \in 1 .. c : Cleaned(t)[k] = t[at(k)] BY <1>15
<1>18. ASSUME NEW i \in L PROVE \E k \in 1 .. c : Cleaned(t)[k] = t[i]
  <2> DEFINE k == Place(t, i)
  <2>1. k \in 1 .. c BY <1>12
  <2>2. at(k) \in L /\ Place(t, at(k)) = k BY <1>14, <2>1
  <2>3. at(k) = i BY <1>11, <2>2
  <2> QED BY <1>17, <2>1, <2>3
<1>19. ASSUME NEW k \in 1 .. c, NEW l \in 1 .. c, k < l
       PROVE  Cleaned(t)[k].source < Cleaned(t)[l].source
  <2> DEFINE i == at(k)
             j == at(l)
  <2>1. i \in L /\ j \in L /\ Place(t, i) = k /\ Place(t, j) = l BY <1>14
  <2>2. Cleaned(t)[k] = t[i] /\ Cleaned(t)[l] = t[j] BY <1>17
  <2> HIDE DEF i, j
  <2>3. t[i].source \in Int /\ t[j].source \in Int BY <1>1, <1>2, <2>1
  <2>4. ASSUME t[j].source <= t[i].source PROVE FALSE
    <3>1. \A m \in L : t[m].source \in Int BY <1>1, <1>2
    <3>2. P(j) \in SUBSET P(i) BY <2>3, <2>4, <3>1 DEF P
    <3>3. IsFiniteSet(P(i)) BY <1>8, <2>1
    <3>4. Cardinality(P(j)) <= Cardinality(P(i)) BY <3>2, <3>3, FS_Subset
    <3>5. l <= k BY <1>7, <2>1, <3>4
    <3> QED BY <1>4, <1>19, <3>5
  <2> QED BY <2>2, <2>3, <2>4
<1>20. StrictlySorted(Cleaned(t)) BY <1>17, <1>19 DEF StrictlySorted
<1>21. \A k \in 1 .. c : \E i \in L : Cleaned(t)[k] = t[i] BY <1>14, <1>17
<1> HIDE DEF c
<1>22. Cleaned(t) \in Seq(E) BY <1>4, <1>16
<1> QED BY <1>17, <1>18, <1>20, <1>21, <1>22 DEF Table, E, L


\* The entry a walk stops at, and the one behind an entry.
LEMMA StopIs ==
  ASSUME table \in Table, table # <<>>
  PROVE  /\ Len(table) \in Nat \ {0} /\ DOMAIN table = 1 .. Len(table)
         /\ StopSegment \in 1 .. Len(table)
         /\ \A i \in 1 .. Len(table) : Following(i) \in 1 .. Len(table)
<1>1. Len(table) \in 1 .. Len(table) /\ DOMAIN table = 1 .. Len(table) /\ Len(table) \in Nat
  BY TableTyped
<1>2. Len(table) \in Nat \ {0} BY <1>1
<1>3. StopSegment \in 1 .. Len(table)
  <2>1. CASE Positive = {} \/ FirstPositive = 1 BY <1>1, <2>1 DEF StopSegment
  <2>2. CASE ~(Positive = {} \/ FirstPositive = 1)
    <3>1. Positive \in SUBSET (1 .. Len(table)) BY <1>1 DEF Positive
    <3>2. \E i \in Positive : \A j \in Positive : i <= j BY <1>1, <2>2, <3>1, SmallestIndex
    <3>3. FirstPositive \in Positive BY <3>2 DEF FirstPositive
    <3>4. FirstPositive \in 1 .. Len(table) /\ FirstPositive # 1 BY <2>2, <3>1, <3>3
    <3>5. StopSegment = FirstPositive - 1 BY <2>2 DEF StopSegment
    <3> QED BY <1>1, <3>4, <3>5
  <2> QED BY <2>1, <2>2
<1>4. \A i \in 1 .. Len(table) : Following(i) \in 1 .. Len(table)
  BY <1>2 DEF Following
<1> QED BY <1>1, <1>2, <1>3, <1>4

\* The segments walked before an entry; one more when the next is not the last.
LEMMA WalkedIs ==
  ASSUME table \in Table, active \in DOMAIN table
  PROVE  /\ Walked \in 0 .. Len(table) - 1
         /\ Following(active) # StopSegment =>
              (IF Following(active) >= StopSegment THEN Following(active) - StopSegment
               ELSE Following(active) + Len(table) - StopSegment) = Walked + 1
<1>1. table # <<>> OBVIOUS
<1>2. /\ Len(table) \in Nat \ {0} /\ active \in 1 .. Len(table)
      /\ StopSegment \in 1 .. Len(table)
  BY <1>1, StopIs
<1> QED BY <1>2 DEF Walked, Following

\* The steps of the reversal: the walk starts in the stop segment, with no interval.
LEMMA StartReverseKeeps == ASSUME ReverseInv, StartReverse PROVE ReverseInv'
<1>1. /\ TypeOK /\ Apart(intervals) /\ intervals = <<>> /\ inverse = <<>>
      /\ reversing = "start" /\ Len(intervals) <= Capacity
  BY DEF ReverseInv, StartReverse
<1>2. table' = table /\ cursor' = cursor /\ intervals' = intervals
  BY DEF StartReverse
<1>3. table \in Table /\ cursor \in Word /\ intervals \in Seq([first : Word, end : Word])
      /\ inverse \in Table /\ active \in 0 .. Len(table) /\ boundary \in 0 .. Len(table)
  BY <1>1 DEF TypeOK
<1>4. Apart(intervals)' /\ (Len(intervals) <= Capacity)'
  BY <1>1, <1>2 DEF Capacity, Apart
<1>5. CASE table = <<>>
  <2>1. reversing' = "done" /\ inverse' = inverse /\ active' = active /\ boundary' = boundary
    BY <1>5 DEF StartReverse
  <2>2. TypeOK' BY <1>2, <1>3, <2>1 DEF TypeOK
  <2> QED BY <1>4, <2>1, <2>2 DEF ReverseInv
<1>6. CASE table # <<>> /\ OneSource
  <2>1. /\ reversing' = "done" /\ active' = active /\ boundary' = boundary
        /\ inverse' = <<Entry(0, Wrap(Offset(table[1])))>>
    BY <1>6 DEF StartReverse
  <2>2. inverse' \in Table
    <3>1. 1 \in DOMAIN table BY <1>3, <1>6, StopIs
    <3>2. Offset(table[1]) \in Int BY <1>3, <3>1, TableTyped
    <3>3. Wrap(Offset(table[1])) \in Word BY <3>2, WrapTyped
    <3>4. 0 \in Word BY HalfAssumption DEF Word
    <3>5. Entry(0, Wrap(Offset(table[1]))) \in [source : Word, target : Word]
      BY <3>3, <3>4 DEF Entry
    <3> QED BY <2>1, <3>5 DEF Table
  <2>3. TypeOK' BY <1>2, <1>3, <2>1, <2>2 DEF TypeOK
  <2> QED BY <1>4, <2>1, <2>3 DEF ReverseInv
<1>7. CASE table # <<>> /\ ~OneSource
  <2>1. /\ reversing' = "walk" /\ inverse' = inverse
        /\ active' = StopSegment /\ boundary' = Following(StopSegment)
    BY <1>7 DEF StartReverse
  <2>2. /\ Len(table) \in Nat \ {0} /\ DOMAIN table = 1 .. Len(table)
        /\ StopSegment \in 1 .. Len(table) /\ Following(StopSegment) \in 1 .. Len(table)
    BY <1>3, <1>7, StopIs
  <2>3. TypeOK' BY <1>2, <1>3, <2>1, <2>2 DEF TypeOK
  <2>4. StopSegment' = StopSegment
    BY <1>2 DEF StopSegment, FirstPositive, Positive, Source
  <2>5. Walked' = 0 BY <2>1, <2>2, <2>4 DEF Walked
  <2>6. Len(intervals') = 0 BY <1>1, <1>2
  <2>7. RoomLeft' BY <2>5, <2>6 DEF RoomLeft
  <2>8. (boundary = Following(active))' BY <1>2, <2>1 DEF Following
  <2>9. AtWalk' BY <1>2, <1>7, <2>1, <2>2, <2>7, <2>8 DEF AtWalk
  <2> QED BY <1>4, <2>1, <2>3, <2>9 DEF ReverseInv
<1> QED BY <1>5, <1>6, <1>7

\* A piece adds one interval; where the number line cuts it, the next starts at Min,
\* and is not cut.
LEMMA WalkKeeps == ASSUME ReverseInv, Walk PROVE ReverseInv'
<1>1. TypeOK /\ Apart(intervals) /\ AtWalk /\ reversing = "walk" /\ Len(intervals) <= Capacity
  BY DEF ReverseInv, Walk
<1>2. /\ table \in Table /\ table # <<>> /\ cursor \in Word /\ inverse \in Table
      /\ intervals \in Seq(Interval) /\ active \in DOMAIN table
      /\ boundary = Following(active) /\ RoomLeft
  BY <1>1 DEF TypeOK, AtWalk, Interval
<1>3. table' = table /\ cursor' = Wrap(cursor + Span) BY DEF Walk
<1>4. /\ Len(table) \in Nat \ {0} /\ DOMAIN table = 1 .. Len(table)
      /\ StopSegment \in 1 .. Len(table)
      /\ active \in 1 .. Len(table) /\ boundary \in 1 .. Len(table)
      /\ Following(boundary) \in 1 .. Len(table)
      /\ Walked \in 0 .. Len(table) - 1
  BY <1>2, StopIs, WalkedIs
<1>5. /\ SegmentOffset \in Int /\ ImageStart \in Word /\ ImageStart \in Int /\ Span \in Nat
      /\ ImageStart + Span <= Half
      /\ ImageEnd = IF ImageStart + Span = Half THEN Min ELSE ImageStart + Span
      /\ (cursor' = Source(boundary)
          \/ (ImageStart # Min /\ Wrap(SegmentOffset + cursor') = Min))
  BY <1>1, <1>3, SpanIs, WordsAre
<1>6. cursor' \in Word
  <2>1. cursor \in Int BY <1>2, WordsAre
  <2>2. cursor + Span \in Int BY <1>5, <2>1
  <2> QED BY <1>3, <2>2, WrapTyped
<1>7. /\ inverse' \in Table /\ intervals' \in Seq(Interval) /\ Apart(intervals')
      /\ Len(intervals') <= Len(intervals) + 1 /\ Len(intervals) \in Nat
      /\ Len(intervals') \in Nat
  <2>0. Len(intervals) \in Nat BY <1>2, IntervalsTyped
  <2>1. CASE Span = 0
    <3>1. inverse' = inverse /\ intervals' = intervals BY <2>1 DEF Walk
    <3> QED BY <1>1, <1>2, <2>0, <3>1
  <2>2. CASE Span # 0
    <3>1. inverse' = inverse \o Emitted /\ intervals' = ReplacedIntervals BY <2>2 DEF Walk
    <3>2. ImageEnd \in Word /\ (ImageEnd = Min \/ ImageStart < ImageEnd)
      <4> DEFINE s == ImageStart
                 u == Span
                 e == ImageEnd
      <4>1. s \in Word /\ s \in Int /\ u \in Nat /\ u # 0 /\ s + u <= Half
            /\ e = IF s + u = Half THEN Min ELSE s + u
        BY <1>5, <2>2
      <4> SUFFICES e \in Word /\ (e = Min \/ s < e) OBVIOUS
      <4> HIDE DEF s, u, e
      <4>2. CASE s + u = Half BY <4>1, <4>2, WordsAre
      <4>3. CASE s + u # Half
        <5>1. s + u \in Int /\ Min <= s + u /\ s + u <= Max /\ s < s + u
          BY <4>1, <4>3, WordsAre
        <5>2. s + u \in Word BY <5>1, WordsAre
        <5> QED BY <4>1, <4>3, <5>1, <5>2
      <4> QED BY <4>2, <4>3
    <3>3. /\ ReplacedIntervals \in Seq(Interval) /\ Apart(ReplacedIntervals)
          /\ Len(ReplacedIntervals) <= Len(intervals) + 1
      BY <1>1, <1>2, <1>5, <3>2, ReplacedApart
    <3>4. inverse \o Emitted \in Table
      <4>1. Emitted \in Table BY <1>1, EmittedTyped
      <4> HIDE DEF Emitted
      <4> QED BY <1>2, <4>1 DEF Table
    <3>5. Len(intervals') \in Nat BY <3>1, <3>3
    <3> QED BY <2>0, <3>1, <3>3, <3>4, <3>5
  <2> QED BY <2>1, <2>2
<1>8. Len(intervals') <= 2 * Walked + 2
      /\ (ImageStart # Min => Len(intervals') <= 2 * Walked + 1)
  BY <1>2, <1>4, <1>7 DEF RoomLeft
<1>9. Len(intervals') <= Capacity /\ ~(Len(intervals') > Capacity)
  BY <1>4, <1>7, <1>8 DEF Capacity
<1>10. Apart(intervals)' /\ (Len(intervals) <= Capacity)'
  BY <1>3, <1>7, <1>9 DEF Apart, Capacity
<1>11. StopSegment' = StopSegment
  BY <1>3 DEF StopSegment, FirstPositive, Positive, Source
<1>12. CASE cursor' = Source(boundary) /\ boundary = StopSegment
  <2>1. reversing' = "clean" /\ active' = active /\ boundary' = boundary
    BY <1>9, <1>12 DEF Walk, AtBoundary
  <2>2. TypeOK' BY <1>2, <1>3, <1>4, <1>6, <1>7, <2>1 DEF TypeOK, Interval
  <2> QED BY <1>10, <2>1, <2>2 DEF ReverseInv
<1>13. CASE cursor' = Source(boundary) /\ boundary # StopSegment
  <2>1. reversing' = reversing /\ active' = boundary /\ boundary' = Following(boundary)
    BY <1>9, <1>13 DEF Walk, AtBoundary
  <2>2. TypeOK' BY <1>1, <1>2, <1>3, <1>4, <1>6, <1>7, <2>1 DEF TypeOK, Interval
  <2>3. Walked' = IF boundary >= StopSegment THEN boundary - StopSegment
                  ELSE boundary + Len(table) - StopSegment
    BY <1>3, <1>11, <2>1 DEF Walked
  <2>4. Walked' = Walked + 1 BY <1>2, <1>13, <2>3, WalkedIs
  <2>5. Len(intervals') <= 2 * Walked' BY <1>4, <1>7, <1>8, <2>4
  <2>6. RoomLeft' BY <2>5 DEF RoomLeft
  <2>7. (boundary = Following(active))' BY <1>3, <2>1 DEF Following
  <2>8. AtWalk' BY <1>2, <1>3, <1>4, <2>1, <2>6, <2>7 DEF AtWalk
  <2> QED BY <1>1, <1>10, <2>1, <2>2, <2>8 DEF ReverseInv
<1>14. CASE cursor' # Source(boundary)
  <2>1. reversing' = reversing /\ active' = active /\ boundary' = boundary
    BY <1>9, <1>14 DEF Walk
  <2>2. TypeOK' BY <1>1, <1>2, <1>3, <1>4, <1>6, <1>7, <2>1 DEF TypeOK, Interval
  <2>3. Walked' = Walked BY <1>3, <1>11, <2>1 DEF Walked
  <2>4. ImageStart # Min /\ Wrap(SegmentOffset + cursor') = Min BY <1>5, <1>14
  <2>5. ImageStart' = Min BY <1>3, <2>1, <2>4 DEF ImageStart, SegmentOffset
  <2>6. Len(intervals') <= 2 * Walked' + 1 BY <1>8, <2>3, <2>4
  <2>7. RoomLeft'
    <3>1. Min' = Min BY DEF Min
    <3> QED BY <2>5, <2>6, <3>1 DEF RoomLeft
  <2>8. (boundary = Following(active))' BY <1>2, <1>3, <2>1 DEF Following
  <2>9. AtWalk' BY <1>2, <1>3, <2>1, <2>7, <2>8 DEF AtWalk
  <2> QED BY <1>1, <1>10, <2>1, <2>2, <2>9 DEF ReverseInv
<1> QED BY <1>12, <1>13, <1>14

\* The intervals are left alone when the entries are cleaned.
LEMMA CleanKeeps == ASSUME ReverseInv, Clean PROVE ReverseInv'
<1>1. TypeOK /\ Apart(intervals) /\ Len(intervals) <= Capacity BY DEF ReverseInv
<1>2. /\ inverse' = Cleaned(inverse) /\ reversing' = "done" /\ table' = table
      /\ active' = active /\ boundary' = boundary /\ cursor' = cursor
      /\ intervals' = intervals
  BY DEF Clean
<1>3. inverse' \in Table BY <1>1, <1>2, CleanedTyped DEF TypeOK
<1>4. TypeOK' BY <1>1, <1>2, <1>3 DEF TypeOK
<1>5. Apart(intervals)' /\ (Len(intervals) <= Capacity)' BY <1>1, <1>2 DEF Apart, Capacity
<1> QED BY <1>2, <1>4, <1>5 DEF ReverseInv

\* The reversal starts with no interval.
LEMMA InitReverseInv == ASSUME ReversedAreTables, ReverseInit PROVE ReverseInv
<1>1. /\ table \in Table /\ inverse = <<>> /\ reversing = "start" /\ active = 0
      /\ boundary = 0 /\ cursor = 0 /\ intervals = <<>>
  BY DEF ReversedAreTables, ReverseInit
<1>2. Len(table) \in Nat BY <1>1, TableTyped
<1>3. 0 \in Word /\ 0 \in 0 .. Len(table) BY <1>2, HalfAssumption DEF Word
<1>4. inverse \in Table BY <1>1 DEF Table
<1>5. TypeOK BY <1>1, <1>3, <1>4 DEF TypeOK
<1>6. Apart(intervals) BY <1>1 DEF Apart
<1>7. Len(intervals) <= Capacity BY <1>1, <1>2 DEF Capacity
<1> QED BY <1>1, <1>5, <1>6, <1>7 DEF ReverseInv

\* A stuttering step.
LEMMA ReverseInvStays == ASSUME ReverseInv, UNCHANGED reverseVars PROVE ReverseInv'
<1>1. /\ table' = table /\ inverse' = inverse /\ reversing' = reversing
      /\ active' = active /\ boundary' = boundary /\ cursor' = cursor
      /\ intervals' = intervals
  BY DEF reverseVars
<1>2. TypeOK' = TypeOK BY <1>1 DEF TypeOK
<1>3. Apart(intervals)' = Apart(intervals) BY <1>1 DEF Apart
<1>4. StopSegment' = StopSegment
  BY <1>1 DEF StopSegment, FirstPositive, Positive, Source
<1>5. Walked' = Walked BY <1>1, <1>4 DEF Walked
<1>6. ImageStart' = ImageStart BY <1>1 DEF ImageStart, SegmentOffset
<1>7. AtWalk' = AtWalk BY <1>1, <1>5, <1>6 DEF AtWalk, RoomLeft, Following
<1>8. Capacity' = Capacity BY <1>1 DEF Capacity
<1> QED BY <1>1, <1>2, <1>3, <1>7, <1>8 DEF ReverseInv

\* The intervals reverse keeps lie apart and in order at every step, and the arrays of
\* twice as many places as there are entries hold them: for every sorted table, of any
\* length, and words of any width.
THEOREM IntervalsAlwaysApart == ReversedAreTables => (ReverseSpec => []IntervalsApart)
<1> SUFFICES ASSUME ReversedAreTables PROVE ReverseSpec => []IntervalsApart OBVIOUS
<1>1. ReverseInit => ReverseInv BY InitReverseInv
<1>2. ReverseInv /\ [ReverseNext]_reverseVars => ReverseInv'
  <2> SUFFICES ASSUME ReverseInv, [ReverseNext]_reverseVars PROVE ReverseInv' OBVIOUS
  <2>1. CASE StartReverse BY <2>1, StartReverseKeeps
  <2>2. CASE Walk BY <2>2, WalkKeeps
  <2>3. CASE Clean BY <2>3, CleanKeeps
  <2>4. CASE UNCHANGED reverseVars BY <2>4, ReverseInvStays
  <2> QED BY <2>1, <2>2, <2>3, <2>4 DEF ReverseNext
<1>3. ReverseInv => IntervalsApart BY DEF ReverseInv, IntervalsApart
<1> QED BY <1>1, <1>2, <1>3, PTL DEF ReverseSpec

-----------------------------------------------------------------------------
(***************************************************************************)
(* What a reversal leads back.  The positions of a file are reached in     *)
(* their order, from 0 on, and only then the negative ones: of those with  *)
(* one image the lowest is reached first, and the entry that leads back to *)
(* it covers the image from the entry's source on, so no later entry comes *)
(* in between.                                                             *)
(***************************************************************************)
FileOffsets == 0 .. Max

ZeroSource == \E i \in DOMAIN table : Source(i) = 0

\* The walk has not passed the end of the number line.
Ahead == active >= StopSegment /\ cursor >= 0

Reached(x) == reversing = "walk" /\ Ahead => x < cursor

\* The cursor lies in the active segment, on its way to the boundary.
OnSegment ==
  /\ Ahead => /\ Source(active) <= cursor
              /\ active < Len(table) => cursor <= Source(active + 1)
  /\ ~Ahead /\ active >= StopSegment => active = Len(table) /\ cursor <= Source(1)
  /\ active < StopSegment => cursor <= Source(active + 1)

\* The end of an interval, and of the image.
Top(interval) == IF interval.end = Min THEN Half ELSE interval.end
Rim == ImageStart + Span

\* One interval holds all from s to y.
Held(ivs, s, y) == \E i \in DOMAIN ivs : ivs[i].first <= s /\ y < Top(ivs[i])

\* No interval holds any from s to y.
Bare(s, y) == \A i \in DOMAIN intervals : Top(intervals[i]) <= s \/ y < intervals[i].first

\* The lowest file offset with a certain file offset for its image.
Lowest(x) ==
  /\ x \in FileOffsets /\ Mapped(table, x) \in FileOffsets
  /\ \A w \in FileOffsets : Mapped(table, w) = Mapped(table, x) => x <= w

\* An entry applies to y: its source is the last at or before it.
Applies(entries, entry, y) ==
  /\ entry.source <= y
  /\ \A o \in DOMAIN entries :
       entries[o].source < entry.source \/ y < entries[o].source \/ entries[o] = entry

\* An entry leads the image of a position back to it.
LeadsBack(ivs, entries, entry, x) ==
  LET y == Mapped(table, x) IN
  /\ Proper(entry)
  /\ Wrap(y + Offset(entry)) = x
  /\ Held(ivs, entry.source, y)
  /\ Applies(entries, entry, y)

\* What is emitted lies in the intervals.
InverseHeld(ivs, entries) ==
  \A o \in DOMAIN entries : Held(ivs, entries[o].source, entries[o].source)

Leading ==
  /\ InverseHeld(intervals, inverse)
  /\ \A x \in FileOffsets : Lowest(x) /\ Reached(x) =>
       \E o \in DOMAIN inverse : LeadsBack(intervals, inverse, inverse[o], x)

\* What is covered before the end of the number line is passed, file offsets cover.
CoveredByReached ==
  \A y \in Word : Held(intervals, y, y) => \E w \in 0 .. cursor - 1 : Mapped(table, w) = y

LeadInv ==
  /\ ReverseInv /\ Sorted(table)
  /\ reversing = "start" => cursor = 0
  /\ reversing = "walk" => ~OneSource
  /\ ZeroSource /\ reversing \in {"walk", "clean"} => Leading
  /\ ZeroSource /\ reversing = "walk" => OnSegment /\ (Ahead => CoveredByReached)
  /\ ReturnsInverse

\* A piece that is not empty, as SpanIs finds it.
Piece ==
  /\ intervals \in Seq(Interval) /\ Apart(intervals)
  /\ ImageStart \in Word /\ Span \in Nat \ {0} /\ Rim <= Half
  /\ ImageEnd = IF Rim = Half THEN Min ELSE Rim

\* The numbers a piece is made of.
LEMMA PieceIs ==
  ASSUME Piece
  PROVE  /\ ImageStart \in Int /\ Rim \in Int /\ Half \in Int /\ ImageStart < Rim /\ Rim <= Half
         /\ Min <= ImageStart /\ Min \in Int
         /\ ImageEnd \in Word /\ (ImageEnd = Min \/ ImageStart < ImageEnd)
         /\ ImageEnd = Min => Rim = Half
         /\ ImageEnd # Min => Rim = ImageEnd
         /\ Top([first |-> ImageStart, end |-> ImageEnd]) = Rim
<1> DEFINE s == ImageStart
           u == Span
           e == ImageEnd
           r == Rim
<1>1. /\ s \in Word /\ u \in Nat \ {0} /\ r <= Half /\ r = s + u
      /\ e = IF r = Half THEN Min ELSE r
  BY DEF Piece, Rim
<1>2. Top([first |-> s, end |-> e]) = IF e = Min THEN Half ELSE e BY DEF Top
<1> SUFFICES /\ s \in Int /\ r \in Int /\ Half \in Int /\ s < r /\ r <= Half
             /\ Min <= s /\ Min \in Int
             /\ e \in Word /\ (e = Min \/ s < e)
             /\ e = Min => r = Half
             /\ e # Min => r = e
             /\ Top([first |-> s, end |-> e]) = r
  OBVIOUS
<1> HIDE DEF s, u, e, r
<1>3. s \in Int /\ Min <= s /\ Min \in Int /\ Half \in Int /\ Min < Half BY <1>1, WordsAre
<1>4. r \in Int /\ s < r BY <1>1, <1>3
<1>5. CASE r = Half BY <1>1, <1>2, <1>3, <1>4, <1>5, WordsAre
<1>6. CASE r # Half
  <2>1. e = r /\ r # Min BY <1>1, <1>3, <1>4, <1>6
  <2>2. r <= Max BY <1>1, <1>3, <1>4, <1>6, WordsAre
  <2>3. r \in Word BY <1>3, <1>4, <2>2, WordsAre
  <2> QED BY <1>1, <1>2, <1>3, <1>4, <2>1, <2>3
<1> QED BY <1>5, <1>6

\* The ends of the intervals.
LEMMA TopsAre ==
  ASSUME intervals \in Seq(Interval), Apart(intervals)
  PROVE  /\ Len(intervals) \in Nat /\ DOMAIN intervals = 1 .. Len(intervals)
         /\ \A i \in DOMAIN intervals :
              /\ intervals[i].first \in Int /\ Top(intervals[i]) \in Int
              /\ intervals[i].first < Top(intervals[i]) /\ Top(intervals[i]) <= Half
              /\ Top(intervals[i]) < Half =>
                   intervals[i].end # Min /\ intervals[i].end = Top(intervals[i])
              /\ intervals[i].end # Min => intervals[i].end = Top(intervals[i])
              /\ intervals[i].end = Min => Top(intervals[i]) = Half
         /\ \A i, j \in DOMAIN intervals : i < j =>
              /\ Top(intervals[i]) < intervals[j].first
              /\ intervals[i].first < intervals[j].first
              /\ Top(intervals[i]) < Top(intervals[j])
<1>1. /\ Len(intervals) \in Nat /\ DOMAIN intervals = 1 .. Len(intervals)
      /\ \A i \in DOMAIN intervals :
           /\ intervals[i].first \in Word /\ intervals[i].end \in Word
           /\ intervals[i].first \in Int /\ intervals[i].end \in Int
  BY IntervalsTyped
<1>2. ASSUME NEW i \in DOMAIN intervals
      PROVE  /\ intervals[i].first \in Int /\ Top(intervals[i]) \in Int
             /\ intervals[i].first < Top(intervals[i]) /\ Top(intervals[i]) <= Half
             /\ Top(intervals[i]) < Half =>
                  intervals[i].end # Min /\ intervals[i].end = Top(intervals[i])
             /\ intervals[i].end # Min => intervals[i].end = Top(intervals[i])
             /\ intervals[i].end = Min => Top(intervals[i]) = Half
  <2> DEFINE f == intervals[i].first
             e == intervals[i].end
             p == Top(intervals[i])
  <2>1. f \in Word /\ e \in Word /\ (e = Min \/ f < e) BY <1>1 DEF Apart
  <2>2. p = IF e = Min THEN Half ELSE e BY DEF Top
  <2> SUFFICES /\ f \in Int /\ p \in Int /\ f < p /\ p <= Half
               /\ p < Half => e # Min /\ e = p
               /\ e # Min => e = p
               /\ e = Min => p = Half
    OBVIOUS
  <2> HIDE DEF f, e, p
  <2>3. f \in Int /\ e \in Int /\ Half \in Int /\ f < Half /\ e < Half
    BY <2>1, WordsAre
  <2> QED BY <2>1, <2>2, <2>3
<1>3. ASSUME NEW i \in DOMAIN intervals, NEW j \in DOMAIN intervals, i < j
      PROVE  /\ Top(intervals[i]) < intervals[j].first
             /\ intervals[i].first < intervals[j].first
             /\ Top(intervals[i]) < Top(intervals[j])
  <2>1. intervals[i].end # Min /\ intervals[i].end < intervals[j].first BY <1>3 DEF Apart
  <2>2. Top(intervals[i]) = intervals[i].end BY <1>2, <2>1
  <2> QED BY <1>2, <2>1, <2>2
<1> QED BY <1>1, <1>2, <1>3

\* The image touches the intervals from Touched up to Behind - 1 and no other.
LEMMA TouchedTops ==
  ASSUME Piece
  PROVE  /\ Touched \in 1 .. Len(intervals) + 1 /\ Behind \in 1 .. Len(intervals) + 1
         /\ Touched <= Behind
         /\ \A i \in DOMAIN intervals :
              /\ i < Touched => Top(intervals[i]) < ImageStart
              /\ i >= Touched => ImageStart <= Top(intervals[i])
              /\ i < Behind => intervals[i].first <= Rim
              /\ i >= Behind => Rim < intervals[i].first
<1> DEFINE n == Len(intervals)
           S == {i \in DOMAIN intervals :
                   ImageStart <= intervals[i].end \/ intervals[i].end = Min}
           B == {i \in DOMAIN intervals :
                   i >= Touched /\ ImageEnd # Min /\ ImageEnd < intervals[i].first}
           s == ImageStart
           e == ImageEnd
           r == Rim
<1>1. intervals \in Seq(Interval) /\ Apart(intervals) BY DEF Piece
<1>2. /\ s \in Int /\ r \in Int /\ Half \in Int /\ s < r /\ r <= Half
      /\ e \in Word /\ (e = Min \/ s < e) /\ (e = Min => r = Half) /\ (e # Min => r = e)
      /\ s \in Word
  BY PieceIs DEF Piece
<1>3. /\ n \in Nat /\ DOMAIN intervals = 1 .. n
      /\ \A i \in 1 .. n :
           /\ intervals[i].first \in Int /\ Top(intervals[i]) \in Int
           /\ intervals[i].first < Top(intervals[i]) /\ Top(intervals[i]) <= Half
           /\ intervals[i].end # Min => intervals[i].end = Top(intervals[i])
           /\ intervals[i].end = Min => Top(intervals[i]) = Half
      /\ \A i, j \in 1 .. n : i < j =>
           /\ Top(intervals[i]) < intervals[j].first
           /\ intervals[i].first < intervals[j].first
           /\ Top(intervals[i]) < Top(intervals[j])
  BY <1>1, TopsAre
<1>4. /\ Touched \in 1 .. n + 1 /\ Behind \in 1 .. n + 1 /\ Touched <= Behind
      /\ \A i \in 1 .. n : i < Touched => intervals[i].end # Min /\ intervals[i].end < s
      /\ Behind <= n => e # Min /\ e < intervals[Behind].first
  BY <1>1, <1>2, <1>3, TouchedIs
<1>5. S \in SUBSET (1 .. n) /\ B \in SUBSET (1 .. n) BY <1>3
<1>6. Touched = FirstOf(S, n + 1) /\ Behind = FirstOf(B, n + 1) BY DEF Touched, Behind
<1>7. \A i \in S : i \in 1 .. n /\ (s <= intervals[i].end \/ intervals[i].end = Min) BY <1>3
<1>8. \A i \in 1 .. n : i \notin B => ~(i >= Touched /\ e # Min /\ e < intervals[i].first)
  BY <1>3
<1> HIDE DEF S, B
<1>9. Touched <= n => Touched \in S BY <1>3, <1>5, <1>6, FirstOfIs
<1>10. \A i \in B : Behind <= i BY <1>3, <1>5, <1>6, FirstOfIs
<1> HIDE DEF n, s, e, r
<1>11. ASSUME NEW i \in 1 .. n, i < Touched PROVE Top(intervals[i]) < s
  BY <1>3, <1>4, <1>11
<1>12. ASSUME NEW i \in 1 .. n, i >= Touched PROVE s <= Top(intervals[i])
  <2>1. Touched \in 1 .. n /\ Touched \in S BY <1>3, <1>4, <1>9, <1>12
  <2>2. s <= intervals[Touched].end \/ intervals[Touched].end = Min BY <1>7, <2>1
  <2>3. s <= Top(intervals[Touched]) BY <1>2, <1>3, <2>1, <2>2
  <2>4. CASE i = Touched BY <2>3, <2>4
  <2>5. CASE i # Touched
    <3>1. Touched < i BY <1>3, <1>4, <1>12, <2>5
    <3>2. Top(intervals[Touched]) < Top(intervals[i]) BY <1>3, <2>1, <3>1
    <3>3. Top(intervals[Touched]) \in Int /\ Top(intervals[i]) \in Int BY <1>3, <2>1
    <3> QED BY <1>2, <2>3, <3>2, <3>3
  <2> QED BY <2>4, <2>5
<1>13. ASSUME NEW i \in 1 .. n, i < Behind PROVE intervals[i].first <= r
  <2>1. CASE i >= Touched
    <3>1. i \notin B BY <1>3, <1>4, <1>10, <1>13
    <3>2. e = Min \/ ~(e < intervals[i].first) BY <1>8, <2>1, <3>1
    <3>3. intervals[i].first \in Int /\ intervals[i].first <= Half BY <1>2, <1>3
    <3> QED BY <1>2, <3>2, <3>3
  <2>2. CASE ~(i >= Touched)
    <3>1. Top(intervals[i]) < s BY <1>3, <1>4, <1>11, <2>2
    <3> QED BY <1>2, <1>3, <3>1
  <2> QED BY <2>1, <2>2
<1>14. ASSUME NEW i \in 1 .. n, i >= Behind PROVE r < intervals[i].first
  <2>1. Behind \in 1 .. n /\ Behind <= n BY <1>3, <1>4, <1>14
  <2>2. r < intervals[Behind].first BY <1>2, <1>4, <2>1
  <2>3. CASE i = Behind BY <2>2, <2>3
  <2>4. CASE i # Behind
    <3>1. Behind < i BY <1>3, <1>4, <1>14, <2>4
    <3>2. intervals[Behind].first < intervals[i].first BY <1>3, <2>1, <3>1
    <3>3. intervals[Behind].first \in Int /\ intervals[i].first \in Int BY <1>3, <2>1
    <3> QED BY <1>2, <2>2, <3>2, <3>3
  <2> QED BY <2>3, <2>4
<1> QED BY <1>3, <1>4, <1>11, <1>12, <1>13, <1>14 DEF n, s, r

\* The merged interval reaches from the first touched one or the image to the last
\* touched one or the image.
LEMMA MergedTops ==
  ASSUME Piece
  PROVE  LET T == Touched
             L == Behind - 1
         IN  /\ Merged.first \in Int /\ Top(Merged) \in Int
             /\ Merged.first <= ImageStart /\ Rim <= Top(Merged)
             /\ T = Behind => Merged.first = ImageStart /\ Top(Merged) = Rim
             /\ T # Behind =>
                  /\ T \in DOMAIN intervals /\ L \in DOMAIN intervals /\ T <= L
                  /\ Merged.first <= intervals[T].first
                  /\ Top(intervals[L]) <= Top(Merged)
                  /\ Merged.first = ImageStart \/ Merged.first = intervals[T].first
                  /\ Top(Merged) = Rim \/ Top(Merged) = Top(intervals[L])
<1> DEFINE n == Len(intervals)
           T == Touched
           B == Behind
           s == ImageStart
           e == ImageEnd
           r == Rim
           m == Merged
<1>1. intervals \in Seq(Interval) /\ Apart(intervals) BY DEF Piece
<1>2. /\ s \in Int /\ r \in Int /\ Half \in Int /\ s < r /\ r <= Half
      /\ (e = Min => r = Half) /\ (e # Min => r = e)
      /\ Top([first |-> s, end |-> e]) = r
  BY PieceIs
<1>3. /\ n \in Nat /\ DOMAIN intervals = 1 .. n
      /\ \A i \in 1 .. n :
           /\ intervals[i].first \in Int /\ Top(intervals[i]) \in Int
           /\ Top(intervals[i]) <= Half
           /\ intervals[i].end # Min => intervals[i].end = Top(intervals[i])
           /\ intervals[i].end = Min => Top(intervals[i]) = Half
  BY <1>1, TopsAre
<1>4. T \in 1 .. n + 1 /\ B \in 1 .. n + 1 /\ T <= B BY TouchedTops
<1>5. CASE T = B
  <2>1. Merged = [first |-> s, end |-> e] BY <1>5 DEF Merged
  <2>2. m.first = s /\ Top(m) = r BY <1>2, <2>1
  <2> QED BY <1>2, <1>5, <2>2
<1>6. CASE T # B
  <2> DEFINE f == intervals[T].first
             l == intervals[B - 1].end
             t == Top(intervals[B - 1])
  <2>1. T \in 1 .. n /\ B - 1 \in 1 .. n /\ T <= B - 1
    <3> HIDE DEF T, B, n
    <3> QED BY <1>3, <1>4, <1>6
  <2>2. /\ f \in Int /\ t \in Int /\ t <= Half
        /\ (l # Min => l = t) /\ (l = Min => t = Half)
    <3> HIDE DEF T, B, n
    <3> QED BY <1>3, <2>1
  <2>3. AtEnd = <<>> <=> ~(l # Min /\ (e = Min \/ l < e)) BY DEF AtEnd, LastEnd
  <2>4. m = [first |-> IF s < f THEN s ELSE f, end |-> IF AtEnd = <<>> THEN l ELSE e]
    BY <1>6 DEF Merged, LastEnd
  <2>5. Top(m) = IF m.end = Min THEN Half ELSE m.end BY DEF Top
  <2>6. m.first = (IF s < f THEN s ELSE f) /\ m.end = (IF AtEnd = <<>> THEN l ELSE e)
    BY <2>4
  <2>7. m.first \in Int /\ m.first <= s /\ m.first <= f /\ (m.first = s \/ m.first = f)
    <3> HIDE DEF s, f, m
    <3> QED BY <1>2, <2>2, <2>6
  <2>8. Top(m) \in Int /\ r <= Top(m) /\ t <= Top(m) /\ (Top(m) = r \/ Top(m) = t)
    <3> DEFINE p == Top(m)
               q == m.end
    <3>1. p = (IF q = Min THEN Half ELSE q) /\ q = (IF AtEnd = <<>> THEN l ELSE e)
      BY <2>5, <2>6
    <3> SUFFICES p \in Int /\ r <= p /\ t <= p /\ (p = r \/ p = t) OBVIOUS
    <3> HIDE DEF p, q, m, r, t, l, e
    <3>2. CASE AtEnd = <<>>
      <4>1. q = l /\ p = t BY <2>2, <3>1, <3>2
      <4>2. ~(l # Min /\ (e = Min \/ l < e)) BY <2>3, <3>2
      <4>3. CASE l = Min BY <1>2, <2>2, <4>1, <4>3
      <4>4. CASE l # Min
        <5>1. e # Min /\ ~(l < e) BY <4>2, <4>4
        <5>2. e = r /\ l = t /\ ~(t < r) BY <1>2, <2>2, <4>4, <5>1
        <5> QED BY <1>2, <2>2, <4>1, <5>2
      <4> QED BY <4>3, <4>4
    <3>3. CASE AtEnd # <<>>
      <4>1. q = e /\ p = r BY <1>2, <3>1, <3>3
      <4>2. l # Min /\ (e = Min \/ l < e) BY <2>3, <3>3
      <4>3. t <= r BY <1>2, <2>2, <4>2
      <4> QED BY <1>2, <4>1, <4>3
    <3> QED BY <3>2, <3>3
  <2> QED BY <1>3, <1>6, <2>1, <2>7, <2>8
<1> QED BY <1>5, <1>6

\* What the intervals hold after a piece: all they held, the image, and nothing else.
LEMMA ReplacedHolds ==
  ASSUME Piece
  PROVE  /\ \A s, y \in Int : Held(intervals, s, y) => Held(ReplacedIntervals, s, y)
         /\ \A s, y \in Int : ImageStart <= s /\ y < Rim => Held(ReplacedIntervals, s, y)
         /\ \A y \in Int : Held(ReplacedIntervals, y, y) =>
              Held(intervals, y, y) \/ (ImageStart <= y /\ y < Rim)
<1> DEFINE n == Len(intervals)
           T == Touched
           B == Behind
           m == Merged
           r == ReplacedIntervals
<1>1. intervals \in Seq(Interval) /\ Apart(intervals) BY DEF Piece
<1>2. /\ ImageStart \in Int /\ Rim \in Int /\ ImageStart < Rim
      /\ ImageStart \in Word /\ ImageEnd \in Word /\ (ImageEnd = Min \/ ImageStart < ImageEnd)
  BY PieceIs DEF Piece
<1>3. /\ n \in Nat /\ DOMAIN intervals = 1 .. n
      /\ \A i \in 1 .. n :
           /\ intervals[i].first \in Int /\ Top(intervals[i]) \in Int
           /\ intervals[i].first < Top(intervals[i])
      /\ \A i, j \in 1 .. n : i < j =>
           /\ Top(intervals[i]) < intervals[j].first
           /\ intervals[i].first < intervals[j].first
           /\ Top(intervals[i]) < Top(intervals[j])
  BY <1>1, TopsAre
<1>4. /\ T \in 1 .. n + 1 /\ B \in 1 .. n + 1 /\ T <= B
      /\ \A i \in 1 .. n :
           /\ i < T => Top(intervals[i]) < ImageStart
           /\ i >= T => ImageStart <= Top(intervals[i])
           /\ i < B => intervals[i].first <= Rim
           /\ i >= B => Rim < intervals[i].first
  BY <1>3, TouchedTops
<1>5. /\ m.first \in Int /\ Top(m) \in Int
      /\ m.first <= ImageStart /\ Rim <= Top(m)
      /\ T = B => m.first = ImageStart /\ Top(m) = Rim
      /\ T # B =>
           /\ T \in 1 .. n /\ B - 1 \in 1 .. n /\ T <= B - 1
           /\ m.first <= intervals[T].first
           /\ Top(intervals[B - 1]) <= Top(m)
           /\ m.first = ImageStart \/ m.first = intervals[T].first
           /\ Top(m) = Rim \/ Top(m) = Top(intervals[B - 1])
  BY <1>3, MergedTops
<1>6. /\ DOMAIN r = 1 .. T + (n - B + 1) /\ r[T] = m
      /\ \A i \in 1 .. n : i < T => i \in DOMAIN r /\ r[i] = intervals[i]
      /\ \A i \in 1 .. n : i >= B => \E j \in DOMAIN r : r[j] = intervals[i]
      /\ \A i \in DOMAIN r :
           \/ i \in 1 .. T - 1 /\ i \in 1 .. n /\ i < T /\ r[i] = intervals[i]
           \/ i = T /\ r[i] = m
           \/ i > T /\ \E j \in 1 .. n :
                j >= B /\ j - B = i - T - 1 /\ r[i] = intervals[j]
  BY <1>1, <1>2, ReplacedIs
<1>7. T \in DOMAIN r
  <2> HIDE DEF n, T, B, r
  <2> QED BY <1>3, <1>4, <1>6
<1> HIDE DEF n, T, B, m, r
<1>8. ASSUME NEW s \in Int, NEW y \in Int, NEW i \in 1 .. n,
             intervals[i].first <= s, y < Top(intervals[i])
      PROVE  Held(r, s, y)
  <2>1. CASE i < T BY <1>6, <1>8, <2>1 DEF Held
  <2>2. CASE i >= B
    <3>1. PICK j \in DOMAIN r : r[j] = intervals[i] BY <1>6, <2>2
    <3> QED BY <1>8, <3>1 DEF Held
  <2>3. CASE i >= T /\ i < B
    <3>1. T # B /\ i <= B - 1 BY <1>4, <2>3
    <3>2. intervals[T].first <= intervals[i].first /\ intervals[T].first \in Int
          /\ intervals[i].first \in Int
      <4>1. i = T \/ T < i BY <1>4, <2>3
      <4> QED BY <1>3, <1>5, <3>1, <4>1
    <3>3. Top(intervals[i]) <= Top(intervals[B - 1]) /\ Top(intervals[B - 1]) \in Int
          /\ Top(intervals[i]) \in Int
      <4>1. i = B - 1 \/ i < B - 1 BY <1>4, <3>1
      <4> QED BY <1>3, <1>5, <3>1, <4>1
    <3>4. m.first <= s
      <4>1. m.first <= intervals[T].first BY <1>5, <3>1
      <4> QED BY <1>5, <1>8, <3>2, <4>1
    <3>5. y < Top(m)
      <4>1. Top(intervals[B - 1]) <= Top(m) BY <1>5, <3>1
      <4> QED BY <1>5, <1>8, <3>3, <4>1
    <3> QED BY <1>6, <1>7, <3>4, <3>5 DEF Held
  <2> QED BY <1>4, <2>1, <2>2, <2>3
<1>9. ASSUME NEW s \in Int, NEW y \in Int, ImageStart <= s, y < Rim PROVE Held(r, s, y)
  <2>1. m.first <= s /\ y < Top(m) BY <1>2, <1>5, <1>9
  <2> QED BY <1>6, <1>7, <2>1 DEF Held
<1>10. ASSUME NEW y \in Int, NEW i \in DOMAIN r, r[i].first <= y, y < Top(r[i])
       PROVE  Held(intervals, y, y) \/ (ImageStart <= y /\ y < Rim)
  <2>1. CASE \E j \in 1 .. n : r[i] = intervals[j] BY <1>3, <1>10, <2>1 DEF Held
  <2>2. CASE r[i] = m
    <3>1. CASE T = B BY <1>5, <1>10, <2>2, <3>1
    <3>2. CASE T # B
      <4>1. /\ T \in 1 .. n /\ B - 1 \in 1 .. n
            /\ m.first = ImageStart \/ m.first = intervals[T].first
            /\ Top(m) = Rim \/ Top(m) = Top(intervals[B - 1])
        BY <1>5, <3>2
      <4>2. m.first <= y /\ y < Top(m) BY <1>10, <2>2
      <4>3. CASE y < ImageStart
        <5>1. intervals[T].first <= y BY <1>2, <1>5, <4>1, <4>2, <4>3
        <5>2. ImageStart <= Top(intervals[T]) /\ Top(intervals[T]) \in Int
          BY <1>3, <1>4, <4>1
        <5>3. y < Top(intervals[T]) BY <1>2, <4>3, <5>2
        <5> QED BY <1>3, <4>1, <5>1, <5>3 DEF Held
      <4>4. CASE y >= Rim
        <5>1. y < Top(intervals[B - 1]) BY <1>2, <4>1, <4>2, <4>4
        <5>2. B - 1 < B BY <1>4
        <5>3. intervals[B - 1].first <= Rim /\ intervals[B - 1].first \in Int
          BY <1>3, <1>4, <4>1, <5>2
        <5>4. intervals[B - 1].first <= y BY <1>2, <4>4, <5>3
        <5> QED BY <1>3, <4>1, <5>1, <5>4 DEF Held
      <4> QED BY <1>2, <4>3, <4>4
    <3> QED BY <3>1, <3>2
  <2> QED BY <1>6, <2>1, <2>2
<1>11. \A s, y \in Int : Held(intervals, s, y) => Held(r, s, y)
  BY <1>3, <1>8 DEF Held
<1>12. \A y \in Int : Held(r, y, y) => Held(intervals, y, y) \/ (ImageStart <= y /\ y < Rim)
  BY <1>10 DEF Held
<1> QED BY <1>9, <1>11, <1>12 DEF r

\* The elements of a concatenation are those of its two parts.
DrawnFrom(w, u, v) ==
  \A k \in DOMAIN w : (\E i \in DOMAIN u : w[k] = u[i]) \/ (\E i \in DOMAIN v : w[k] = v[i])

Includes(w, u) == \A i \in DOMAIN u : \E k \in DOMAIN w : w[k] = u[i]

LEMMA InConcat ==
  ASSUME NEW E, NEW u \in Seq(E), NEW v \in Seq(E)
  PROVE  /\ u \o v \in Seq(E) /\ DrawnFrom(u \o v, u, v)
         /\ Includes(u \o v, u) /\ Includes(u \o v, v)
<1> DEFINE w == u \o v
           m == Len(u)
           n == Len(v)
<1>1. /\ m \in Nat /\ n \in Nat /\ DOMAIN u = 1 .. m /\ DOMAIN v = 1 .. n OBVIOUS
<1>2. w \in Seq(E) /\ Len(w) = m + n /\ DOMAIN w = 1 .. m + n OBVIOUS
<1>3. ASSUME NEW k \in 1 .. m PROVE k \in DOMAIN w /\ w[k] = u[k]
  <2>1. k \in 1 .. m + n BY <1>1
  <2> QED BY <1>2, <2>1
<1>4. ASSUME NEW k \in 1 .. n PROVE m + k \in DOMAIN w /\ w[m + k] = v[k]
  <2>1. m + k \in 1 .. m + n BY <1>1
  <2> QED BY <1>2, <2>1
<1> HIDE DEF w, m, n
<1>5. ASSUME NEW k \in DOMAIN w
      PROVE  (\E i \in DOMAIN u : w[k] = u[i]) \/ (\E i \in DOMAIN v : w[k] = v[i])
  <2>1. CASE k <= m
    <3>1. k \in 1 .. m BY <1>1, <1>2, <2>1
    <3> QED BY <1>1, <1>3, <3>1
  <2>2. CASE ~(k <= m)
    <3>1. k - m \in 1 .. n /\ m + (k - m) = k BY <1>1, <1>2, <2>2
    <3>2. w[m + (k - m)] = v[k - m] BY <1>4, <3>1
    <3> QED BY <1>1, <3>1, <3>2
  <2> QED BY <2>1, <2>2
<1>6. DrawnFrom(w, u, v) BY <1>5 DEF DrawnFrom
<1>7. Includes(w, u) /\ Includes(w, v) BY <1>1, <1>3, <1>4 DEF Includes
<1> QED BY <1>2, <1>6, <1>7 DEF w

\* An entry emitted for a part of the image no interval holds.
Fresh(entry) ==
  /\ entry.source \in Word
  /\ entry = Resumed(entry.source)
  /\ ImageStart <= entry.source /\ entry.source < Rim
  /\ Bare(entry.source, entry.source)
  /\ \/ entry.source = ImageStart
     \/ \E i \in DOMAIN intervals : entry.source = Top(intervals[i])

\* The three parts of what is emitted.
LEMMA EmittedParts ==
  ASSUME TypeOK, AtWalk, Piece, Touched # Behind
  PROVE  LET E == [source : Word, target : Word] IN
         /\ InFront \in Seq(E) /\ Between \in Seq(E) /\ AtEnd \in Seq(E)
         /\ Emitted = (InFront \o Between) \o AtEnd
         /\ Behind - 1 - Touched \in Nat
         /\ DOMAIN Between = 1 .. Behind - 1 - Touched
<1> DEFINE n == Len(intervals)
           T == Touched
           B == Behind
           E == [source : Word, target : Word]
<1>1. intervals \in Seq(Interval) /\ cursor \in Word BY DEF TypeOK, Interval
<1>2. /\ n \in Nat /\ DOMAIN intervals = 1 .. n
      /\ \A i \in 1 .. n : intervals[i].end \in Word /\ intervals[i].end \in Int
  BY <1>1, IntervalsTyped
<1>3. SegmentOffset \in Int /\ ImageStart \in Word BY SpanIs
<1>4. T \in 1 .. n + 1 /\ B \in 1 .. n + 1 /\ T <= B BY TouchedTops
<1>5. Entry(ImageStart, cursor) \in E BY <1>1, <1>3 DEF Entry
<1>6. ASSUME NEW i \in 1 .. n PROVE Resumed(intervals[i].end) \in E
  <2> DEFINE e == intervals[i].end
  <2>1. e \in Word /\ e \in Int BY <1>2
  <2> HIDE DEF e
  <2>2. Wrap(e - SegmentOffset) \in Word
    <3>1. e - SegmentOffset \in Int BY <1>3, <2>1
    <3> QED BY <3>1, WrapTyped
  <2>3. Resumed(e) \in E BY <2>1, <2>2 DEF Resumed, Entry
  <2> QED BY <2>3 DEF e
<1>7. T # B OBVIOUS
<1>11. Emitted = (InFront \o Between) \o AtEnd BY <1>7 DEF Emitted
<1> HIDE DEF n, E, T, B
<1>8. \A x \in E : <<x>> \in Seq(E) OBVIOUS
<1>9. <<>> \in Seq(E) OBVIOUS
<1>10. B - 1 \in 1 .. n /\ B - 1 - T \in Nat BY <1>2, <1>4, <1>7
<1>12. InFront \in Seq(E) BY <1>5, <1>8, <1>9 DEF InFront
<1>13. Between \in Seq(E) /\ DOMAIN Between = 1 .. B - 1 - T
  <2>1. \A k \in 1 .. B - 1 - T : T + k - 1 \in 1 .. n BY <1>2, <1>4, <1>10
  <2>2. \A k \in 1 .. B - 1 - T : Resumed(intervals[T + k - 1].end) \in E BY <1>6, <2>1
  <2>3. Between = [k \in 1 .. B - 1 - T |-> Resumed(intervals[T + k - 1].end)]
    BY DEF Between, T, B
  <2>4. Between \in [1 .. B - 1 - T -> E] BY <2>2, <2>3, Zenon
  <2> QED BY <1>10, <2>3, <2>4
<1>14. Resumed(LastEnd) \in E BY <1>6, <1>10 DEF LastEnd, B
<1>15. AtEnd \in Seq(E) BY <1>8, <1>9, <1>14 DEF AtEnd
<1> QED BY <1>10, <1>11, <1>12, <1>13, <1>15 DEF E, T, B

\* What a piece emits are fresh entries.
LEMMA EmittedFresh ==
  ASSUME TypeOK, AtWalk, Piece
  PROVE  Emitted \in Table /\ \A k \in DOMAIN Emitted : Fresh(Emitted[k])
<1> DEFINE n == Len(intervals)
           T == Touched
           B == Behind
           E == [source : Word, target : Word]
<1>0. Emitted \in Table BY EmittedTyped
<1>1. intervals \in Seq(Interval) /\ Apart(intervals) /\ cursor \in Word
  BY DEF TypeOK, Piece
<1>2. /\ ImageStart \in Int /\ Rim \in Int /\ ImageStart < Rim /\ ImageStart \in Word
      /\ Rim <= Half /\ Half \in Int
  BY PieceIs DEF Piece
<1>3. /\ n \in Nat /\ DOMAIN intervals = 1 .. n
      /\ \A i \in 1 .. n :
           /\ intervals[i].first \in Int /\ Top(intervals[i]) \in Int
           /\ intervals[i].first < Top(intervals[i])
           /\ Top(intervals[i]) < Half => intervals[i].end = Top(intervals[i])
           /\ intervals[i].end # Min => intervals[i].end = Top(intervals[i])
      /\ \A i, j \in 1 .. n : i < j =>
           /\ Top(intervals[i]) < intervals[j].first
           /\ intervals[i].first < intervals[j].first
           /\ Top(intervals[i]) < Top(intervals[j])
  BY <1>1, TopsAre
<1>4. /\ T \in 1 .. n + 1 /\ B \in 1 .. n + 1 /\ T <= B
      /\ \A i \in 1 .. n :
           /\ i < T => Top(intervals[i]) < ImageStart
           /\ i >= T => ImageStart <= Top(intervals[i])
           /\ i < B => intervals[i].first <= Rim
           /\ i >= B => Rim < intervals[i].first
  BY <1>3, TouchedTops
<1>5. \A i \in 1 .. n : intervals[i].end \in Word BY <1>1, <1>3, IntervalsTyped DEF Piece
<1>6. Entry(ImageStart, cursor) = Resumed(ImageStart)
  <2> DEFINE o == SegmentOffset
             s == ImageStart
  <2>1. o \in Int /\ cursor \in Int BY <1>1, SpanIs, WordsAre
  <2>2. s = Wrap(o + cursor) BY DEF ImageStart
  <2> SUFFICES cursor = Wrap(s - o) BY DEF Resumed, Entry
  <2> HIDE DEF o, s
  <2>3. -o \in Int /\ o + cursor \in Int /\ Wrap(o + cursor) \in Int BY <2>1, WrapTyped
  <2>4. s - o = -o + Wrap(o + cursor) /\ -o + (o + cursor) = cursor BY <2>1, <2>2, <2>3
  <2>5. Wrap(-o + Wrap(o + cursor)) = Wrap(-o + (o + cursor)) BY <2>3, WrapsSum
  <2>6. Wrap(s - o) = Wrap(cursor) BY <2>4, <2>5
  <2> QED BY <1>1, <2>6, WrapsWord
<1> HIDE DEF n, T, B
\* The entry at the start of the image, where no interval begins before it;
<1>7. ASSUME \A i \in 1 .. n : i >= T => ImageStart < intervals[i].first
      PROVE  Fresh(Entry(ImageStart, cursor))
  <2>1. Bare(ImageStart, ImageStart)
    <3>1. ASSUME NEW i \in 1 .. n
          PROVE  Top(intervals[i]) <= ImageStart \/ ImageStart < intervals[i].first
      <4>1. CASE i < T BY <1>2, <1>3, <1>4, <4>1
      <4>2. CASE i >= T BY <1>7, <4>2
      <4> QED BY <1>4, <4>1, <4>2
    <3> QED BY <1>3, <3>1 DEF Bare
  <2>2. Resumed(ImageStart).source = ImageStart BY DEF Resumed, Entry
  <2> QED BY <1>2, <1>6, <2>1, <2>2 DEF Fresh
\* ... and those at the ends of the intervals.
<1>8. ASSUME NEW i \in 1 .. n, i >= T, Top(intervals[i]) < Rim,
             \A j \in 1 .. n : j > i => Top(intervals[i]) < intervals[j].first
      PROVE  Fresh(Resumed(intervals[i].end))
  <2> DEFINE e == intervals[i].end
             t == Top(intervals[i])
  <2>1. t \in Int /\ t < Half BY <1>2, <1>3, <1>8
  <2>2. e = t /\ e \in Word BY <1>3, <1>5, <2>1
  <2>3. ImageStart <= t BY <1>4, <1>8
  <2>4. Bare(t, t)
    <3>1. ASSUME NEW j \in 1 .. n PROVE Top(intervals[j]) <= t \/ t < intervals[j].first
      <4>1. CASE j < i BY <1>3, <4>1
      <4>2. CASE j = i BY <1>3, <4>2
      <4>3. CASE j > i BY <1>8, <4>3
      <4> QED BY <4>1, <4>2, <4>3
    <3> HIDE DEF t
    <3> QED BY <1>3, <3>1 DEF Bare
  <2>5. Resumed(e).source = e BY DEF Resumed, Entry
  <2>6. \E j \in DOMAIN intervals : t = Top(intervals[j]) BY <1>3
  <2>7. t < Rim BY <1>8
  <2> HIDE DEF e, t
  <2>8. Fresh(Resumed(e)) BY <2>2, <2>3, <2>4, <2>5, <2>6, <2>7 DEF Fresh
  <2> QED BY <2>8 DEF e
<1>9. CASE T = B
  <2>1. \A i \in 1 .. n : i >= T => ImageStart < intervals[i].first
    BY <1>2, <1>3, <1>4, <1>9
  <2>2. Fresh(Entry(ImageStart, cursor)) BY <1>7, <2>1
  <2>3. Emitted = <<Entry(ImageStart, cursor)>> BY <1>9 DEF Emitted, T, B
  <2>4. \A k \in DOMAIN Emitted : Emitted[k] = Entry(ImageStart, cursor) BY <2>3
  <2> QED BY <1>0, <2>2, <2>4
<1>10. CASE T # B
  <2>1. /\ InFront \in Seq(E) /\ Between \in Seq(E) /\ AtEnd \in Seq(E)
        /\ Emitted = (InFront \o Between) \o AtEnd
        /\ DOMAIN Between = 1 .. B - 1 - T /\ B - 1 - T \in Nat
    BY <1>10, EmittedParts DEF T, B
  <2>2. T \in 1 .. n /\ B - 1 \in 1 .. n BY <1>3, <1>4, <1>10
  <2>3. \A k \in DOMAIN InFront : Fresh(InFront[k])
    <3>1. CASE ImageStart < intervals[T].first
      <4>1. InFront = <<Entry(ImageStart, cursor)>> BY <3>1 DEF InFront, T
      <4>2. ASSUME NEW i \in 1 .. n, i >= T PROVE ImageStart < intervals[i].first
        <5>1. CASE i = T BY <3>1, <5>1
        <5>2. CASE i > T
          <6>1. intervals[T].first < intervals[i].first BY <1>3, <2>2, <5>2
          <6>2. intervals[T].first \in Int /\ intervals[i].first \in Int BY <1>3, <2>2
          <6> QED BY <1>2, <3>1, <6>1, <6>2
        <5> QED BY <1>4, <4>2, <5>1, <5>2
      <4>3. Fresh(Entry(ImageStart, cursor)) BY <1>7, <4>2
      <4>4. \A k \in DOMAIN InFront : InFront[k] = Entry(ImageStart, cursor) BY <4>1
      <4> QED BY <4>3, <4>4
    <3>2. CASE ~(ImageStart < intervals[T].first)
      <4>1. InFront = <<>> BY <3>2 DEF InFront, T
      <4>2. DOMAIN InFront = {} BY <4>1
      <4> QED BY <4>2
    <3> QED BY <3>1, <3>2
  <2>4. ASSUME NEW k \in DOMAIN Between PROVE Fresh(Between[k])
    <3> DEFINE i == T + k - 1
    <3>1. k \in 1 .. B - 1 - T BY <2>1
    <3>2. i \in 1 .. n /\ i >= T /\ i < B - 1 /\ i + 1 \in 1 .. n /\ i + 1 < B
      BY <1>3, <1>4, <2>2, <3>1
    <3>3. Between[k] = Resumed(intervals[i].end) BY <3>1 DEF Between, T, B
    <3> HIDE DEF i
    <3>4. Top(intervals[i]) < intervals[i + 1].first /\ intervals[i + 1].first <= Rim
          /\ intervals[i + 1].first \in Int /\ Top(intervals[i]) \in Int
      BY <1>3, <1>4, <3>2
    <3>5. Top(intervals[i]) < Rim BY <1>2, <3>4
    <3>6. \A j \in 1 .. n : j > i => Top(intervals[i]) < intervals[j].first BY <1>3, <3>2
    <3> QED BY <1>8, <3>2, <3>3, <3>5, <3>6
  <2>5. \A k \in DOMAIN AtEnd : Fresh(AtEnd[k])
    <3>1. CASE LastEnd # Min /\ (ImageEnd = Min \/ LastEnd < ImageEnd)
      <4> DEFINE i == B - 1
      <4>1. AtEnd = <<Resumed(LastEnd)>> /\ LastEnd = intervals[i].end
        BY <3>1 DEF AtEnd, LastEnd, B
      <4>2. i \in 1 .. n /\ i >= T /\ i < B BY <1>3, <1>4, <1>10, <2>2
      <4> HIDE DEF i
      <4>3. LastEnd = Top(intervals[i]) BY <1>3, <3>1, <4>1, <4>2
      <4>4. (ImageEnd = Min => Rim = Half) /\ (ImageEnd # Min => Rim = ImageEnd) BY PieceIs
      <4>5. LastEnd < Rim
        <5>1. LastEnd \in Word BY <1>5, <4>1, <4>2
        <5>2. LastEnd < Half BY <5>1, WordsAre
        <5> QED BY <3>1, <4>4, <5>2
      <4>6. ASSUME NEW j \in 1 .. n, j > i PROVE Top(intervals[i]) < intervals[j].first
        BY <1>3, <4>2, <4>6
      <4>7. Fresh(Resumed(LastEnd)) BY <1>8, <4>1, <4>2, <4>3, <4>5, <4>6
      <4>8. \A k \in DOMAIN AtEnd : AtEnd[k] = Resumed(LastEnd) BY <4>1
      <4> QED BY <4>7, <4>8
    <3>2. CASE ~(LastEnd # Min /\ (ImageEnd = Min \/ LastEnd < ImageEnd))
      <4>1. AtEnd = <<>> BY <3>2 DEF AtEnd
      <4>2. DOMAIN AtEnd = {} BY <4>1
      <4> QED BY <4>2
    <3> QED BY <3>1, <3>2
  <2> HIDE DEF E
  <2> DEFINE u == InFront \o Between
  <2>6. u \in Seq(E) /\ DrawnFrom(u, InFront, Between) BY <2>1, InConcat
  <2>7. \A k \in DOMAIN u : Fresh(u[k])
    <3> HIDE DEF u
    <3> QED BY <2>3, <2>4, <2>6 DEF DrawnFrom
  <2>8. DrawnFrom(Emitted, u, AtEnd)
    <3>1. u \in Seq(E) /\ AtEnd \in Seq(E) /\ Emitted = u \o AtEnd BY <2>1, <2>6
    <3> HIDE DEF u
    <3> QED BY <3>1, InConcat
  <2>9. \A k \in DOMAIN Emitted : Fresh(Emitted[k])
    <3> HIDE DEF u
    <3> QED BY <2>5, <2>7, <2>8 DEF DrawnFrom
  <2> QED BY <1>0, <2>9
<1> QED BY <1>9, <1>10

\* Where the image is not held, one of the entries applies that were emitted, and from
\* its source on no interval holds any of it.
LEMMA EmittedHas ==
  ASSUME TypeOK, AtWalk, Piece,
         NEW y \in Int, ImageStart <= y, y < Rim, ~Held(intervals, y, y)
  PROVE  \E k \in DOMAIN Emitted : Emitted[k].source <= y /\ Bare(Emitted[k].source, y)
<1> DEFINE n == Len(intervals)
           T == Touched
           B == Behind
           E == [source : Word, target : Word]
           s == ImageStart
<1>1. intervals \in Seq(Interval) /\ Apart(intervals) BY DEF Piece
<1>2. s \in Int /\ Rim \in Int /\ s < Rim /\ Rim <= Half /\ Half \in Int
  BY PieceIs
<1>3. /\ n \in Nat /\ DOMAIN intervals = 1 .. n
      /\ \A i \in 1 .. n :
           /\ intervals[i].first \in Int /\ Top(intervals[i]) \in Int
           /\ intervals[i].first < Top(intervals[i])
           /\ Top(intervals[i]) < Half =>
                intervals[i].end # Min /\ intervals[i].end = Top(intervals[i])
      /\ \A i, j \in 1 .. n : i < j =>
           /\ Top(intervals[i]) < intervals[j].first
           /\ intervals[i].first < intervals[j].first
           /\ Top(intervals[i]) < Top(intervals[j])
  BY <1>1, TopsAre
<1>4. /\ T \in 1 .. n + 1 /\ B \in 1 .. n + 1 /\ T <= B
      /\ \A i \in 1 .. n :
           /\ i < T => Top(intervals[i]) < s
           /\ i >= B => Rim < intervals[i].first
  BY <1>3, TouchedTops
<1>5. \A i \in 1 .. n : Top(intervals[i]) <= y \/ y < intervals[i].first
  <2>1. TAKE i \in 1 .. n
  <2>2. ~(intervals[i].first <= y /\ y < Top(intervals[i])) BY <1>3 DEF Held
  <2> QED BY <1>3, <2>2
<1>6. \A e : Resumed(e).source = e BY DEF Resumed, Entry
<1>7. Entry(s, cursor).source = s BY DEF Entry
<1> HIDE DEF n, T, B, s
<1>8. CASE T = B
  <2>1. Emitted = <<Entry(s, cursor)>> BY <1>8 DEF Emitted, T, B, s
  <2>2. 1 \in DOMAIN Emitted /\ Emitted[1] = Entry(s, cursor) BY <2>1
  <2>3. Emitted[1].source = s BY <1>7, <2>2
  <2>4. ASSUME NEW i \in 1 .. n PROVE Top(intervals[i]) <= s \/ y < intervals[i].first
    <3>1. CASE i < T BY <1>2, <1>3, <1>4, <3>1
    <3>2. CASE ~(i < T)
      <4>1. i >= B BY <1>4, <1>8, <3>2
      <4>2. Rim < intervals[i].first /\ intervals[i].first \in Int BY <1>3, <1>4, <4>1
      <4> QED BY <1>2, <4>2 DEF s
    <3> QED BY <3>1, <3>2
  <2>5. Bare(s, y) BY <1>3, <2>4 DEF Bare
  <2> QED BY <2>2, <2>3, <2>5 DEF s
<1>9. CASE T # B
  <2> DEFINE J == {i \in T .. B - 1 : intervals[i].first <= y}
             u == InFront \o Between
  <2>1. /\ InFront \in Seq(E) /\ Between \in Seq(E) /\ AtEnd \in Seq(E)
        /\ Emitted = u \o AtEnd
        /\ DOMAIN Between = 1 .. B - 1 - T /\ B - 1 - T \in Nat
    BY <1>9, EmittedParts DEF T, B
  <2>2. /\ u \in Seq(E) /\ Includes(u, InFront) /\ Includes(u, Between) BY <2>1, InConcat
  <2>3. Includes(Emitted, u) /\ Includes(Emitted, AtEnd)
    <3>1. u \in Seq(E) /\ AtEnd \in Seq(E) /\ Emitted = u \o AtEnd BY <2>1, <2>2
    <3> HIDE DEF u
    <3> QED BY <3>1, InConcat
  <2> HIDE DEF u
  <2>4. T \in 1 .. n /\ B - 1 \in 1 .. n BY <1>3, <1>4, <1>9
  <2>5. CASE J = {}
    <3>1. T \in T .. B - 1 BY <1>3, <1>4, <1>9, <2>4
    <3>2. y < intervals[T].first BY <1>3, <2>4, <2>5, <3>1
    <3>3. InFront = <<Entry(s, cursor)>>
      <4>1. s < intervals[T].first
        <5>1. s <= y /\ intervals[T].first \in Int BY <1>3, <2>4 DEF s
        <5> QED BY <1>2, <3>2, <5>1
      <4> QED BY <4>1 DEF InFront, T, s
    <3>4. 1 \in DOMAIN InFront /\ InFront[1] = Entry(s, cursor) BY <3>3
    <3>5. PICK j \in DOMAIN u : u[j] = InFront[1] BY <2>2, <3>4 DEF Includes
    <3>6. PICK k \in DOMAIN Emitted : Emitted[k] = u[j] BY <2>3 DEF Includes
    <3>7. Emitted[k].source = s BY <1>7, <3>4, <3>5, <3>6
    <3>8. ASSUME NEW i \in 1 .. n PROVE Top(intervals[i]) <= s \/ y < intervals[i].first
      <4>1. CASE i < T BY <1>2, <1>3, <1>4, <4>1
      <4>2. CASE i = T BY <3>2, <4>2
      <4>3. CASE i > T
        <5>1. intervals[T].first < intervals[i].first BY <1>3, <2>4, <4>3
        <5>2. intervals[T].first \in Int /\ intervals[i].first \in Int BY <1>3, <2>4
        <5> QED BY <3>2, <5>1, <5>2
      <4> QED BY <1>4, <4>1, <4>2, <4>3
    <3>9. Bare(s, y) BY <1>3, <3>8 DEF Bare
    <3> QED BY <3>7, <3>9 DEF s
  <2>6. CASE J # {}
    <3>1. J \in SUBSET (1 .. n) BY <1>3, <1>4, <2>4
    <3>2. PICK i \in J : \A j \in J : j <= i
      <4> HIDE DEF J
      <4> QED BY <1>3, <2>6, <3>1, LargestIndex
    <3>3. i \in 1 .. n /\ T <= i /\ i <= B - 1 /\ intervals[i].first <= y
      BY <1>4, <2>4, <3>1
    <3>4. Top(intervals[i]) <= y /\ Top(intervals[i]) \in Int BY <1>3, <1>5, <3>3
    <3>5. Top(intervals[i]) < Rim BY <1>2, <3>4
    <3>6. intervals[i].end # Min /\ intervals[i].end = Top(intervals[i])
      <4>1. Top(intervals[i]) < Half BY <1>2, <3>4, <3>5
      <4> QED BY <1>3, <3>3, <4>1
    <3>7. \E k \in DOMAIN Emitted : Emitted[k] = Resumed(intervals[i].end)
      <4>1. CASE i < B - 1
        <5> DEFINE g == i - T + 1
        <5>1. g \in 1 .. B - 1 - T /\ T + g - 1 = i BY <1>4, <3>3, <4>1
        <5> HIDE DEF g
        <5>2. g \in DOMAIN Between /\ Between[g] = Resumed(intervals[T + g - 1].end)
          BY <2>1, <5>1 DEF Between, T, B
        <5>3. PICK j \in DOMAIN u : u[j] = Between[g] BY <2>2, <5>2 DEF Includes
        <5>4. PICK k \in DOMAIN Emitted : Emitted[k] = u[j] BY <2>3 DEF Includes
        <5> QED BY <5>1, <5>2, <5>3, <5>4
      <4>2. CASE ~(i < B - 1)
        <5>1. i = B - 1 BY <1>4, <3>3, <4>2
        <5>2. LastEnd = intervals[i].end BY <5>1 DEF LastEnd, B
        <5>3. LastEnd # Min /\ (ImageEnd = Min \/ LastEnd < ImageEnd)
          <6>1. (ImageEnd # Min => Rim = ImageEnd) BY PieceIs
          <6> QED BY <3>5, <3>6, <5>2, <6>1
        <5>4. AtEnd = <<Resumed(LastEnd)>> BY <5>3 DEF AtEnd
        <5>5. 1 \in DOMAIN AtEnd /\ AtEnd[1] = Resumed(LastEnd) BY <5>4
        <5>6. PICK k \in DOMAIN Emitted : Emitted[k] = AtEnd[1] BY <2>3, <5>5 DEF Includes
        <5> QED BY <5>2, <5>5, <5>6
      <4> QED BY <4>1, <4>2
    <3>8. PICK k \in DOMAIN Emitted : Emitted[k] = Resumed(intervals[i].end) BY <3>7
    <3>9. Emitted[k].source = Top(intervals[i]) BY <1>6, <3>6, <3>8
    <3>10. ASSUME NEW j \in 1 .. n
           PROVE  Top(intervals[j]) <= Top(intervals[i]) \/ y < intervals[j].first
      <4>1. CASE j < i BY <1>3, <3>3, <4>1
      <4>2. CASE j = i BY <3>4, <4>2
      <4>3. CASE j > i /\ j < B
        <5>1. j \in T .. B - 1 BY <1>4, <3>3, <4>3
        <5>2. j \notin J BY <3>2, <3>3, <4>3
        <5>3. ~(intervals[j].first <= y) BY <5>1, <5>2
        <5> QED BY <1>3, <5>3
      <4>4. CASE j >= B
        <5>1. Rim < intervals[j].first /\ intervals[j].first \in Int BY <1>3, <1>4, <4>4
        <5> QED BY <1>2, <5>1
      <4> QED BY <1>4, <3>3, <4>1, <4>2, <4>3, <4>4
    <3>11. Bare(Top(intervals[i]), y) BY <1>3, <3>10 DEF Bare
    <3> QED BY <3>4, <3>9, <3>11
  <2> QED BY <2>5, <2>6
<1> QED BY <1>8, <1>9

\* ... and it is the only one: the source of another one behind it is the end of an
\* interval.
LEMMA EmittedApplies ==
  ASSUME TypeOK, AtWalk, Piece, NEW y \in Int, NEW k \in DOMAIN Emitted,
         Emitted[k].source <= y, Bare(Emitted[k].source, y)
  PROVE  Applies(Emitted, Emitted[k], y)
<1>1. \A o \in DOMAIN Emitted : Fresh(Emitted[o]) BY EmittedFresh
<1>2. intervals \in Seq(Interval) /\ Apart(intervals) BY DEF Piece
<1>3. \A i \in DOMAIN intervals :
        /\ intervals[i].first \in Int /\ Top(intervals[i]) \in Int
        /\ intervals[i].first < Top(intervals[i])
  BY <1>2, TopsAre
<1>4. ASSUME NEW o \in DOMAIN Emitted
      PROVE  \/ Emitted[o].source < Emitted[k].source \/ y < Emitted[o].source
             \/ Emitted[o] = Emitted[k]
  <2> DEFINE p == Emitted[k].source
             q == Emitted[o].source
  <2>1. /\ p \in Int /\ q \in Int /\ ImageStart \in Int /\ ImageStart <= p
        /\ Emitted[k] = Resumed(p) /\ Emitted[o] = Resumed(q)
        /\ (q = ImageStart \/ \E i \in DOMAIN intervals : q = Top(intervals[i]))
    BY <1>1, WordsAre, PieceIs DEF Fresh
  <2>2. \A i \in DOMAIN intervals : Top(intervals[i]) <= p \/ y < intervals[i].first
    BY DEF Bare
  <2> HIDE DEF p, q
  <2>3. CASE q = p BY <2>1, <2>3
  <2>4. CASE q < p BY <2>4 DEF p, q
  <2>5. CASE p < q
    <3>1. q # ImageStart BY <2>1, <2>5
    <3>2. PICK i \in DOMAIN intervals : q = Top(intervals[i]) BY <2>1, <3>1
    <3>3. y < q BY <1>3, <2>1, <2>2, <2>5, <3>2
    <3> QED BY <3>3 DEF q
  <2> QED BY <2>1, <2>3, <2>4, <2>5
<1> QED BY <1>4 DEF Applies

\* The walk starts at 0: the entries up to StopSegment are not positive, the others are.
LEMMA StopIsZero ==
  ASSUME table \in Table, Sorted(table), ZeroSource
  PROVE  /\ table # <<>> /\ StopSegment \in DOMAIN table
         /\ \A i \in DOMAIN table :
              /\ i <= StopSegment => Source(i) <= 0
              /\ i > StopSegment => Source(i) > 0
<1>1. PICK z \in DOMAIN table : Source(z) = 0 BY DEF ZeroSource
<1>2. table # <<>> BY <1>1
<1>3. /\ Len(table) \in Nat \ {0} /\ DOMAIN table = 1 .. Len(table)
      /\ StopSegment \in 1 .. Len(table)
  BY <1>2, StopIs
<1>4. \A i \in DOMAIN table : Source(i) \in Int BY TableTyped DEF Source
<1>5. \A i, j \in DOMAIN table : i <= j => Source(i) <= Source(j) BY DEF Sorted, Source
<1>6. CASE Positive = {}
  <2>1. \A i \in DOMAIN table : ~(Source(i) > 0) BY <1>6 DEF Positive
  <2>2. StopSegment = Len(table) BY <1>6 DEF StopSegment
  <2> QED BY <1>2, <1>3, <1>4, <2>1, <2>2
<1>7. CASE Positive # {}
  <2>1. Positive \in SUBSET (1 .. Len(table)) BY <1>3 DEF Positive
  <2>2. \E i \in Positive : \A j \in Positive : i <= j BY <1>3, <1>7, <2>1, SmallestIndex
  <2>3. FirstPositive \in Positive /\ \A j \in Positive : FirstPositive <= j
    BY <2>2 DEF FirstPositive
  <2>4. FirstPositive \in DOMAIN table /\ Source(FirstPositive) > 0
    BY <2>3 DEF Positive
  <2>5. FirstPositive # 1
    <3>1. FirstPositive = 1 => Source(FirstPositive) <= Source(z) BY <1>1, <1>3, <1>5, <2>4
    <3> QED BY <1>1, <1>4, <2>4, <3>1
  <2>6. StopSegment = FirstPositive - 1 BY <1>7, <2>5 DEF StopSegment
  <2>7. ASSUME NEW i \in DOMAIN table, i <= StopSegment PROVE Source(i) <= 0
    <3>1. ~(FirstPositive <= i) BY <1>3, <2>4, <2>6, <2>7
    <3>2. i \notin Positive BY <2>3, <3>1
    <3>3. ~(Source(i) > 0) BY <3>2 DEF Positive
    <3> QED BY <1>4, <3>3
  <2>8. ASSUME NEW i \in DOMAIN table, i > StopSegment PROVE Source(i) > 0
    <3>1. FirstPositive <= i BY <1>3, <2>4, <2>6, <2>8
    <3>2. Source(FirstPositive) <= Source(i) BY <1>5, <2>4, <3>1
    <3> QED BY <1>4, <2>4, <3>2
  <2> QED BY <1>2, <1>3, <2>7, <2>8
<1> QED BY <1>6, <1>7

\* A walk in progress, of a table with an entry at 0 and another elsewhere.
Walking ==
  /\ TypeOK /\ AtWalk /\ Sorted(table) /\ ZeroSource /\ ~OneSource /\ OnSegment
  /\ reversing = "walk"

\* Before the walk has passed the end of the number line, a piece does not reach past
\* the next entry, or from the last one past the first.
LEMMA AheadSpan ==
  ASSUME Walking, Ahead
  PROVE  /\ active \in 1 .. Len(table) /\ Len(table) \in Nat
         /\ cursor \in Int /\ Source(active) \in Int /\ Source(active) <= cursor
         /\ Span \in Nat
         /\ active < Len(table) =>
              /\ boundary = active + 1 /\ Source(boundary) \in Word
              /\ cursor + Span <= Source(boundary)
         /\ active = Len(table) =>
              /\ boundary = 1 /\ Source(boundary) \in Word /\ Source(boundary) <= 0
              /\ cursor + Span <= Source(boundary) + Words
              /\ Source(boundary) = 0 => cursor > 0
<1> DEFINE n == Len(table)
           s1 == Source(1)
           sb == Source(boundary)
           d  == sb - cursor
           u  == Unsigned(sb - cursor)
<1>1. /\ table \in Table /\ Sorted(table) /\ ZeroSource /\ ~OneSource /\ cursor \in Word
      /\ boundary = Following(active)
  BY DEF Walking, TypeOK, AtWalk
<1>2. /\ table # <<>> /\ StopSegment \in DOMAIN table
      /\ \A i \in DOMAIN table :
           /\ i <= StopSegment => Source(i) <= 0
           /\ i > StopSegment => Source(i) > 0
  BY <1>1, StopIsZero
<1>3. /\ n \in Nat \ {0} /\ DOMAIN table = 1 .. n /\ active \in 1 .. n
      /\ Following(active) = IF active < n THEN active + 1 ELSE 1
  BY <1>1, <1>2, StopIs DEF Walking, AtWalk, Following
<1>4. /\ \A i \in 1 .. n : Source(i) \in Int /\ Source(i) \in Word
  BY <1>1, <1>3, TableTyped DEF Source
<1>5. /\ cursor \in Int /\ cursor >= 0 /\ cursor < Half /\ Half \in Int
      /\ Words = 2 * Half /\ active >= StopSegment
  BY <1>1, WordsAre DEF Ahead
<1>6. Source(active) <= cursor /\ (active < n => cursor <= Source(active + 1))
  BY DEF Walking, OnSegment
<1>7. /\ Span \in Nat /\ (Span = u \/ (Span = Unsigned(Min - SegmentOffset - cursor) /\ Span < u))
  <2>1. Span \in Nat BY SpanIs DEF Walking
  <2> QED BY <2>1 DEF Span
<1>8. CASE active < n
  <2>1. boundary = active + 1 /\ active + 1 \in 1 .. n BY <1>1, <1>3, <1>8
  <2>2. sb \in Int /\ sb \in Word /\ cursor <= sb BY <1>4, <1>6, <1>8, <2>1
  <2> HIDE DEF sb, n
  <2>3. sb < Half BY <2>2, WordsAre
  <2>4. d \in 0 .. Words - 1 BY <1>5, <2>2, <2>3
  <2>5. u = d BY <2>4, UnsignedOf
  <2> HIDE DEF u
  <2>6. Span <= d BY <1>7, <2>4, <2>5
  <2>7. cursor + Span <= sb BY <1>5, <1>7, <2>2, <2>6
  <2>8. active # n /\ Source(active) \in Int BY <1>3, <1>4, <1>8
  <2>9. /\ active \in 1 .. Len(table) /\ Len(table) \in Nat /\ active # Len(table)
        /\ Source(boundary) \in Word /\ cursor + Span <= Source(boundary)
    BY <1>3, <2>2, <2>7, <2>8 DEF sb, n
  <2> QED BY <1>5, <1>6, <1>7, <2>1, <2>8, <2>9
<1>9. CASE ~(active < n)
  <2>1. active = n /\ boundary = 1 /\ 1 \in 1 .. n
    <3>1. boundary = 1 BY <1>1, <1>3, <1>9
    <3> HIDE DEF n
    <3> QED BY <1>3, <1>9, <3>1
  <2>2. s1 \in Int /\ s1 \in Word /\ sb = s1 /\ s1 <= 0
    <3>1. 1 <= StopSegment BY <1>2, <1>3
    <3> QED BY <1>2, <1>3, <1>4, <2>1, <3>1
  <2>3. s1 = 0 => cursor > 0
    <3> SUFFICES ASSUME s1 = 0, ~(cursor > 0) PROVE FALSE OBVIOUS
    <3>1. cursor = 0 BY <1>5
    <3>2. Source(n) <= 0 BY <1>6, <2>1, <3>1
    <3>3. ASSUME NEW i \in DOMAIN table PROVE Source(i) = Source(1)
      <4>1. i \in 1 .. n /\ 1 <= i /\ i <= n /\ 1 \in DOMAIN table /\ n \in DOMAIN table
        BY <1>3, <2>1
      <4>2. Source(1) <= Source(i) /\ Source(i) <= Source(n)
        BY <1>1, <4>1 DEF Sorted, Source
      <4>3. Source(n) \in Int /\ Source(i) \in Int BY <1>4, <2>1, <4>1
      <4> HIDE DEF n
      <4> QED BY <3>2, <4>2, <4>3
    <3> QED BY <1>1, <3>3 DEF OneSource
  <2> HIDE DEF s1, sb, n
  <2>4. -Half <= s1 BY <2>2, WordsAre
  <2>5. d + Words \in 0 .. Words - 1 /\ d \in Int BY <1>5, <2>2, <2>3, <2>4
  <2>6. u = d + Words
    <3>1. (-1) * Words = -Words /\ Words \in Int BY <1>5
    <3>2. d = (d + Words) + (-1) * Words BY <2>5, <3>1
    <3>3. -1 \in Int OBVIOUS
    <3> HIDE DEF d
    <3>4. Unsigned(d) = d + Words BY <2>5, <3>2, <3>3, UnsignedUnique
    <3> QED BY <3>4 DEF d
  <2> HIDE DEF u
  <2>7. Span <= d + Words BY <1>7, <2>5, <2>6
  <2>8. cursor + Span <= sb + Words BY <1>5, <1>7, <2>2, <2>5, <2>7
  <2>9. Source(active) \in Int /\ ~(active < n) BY <1>3, <1>4, <1>9
  <2>10. /\ active \in 1 .. Len(table) /\ Len(table) \in Nat /\ ~(active < Len(table))
         /\ Source(boundary) \in Word /\ Source(boundary) <= 0
         /\ cursor + Span <= Source(boundary) + Words
         /\ Source(boundary) = 0 => cursor > 0
    BY <1>3, <2>2, <2>3, <2>8, <2>9 DEF sb, n
  <2> QED BY <1>5, <1>6, <1>7, <2>1, <2>9, <2>10
<1> QED BY <1>8, <1>9

\* A piece walked before the end of the number line is passed takes the file offsets in
\* their order.
LEMMA AheadMaps ==
  ASSUME Walking, Ahead, NEW x \in FileOffsets, cursor <= x, x < cursor + Span
  PROVE  Mapped(table, x) = ImageStart + (x - cursor)
<1> DEFINE o == SegmentOffset
           s == ImageStart
<1>1. table \in Table /\ Sorted(table) /\ cursor \in Word /\ table # <<>>
  BY DEF Walking, TypeOK, AtWalk
<1>2. /\ active \in 1 .. Len(table) /\ Len(table) \in Nat
      /\ cursor \in Int /\ Source(active) \in Int /\ Source(active) <= cursor /\ Span \in Nat
      /\ active < Len(table) =>
           /\ boundary = active + 1 /\ Source(boundary) \in Word
           /\ cursor + Span <= Source(boundary)
  BY AheadSpan
<1>3. x \in Int BY WordsAre DEF FileOffsets
<1>4. SegmentOf(table, x) = active
  <2>1. active \in DOMAIN table BY <1>1, <1>2, TableTyped
  <2>2. table[active].source <= x BY <1>2, <1>3 DEF Source
  <2>3. active < Len(table) => x < table[active + 1].source
    <3>1. SUFFICES ASSUME active < Len(table) PROVE x < Source(active + 1) BY DEF Source
    <3>2. cursor + Span <= Source(active + 1) /\ Source(active + 1) \in Word BY <1>2, <3>1
    <3>3. Source(active + 1) \in Int BY <3>2, WordsAre
    <3> QED BY <1>2, <1>3, <3>2, <3>3
  <2> QED BY <1>1, <1>3, <2>1, <2>2, <2>3, SegmentAt
<1>5. RiftOffset(table, x) = o BY <1>1, <1>4 DEF RiftOffset, SegmentOffset
<1>6. o \in Int /\ s \in Word /\ s \in Int /\ s + Span <= Half BY SpanIs, WordsAre DEF Walking
<1>7. s = Wrap(o + cursor) BY DEF ImageStart
<1>8. Mapped(table, x) = Wrap(x + o) BY <1>5 DEF Mapped
<1> HIDE DEF o, s
<1>9. Wrap((x - cursor) + Wrap(o + cursor)) = Wrap((x - cursor) + (o + cursor))
  <2>1. x - cursor \in Int /\ o + cursor \in Int BY <1>2, <1>3, <1>6
  <2> QED BY <2>1, WrapsSum
<1>10. (x - cursor) + (o + cursor) = x + o /\ (x - cursor) + s = s + (x - cursor)
  BY <1>2, <1>3, <1>6
<1>11. Mapped(table, x) = Wrap(s + (x - cursor)) BY <1>7, <1>8, <1>9, <1>10
<1>12. s + (x - cursor) \in Word
  <2>1. Half \in Int /\ Min <= s /\ Min \in Int /\ Max = Half - 1 BY <1>6, WordsAre
  <2>2. s + (x - cursor) \in Int /\ Min <= s + (x - cursor) /\ s + (x - cursor) <= Max
    BY <1>2, <1>3, <1>6, <2>1
  <2> QED BY <2>2, WordsAre
<1>13. Wrap(s + (x - cursor)) = s + (x - cursor) BY <1>12, WrapsWord
<1> QED BY <1>11, <1>13 DEF s

\* What a piece does to the walk.
LEMMA WalkGoes ==
  ASSUME Walking, Walk, reversing' # "panic"
  PROVE  /\ cursor' = Wrap(cursor + Span) /\ table' = table /\ StopSegment' = StopSegment
         /\ \/ cursor' = Source(boundary) /\ boundary = StopSegment /\ reversing' = "clean"
            \/ /\ cursor' = Source(boundary) /\ boundary # StopSegment
               /\ active' = boundary /\ reversing' = "walk"
            \/ cursor' # Source(boundary) /\ active' = active /\ reversing' = "walk"
         /\ Span = 0 => inverse' = inverse /\ intervals' = intervals
         /\ Span # 0 => inverse' = inverse \o Emitted /\ intervals' = ReplacedIntervals
<1>1. cursor' = Wrap(cursor + Span) /\ table' = table BY DEF Walk
<1>2. StopSegment' = StopSegment
  BY <1>1 DEF StopSegment, FirstPositive, Positive, Source
<1>3. ~(Len(intervals') > Capacity) BY DEF Walk
<1>4. reversing = "walk" BY DEF Walking
<1>5. CASE cursor' = Source(boundary) BY <1>1, <1>2, <1>3, <1>4, <1>5 DEF Walk, AtBoundary
<1>6. CASE cursor' # Source(boundary) BY <1>1, <1>2, <1>3, <1>4, <1>6 DEF Walk
<1> QED BY <1>5, <1>6

\* A piece walked before the end of the number line is passed leaves the cursor in its
\* segment, and what is reached by then lies before the end of the piece.
LEMMA AheadStep ==
  ASSUME Walking, Ahead, Walk, reversing' # "panic"
  PROVE  /\ reversing' = "walk" => OnSegment'
         /\ reversing' = "walk" /\ Ahead' => cursor' = cursor + Span
         /\ \A x \in FileOffsets : Reached(x)' => x < cursor + Span
<1> DEFINE n  == Len(table)
           st == StopSegment
           sb == Source(boundary)
           t  == cursor + Span
           c2 == cursor'
           a2 == active'
<1>1. table \in Table /\ Sorted(table) /\ ZeroSource /\ cursor \in Word
  BY DEF Walking, TypeOK
<1>2. /\ st \in 1 .. n /\ n \in Nat /\ DOMAIN table = 1 .. n
      /\ \A i \in 1 .. n : (i <= st => Source(i) <= 0) /\ (i > st => Source(i) > 0)
  <2>1. table # <<>> BY <1>1, StopIsZero
  <2> QED BY <1>1, <2>1, StopIsZero, StopIs
<1>3. \A i \in 1 .. n : Source(i) \in Int /\ Source(i) \in Word
  BY <1>1, <1>2, TableTyped DEF Source
<1>4. \A i, j \in 1 .. n : i <= j => Source(i) <= Source(j) BY <1>1, <1>2 DEF Sorted, Source
<1>5. /\ active \in 1 .. n
      /\ cursor \in Int /\ Source(active) \in Int /\ Source(active) <= cursor
      /\ Span \in Nat
      /\ active < n => boundary = active + 1 /\ sb \in Word /\ t <= sb
      /\ active = n =>
           /\ boundary = 1 /\ sb \in Word /\ sb <= 0 /\ t <= sb + Words
           /\ sb = 0 => cursor > 0
  BY AheadSpan
<1>6. cursor >= 0 /\ active >= st BY DEF Ahead
<1>7. /\ c2 = Wrap(t)
      /\ \/ c2 = sb /\ boundary = st /\ reversing' = "clean"
         \/ c2 = sb /\ boundary # st /\ a2 = boundary /\ reversing' = "walk"
         \/ c2 # sb /\ a2 = active /\ reversing' = "walk"
      /\ table' = table /\ StopSegment' = st
  BY WalkGoes
<1>8. Ahead' <=> a2 >= st /\ c2 >= 0 BY <1>7 DEF Ahead
<1>9. OnSegment' <=>
        /\ Ahead' => Source(a2) <= c2 /\ (a2 < n => c2 <= Source(a2 + 1))
        /\ ~Ahead' /\ a2 >= st => a2 = n /\ c2 <= Source(1)
        /\ a2 < st => c2 <= Source(a2 + 1)
  BY <1>7 DEF OnSegment, Source
<1>10. \A x \in FileOffsets : Reached(x)' <=> (reversing' = "walk" /\ Ahead' => x < c2)
  BY DEF Reached
<1>11. /\ Half \in Nat /\ Max = Half - 1 /\ Words = 2 * Half
       /\ \A w \in Int : 0 <= w /\ w < Half => w \in Word
       /\ \A w \in Int : -Half <= w /\ w <= 0 => w \in Word
       /\ \A w \in Word : w \in Int /\ w < Half /\ -Half <= w
  BY WordsAre
<1>12. \A x \in FileOffsets : x \in Int /\ x < Half BY <1>11 DEF FileOffsets
<1>13. t \in Int /\ cursor <= t /\ t >= 0 BY <1>5, <1>6
<1>14. t < Half => c2 = t
  <2> SUFFICES ASSUME t < Half PROVE c2 = t OBVIOUS
  <2> HIDE DEF t
  <2>1. t \in Word BY <1>11, <1>13
  <2> QED BY <1>7, <2>1, WrapsWord
<1> HIDE DEF n, st, sb, t, c2, a2
<1>15. CASE active < n
  <2>1. boundary = active + 1 /\ sb \in Word /\ t <= sb /\ sb \in Int /\ sb < Half
    BY <1>5, <1>11, <1>15
  <2>2. boundary \in 1 .. n BY <1>2, <1>5, <1>15, <2>1
  <2>3. c2 = t BY <1>11, <1>13, <1>14, <2>1
  <2>4. boundary # st BY <1>2, <1>5, <1>6, <2>1
  <2>5. /\ reversing' = "walk" /\ ((c2 = sb /\ a2 = boundary) \/ (c2 # sb /\ a2 = active))
    BY <1>7, <2>4
  <2>6. Ahead' BY <1>2, <1>5, <1>6, <1>8, <1>13, <2>1, <2>3, <2>5
  <2>7. Source(a2) <= c2 /\ (a2 < n => c2 <= Source(a2 + 1))
    <3>1. CASE c2 = sb /\ a2 = boundary
      <4>1. Source(a2) = c2 BY <3>1 DEF sb
      <4>2. a2 < n => c2 <= Source(a2 + 1)
        <5> SUFFICES ASSUME a2 < n PROVE Source(a2) <= Source(a2 + 1) BY <4>1
        <5>1. a2 \in 1 .. n /\ a2 + 1 \in 1 .. n /\ a2 <= a2 + 1 BY <1>2, <2>2, <3>1
        <5> QED BY <1>4, <5>1
      <4>3. c2 <= c2 BY <1>13, <2>3
      <4> QED BY <4>1, <4>2, <4>3
    <3>2. CASE c2 # sb /\ a2 = active
      <4>1. c2 <= Source(a2 + 1) BY <2>1, <2>3, <3>2 DEF sb
      <4>2. Source(a2) <= c2 BY <1>5, <1>13, <2>3, <3>2
      <4> QED BY <4>1, <4>2
    <3> QED BY <2>5, <3>1, <3>2
  <2>8. a2 >= st BY <1>8, <2>6
  <2>9. OnSegment'
    <3>1. ~(a2 < st) BY <1>2, <1>5, <1>6, <2>1, <2>5
    <3> QED BY <1>9, <2>6, <2>7, <3>1
  <2>10. \A x \in FileOffsets : Reached(x)' => x < t BY <1>10, <2>3, <2>5, <2>6
  <2> QED BY <2>3, <2>9, <2>10 DEF t, c2
<1>16. CASE active = n
  <2>1. /\ boundary = 1 /\ sb \in Word /\ sb \in Int /\ sb <= 0 /\ t <= sb + Words
        /\ sb = 0 => cursor > 0
    BY <1>5, <1>11, <1>16
  <2>2. 1 \in 1 .. n /\ sb = Source(1) BY <1>2, <2>1 DEF sb
  <2>3. CASE t < Half
    <3>1. c2 = t BY <1>14, <2>3
    <3>2. c2 # sb BY <1>5, <1>6, <1>13, <2>1, <3>1
    <3>3. reversing' = "walk" /\ a2 = active BY <1>7, <3>2
    <3>4. Ahead' BY <1>6, <1>8, <1>13, <3>1, <3>3
    <3>5. Source(a2) <= c2 /\ ~(a2 < n) BY <1>2, <1>5, <1>13, <1>16, <3>1, <3>3
    <3>6. ~(a2 < st) BY <1>2, <1>5, <1>6, <3>3
    <3>7. OnSegment' BY <1>9, <3>4, <3>5, <3>6
    <3>8. \A x \in FileOffsets : Reached(x)' => x < t BY <1>10, <3>1, <3>3, <3>4
    <3> QED BY <3>1, <3>7, <3>8 DEF t, c2
  <2>4. CASE ~(t < Half)
    <3>1. t - Words \in Int /\ -Half <= t - Words /\ t - Words <= sb BY <1>11, <1>13, <2>1, <2>4
    <3>2. c2 = t - Words
      <4>1. t - Words \in Word BY <1>11, <2>1, <3>1
      <4>2. 1 * Words = Words /\ Words \in Int BY <1>11
      <4>3. t = (t - Words) + 1 * Words BY <1>13, <4>2
      <4> QED BY <1>7, <1>13, <4>1, <4>3, WrapUnique
    <3>3. c2 \in Int /\ c2 <= sb /\ c2 <= 0 BY <2>1, <3>1, <3>2
    <3>4. reversing' = "walk" => OnSegment' /\ ~Ahead'
      <4> SUFFICES ASSUME reversing' = "walk" PROVE OnSegment' /\ ~Ahead' OBVIOUS
      <4>1. CASE c2 = sb /\ boundary # st /\ a2 = boundary
        <5>1. a2 = 1 /\ a2 < st /\ 1 + 1 \in 1 .. n BY <1>2, <2>1, <4>1
        <5>2. ~Ahead' BY <1>2, <1>8, <5>1
        <5>3. c2 <= Source(a2 + 1) BY <1>4, <2>2, <4>1, <5>1
        <5>4. ~(a2 >= st) BY <1>2, <5>1
        <5> QED BY <1>9, <5>2, <5>3, <5>4
      <4>2. CASE c2 # sb /\ a2 = active
        <5>1. ~(c2 >= 0) BY <2>1, <3>3, <4>2
        <5>2. ~Ahead' BY <1>8, <5>1
        <5>3. a2 = n /\ c2 <= Source(1) /\ ~(a2 < st)
          BY <1>2, <1>5, <1>6, <1>16, <2>2, <3>3, <4>2
        <5> QED BY <1>9, <5>2, <5>3
      <4> QED BY <1>7, <4>1, <4>2
    <3>5. \A x \in FileOffsets : x < t BY <1>11, <1>12, <1>13, <2>4
    <3> QED BY <3>4, <3>5 DEF t
  <2> QED BY <2>3, <2>4
<1> QED BY <1>2, <1>5, <1>15, <1>16

\* Once the end of the number line is passed, the walk goes on to the entry at 0.
LEMMA BehindStep ==
  ASSUME Walking, ~Ahead, Walk, reversing' # "panic"
  PROVE  reversing' = "walk" => OnSegment' /\ ~Ahead'
<1> DEFINE n  == Len(table)
           st == StopSegment
           sb == Source(boundary)
           t  == cursor + Span
           u  == Unsigned(sb - cursor)
           c2 == cursor'
           a2 == active'
<1>1. table \in Table /\ Sorted(table) /\ ZeroSource /\ cursor \in Word
      /\ boundary = Following(active)
  BY DEF Walking, TypeOK, AtWalk
<1>2. /\ st \in 1 .. n /\ n \in Nat /\ DOMAIN table = 1 .. n
      /\ \A i \in 1 .. n : i <= st => Source(i) <= 0
  <2>1. table # <<>> BY <1>1, StopIsZero
  <2> QED BY <1>1, <2>1, StopIsZero, StopIs
<1>3. \A i \in 1 .. n : Source(i) \in Int /\ Source(i) \in Word
  BY <1>1, <1>2, TableTyped DEF Source
<1>4. \A i, j \in 1 .. n : i <= j => Source(i) <= Source(j) BY <1>1, <1>2 DEF Sorted, Source
<1>5. active \in 1 .. n BY <1>2 DEF Walking, AtWalk
<1>6. boundary = IF active < n THEN active + 1 ELSE 1 BY <1>1 DEF Following
<1>7. /\ c2 = Wrap(t)
      /\ \/ c2 = sb /\ boundary = st /\ reversing' = "clean"
         \/ c2 = sb /\ boundary # st /\ a2 = boundary /\ reversing' = "walk"
         \/ c2 # sb /\ a2 = active /\ reversing' = "walk"
      /\ table' = table /\ StopSegment' = st
  BY WalkGoes
<1>8. Ahead' <=> a2 >= st /\ c2 >= 0 BY <1>7 DEF Ahead
<1>9. OnSegment' <=>
        /\ Ahead' => Source(a2) <= c2 /\ (a2 < n => c2 <= Source(a2 + 1))
        /\ ~Ahead' /\ a2 >= st => a2 = n /\ c2 <= Source(1)
        /\ a2 < st => c2 <= Source(a2 + 1)
  BY <1>7 DEF OnSegment, Source
<1>10. /\ Half \in Nat /\ Words = 2 * Half
       /\ \A w \in Int : -Half <= w /\ w <= 0 => w \in Word
       /\ \A w \in Word : w \in Int /\ w < Half /\ -Half <= w
  BY WordsAre
<1>11. /\ Span \in Nat /\ (Span = u \/ (Span = Unsigned(Min - SegmentOffset - cursor) /\ Span < u))
  <2>1. Span \in Nat BY SpanIs DEF Walking
  <2> QED BY <2>1 DEF Span
<1>12. \/ active < st /\ cursor <= Source(active + 1)
       \/ active >= st /\ active = n /\ cursor <= Source(1) /\ cursor < 0
  <2>1. CASE active < st BY <2>1 DEF Walking, OnSegment
  <2>2. CASE ~(active < st)
    <3>1. active >= st BY <1>2, <1>5, <2>2
    <3>2. active = n /\ cursor <= Source(1) BY <3>1 DEF Walking, OnSegment
    <3>3. ~(cursor >= 0) BY <3>1 DEF Ahead
    <3>4. cursor \in Int BY <1>1, <1>10
    <3> QED BY <3>1, <3>2, <3>3, <3>4
  <2> QED BY <2>1, <2>2
<1> HIDE DEF n, st, c2, a2
<1>13. /\ boundary \in 1 .. n /\ boundary <= st /\ cursor <= Source(boundary)
       /\ (boundary = active + 1 \/ (boundary = 1 /\ active = n))
  <2>1. CASE active < st
    <3>1. active < n BY <1>2, <1>5, <2>1
    <3>2. boundary = active + 1 BY <1>6, <3>1
    <3>3. boundary \in 1 .. n /\ boundary <= st BY <1>2, <1>5, <2>1, <3>2
    <3>4. cursor <= Source(active + 1) BY <1>2, <1>5, <1>12, <2>1
    <3> QED BY <3>2, <3>3, <3>4
  <2>2. CASE ~(active < st)
    <3>1. active = n /\ cursor <= Source(1) /\ boundary = 1 BY <1>2, <1>5, <1>6, <1>12, <2>2
    <3>2. 1 \in 1 .. n /\ 1 <= st BY <1>2
    <3> QED BY <3>1, <3>2
  <2> QED BY <2>1, <2>2
<1>14. sb \in Int /\ sb <= 0 /\ cursor \in Int /\ -Half <= cursor /\ cursor <= sb
  BY <1>1, <1>2, <1>3, <1>10, <1>13
<1> HIDE DEF sb
<1>15. sb - cursor \in 0 .. Words - 1
  <2>1. Half # 0 BY WordsAre
  <2> QED BY <1>10, <1>14, <2>1
<1>16. u = sb - cursor BY <1>15, UnsignedOf
<1> HIDE DEF u
<1>17. t \in Int /\ t <= sb /\ -Half <= t BY <1>10, <1>11, <1>14, <1>16
<1> HIDE DEF t
<1>18. c2 = t
  <2>1. t <= 0 BY <1>14, <1>17
  <2>2. t \in Word BY <1>10, <1>17, <2>1
  <2> QED BY <1>7, <2>2, WrapsWord
<1> SUFFICES ASSUME reversing' = "walk" PROVE OnSegment' /\ ~Ahead' OBVIOUS
<1>19. CASE c2 = sb /\ boundary # st /\ a2 = boundary
  <2>1. a2 < st /\ a2 \in 1 .. n /\ a2 + 1 \in 1 .. n /\ a2 <= a2 + 1 BY <1>2, <1>13, <1>19
  <2>2. c2 <= Source(a2 + 1)
    <3>1. Source(a2) <= Source(a2 + 1) BY <1>4, <2>1
    <3> QED BY <1>19, <3>1 DEF sb
  <2>3. ~(a2 >= st) BY <1>2, <2>1
  <2>4. ~Ahead' BY <1>8, <2>3
  <2> QED BY <1>9, <2>2, <2>3, <2>4
<1>20. CASE c2 # sb /\ a2 = active
  <2>1. c2 < sb /\ c2 < 0 BY <1>14, <1>17, <1>18, <1>20
  <2>2. ~Ahead' BY <1>8, <1>17, <1>18, <2>1
  <2>3. CASE active < st
    <3>1. active < n /\ boundary = active + 1 BY <1>2, <1>5, <1>6, <2>3
    <3>2. c2 <= Source(a2 + 1) BY <1>17, <1>18, <1>20, <3>1 DEF sb
    <3>3. ~(a2 >= st) BY <1>2, <1>5, <1>20, <2>3
    <3> QED BY <1>9, <2>2, <3>2, <3>3
  <2>4. CASE ~(active < st)
    <3>1. active = n /\ boundary = 1 BY <1>2, <1>5, <1>6, <1>12, <2>4
    <3>2. c2 <= Source(1) BY <1>17, <1>18, <3>1 DEF sb
    <3> QED BY <1>9, <1>20, <2>2, <2>4, <3>1, <3>2
  <2> QED BY <2>3, <2>4
<1> QED BY <1>7, <1>19, <1>20

\* A piece that is not empty.
LEMMA PieceHere == ASSUME ReverseInv, reversing = "walk", Span # 0 PROVE Piece
<1>1. TypeOK /\ AtWalk /\ Apart(intervals) /\ intervals \in Seq(Interval)
  BY DEF ReverseInv, TypeOK, Interval
<1>2. /\ ImageStart \in Word /\ Span \in Nat /\ ImageStart + Span <= Half
      /\ ImageEnd = IF ImageStart + Span = Half THEN Min ELSE ImageStart + Span
  BY <1>1, SpanIs
<1>3. Span \in Nat \ {0} BY <1>2
<1> QED BY <1>1, <1>2, <1>3 DEF Piece, Rim

\* An entry applies behind both parts of a table if it does behind each.
LEMMA AppliesInBoth ==
  ASSUME NEW u \in Table, NEW v \in Table, NEW entry, NEW y,
         Applies(u, entry, y), Applies(v, entry, y)
  PROVE  Applies(u \o v, entry, y)
<1> DEFINE w == u \o v
<1>1. DrawnFrom(w, u, v) BY InConcat DEF Table
<1>2. /\ entry.source <= y
      /\ \A o \in DOMAIN u : u[o].source < entry.source \/ y < u[o].source \/ u[o] = entry
      /\ \A o \in DOMAIN v : v[o].source < entry.source \/ y < v[o].source \/ v[o] = entry
  BY DEF Applies
<1> HIDE DEF w
<1>3. ASSUME NEW o \in DOMAIN w
      PROVE  w[o].source < entry.source \/ y < w[o].source \/ w[o] = entry
  <2>1. CASE \E i \in DOMAIN u : w[o] = u[i]
    <3>1. PICK i \in DOMAIN u : w[o] = u[i] BY <2>1
    <3>2. u[i].source < entry.source \/ y < u[i].source \/ u[i] = entry BY <1>2
    <3> QED BY <3>1, <3>2
  <2>2. CASE \E i \in DOMAIN v : w[o] = v[i]
    <3>1. PICK i \in DOMAIN v : w[o] = v[i] BY <2>2
    <3>2. v[i].source < entry.source \/ y < v[i].source \/ v[i] = entry BY <1>2
    <3> QED BY <3>1, <3>2
  <2> QED BY <1>1, <2>1, <2>2 DEF DrawnFrom
<1>4. Applies(w, entry, y) BY <1>2, <1>3 DEF Applies
<1> QED BY <1>4 DEF w

\* Entries that lead back still do when others are emitted: those lie where no interval
\* was.
LEMMA OldLeads ==
  ASSUME TypeOK, AtWalk, Piece, NEW x \in Int, NEW entry,
         entry.source \in Int, LeadsBack(intervals, inverse, entry, x)
  PROVE  LeadsBack(ReplacedIntervals, inverse \o Emitted, entry, x)
<1> DEFINE y == Mapped(table, x)
           p == entry.source
<1>1. Proper(entry) /\ Wrap(y + Offset(entry)) = x /\ Held(intervals, p, y)
      /\ Applies(inverse, entry, y)
  BY DEF LeadsBack
<1>2. y \in Int /\ p \in Int BY MappedTyped DEF TypeOK
<1>3. inverse \in Table /\ Emitted \in Table /\ \A k \in DOMAIN Emitted : Fresh(Emitted[k])
  BY EmittedFresh DEF TypeOK
<1>4. PICK i \in DOMAIN intervals : intervals[i].first <= p /\ y < Top(intervals[i])
  BY <1>1 DEF Held
<1>5. intervals[i].first \in Int /\ Top(intervals[i]) \in Int BY TopsAre DEF Piece
<1>6. p <= y BY <1>1 DEF Applies
<1>7. Held(ReplacedIntervals, p, y)
  <2> HIDE DEF y, p
  <2> QED BY <1>1, <1>2, ReplacedHolds
<1>8. ASSUME NEW k \in DOMAIN Emitted PROVE Emitted[k].source < p \/ y < Emitted[k].source
  <2> DEFINE q == Emitted[k].source
  <2>1. Fresh(Emitted[k]) BY <1>3
  <2>2. q \in Word /\ Bare(q, q) BY <2>1 DEF Fresh
  <2>3. q \in Int BY <2>2, WordsAre
  <2>4. Top(intervals[i]) <= q \/ q < intervals[i].first BY <2>2 DEF Bare
  <2> HIDE DEF q, p, y
  <2>5. q < p \/ y < q BY <1>2, <1>4, <1>5, <2>3, <2>4
  <2> QED BY <2>5 DEF q, p
<1>9. Applies(Emitted, entry, y) BY <1>6, <1>8 DEF Applies
<1>10. Applies(inverse \o Emitted, entry, y)
  <2> HIDE DEF y
  <2> QED BY <1>1, <1>3, <1>9, AppliesInBoth
<1> QED BY <1>1, <1>7, <1>10 DEF LeadsBack

\* The position reached first of those with one image is led back to from then on: its
\* image was not held before, and so an entry is emitted for it.
LEMMA NewLeads ==
  ASSUME Walking, Ahead, Piece, InverseHeld(intervals, inverse), CoveredByReached,
         NEW x \in FileOffsets, Lowest(x), cursor <= x, x < cursor + Span
  PROVE  \E k \in DOMAIN (inverse \o Emitted) :
           LeadsBack(ReplacedIntervals, inverse \o Emitted, (inverse \o Emitted)[k], x)
<1> DEFINE y == Mapped(table, x)
           s == ImageStart
           o == SegmentOffset
<1>1. TypeOK /\ AtWalk /\ table \in Table /\ inverse \in Table /\ cursor \in Word
  BY DEF Walking, TypeOK
<1>2. /\ cursor \in Int /\ cursor >= 0 /\ Span \in Nat /\ x \in Int /\ 0 <= x /\ x <= Max
      /\ Half \in Nat \ {0} /\ Min = -Half /\ Max = Half - 1
  <2>1. cursor \in Int /\ Span \in Nat BY AheadSpan
  <2>2. cursor >= 0 BY DEF Ahead
  <2> QED BY <2>1, <2>2, WordsAre DEF FileOffsets
<1>3. y \in FileOffsets /\ \A w \in FileOffsets : Mapped(table, w) = y => x <= w
  BY DEF Lowest
<1>4. y \in Int /\ 0 <= y /\ y \in Word
  <2>1. y \in Word BY <1>1, <1>2, MappedTyped
  <2> QED BY <1>3, <2>1, WordsAre DEF FileOffsets
<1>5. y = s + (x - cursor) BY AheadMaps
<1>6. s \in Int /\ Min <= s /\ Rim = s + Span BY PieceIs DEF Rim
<1>7. o \in Int /\ s = Wrap(o + cursor) BY <1>1, SpanIs DEF ImageStart
<1> HIDE DEF y, s, o
<1>8. s <= y /\ y < Rim BY <1>2, <1>5, <1>6
<1>9. ~Held(intervals, y, y)
  <2> SUFFICES ASSUME Held(intervals, y, y) PROVE FALSE OBVIOUS
  <2>1. PICK w \in 0 .. cursor - 1 : Mapped(table, w) = y BY <1>4 DEF CoveredByReached
  <2>2. w \in FileOffsets /\ w < x BY <1>2, <2>1 DEF FileOffsets
  <2>3. x <= w BY <1>3, <2>1, <2>2
  <2> QED BY <1>2, <2>2, <2>3
<1>10. PICK k \in DOMAIN Emitted : Emitted[k].source <= y /\ Bare(Emitted[k].source, y)
  BY <1>1, <1>4, <1>8, <1>9, EmittedHas DEF s
<1> DEFINE e == Emitted[k]
           q == e.source
<1>11. Applies(Emitted, e, y) BY <1>1, <1>4, <1>10, EmittedApplies
<1>12. Emitted \in Table /\ Fresh(e) BY <1>1, EmittedFresh
<1>13. q \in Int /\ s <= q /\ e = Resumed(q) BY <1>12, WordsAre DEF Fresh, s
<1>14. q <= y /\ Bare(q, y) BY <1>10
<1>15. e.target = Wrap(q - o) BY <1>13 DEF Resumed, Entry, o
<1> HIDE DEF e, q
\* Its target is a position of the piece.
<1>16. e.target = cursor + (q - s)
  <2>1. -o \in Int /\ o + cursor \in Int /\ (q - s) - o \in Int BY <1>2, <1>6, <1>7, <1>13
  <2>2. PICK j \in Int : o + cursor = s + j * Words BY <1>7, <2>1, WrapIs
  <2>3. Words \in Int /\ j * Words \in Int /\ (-j) * Words = -(j * Words) /\ -j \in Int
    BY WordsAre
  <2>4. q - o = (cursor + (q - s)) + (-j) * Words
    BY <1>2, <1>6, <1>7, <1>13, <2>2, <2>3
  <2>5. cursor + (q - s) \in Int /\ 0 <= cursor + (q - s) /\ cursor + (q - s) <= Max
    BY <1>2, <1>5, <1>6, <1>13, <1>14
  <2>6. cursor + (q - s) \in Word BY <1>2, <2>5, WordsAre
  <2>7. q - o \in Int BY <1>7, <1>13
  <2> QED BY <1>15, <2>3, <2>4, <2>6, <2>7, WrapUnique
<1>17. Proper(e)
  <2>1. e.target # Min BY <1>2, <1>6, <1>13, <1>16
  <2>2. e.source # Min
    <3>1. q # Min BY <1>2, <1>4, <1>5, <1>6, <1>13
    <3> QED BY <3>1 DEF q
  <2> QED BY <2>1, <2>2 DEF Proper
<1>18. Wrap(y + Offset(e)) = x
  <2>1. Offset(e) = e.target - q BY DEF Offset, q
  <2>2. y + Offset(e) = x BY <1>2, <1>4, <1>5, <1>6, <1>13, <1>16, <2>1
  <2>3. x \in Word BY <1>2, WordsAre
  <2> QED BY <2>2, <2>3, WrapsWord
<1>19. Held(ReplacedIntervals, q, y) BY <1>4, <1>8, <1>13, ReplacedHolds DEF s
<1>20. Applies(inverse, e, y)
  <2>1. ASSUME NEW i \in DOMAIN inverse
        PROVE  inverse[i].source < q \/ y < inverse[i].source
    <3> DEFINE p == inverse[i].source
    <3>1. p \in Int BY <1>1, TableTyped
    <3>2. Held(intervals, p, p) BY DEF InverseHeld
    <3> HIDE DEF p
    <3>3. PICK j \in DOMAIN intervals : intervals[j].first <= p /\ p < Top(intervals[j])
      BY <3>2 DEF Held
    <3>4. intervals[j].first \in Int /\ Top(intervals[j]) \in Int BY TopsAre DEF Piece
    <3>5. Top(intervals[j]) <= q \/ y < intervals[j].first BY <1>14 DEF Bare
    <3>6. p < q \/ y < p BY <1>4, <1>13, <3>1, <3>3, <3>4, <3>5
    <3> QED BY <3>6 DEF p
  <2> QED BY <1>14, <2>1 DEF Applies, q
<1>21. Applies(inverse \o Emitted, e, y)
  <2>1. Applies(Emitted, e, y) BY <1>11 DEF e
  <2> QED BY <1>1, <1>12, <1>20, <2>1, AppliesInBoth
<1>22. Includes(inverse \o Emitted, Emitted) BY <1>1, <1>12, InConcat DEF Table
<1>23. PICK i \in DOMAIN (inverse \o Emitted) : (inverse \o Emitted)[i] = e
  BY <1>22 DEF Includes, e
<1>24. LeadsBack(ReplacedIntervals, inverse \o Emitted, e, x)
  BY <1>17, <1>18, <1>19, <1>21 DEF LeadsBack, y, q
<1> QED BY <1>23, <1>24

\* The parts of the invariant a piece keeps: what is emitted lies in the intervals,
LEMMA WalkHolds ==
  ASSUME ReverseInv, Walking, Walk, reversing' # "panic", InverseHeld(intervals, inverse)
  PROVE  InverseHeld(intervals', inverse')
<1>1. CASE Span = 0
  <2>1. inverse' = inverse /\ intervals' = intervals BY <1>1, WalkGoes
  <2> QED BY <2>1
<1>2. CASE Span # 0
  <2>1. Piece /\ TypeOK /\ AtWalk BY <1>2, PieceHere DEF Walking
  <2>2. inverse' = inverse \o Emitted /\ intervals' = ReplacedIntervals BY <1>2, WalkGoes
  <2>3. inverse \in Table /\ Emitted \in Table /\ \A k \in DOMAIN Emitted : Fresh(Emitted[k])
    BY <2>1, EmittedFresh DEF TypeOK
  <2>4. DrawnFrom(inverse \o Emitted, inverse, Emitted) BY <2>3, InConcat DEF Table
  <2>5. ASSUME NEW o \in DOMAIN inverse
        PROVE  Held(ReplacedIntervals, inverse[o].source, inverse[o].source)
    <3>1. inverse[o].source \in Int BY <2>3, TableTyped
    <3>2. Held(intervals, inverse[o].source, inverse[o].source) BY DEF InverseHeld
    <3> QED BY <2>1, <3>1, <3>2, ReplacedHolds
  <2>6. ASSUME NEW o \in DOMAIN Emitted
        PROVE  Held(ReplacedIntervals, Emitted[o].source, Emitted[o].source)
    <3> DEFINE q == Emitted[o].source
    <3>1. q \in Word /\ ImageStart <= q /\ q < Rim BY <2>3 DEF Fresh
    <3> HIDE DEF q
    <3>2. q \in Int BY <3>1, WordsAre
    <3>3. Held(ReplacedIntervals, q, q) BY <2>1, <3>1, <3>2, ReplacedHolds
    <3> QED BY <3>3 DEF q
  <2> DEFINE w == inverse \o Emitted
  <2>7. DrawnFrom(w, inverse, Emitted) BY <2>4
  <2> HIDE DEF w
  <2>8. InverseHeld(ReplacedIntervals, w) BY <2>5, <2>6, <2>7 DEF InverseHeld, DrawnFrom
  <2> QED BY <2>2, <2>8 DEF w
<1> QED BY <1>1, <1>2

\* ... what it reaches is led back to, and what was still is,
LEMMA WalkLeadsBack ==
  ASSUME ReverseInv, Walking, Walk, reversing' # "panic", Leading,
         Ahead => CoveredByReached, NEW x \in FileOffsets, Lowest(x), Reached(x)'
  PROVE  \E o \in DOMAIN inverse' : LeadsBack(intervals', inverse', inverse'[o], x)
<1>1. /\ TypeOK /\ AtWalk /\ x \in Int /\ cursor \in Int /\ reversing = "walk" /\ inverse \in Table
      /\ InverseHeld(intervals, inverse)
  BY WordsAre DEF Walking, TypeOK, FileOffsets, Leading
<1>2. CASE Reached(x)
  <2>1. PICK o \in DOMAIN inverse : LeadsBack(intervals, inverse, inverse[o], x)
    BY <1>2 DEF Leading
  <2>2. CASE Span = 0
    <3>1. inverse' = inverse /\ intervals' = intervals BY <2>2, WalkGoes
    <3> QED BY <2>1, <3>1
  <2>3. CASE Span # 0
    <3>1. Piece BY <1>1, <2>3, PieceHere
    <3>2. inverse' = inverse \o Emitted /\ intervals' = ReplacedIntervals BY <2>3, WalkGoes
    <3>3. inverse[o].source \in Int BY <1>1, TableTyped
    <3>4. LeadsBack(ReplacedIntervals, inverse \o Emitted, inverse[o], x)
      BY <1>1, <2>1, <3>1, <3>3, OldLeads
    <3>5. Emitted \in Table BY <1>1, <3>1, EmittedFresh
    <3>6. Includes(inverse \o Emitted, inverse) BY <1>1, <3>5, InConcat DEF Table
    <3>7. PICK k \in DOMAIN (inverse \o Emitted) : (inverse \o Emitted)[k] = inverse[o]
      BY <3>6 DEF Includes
    <3> QED BY <3>2, <3>4, <3>7
  <2> QED BY <2>2, <2>3
<1>3. CASE ~Reached(x)
  <2>1. Ahead /\ cursor <= x BY <1>1, <1>3 DEF Reached
  <2>2. x < cursor + Span BY <2>1, AheadStep
  <2>3. Span # 0 BY <1>1, <2>1, <2>2
  <2>4. Piece BY <1>1, <2>3, PieceHere
  <2>5. inverse' = inverse \o Emitted /\ intervals' = ReplacedIntervals BY <2>3, WalkGoes
  <2>6. \E k \in DOMAIN (inverse \o Emitted) :
          LeadsBack(ReplacedIntervals, inverse \o Emitted, (inverse \o Emitted)[k], x)
    BY <1>1, <2>1, <2>2, <2>4, NewLeads
  <2> QED BY <2>5, <2>6
<1> QED BY <1>2, <1>3

\* ... and as long as the end of the number line is ahead, file offsets cover it all.
LEMMA WalkCovers ==
  ASSUME ReverseInv, Walking, Ahead, Walk, reversing' # "panic", CoveredByReached,
         cursor' = cursor + Span, NEW y \in Word, Held(intervals', y, y)
  PROVE  \E w \in 0 .. cursor' - 1 : Mapped(table, w) = y
<1>1. /\ TypeOK /\ AtWalk /\ reversing = "walk" /\ cursor \in Int /\ y \in Int /\ cursor >= 0
  BY WordsAre DEF Walking, TypeOK, Ahead
<1>2. Span \in Nat BY AheadSpan
<1>3. CASE Held(intervals, y, y)
  <2>1. PICK w \in 0 .. cursor - 1 : Mapped(table, w) = y BY <1>3 DEF CoveredByReached
  <2>2. w \in 0 .. cursor' - 1 BY <1>1, <1>2
  <2> QED BY <2>1, <2>2
<1>4. CASE ~Held(intervals, y, y)
  <2>1. Span # 0
    <3>1. Span = 0 => intervals' = intervals BY WalkGoes
    <3> QED BY <1>4, <3>1
  <2>2. Piece BY <1>1, <2>1, PieceHere
  <2>3. intervals' = ReplacedIntervals BY <2>1, WalkGoes
  <2>4. ImageStart <= y /\ y < Rim BY <1>1, <1>4, <2>2, <2>3, ReplacedHolds
  <2>5. ImageStart \in Int /\ Rim = ImageStart + Span BY <2>2, PieceIs DEF Rim
  <2> DEFINE w == cursor + (y - ImageStart)
  <2>6. w \in Int /\ cursor <= w /\ w < cursor + Span /\ y = ImageStart + (w - cursor)
    BY <1>1, <1>2, <2>4, <2>5
  <2>7. cursor' \in Word BY WalkKeeps DEF ReverseInv, TypeOK
  <2>8. w \in FileOffsets
    <3>1. cursor' <= Max /\ Max \in Int /\ cursor' \in Int BY <2>7, WordsAre
    <3> HIDE DEF w
    <3> QED BY <1>1, <2>6, <3>1 DEF FileOffsets
  <2> HIDE DEF w
  <2>9. Mapped(table, w) = y BY <2>6, <2>8, AheadMaps
  <2>10. w \in 0 .. cursor' - 1 BY <1>1, <1>2, <2>6
  <2> QED BY <2>9, <2>10
<1> QED BY <1>3, <1>4

\* The steps of the reversal: the walk starts at 0, with nothing reached and held.
LEMMA StartLeads == ASSUME LeadInv, StartReverse PROVE LeadInv'
<1>1. ReverseInv /\ ReverseInv' /\ Sorted(table) /\ TypeOK
  BY StartReverseKeeps DEF LeadInv, ReverseInv
<1>2. /\ table' = table /\ cursor' = cursor /\ intervals' = intervals
      /\ reversing = "start" /\ intervals = <<>> /\ inverse = <<>>
  BY <1>1 DEF StartReverse, ReverseInv
<1>3. (OneSource' <=> OneSource) /\ (ZeroSource' <=> ZeroSource) /\ (Sorted(table)' <=> Sorted(table))
  BY <1>2 DEF OneSource, ZeroSource, Source
<1>4. CASE table = <<>>
  <2>1. reversing' = "done" BY <1>4 DEF StartReverse
  <2>2. ~ZeroSource BY <1>4 DEF ZeroSource
  <2>3. ReturnsInverse' BY <1>2, <1>3, <2>2 DEF ReturnsInverse, ZeroSource, Source
  <2> QED BY <1>1, <1>3, <2>1, <2>3 DEF LeadInv
<1>5. CASE table # <<>> /\ OneSource
  <2>1. reversing' = "done" BY <1>5 DEF StartReverse
  <2>2. ReturnsInverse' BY <1>3, <1>5 DEF ReturnsInverse
  <2> QED BY <1>1, <1>3, <2>1, <2>2 DEF LeadInv
<1>6. CASE table # <<>> /\ ~OneSource
  <2>1. /\ reversing' = "walk" /\ inverse' = inverse /\ active' = StopSegment
    BY <1>6 DEF StartReverse
  <2>2. ReturnsInverse' BY <2>1 DEF ReturnsInverse
  <2>3. StopSegment' = StopSegment
    BY <1>2 DEF StopSegment, FirstPositive, Positive, Source
  <2> SUFFICES ASSUME ZeroSource
               PROVE  Leading' /\ OnSegment' /\ (Ahead' => CoveredByReached')
    BY <1>1, <1>3, <1>6, <2>1, <2>2 DEF LeadInv
  <2>4. cursor = 0 /\ cursor' = 0 BY <1>2 DEF LeadInv
  <2>5. /\ StopSegment \in 1 .. Len(table) /\ Len(table) \in Nat /\ DOMAIN table = 1 .. Len(table)
        /\ \A i \in DOMAIN table :
             /\ i <= StopSegment => Source(i) <= 0
             /\ i > StopSegment => Source(i) > 0
        /\ \A i \in DOMAIN table : Source(i) \in Int
    <3>1. table \in Table BY <1>1 DEF TypeOK
    <3> QED BY <1>1, <1>6, <3>1, StopIs, StopIsZero, TableTyped DEF Source
  <2>6. Ahead' BY <2>1, <2>3, <2>4, <2>5 DEF Ahead
  <2>7. Leading'
    <3>1. inverse' = <<>> BY <1>2, <2>1
    <3>2. DOMAIN inverse' = {} BY <3>1
    <3>3. InverseHeld(intervals, inverse)' BY <3>2 DEF InverseHeld
    <3>4. \A x \in FileOffsets : ~Reached(x)'
      <4>1. TAKE x \in FileOffsets
      <4>2. x \in Int /\ ~(x < 0) BY WordsAre DEF FileOffsets
      <4> QED BY <2>1, <2>4, <2>6, <4>2 DEF Reached
    <3>5. FileOffsets' = FileOffsets BY DEF FileOffsets, Max
    <3> QED BY <3>3, <3>4, <3>5 DEF Leading
  <2>8. OnSegment'
    <3> DEFINE st == StopSegment
    <3>1. Source(st) <= 0 /\ (st < Len(table) => 0 <= Source(st + 1))
      <4>1. st < Len(table) => st + 1 \in DOMAIN table /\ st + 1 > st BY <2>5
      <4>2. st \in DOMAIN table /\ st <= st BY <2>5
      <4>3. st < Len(table) => Source(st + 1) > 0 /\ Source(st + 1) \in Int BY <2>5, <4>1
      <4> QED BY <2>5, <4>2, <4>3
    <3>2. active' = st /\ ~(st < st) BY <2>1, <2>5
    <3>3. StopSegment' = st BY <2>3
    <3> HIDE DEF st
    <3> QED BY <1>2, <2>4, <2>6, <3>1, <3>2, <3>3 DEF OnSegment, Source
  <2>9. CoveredByReached'
    <3>1. DOMAIN intervals' = {} BY <1>2
    <3> QED BY <3>1 DEF CoveredByReached, Held
  <2> QED BY <2>7, <2>8, <2>9
<1> QED BY <1>4, <1>5, <1>6

\* ... a piece reaches the next file offsets, ...
LEMMA WalkLeads == ASSUME LeadInv, Walk PROVE LeadInv'
<1>1. ReverseInv /\ ReverseInv' /\ Sorted(table) /\ TypeOK /\ AtWalk /\ ~OneSource
      /\ reversing = "walk"
  BY WalkKeeps DEF LeadInv, ReverseInv, Walk
<1>2. table' = table /\ reversing' # "panic" BY <1>1 DEF Walk, ReverseInv
<1>3. (OneSource' <=> OneSource) /\ (ZeroSource' <=> ZeroSource) /\ (Sorted(table)' <=> Sorted(table))
  BY <1>2 DEF OneSource, ZeroSource, Source
<1>4. reversing' \in {"walk", "clean"} BY <1>1, <1>2 DEF Walk, AtBoundary
<1>5. ReturnsInverse' BY <1>4 DEF ReturnsInverse
<1> SUFFICES ASSUME ZeroSource
             PROVE  Leading' /\ (reversing' = "walk" => OnSegment' /\ (Ahead' => CoveredByReached'))
  BY <1>1, <1>3, <1>4, <1>5 DEF LeadInv
<1>6. Leading /\ OnSegment /\ (Ahead => CoveredByReached) BY <1>1 DEF LeadInv
<1>7. Walking BY <1>1, <1>6 DEF Walking
<1>8. InverseHeld(intervals', inverse') BY <1>1, <1>2, <1>6, <1>7, WalkHolds DEF Leading
<1>9. ASSUME NEW x \in FileOffsets, Lowest(x)', Reached(x)'
      PROVE  (\E o \in DOMAIN inverse : LeadsBack(intervals, inverse, inverse[o], x))'
  <2>1. Lowest(x) BY <1>2, <1>9 DEF Lowest
  <2>2. PICK o \in DOMAIN inverse' : LeadsBack(intervals', inverse', inverse'[o], x)
    BY <1>1, <1>2, <1>6, <1>7, <1>9, <2>1, WalkLeadsBack
  <2>3. LeadsBack(intervals, inverse, inverse[o], x)' BY <1>2, <2>2 DEF LeadsBack
  <2> QED BY <2>3
<1>10. Leading'
  <2>1. InverseHeld(intervals, inverse)' BY <1>8 DEF InverseHeld
  <2>2. FileOffsets' = FileOffsets BY DEF FileOffsets, Max
  <2> QED BY <1>9, <2>1, <2>2 DEF Leading
<1>11. ASSUME reversing' = "walk" PROVE OnSegment'
  <2>1. CASE Ahead BY <1>2, <1>7, <1>11, <2>1, AheadStep
  <2>2. CASE ~Ahead BY <1>2, <1>7, <1>11, <2>2, BehindStep
  <2> QED BY <2>1, <2>2
<1>12. ASSUME reversing' = "walk", Ahead' PROVE CoveredByReached'
  <2>1. Ahead
    <3>1. SUFFICES ASSUME ~Ahead PROVE FALSE OBVIOUS
    <3>2. ~Ahead' BY <1>2, <1>7, <1>12, <3>1, BehindStep
    <3> QED BY <1>12, <3>2
  <2>2. cursor' = cursor + Span BY <1>2, <1>7, <1>12, <2>1, AheadStep
  <2>3. ASSUME NEW y \in Word, Held(intervals', y, y)
        PROVE  \E w \in 0 .. cursor' - 1 : Mapped(table, w) = y
    BY <1>1, <1>2, <1>6, <1>7, <2>1, <2>2, <2>3, WalkCovers
  <2> QED BY <1>2, <2>3 DEF CoveredByReached
<1> QED BY <1>10, <1>11, <1>12

\* The lowest of the file offsets with one image.
LEMMA LowestIs ==
  ASSUME table \in Table, NEW y \in FileOffsets, Preimages(y) # {}
  PROVE  \E x \in Preimages(y) : Lowest(x) /\ Mapped(table, x) = y
                                 /\ \A other \in Preimages(y) : x <= other
<1> DEFINE S == {i \in 1 .. Half : Mapped(table, i - 1) = y}
<1>1. Half \in Nat /\ Max = Half - 1 BY WordsAre
<1>2. \A x \in Preimages(y) : x \in FileOffsets /\ Mapped(table, x) = y
  BY DEF Preimages, FileOffsets
<1>3. \A x \in FileOffsets : Mapped(table, x) = y => x \in Preimages(y)
  BY DEF Preimages, FileOffsets
<1>4. \A x \in FileOffsets : x + 1 \in 1 .. Half /\ x + 1 - 1 = x /\ x \in Int
  BY <1>1 DEF FileOffsets
<1>5. \A i \in 1 .. Half : i - 1 \in FileOffsets /\ i \in Int BY <1>1 DEF FileOffsets
<1>6. S \in SUBSET (1 .. Half) OBVIOUS
<1>7. S # {}
  <2>1. PICK x \in Preimages(y) : TRUE OBVIOUS
  <2>2. x + 1 \in S BY <1>2, <1>4, <2>1
  <2> QED BY <2>2
<1>8. PICK m \in S : \A k \in S : m <= k
  <2> HIDE DEF S
  <2> QED BY <1>1, <1>6, <1>7, SmallestIndex
<1>9. m \in 1 .. Half /\ Mapped(table, m - 1) = y OBVIOUS
<1> DEFINE x == m - 1
<1>10. x \in FileOffsets /\ Mapped(table, x) = y /\ x \in Preimages(y) BY <1>3, <1>5, <1>9
<1>11. ASSUME NEW w \in FileOffsets, Mapped(table, w) = y PROVE x <= w
  <2>1. w + 1 \in S BY <1>4, <1>11
  <2>2. m <= w + 1 BY <1>8, <2>1
  <2> QED BY <1>4, <1>5, <1>9, <2>2
<1> HIDE DEF x, S
<1>12. Lowest(x) BY <1>10, <1>11 DEF Lowest
<1>13. \A other \in Preimages(y) : x <= other BY <1>2, <1>11
<1> QED BY <1>10, <1>12, <1>13

\* What is left of the entries still leads back: of those with one source the last is
\* kept, and all of them are one entry.
LEMMA CleanedLeads ==
  ASSUME NEW t \in Table, NEW k \in DOMAIN t, NEW x \in Int, NEW y \in Int, Proper(t[k]),
         Wrap(y + Offset(t[k])) = x, Applies(t, t[k], y)
  PROVE  Mapped(Cleaned(t), y) = x
<1> DEFINE e == t[k]
           c == Cleaned(t)
           J == {j \in DOMAIN t : t[j].source = e.source /\ Proper(t[j])}
<1>1. /\ Len(t) \in Nat /\ DOMAIN t = 1 .. Len(t)
      /\ \A i \in DOMAIN t : i \in Int /\ t[i].source \in Int /\ Offset(t[i]) \in Int
  BY TableTyped
<1>2. e.source <= y
      /\ \A o \in DOMAIN t : t[o].source < e.source \/ y < t[o].source \/ t[o] = e
  BY DEF Applies
<1>3. k \in J OBVIOUS
<1>4. J \in SUBSET (1 .. Len(t)) BY <1>1
<1>5. PICK m \in J : \A j \in J : j <= m
  <2> HIDE DEF J
  <2> QED BY <1>1, <1>3, <1>4, LargestIndex
<1>6. m \in DOMAIN t /\ t[m].source = e.source /\ Proper(t[m]) OBVIOUS
<1>7. t[m] = e
  <2>1. ~(t[m].source < e.source) /\ ~(y < t[m].source) BY <1>1, <1>2, <1>6
  <2> QED BY <1>2, <1>6, <2>1
<1>8. m \in Left(t)
  <2>1. ASSUME NEW j \in DOMAIN t, j > m, Proper(t[j]) PROVE t[j].source # t[m].source
    <3>1. SUFFICES ASSUME t[j].source = t[m].source PROVE FALSE OBVIOUS
    <3>2. j \in J BY <1>6, <2>1, <3>1
    <3>3. j <= m BY <1>5, <3>2
    <3> QED BY <1>1, <1>6, <2>1, <3>3
  <2> QED BY <1>6, <2>1 DEF Left
<1> HIDE DEF e, c, J
<1>9. /\ c \in Table /\ StrictlySorted(c)
      /\ \A i \in Left(t) : \E l \in DOMAIN c : c[l] = t[i]
      /\ \A l \in DOMAIN c : \E i \in Left(t) : c[l] = t[i]
  BY CleanedTyped DEF c
<1>10. PICK l \in DOMAIN c : c[l] = e BY <1>7, <1>8, <1>9
<1>11. Sorted(c) BY <1>9, SortKeepsAscending
<1>12. Len(c) \in Nat /\ DOMAIN c = 1 .. Len(c)
       /\ (\A i \in DOMAIN c : c[i].source \in Int /\ Offset(c[i]) \in Int)
  BY <1>9, TableTyped
<1>13. l < Len(c) => y < c[l + 1].source
  <2> SUFFICES ASSUME l < Len(c) PROVE y < c[l + 1].source OBVIOUS
  <2>1. l + 1 \in DOMAIN c /\ l < l + 1 BY <1>12
  <2>2. c[l].source < c[l + 1].source BY <1>9, <2>1 DEF StrictlySorted
  <2>3. PICK i \in Left(t) : c[l + 1] = t[i] BY <1>9, <2>1
  <2>4. i \in DOMAIN t BY DEF Left
  <2>5. t[i].source < e.source \/ y < t[i].source \/ t[i] = e BY <1>2, <2>4
  <2>6. e.source < t[i].source BY <1>10, <2>2, <2>3
  <2>7. t[i].source \in Int /\ e.source \in Int BY <1>1, <1>6, <1>7, <2>4
  <2> QED BY <2>3, <2>5, <2>6, <2>7
<1>14. SegmentOf(c, y) = l BY <1>2, <1>9, <1>10, <1>11, <1>13, SegmentAt
<1>15. c # <<>> BY <1>12
<1>16. RiftOffset(c, y) = Wrap(Offset(e)) BY <1>10, <1>14, <1>15 DEF RiftOffset
<1>17. Offset(e) \in Int BY <1>10, <1>12
<1>18. Wrap(y + Wrap(Offset(e))) = Wrap(y + Offset(e)) BY <1>17, WrapsSum
<1> QED BY <1>16, <1>18 DEF Mapped, c, e

\* ... and the entries that are left are the inverse.
LEMMA CleanLeads == ASSUME LeadInv, Clean PROVE LeadInv'
<1>1. ReverseInv /\ ReverseInv' /\ Sorted(table) /\ TypeOK
  BY CleanKeeps DEF LeadInv, ReverseInv
<1>2. /\ inverse' = Cleaned(inverse) /\ reversing' = "done" /\ table' = table
      /\ reversing = "clean"
  BY DEF Clean
<1>3. ZeroSource' <=> ZeroSource BY <1>2 DEF ZeroSource, Source
<1>4. Sorted(table)' BY <1>1, <1>2
<1>5. ReturnsInverse'
  <2> SUFFICES ASSUME ZeroSource PROVE InvertsFirst'
    BY <1>3 DEF ReturnsInverse, ZeroSource
  <2>1. Leading BY <1>2 DEF LeadInv
  <2>2. table \in Table /\ inverse \in Table BY <1>1 DEF TypeOK
  <2>3. ASSUME NEW y \in FileOffsets, Preimages(y) # {}
        PROVE  /\ Mapped(Cleaned(inverse), y) \in Preimages(y)
               /\ \A other \in Preimages(y) : Mapped(Cleaned(inverse), y) <= other
    <3>1. PICK x \in Preimages(y) : Lowest(x) /\ Mapped(table, x) = y
                                    /\ \A other \in Preimages(y) : x <= other
      BY <2>2, <2>3, LowestIs
    <3>2. x \in FileOffsets BY DEF Preimages, FileOffsets
    <3>3. x \in Int /\ y \in Int BY <3>2, WordsAre DEF FileOffsets
    <3>4. Reached(x) BY <1>2 DEF Reached
    <3>5. PICK o \in DOMAIN inverse : LeadsBack(intervals, inverse, inverse[o], x)
      BY <2>1, <3>1, <3>2, <3>4 DEF Leading
    <3>6. Proper(inverse[o]) /\ Wrap(y + Offset(inverse[o])) = x
          /\ Applies(inverse, inverse[o], y)
      BY <3>1, <3>5 DEF LeadsBack
    <3>7. Mapped(Cleaned(inverse), y) = x BY <2>2, <3>3, <3>6, CleanedLeads
    <3> QED BY <3>1, <3>7
  <2>4. \A y \in 0 .. Max : Preimages(y)' = Preimages(y) BY <1>2 DEF Preimages
  <2> QED BY <1>2, <2>3, <2>4 DEF InvertsFirst, FileOffsets
<1> QED BY <1>1, <1>2, <1>4, <1>5 DEF LeadInv

\* A reversal starts with the cursor at 0.
LEMMA InitLeadInv == ASSUME ReversedAreTables, ReverseInit PROVE LeadInv
<1>1. ReverseInv BY InitReverseInv
<1>2. Sorted(table) /\ reversing = "start" /\ cursor = 0
  BY DEF ReversedAreTables, ReverseInit
<1>3. ReturnsInverse BY <1>2 DEF ReturnsInverse
<1> QED BY <1>1, <1>2, <1>3 DEF LeadInv

\* Every step of a reversal keeps the invariant.
LEMMA LeadStays == ASSUME LeadInv, [ReverseNext]_reverseVars PROVE LeadInv'
<1>1. CASE StartReverse BY <1>1, StartLeads
<1>2. CASE Walk BY <1>2, WalkLeads
<1>3. CASE Clean BY <1>3, CleanLeads
<1>4. CASE UNCHANGED reverseVars
  <2>1. /\ table' = table /\ inverse' = inverse /\ reversing' = reversing
        /\ active' = active /\ boundary' = boundary /\ cursor' = cursor
        /\ intervals' = intervals
    BY <1>4 DEF reverseVars
  <2>2. ReverseInv'
    BY <1>4, ReverseInvStays DEF LeadInv
  <2>3. Sorted(table)' /\ (reversing = "start" => cursor = 0)' BY <2>1 DEF LeadInv
  <2>4. (OneSource' <=> OneSource) /\ (ZeroSource' <=> ZeroSource)
    BY <2>1 DEF OneSource, ZeroSource, Source
  <2>5. StopSegment' = StopSegment
    BY <2>1 DEF StopSegment, FirstPositive, Positive, Source
  <2>6. (Ahead' <=> Ahead) /\ (OnSegment' <=> OnSegment)
    BY <2>1, <2>5 DEF Ahead, OnSegment, Source
  <2>7. CoveredByReached' <=> CoveredByReached BY <2>1 DEF CoveredByReached
  <2>8. Leading' <=> Leading
    <3>1. \A x : Reached(x)' <=> Reached(x) BY <2>1, <2>6 DEF Reached
    <3>2. \A x : Lowest(x)' <=> Lowest(x) BY <2>1 DEF Lowest
    <3>3. \A x, o : LeadsBack(intervals, inverse, inverse[o], x)'
                    <=> LeadsBack(intervals, inverse, inverse[o], x)
      BY <2>1 DEF LeadsBack
    <3> QED BY <2>1, <3>1, <3>2, <3>3 DEF Leading
  <2>9. ReturnsInverse' <=> ReturnsInverse
    BY <2>1, <2>4 DEF ReturnsInverse, InvertsFirst, Preimages, ZeroSource
  <2> QED BY <2>1, <2>2, <2>3, <2>4, <2>6, <2>7, <2>8, <2>9 DEF LeadInv
<1> QED BY <1>1, <1>2, <1>3, <1>4 DEF ReverseNext

\* What reverse returns for a table that starts at 0 maps the image of a position back
\* to the lowest position with that image: for every sorted table, of any length, and
\* words of any width.
THEOREM ReverseAlwaysReturnsInverse ==
  ReversedAreTables => (ReverseSpec => []ReturnsInverse)
<1> SUFFICES ASSUME ReversedAreTables PROVE ReverseSpec => []ReturnsInverse OBVIOUS
<1>1. ReverseInit => LeadInv BY InitLeadInv
<1>2. LeadInv /\ [ReverseNext]_reverseVars => LeadInv' BY LeadStays
<1>3. LeadInv => ReturnsInverse BY DEF LeadInv
<1> QED BY <1>1, <1>2, <1>3, PTL DEF ReverseSpec

-----------------------------------------------------------------------------
(***************************************************************************)
(* The copy rift of a PE delta: two products, a reversal and a fold.  That *)
(* a product keeps a source at 0, and has another one if it was made by a  *)
(* walk, is what lets the reversal lead back.                              *)
(***************************************************************************)
IsSource(t, s) == \E o \in DOMAIN t : t[o].source = s

\* Every source of a below upto is one of the product's.
SourcesKept(upto) == \A i \in DOMAIN a : a[i].source < upto => IsSource(out, a[i].source)

KeepInv ==
  /\ pc = "start" => out = <<>>
  /\ pc = "next" => SourcesKept(NextStart)
  /\ pc = "split" => SourcesKept(SegmentSource + 1)
  /\ pc = "done" =>
       IF a = <<>> \/ b = <<>> THEN out = (IF a = <<>> THEN b ELSE a)
       ELSE SourcesKept(Half) /\ Sorted(out) /\ out # <<>> /\ out[1].source = Min

\* A piece that is emitted leaves the sources of those before it, and adds its own.
LEMMA EmitKeepsSources ==
  ASSUME WalkTypeOK, NEW s \in Word, NEW img \in Word, Emit(s, img)
  PROVE  /\ \A r : IsSource(out, r) => IsSource(out', r)
         /\ IsSource(out', s)
<1> DEFINE R   == [source : Word, target : Word]
           new == Entry(s, Mapped(b, img))
<1>1. out \in Seq(R) /\ b \in Table BY DEF WalkTypeOK, Table
<1>2. new \in R /\ new.source = s
  <2>1. img \in Int BY WordsAre
  <2>2. Mapped(b, img) \in Word BY <1>1, <2>1, MappedTyped
  <2> QED BY <2>2 DEF Entry
<1>3. out' = Append(out, new) BY DEF Emit
<1> HIDE DEF R, new
<1>4. /\ Len(out) \in Nat /\ DOMAIN out = 1 .. Len(out) /\ DOMAIN out' = 1 .. Len(out) + 1
      /\ out'[Len(out) + 1] = new /\ \A i \in 1 .. Len(out) : out'[i] = out[i]
  BY <1>1, <1>2, <1>3
<1>5. Len(out) + 1 \in DOMAIN out' /\ \A i \in DOMAIN out : i \in DOMAIN out' BY <1>4
<1> QED BY <1>2, <1>4, <1>5 DEF IsSource

\* Every step of a product keeps them.
LEMMA KeepStays == ASSUME WalkInv, KeepInv, [MultiplyNext]_multiplyVars PROVE KeepInv'
<1>1. /\ WalkTypeOK /\ pc \in {"start", "next", "split", "done"}
      /\ a \in Table /\ Sorted(a) /\ out \in Table
  BY DEF WalkInv, WalkTypeOK
<1>2. /\ Len(a) \in Nat /\ DOMAIN a = 1 .. Len(a) /\ segment \in 0 .. Len(a) + 1
      /\ \A i \in DOMAIN a : a[i].source \in Word /\ a[i].source \in Int
  BY <1>1, TableTyped DEF WalkTypeOK
<1>3. Min \in Int /\ Half \in Int /\ \A w \in Word : w \in Int /\ Min <= w /\ w < Half
  <2>1. \A w \in Word : w \in Int /\ Min <= w /\ w <= Max BY WordsAre
  <2> QED BY <2>1, WordsAre
<1>4. CASE StartMultiply
  <2>1. pc = "start" /\ out = <<>> /\ a' = a /\ b' = b /\ segment' = segment /\ segment = 0
    BY <1>4 DEF StartMultiply, WalkInv
  <2>2. CASE a = <<>> \/ b = <<>>
    <3>1. out' = (IF a = <<>> THEN b ELSE a) /\ pc' = "done"
      BY <1>4, <2>2 DEF StartMultiply
    <3> QED BY <2>1, <2>2, <3>1 DEF KeepInv
  <2>3. CASE ~(a = <<>> \/ b = <<>>)
    <3>1. out' = out /\ pc' = "next" BY <1>4, <2>3 DEF StartMultiply
    <3>2. NextStart' = Min BY <1>2, <2>1 DEF NextStart, SegmentSource
    <3>3. \A i \in DOMAIN a : ~(a[i].source < Min) BY <1>2, <1>3
    <3>4. SourcesKept(NextStart)' BY <2>1, <3>1, <3>2, <3>3 DEF SourcesKept
    <3> QED BY <3>1, <3>4 DEF KeepInv
  <2> QED BY <2>2, <2>3
<1>5. CASE SkipSegment
  <2>1. /\ pc = "next" /\ segment <= Len(a) /\ EmptySegment
        /\ segment' = segment + 1 /\ a' = a /\ b' = b /\ out' = out /\ pc' = pc
    BY <1>5 DEF SkipSegment, FollowingSegment
  <2>2. segment < Len(a) /\ a[segment + 1].source = SegmentSource
    BY <2>1 DEF EmptySegment
  <2>3. NextStart = SegmentSource BY <2>1 DEF NextStart
  <2>4. NextStart' = a[segment + 1].source
    <3>1. segment + 1 <= Len(a) /\ segment + 1 # 0 BY <1>2, <2>2
    <3> QED BY <2>1, <3>1 DEF NextStart, SegmentSource
  <2>5. SourcesKept(NextStart) BY <2>1 DEF KeepInv
  <2>6. SourcesKept(NextStart)' BY <2>1, <2>2, <2>3, <2>4, <2>5 DEF SourcesKept
  <2> QED BY <2>1, <2>6 DEF KeepInv
<1>6. CASE EnterSegment
  <2>1. /\ pc = "next" /\ segment <= Len(a) /\ ~EmptySegment /\ pc' = "split"
        /\ Emit(SegmentSource, SegmentImage) /\ a' = a /\ b' = b /\ segment' = segment
    BY <1>6 DEF EnterSegment
  <2>2. segment \in 0 .. Len(a) BY <1>2, <2>1
  <2>3. a # <<>> BY <2>1 DEF WalkInv
  <2>4. SegmentSource \in Word /\ SegmentImage = Mapped(a, SegmentSource)
    BY <1>1, <2>1, <2>2, <2>3, SegmentIs
  <2>5. SegmentSource \in Int BY <1>3, <2>4
  <2>6. SegmentImage \in Word BY <1>1, <2>4, <2>5, MappedTyped
  <2>7. /\ \A r : IsSource(out, r) => IsSource(out', r)
        /\ IsSource(out', SegmentSource)
    BY <1>1, <2>1, <2>4, <2>6, EmitKeepsSources
  <2>8. NextStart = SegmentSource /\ SegmentSource' = SegmentSource
    BY <2>1 DEF NextStart, SegmentSource
  <2>9. SourcesKept(SegmentSource) BY <2>1, <2>8 DEF KeepInv
  <2>10. ASSUME NEW i \in DOMAIN a, a[i].source < SegmentSource + 1
         PROVE  IsSource(out', a[i].source)
    <3>1. a[i].source < SegmentSource \/ a[i].source = SegmentSource
      BY <1>2, <2>5, <2>10
    <3> QED BY <2>7, <2>9, <3>1 DEF SourcesKept
  <2>11. SourcesKept(SegmentSource + 1)' BY <2>1, <2>8, <2>10 DEF SourcesKept
  <2> QED BY <2>1, <2>11 DEF KeepInv
<1>7. CASE Split
  <2>1. /\ pc = "split" /\ pc' = pc /\ a' = a /\ b' = b /\ segment' = segment
        /\ Emit(Wrap(source + 1 + nextBreak - image), Wrap(nextBreak + 1))
    BY <1>7 DEF Split
  <2>2. source \in Int /\ nextBreak \in Int /\ image \in Int
    BY <2>1, SplitsIs, WordsAre
  <2>3. /\ Wrap(source + 1 + nextBreak - image) \in Word /\ Wrap(nextBreak + 1) \in Word
    BY <2>2, WrapTyped
  <2>4. \A r : IsSource(out, r) => IsSource(out', r)
    BY <1>1, <2>1, <2>3, EmitKeepsSources
  <2>5. SegmentSource' = SegmentSource BY <2>1 DEF SegmentSource
  <2>6. SourcesKept(SegmentSource + 1) BY <2>1 DEF KeepInv
  <2>7. SourcesKept(SegmentSource + 1)' BY <2>1, <2>4, <2>5, <2>6 DEF SourcesKept
  <2> QED BY <2>1, <2>7 DEF KeepInv
<1>8. CASE LeaveSegment
  <2>1. /\ pc = "split" /\ pc' = "next" /\ a' = a /\ b' = b /\ out' = out
        /\ segment' = segment + 1 /\ a # <<>>
    BY <1>8 DEF LeaveSegment, FollowingSegment, WalkInv
  <2>2. segment \in 0 .. Len(a) BY <2>1 DEF WalkInv, AtSplit
  <2>3. SourcesKept(SegmentSource + 1) /\ SegmentSource \in Int
    BY <2>1, SplitsIs, WordsAre DEF KeepInv
  <2>4. ASSUME NEW i \in DOMAIN a, a[i].source < NextStart'
        PROVE  a[i].source < SegmentSource + 1
    <3>1. i <= segment
      <4>1. CASE segment < Len(a)
        <5>1. segment + 1 \in DOMAIN a /\ segment + 1 <= Len(a) /\ segment + 1 # 0
          BY <1>2, <2>2, <4>1
        <5>2. NextStart' = a[segment + 1].source
          BY <2>1, <5>1 DEF NextStart, SegmentSource
        <5>3. ~(segment + 1 <= i)
          <6>1. segment + 1 <= i => a[segment + 1].source <= a[i].source
            BY <1>1, <5>1 DEF Sorted
          <6> QED BY <1>2, <2>4, <5>1, <5>2, <6>1
        <5> QED BY <1>2, <2>2, <5>3
      <4>2. CASE ~(segment < Len(a)) BY <1>2, <2>2, <4>2
      <4> QED BY <4>1, <4>2
    <3>2. segment # 0 /\ segment \in DOMAIN a BY <1>2, <2>2, <3>1
    <3>3. SegmentSource = a[segment].source BY <3>2 DEF SegmentSource
    <3>4. a[i].source <= a[segment].source BY <1>1, <3>1, <3>2 DEF Sorted
    <3> QED BY <1>2, <2>3, <3>3, <3>4
  <2>5. SourcesKept(NextStart)' BY <2>1, <2>3, <2>4 DEF SourcesKept
  <2> QED BY <2>1, <2>5 DEF KeepInv
<1>9. CASE Sort
  <2>1. pc = "next" /\ segment > Len(a) /\ a' = a /\ b' = b /\ pc' = "done"
        /\ out' = SortBySource(out)
    BY <1>9 DEF Sort
  <2>2. a # <<>> /\ b # <<>> /\ Ascending /\ AtNext BY <2>1 DEF WalkInv
  <2>3. Sorted(out) /\ out' = out BY <1>1, <2>1, <2>2, SortKeepsAscending DEF Ascending
  <2>4. NextStart = Half
    <3>1. ~(segment <= Len(a)) BY <1>2, <2>1
    <3> QED BY <3>1 DEF NextStart
  <2>5. SourcesKept(Half) BY <2>1, <2>4 DEF KeepInv
  <2>6. out # <<>>
    <3>1. Half # Min BY WordsAre
    <3> QED BY <2>2, <2>4, <3>1 DEF AtNext
  <2>7. SourcesKept(Half)' BY <2>1, <2>3, <2>5 DEF SourcesKept
  <2> QED BY <2>1, <2>2, <2>3, <2>6, <2>7 DEF KeepInv, Ascending
<1>10. CASE UNCHANGED multiplyVars
  <2>1. a' = a /\ b' = b /\ out' = out /\ pc' = pc /\ segment' = segment
    BY <1>10 DEF multiplyVars
  <2>2. SegmentSource' = SegmentSource BY <2>1 DEF SegmentSource
  <2>3. NextStart' = NextStart BY <2>1, <2>2 DEF NextStart
  <2>4. \A s : SourcesKept(s)' <=> SourcesKept(s) BY <2>1 DEF SourcesKept
  <2>5. (SourcesKept(NextStart)' <=> SourcesKept(NextStart))
        /\ (SourcesKept(SegmentSource + 1)' <=> SourcesKept(SegmentSource + 1))
        /\ (SourcesKept(Half)' <=> SourcesKept(Half))
    BY <2>1, <2>2, <2>3 DEF SourcesKept
  <2> QED BY <2>1, <2>5 DEF KeepInv
<1> QED BY <1>4, <1>5, <1>6, <1>7, <1>8, <1>9, <1>10 DEF MultiplyNext

-----------------------------------------------------------------------------
(***************************************************************************)
(* The fold and the decoder's lookup.  Of a list in any order, the entry   *)
(* for a position is the last, in the order of the sort, at or before it.  *)
(* Sorting, folding and pushing the boundary behind leave it the entry.    *)
(***************************************************************************)
IsEntryFor(es, place, i) ==
  /\ i \in DOMAIN es /\ es[i].source <= place
  /\ \A j \in DOMAIN es : es[j].source <= place => Before(es, j, i)

\* The entry is one of the list, and no other is.
EntryFor(es, place, entry) == \E i \in DOMAIN es : es[i] = entry /\ IsEntryFor(es, place, i)

\* The order of the sort: each index has a rank of its own.
LEMMA RankIsPlace ==
  ASSUME NEW n \in Nat, NEW es \in [1 .. n -> RiftEntry]
  PROVE  /\ \A j \in 1 .. n : Rank(es, j) \in 1 .. n
         /\ \A i, j \in 1 .. n : i # j /\ Before(es, i, j) => Rank(es, i) < Rank(es, j)
         /\ \A k \in 1 .. n : \E i \in 1 .. n : Rank(es, i) = k
<1> DEFINE Pre(j) == {i \in 1 .. n : Before(es, i, j)}
           rank   == [i \in 1 .. n |-> Rank(es, i)]
<1>1. \A i \in 1 .. n : es[i].source \in Int BY DEF RiftEntry
<1>2. IsFiniteSet(1 .. n) /\ Cardinality(1 .. n) = n BY FS_Interval
<1>3. \A j \in 1 .. n : /\ IsFiniteSet(Pre(j)) /\ Cardinality(Pre(j)) <= n
                        /\ Cardinality(Pre(j)) \in Nat
  <2>1. \A j \in 1 .. n : Pre(j) \subseteq 1 .. n OBVIOUS
  <2> HIDE DEF Pre
  <2> QED BY <1>2, <2>1, FS_Subset, FS_CardinalityType
<1>4. \A j \in 1 .. n : Rank(es, j) = Cardinality(Pre(j)) BY DEF Rank
<1>5. \A j \in 1 .. n : j \in Pre(j) BY <1>1 DEF Before
<1>6. \A j \in 1 .. n : Cardinality(Pre(j)) # 0
  <2> HIDE DEF Pre
  <2> QED BY <1>3, <1>5, FS_EmptySet
<1>7. \A j \in 1 .. n : Rank(es, j) \in 1 .. n
  <2> HIDE DEF Pre
  <2> QED BY <1>3, <1>4, <1>6
<1>8. ASSUME NEW i \in 1 .. n, NEW j \in 1 .. n, i # j, Before(es, i, j)
      PROVE  Rank(es, i) < Rank(es, j)
  <2>1. Pre(i) \subseteq Pre(j) BY <1>1, <1>8 DEF Before
  <2>2. j \in Pre(j) /\ j \notin Pre(i) BY <1>1, <1>8 DEF Before
  <2> HIDE DEF Pre
  <2>3. Cardinality(Pre(i)) <= Cardinality(Pre(j)) BY <1>3, <2>1, FS_Subset
  <2>4. Cardinality(Pre(i)) # Cardinality(Pre(j)) BY <1>3, <2>1, <2>2, FS_Subset
  <2> QED BY <1>3, <1>4, <2>3, <2>4
<1>9. \A i, j \in 1 .. n : i # j => Rank(es, i) # Rank(es, j)
  <2>1. \A i, j \in 1 .. n : i # j => Before(es, i, j) \/ Before(es, j, i)
    BY <1>1 DEF Before
  <2>2. \A i \in 1 .. n : Rank(es, i) \in Int BY <1>7
  <2> QED BY <1>8, <2>1, <2>2
<1>10. rank \in Surjection(1 .. n, 1 .. n)
  <2>1. rank \in Injection(1 .. n, 1 .. n) BY <1>7, <1>9 DEF Injection, IsInjective
  <2> HIDE DEF rank
  <2> QED BY <1>2, <2>1, FS_Injection
<1>11. \A k \in 1 .. n : \E i \in 1 .. n : Rank(es, i) = k
  BY <1>10 DEF Surjection
<1> QED BY <1>7, <1>8, <1>11

\* The sort puts the entries in their order, each in one place.
LEMMA SortIs ==
  ASSUME NEW n \in Nat, NEW es \in [1 .. n -> RiftEntry]
  PROVE  \E at \in [1 .. n -> 1 .. n] :
           /\ SortBySource(es) = [k \in 1 .. n |-> es[at[k]]]
           /\ \A k, l \in 1 .. n : k <= l => Before(es, at[k], at[l])
           /\ \A k, l \in 1 .. n : at[k] = at[l] => k = l
           /\ \A i \in 1 .. n : \E k \in 1 .. n : at[k] = i
<1> DEFINE pick(k) == CHOOSE i \in 1 .. n : Rank(es, i) = k
           at == [k \in 1 .. n |-> pick(k)]
<1>1. \A k \in 1 .. n : pick(k) \in 1 .. n /\ Rank(es, pick(k)) = k BY RankIsPlace
<1>2. SortBySource(es) = [k \in 1 .. n |-> es[pick(k)]] BY DEF SortBySource
<1>3. \A i \in 1 .. n : i \in Int /\ es[i].source \in Int BY DEF RiftEntry
<1> HIDE DEF pick
<1>4. at \in [1 .. n -> 1 .. n] /\ \A k \in 1 .. n : at[k] = pick(k) BY <1>1
<1>5. ASSUME NEW k \in 1 .. n, NEW l \in 1 .. n, k <= l PROVE Before(es, at[k], at[l])
  <2>1. pick(k) \in 1 .. n /\ pick(l) \in 1 .. n BY <1>1
  <2>2. CASE pick(k) = pick(l) BY <1>3, <1>4, <2>1, <2>2 DEF Before
  <2>3. CASE pick(k) # pick(l)
    <3>1. Before(es, pick(k), pick(l)) \/ Before(es, pick(l), pick(k))
      BY <1>3, <2>1 DEF Before
    <3>2. ~Before(es, pick(l), pick(k))
      <4>1. Before(es, pick(l), pick(k)) => Rank(es, pick(l)) < Rank(es, pick(k))
        BY <2>1, <2>3, RankIsPlace
      <4> QED BY <1>1, <1>5, <4>1
    <3> QED BY <1>4, <3>1, <3>2
  <2> QED BY <2>2, <2>3
<1>6. ASSUME NEW i \in 1 .. n PROVE \E k \in 1 .. n : at[k] = i
  <2>1. Rank(es, i) \in 1 .. n BY RankIsPlace
  <2>2. PICK k \in 1 .. n : k = Rank(es, i) BY <2>1
  <2>3. pick(k) = i
    <3>1. pick(k) \in 1 .. n /\ Rank(es, pick(k)) = Rank(es, i) BY <1>1, <2>2
    <3>2. Before(es, pick(k), i) \/ Before(es, i, pick(k)) BY <1>3, <3>1 DEF Before
    <3>3. Rank(es, i) \in Int /\ ~(Rank(es, i) < Rank(es, i)) BY <2>1
    <3> QED BY <3>1, <3>2, <3>3, RankIsPlace
  <2> QED BY <1>4, <2>3
<1>7. SortBySource(es) = [k \in 1 .. n |-> es[at[k]]] BY <1>2, <1>4
<1>8. \A k, l \in 1 .. n : at[k] = at[l] => k = l BY <1>1, <1>4
<1> QED BY <1>4, <1>5, <1>6, <1>7, <1>8

\* A sorted list has the entries of the list, in the order of their sources.
LEMMA SortTyped ==
  ASSUME NEW n \in Nat, NEW es \in [1 .. n -> RiftEntry]
  PROVE  /\ SortBySource(es) \in [1 .. n -> RiftEntry]
         /\ \A k \in 1 .. n : \E i \in 1 .. n : SortBySource(es)[k] = es[i]
         /\ \A k, l \in 1 .. n :
              k <= l => SortBySource(es)[k].source <= SortBySource(es)[l].source
<1>1. PICK at \in [1 .. n -> 1 .. n] :
        /\ SortBySource(es) = [k \in 1 .. n |-> es[at[k]]]
        /\ \A k, l \in 1 .. n : k <= l => Before(es, at[k], at[l])
  BY SortIs
<1>2. \A k \in 1 .. n : at[k] \in 1 .. n OBVIOUS
<1>3. \A i \in 1 .. n : es[i].source \in Int BY DEF RiftEntry
<1>4. ASSUME NEW k \in 1 .. n, NEW l \in 1 .. n, k <= l
      PROVE  SortBySource(es)[k].source <= SortBySource(es)[l].source
  <2>1. Before(es, at[k], at[l]) BY <1>1, <1>4
  <2>2. es[at[k]].source <= es[at[l]].source BY <1>2, <1>3, <2>1 DEF Before
  <2> QED BY <1>1, <2>2
<1> QED BY <1>1, <1>2, <1>4

\* The sort leaves a position its entry.
LEMMA SortKeepsEntry ==
  ASSUME NEW n \in Nat, NEW es \in [1 .. n -> RiftEntry], NEW place \in Int, NEW entry,
         EntryFor(es, place, entry)
  PROVE  EntryFor(SortBySource(es), place, entry)
<1>1. PICK at \in [1 .. n -> 1 .. n] :
        /\ SortBySource(es) = [k \in 1 .. n |-> es[at[k]]]
        /\ \A k, l \in 1 .. n : k <= l => Before(es, at[k], at[l])
        /\ \A k, l \in 1 .. n : at[k] = at[l] => k = l
        /\ \A i \in 1 .. n : \E k \in 1 .. n : at[k] = i
  BY SortIs
<1>2. PICK i \in 1 .. n : es[i] = entry /\ IsEntryFor(es, place, i) BY DEF EntryFor
<1>3. PICK k \in 1 .. n : at[k] = i BY <1>1
<1>4. \A j \in 1 .. n : j \in Int /\ at[j] \in 1 .. n /\ es[j].source \in Int
  BY DEF RiftEntry
<1> DEFINE s == SortBySource(es)
<1>5. DOMAIN s = 1 .. n /\ \A j \in 1 .. n : s[j] = es[at[j]] BY <1>1
<1> HIDE DEF s
<1>6. ASSUME NEW j \in 1 .. n, s[j].source <= place PROVE Before(s, j, k)
  <2>1. Before(es, at[j], i) BY <1>2, <1>4, <1>5, <1>6 DEF IsEntryFor
  <2>2. es[at[j]].source <= es[i].source BY <1>4, <2>1 DEF Before
  <2>3. CASE j <= k BY <1>3, <1>4, <1>5, <2>2, <2>3 DEF Before
  <2>4. CASE ~(j <= k)
    <3>1. k <= j BY <1>4, <2>4
    <3>2. Before(es, i, at[j]) BY <1>1, <1>3, <3>1
    <3>3. at[j] = i BY <1>4, <2>1, <3>2 DEF Before
    <3>4. j = k BY <1>1, <1>3, <3>3
    <3> QED BY <1>4, <2>4, <3>4
  <2> QED BY <2>3, <2>4
<1>7. s[k] = entry /\ s[k].source <= place BY <1>2, <1>3, <1>5 DEF IsEntryFor
<1>8. IsEntryFor(s, place, k) BY <1>5, <1>6, <1>7 DEF IsEntryFor
<1>9. EntryFor(s, place, entry) BY <1>5, <1>7, <1>8 DEF EntryFor
<1> QED BY <1>9 DEF s

\* Folding moves the entries of the target's offsets behind the reference; those that
\* the sum takes around the end of the number line come in front of all of them.
LEMMA FoldKeepsEntry ==
  ASSUME NEW n \in Nat, NEW es \in [1 .. n -> [source : Word, target : Word]],
         refLen \in 0 .. Max, NEW y \in 0 .. Max - refLen, NEW i \in 1 .. n,
         IsEntryFor(es, y, i)
  PROVE  LET fold == [k \in DOMAIN es |-> Folded(es[k])] IN
         /\ fold \in [1 .. n -> RiftEntry]
         /\ IsEntryFor(fold, refLen + y, i)
         /\ \A k \in 1 .. n : fold[k].source \in Word
<1> DEFINE fold == [k \in DOMAIN es |-> Folded(es[k])]
<1>1. refLen \in Int /\ 0 <= refLen /\ refLen <= Max /\ y \in Int /\ 0 <= y /\ y <= Max - refLen
  BY WordsAre
<1>2. ASSUME NEW k \in 1 .. n
      PROVE  /\ k \in Int /\ es[k].source \in Int /\ es[k].target \in Int
             /\ Min <= es[k].source /\ es[k].source <= Max
             /\ fold[k].source = Wrap(refLen + es[k].source)
             /\ fold[k].target = es[k].target
             /\ fold[k].source \in Word /\ fold[k].source \in Int
             /\ fold[k] \in RiftEntry
  <2>1. es[k].source \in Word /\ es[k].target \in Word OBVIOUS
  <2>2. /\ es[k].source \in Int /\ es[k].target \in Int
        /\ Min <= es[k].source /\ es[k].source <= Max
    BY <2>1, WordsAre
  <2>3. fold[k] = Entry(Wrap(refLen + es[k].source), es[k].target) BY DEF Folded
  <2>4. Wrap(refLen + es[k].source) \in Word /\ Wrap(refLen + es[k].source) \in Int
    <3>1. refLen + es[k].source \in Int BY <1>1, <2>2
    <3> QED BY <3>1, WrapTyped
  <2> HIDE DEF fold
  <2> QED BY <2>2, <2>3, <2>4 DEF Entry, RiftEntry
<1>3. DOMAIN fold = 1 .. n OBVIOUS
<1>4. fold \in [1 .. n -> RiftEntry] BY <1>2
<1> HIDE DEF fold
\* Without a turn around the number line, or with one.
<1>5. ASSUME NEW k \in 1 .. n, es[k].source <= Max - refLen
      PROVE  fold[k].source = refLen + es[k].source
  <2>1. refLen + es[k].source \in Word BY <1>1, <1>2, <1>5, WordsAre
  <2> QED BY <1>2, <2>1, WrapsWord
<1>6. ASSUME NEW k \in 1 .. n, ~(es[k].source <= Max - refLen)
      PROVE  fold[k].source < refLen + Min
  <2> DEFINE w == refLen + es[k].source - Words
  <2>1. w \in Word /\ w \in Int /\ w < refLen + Min
    BY <1>1, <1>2, <1>6, WordsAre
  <2>2. refLen + es[k].source = w + 1 * Words BY <1>1, <1>2, WordsAre
  <2> HIDE DEF w
  <2>3. Wrap(refLen + es[k].source) = w BY <1>1, <1>2, <2>1, <2>2, WrapUnique
  <2> QED BY <1>2, <2>1, <2>3
<1>7. es[i].source <= y BY DEF IsEntryFor
<1>8. fold[i].source = refLen + es[i].source
  <2>1. es[i].source <= Max - refLen BY <1>1, <1>2, <1>7, WordsAre
  <2> QED BY <1>5, <2>1
<1>9. ASSUME NEW j \in 1 .. n, fold[j].source <= refLen + y PROVE Before(fold, j, i)
  <2>1. CASE es[j].source <= Max - refLen
    <3>1. fold[j].source = refLen + es[j].source BY <1>5, <2>1
    <3>2. es[j].source <= y BY <1>1, <1>2, <1>9, <3>1
    <3>3. Before(es, j, i) BY <3>2 DEF IsEntryFor
    <3> QED BY <1>1, <1>2, <1>8, <3>1, <3>3 DEF Before
  <2>2. CASE ~(es[j].source <= Max - refLen)
    <3>1. fold[j].source < refLen + Min BY <1>6, <2>2
    <3>2. fold[j].source < fold[i].source BY <1>1, <1>2, <1>8, <3>1, WordsAre
    <3> QED BY <3>2 DEF Before
  <2> QED BY <2>1, <2>2
<1>10. fold[i].source <= refLen + y BY <1>1, <1>2, <1>7, <1>8
<1>11. IsEntryFor(fold, refLen + y, i) BY <1>3, <1>9, <1>10 DEF IsEntryFor
<1> QED BY <1>2, <1>4, <1>11 DEF fold

\* The decoder pushes its boundary entry behind the list.
Pushed(es) == Append(es, [source |-> refLen, target |-> 0])

\* The list with the boundary.
LEMMA PushedIs ==
  ASSUME NEW n \in Nat, NEW es \in [1 .. n -> RiftEntry], refLen \in Int
  PROVE  /\ Pushed(es) \in [1 .. n + 1 -> RiftEntry]
         /\ \A k \in 1 .. n : Pushed(es)[k] = es[k]
         /\ Pushed(es)[n + 1] = Entry(refLen, 0)
<1> DEFINE new == [source |-> refLen, target |-> 0]
<1>1. new \in RiftEntry /\ new = Entry(refLen, 0) BY DEF RiftEntry, Entry
<1>2. es \in Seq(RiftEntry) /\ Len(es) = n OBVIOUS
<1>3. Pushed(es) = Append(es, new) BY DEF Pushed
<1> HIDE DEF new
<1>4. /\ Pushed(es) \in Seq(RiftEntry) /\ Len(Pushed(es)) = n + 1
      /\ \A k \in 1 .. n : Pushed(es)[k] = es[k]
      /\ Pushed(es)[n + 1] = new
  BY <1>1, <1>2, <1>3, AppendProperties
<1>5. Pushed(es) \in [1 .. n + 1 -> RiftEntry] BY <1>4
<1> QED BY <1>1, <1>4, <1>5

\* The lookup of a position takes the offset of the entry for it.
LEMMA LookupTakesEntry ==
  ASSUME NEW n \in Nat, NEW es \in [1 .. n -> RiftEntry], refLen \in Int,
         NEW place \in Nat, NEW entry, EntryFor(Pushed(es), place, entry)
  PROVE  OffsetAt(OffsetRiftTable(es, refLen), place) = Offset(entry)
<1> DEFINE m == n + 1
           s == SortBySource(Pushed(es))
           first == [at |-> 0, offset |-> Offset(s[Len(s)])]
           rest  == [k \in DOMAIN s |-> [at |-> s[k].source, offset |-> Offset(s[k])]]
           ort   == OffsetRiftTable(es, refLen)
<1>1. m \in Nat /\ Pushed(es) \in [1 .. m -> RiftEntry] BY PushedIs
<1> HIDE DEF m
<1>2. /\ s \in [1 .. m -> RiftEntry]
      /\ \A k, l \in 1 .. m : k <= l => s[k].source <= s[l].source
  BY <1>1, SortTyped
<1>3. EntryFor(s, place, entry)
  <2>1. place \in Int OBVIOUS
  <2> QED BY <1>1, <2>1, SortKeepsEntry
<1>4. ort = <<first>> \o rest BY DEF OffsetRiftTable, Pushed
<1> HIDE DEF s, ort
<1>5. PICK k \in 1 .. m : s[k] = entry /\ IsEntryFor(s, place, k) BY <1>2, <1>3 DEF EntryFor
<1>6. \A j \in 1 .. m : j \in Int /\ s[j].source \in Int BY <1>2 DEF RiftEntry
<1>7. ASSUME NEW j \in 1 .. m, s[j].source <= place PROVE j <= k
  <2>1. Before(s, j, k) BY <1>2, <1>5, <1>7 DEF IsEntryFor
  <2>2. k <= j => s[k].source <= s[j].source BY <1>2
  <2> QED BY <1>6, <2>1, <2>2 DEF Before
<1>8. /\ DOMAIN ort = 1 .. m + 1 /\ ort[1] = first
      /\ \A j \in 1 .. m : ort[j + 1] = [at |-> s[j].source, offset |-> Offset(s[j])]
  <2> DEFINE R == [at : Int, offset : Int]
  <2>1. \A j \in 1 .. m : s[j].source \in Int /\ Offset(s[j]) \in Int
    BY <1>2 DEF RiftEntry, Offset
  <2>2. first \in R
    <3>1. Len(s) = m /\ m \in 1 .. m BY <1>1, <1>2, <1>5
    <3> QED BY <2>1, <3>1
  <2>3. rest \in [1 .. m -> R] /\ \A j \in 1 .. m : rest[j] = [at |-> s[j].source, offset |-> Offset(s[j])]
    BY <1>2, <2>1
  <2> HIDE DEF first, rest, R
  <2>4. rest \in Seq(R) /\ Len(rest) = m BY <1>1, <2>3
  <2>5. /\ Len(<<first>> \o rest) = m + 1 /\ <<first>> \o rest \in Seq(R)
        /\ (<<first>> \o rest)[1] = first
        /\ \A j \in 2 .. m + 1 : (<<first>> \o rest)[j] = rest[j - 1]
    BY <1>1, <2>2, <2>4
  <2>6. DOMAIN ort = 1 .. m + 1 BY <1>1, <1>4, <2>5
  <2>7. ASSUME NEW j \in 1 .. m
        PROVE  ort[j + 1] = [at |-> s[j].source, offset |-> Offset(s[j])]
    <3>1. j + 1 \in 2 .. m + 1 /\ (j + 1) - 1 = j BY <1>1
    <3>2. ort[j + 1] = rest[j] BY <1>4, <2>5, <3>1
    <3> QED BY <2>3, <3>2
  <2> QED BY <1>4, <2>5, <2>6, <2>7
<1> HIDE DEF first, rest
<1>9. k + 1 \in DOMAIN ort /\ ort[k + 1].at <= place
  <2>1. k + 1 \in 1 .. m + 1 BY <1>1
  <2>2. s[k].source <= place BY <1>5 DEF IsEntryFor
  <2>3. ort[k + 1] = [at |-> s[k].source, offset |-> Offset(s[k])] BY <1>8
  <2> QED BY <1>8, <2>1, <2>2, <2>3
<1>10. ASSUME NEW j \in DOMAIN ort, ort[j].at <= place PROVE j <= k + 1
  <2>1. j \in Int /\ k \in Int /\ 1 <= j /\ 1 <= k BY <1>1, <1>8
  <2>2. CASE j = 1 BY <2>1, <2>2
  <2>3. CASE j # 1
    <3> DEFINE i == j - 1
    <3>1. i \in 1 .. m /\ i + 1 = j BY <1>1, <1>8, <2>1, <2>3
    <3> HIDE DEF i
    <3>4. ort[i + 1] = [at |-> s[i].source, offset |-> Offset(s[i])] BY <1>8, <3>1
    <3>2. s[i].source <= place BY <1>10, <3>1, <3>4
    <3>3. i <= k BY <1>7, <3>1, <3>2
    <3> QED BY <1>6, <2>1, <3>1, <3>3
  <2> QED BY <2>2, <2>3
<1>11. SegmentIndex(ort, place) = k + 1
  <2>1. \A i \in DOMAIN ort : /\ ort[i].at <= place
                              /\ \A j \in DOMAIN ort : ort[j].at <= place => j <= i
                              => i = k + 1
    <3>1. TAKE i \in DOMAIN ort
    <3>2. HAVE /\ ort[i].at <= place
               /\ \A j \in DOMAIN ort : ort[j].at <= place => j <= i
    <3>3. i <= k + 1 /\ k + 1 <= i BY <1>9, <1>10, <3>2
    <3>4. i \in Int /\ k + 1 \in Int BY <1>1, <1>8
    <3> QED BY <3>3, <3>4
  <2> QED BY <1>9, <1>10, <2>1 DEF SegmentIndex
<1>12. OffsetAt(ort, place) = Offset(entry)
  <2>1. ort[k + 1] = [at |-> s[k].source, offset |-> Offset(s[k])] BY <1>8
  <2> QED BY <1>5, <1>11, <2>1 DEF OffsetAt
<1> QED BY <1>12 DEF ort

\* Where the decoder copies from, if the entry for a position is a certain one.
LEMMA CopiesByEntry ==
  ASSUME NEW n \in Nat, NEW c \in [1 .. n -> RiftEntry], refLen \in 0 .. Max,
         NEW y \in TargetOffsets, NEW entry \in RiftEntry,
         EntryFor(Pushed(c), refLen + y, entry)
  PROVE  Wrap(refLen + y + OffsetAt(OffsetRiftTable(c, refLen), refLen + y))
           = Wrap(refLen + y + entry.target - entry.source)
<1>1. refLen \in Int /\ y \in Int /\ refLen + y \in Nat BY WordsAre DEF TargetOffsets
<1>2. OffsetAt(OffsetRiftTable(c, refLen), refLen + y) = Offset(entry)
  BY <1>1, LookupTakesEntry
<1>3. entry.target \in Int /\ entry.source \in Int BY DEF RiftEntry
<1>4. refLen + y + Offset(entry) = refLen + y + entry.target - entry.source
  BY <1>1, <1>3 DEF Offset
<1> QED BY <1>2, <1>4

\* What fold_target_to_source_rift_for_decompressor makes of a list.
FoldedRift(es) == SortBySource([k \in DOMAIN es |-> Folded(es[k])])

\* Behind the header the boundary is no entry for a position that has one: the decoder
\* copies by the entry of the list.
LEMMA CopiesByList ==
  ASSUME NEW t \in Table, refLen \in 0 .. Max, NEW y \in TargetOffsets,
         NEW i \in DOMAIN t, IsEntryFor(t, y, i), t[i].source > 0
  PROVE  LET c == FoldedRift(SortBySource(t)) IN
           Wrap(refLen + y + OffsetAt(OffsetRiftTable(c, refLen), refLen + y))
             = Wrap(y + Offset(t[i]))
<1> DEFINE n == Len(t)
           s == SortBySource(t)
           fold == [k \in DOMAIN s |-> Folded(s[k])]
           c == SortBySource(fold)
           R == [source : Word, target : Word]
<1>1. /\ n \in Nat /\ t \in [1 .. n -> R]
      /\ refLen \in Int /\ y \in Int /\ 0 <= y /\ y \in 0 .. Max - refLen /\ y <= Max - refLen
  <2>1. n \in Nat /\ t \in [1 .. n -> R]
    <3>1. t \in Seq(R) BY DEF Table
    <3> HIDE DEF R
    <3> QED BY <3>1
  <2>2. refLen \in Int /\ y \in Int /\ 0 <= y /\ y \in 0 .. Max - refLen /\ y <= Max - refLen
    BY WordsAre DEF TargetOffsets
  <2> QED BY <2>1, <2>2
<1>2. R \subseteq RiftEntry BY WordsAre DEF RiftEntry
<1> HIDE DEF n
<1>3. t \in [1 .. n -> RiftEntry] BY <1>1, <1>2
<1>4. PICK e \in R : e = t[i] /\ e.source > 0 /\ e.source <= y
  <2>1. i \in 1 .. n BY <1>1
  <2> QED BY <1>1, <2>1 DEF IsEntryFor
<1>5. EntryFor(s, y, e)
  <2>1. EntryFor(t, y, e) BY <1>4 DEF EntryFor
  <2> QED BY <1>1, <1>3, <2>1, SortKeepsEntry
<1>6. s \in [1 .. n -> R]
  <2>1. s \in [1 .. n -> RiftEntry] /\ \A k \in 1 .. n : \E j \in 1 .. n : s[k] = t[j]
    BY <1>1, <1>3, SortTyped
  <2> HIDE DEF s, R
  <2>2. \A k \in 1 .. n : s[k] \in R BY <1>1, <2>1
  <2>3. s \in [1 .. n -> R] BY <2>1, <2>2
  <2> QED BY <2>3
<1> HIDE DEF s
<1>7. PICK k \in 1 .. n : s[k] = e /\ IsEntryFor(s, y, k) BY <1>5, <1>6 DEF EntryFor
<1>8. fold \in [1 .. n -> RiftEntry] /\ IsEntryFor(fold, refLen + y, k)
  <2> HIDE DEF fold
  <2> QED BY <1>1, <1>6, <1>7, FoldKeepsEntry DEF fold, R
<1> DEFINE f == Folded(e)
<1>9. fold[k] = f BY <1>6, <1>7
<1>10. f \in RiftEntry /\ f.source = refLen + e.source /\ f.target = e.target
  <2>1. e.source \in Int /\ e.source <= Max /\ e.target \in Int
    BY <1>4, WordsAre
  <2>2. refLen + e.source \in Word BY <1>1, <1>4, <2>1, WordsAre
  <2>3. Wrap(refLen + e.source) = refLen + e.source BY <2>2, WrapsWord
  <2> QED BY <1>1, <2>1, <2>3 DEF Folded, Entry, RiftEntry
<1> HIDE DEF fold, f
<1>11. EntryFor(c, refLen + y, f)
  <2>1. EntryFor(fold, refLen + y, f) BY <1>8, <1>9 DEF EntryFor
  <2>2. refLen + y \in Int BY <1>1
  <2> QED BY <1>1, <1>8, <2>1, <2>2, SortKeepsEntry
<1>12. c \in [1 .. n -> RiftEntry] BY <1>1, <1>8, SortTyped
<1> HIDE DEF c
<1>13. EntryFor(Pushed(c), refLen + y, f)
  <2>1. PICK j \in 1 .. n : c[j] = f /\ IsEntryFor(c, refLen + y, j)
    BY <1>11, <1>12 DEF EntryFor
  <2>2. /\ Pushed(c) \in [1 .. n + 1 -> RiftEntry]
        /\ \A k_1 \in 1 .. n : Pushed(c)[k_1] = c[k_1]
        /\ Pushed(c)[n + 1] = Entry(refLen, 0)
    BY <1>1, <1>12, PushedIs
  <2>3. j \in 1 .. n + 1 /\ n + 1 \in 1 .. n + 1 BY <1>1
  <2>4. Pushed(c)[j] = f /\ f.source <= refLen + y BY <2>1, <2>2 DEF IsEntryFor
  <2>5. ASSUME NEW l \in 1 .. n + 1, Pushed(c)[l].source <= refLen + y
        PROVE  Before(Pushed(c), l, j)
    <3>1. CASE l = n + 1
      <4>1. Pushed(c)[l].source = refLen BY <2>2, <3>1 DEF Entry
      <4>2. refLen < f.source
        <5>1. e.source \in Int BY <1>4, WordsAre
        <5> QED BY <1>1, <1>4, <1>10, <5>1
      <4> QED BY <2>4, <4>1, <4>2 DEF Before
    <3>2. CASE l # n + 1
      <4>1. l \in 1 .. n /\ Pushed(c)[l] = c[l] BY <1>1, <2>2, <3>2
      <4>2. Before(c, l, j) BY <1>12, <2>1, <2>5, <4>1 DEF IsEntryFor
      <4> QED BY <2>1, <2>4, <4>1, <4>2 DEF Before
    <3> QED BY <3>1, <3>2
  <2>6. IsEntryFor(Pushed(c), refLen + y, j) BY <2>2, <2>3, <2>4, <2>5 DEF IsEntryFor
  <2> QED BY <2>2, <2>3, <2>4, <2>6 DEF EntryFor
<1>14. Wrap(refLen + y + OffsetAt(OffsetRiftTable(c, refLen), refLen + y))
         = Wrap(refLen + y + f.target - f.source)
  BY <1>1, <1>10, <1>12, <1>13, CopiesByEntry
<1>15. refLen + y + f.target - f.source = y + Offset(e)
  <2>1. e.source \in Int /\ e.target \in Int BY <1>4, WordsAre
  <2> QED BY <1>1, <1>10, <2>1 DEF Offset
<1> QED BY <1>4, <1>14, <1>15 DEF c, fold, s, FoldedRift

\* Where no entry lies behind the header and at or before a position, the decoder takes
\* the boundary's offset: the position is copied from itself.
LEMMA CopiesByBoundary ==
  ASSUME NEW t \in Table, refLen \in 0 .. Max, NEW y \in TargetOffsets,
         \A i \in DOMAIN t : t[i].source <= 0 \/ y < t[i].source
  PROVE  LET c == FoldedRift(SortBySource(t)) IN
           Wrap(refLen + y + OffsetAt(OffsetRiftTable(c, refLen), refLen + y)) = y
<1> DEFINE n == Len(t)
           s == SortBySource(t)
           fold == [k \in DOMAIN s |-> Folded(s[k])]
           c == SortBySource(fold)
           R == [source : Word, target : Word]
<1>1. /\ n \in Nat /\ t \in [1 .. n -> R]
      /\ refLen \in Int /\ 0 <= refLen /\ refLen <= Max
      /\ y \in Int /\ 0 <= y /\ y <= Max - refLen
  <2>1. n \in Nat /\ t \in [1 .. n -> R]
    <3>1. t \in Seq(R) BY DEF Table
    <3> HIDE DEF R
    <3> QED BY <3>1
  <2>2. /\ refLen \in Int /\ 0 <= refLen /\ refLen <= Max
        /\ y \in Int /\ 0 <= y /\ y <= Max - refLen
    BY WordsAre DEF TargetOffsets
  <2> QED BY <2>1, <2>2
<1>2. R \subseteq RiftEntry BY WordsAre DEF RiftEntry
<1> HIDE DEF n
<1>3. t \in [1 .. n -> RiftEntry] BY <1>1, <1>2
<1>4. s \in [1 .. n -> RiftEntry] /\ \A k \in 1 .. n : \E j \in 1 .. n : s[k] = t[j]
  BY <1>1, <1>3, SortTyped
<1> HIDE DEF s
<1>5. ASSUME NEW k \in 1 .. n
      PROVE  /\ fold[k] \in RiftEntry
             /\ fold[k].source <= refLen \/ refLen + y < fold[k].source
  <2>1. PICK j \in 1 .. n : s[k] = t[j] BY <1>4
  <2>2. PICK e \in R : e = s[k] /\ (e.source <= 0 \/ y < e.source)
    <3>1. t[j] \in R /\ j \in DOMAIN t BY <1>1
    <3> QED BY <2>1, <3>1
  <2>3. /\ e.source \in Int /\ e.target \in Int /\ Min <= e.source /\ e.source <= Max
    BY <2>2, WordsAre
  <2>4. fold[k] = Entry(Wrap(refLen + e.source), e.target) BY <1>4, <2>2 DEF Folded
  <2>5. refLen + e.source \in Int BY <1>1, <2>3
  <2>6. fold[k] \in RiftEntry /\ fold[k].source = Wrap(refLen + e.source)
    BY <2>3, <2>4, <2>5, WrapTyped DEF Entry, RiftEntry
  <2>7. CASE e.source <= Max - refLen
    <3>1. refLen + e.source \in Word BY <1>1, <2>3, <2>7, WordsAre
    <3>2. Wrap(refLen + e.source) = refLen + e.source BY <3>1, WrapsWord
    <3>3. refLen + e.source <= refLen \/ refLen + y < refLen + e.source BY <1>1, <2>2, <2>3
    <3> QED BY <2>6, <3>2, <3>3
  <2>8. CASE ~(e.source <= Max - refLen)
    <3> DEFINE w == refLen + e.source - Words
    <3>1. w \in Word /\ w <= refLen BY <1>1, <2>3, <2>8, WordsAre
    <3>2. refLen + e.source = w + 1 * Words BY <1>1, <2>3, WordsAre
    <3> HIDE DEF w
    <3>3. Wrap(refLen + e.source) = w BY <2>5, <3>1, <3>2, WrapUnique
    <3> QED BY <2>6, <3>1, <3>3
  <2> QED BY <2>6, <2>7, <2>8
<1>6. fold \in [1 .. n -> RiftEntry] BY <1>4, <1>5
<1> HIDE DEF fold
<1>7. c \in [1 .. n -> RiftEntry] /\ \A k \in 1 .. n : \E j \in 1 .. n : c[k] = fold[j]
  BY <1>1, <1>6, SortTyped
<1> HIDE DEF c
<1>8. /\ Pushed(c) \in [1 .. n + 1 -> RiftEntry]
      /\ \A k \in 1 .. n : Pushed(c)[k] = c[k]
      /\ Pushed(c)[n + 1] = Entry(refLen, 0)
  BY <1>1, <1>7, PushedIs
<1>9. EntryFor(Pushed(c), refLen + y, Entry(refLen, 0))
  <2>1. n + 1 \in 1 .. n + 1 /\ Pushed(c)[n + 1].source = refLen /\ refLen <= refLen + y
    BY <1>1, <1>8 DEF Entry
  <2>2. ASSUME NEW l \in 1 .. n + 1, Pushed(c)[l].source <= refLen + y
        PROVE  Before(Pushed(c), l, n + 1)
    <3>1. CASE l = n + 1 BY <1>1, <2>1, <3>1 DEF Before
    <3>2. CASE l # n + 1
      <4>1. l \in 1 .. n /\ Pushed(c)[l] = c[l] /\ l <= n + 1 BY <1>1, <1>8, <3>2
      <4>2. PICK j \in 1 .. n : c[l] = fold[j] BY <1>7, <4>1
      <4>3. fold[j].source <= refLen \/ refLen + y < fold[j].source BY <1>5
      <4>4. fold[j].source \in Int BY <1>6 DEF RiftEntry
      <4>5. fold[j].source <= refLen BY <1>1, <2>2, <4>1, <4>2, <4>3, <4>4
      <4>6. Pushed(c)[l].source <= Pushed(c)[n + 1].source BY <2>1, <4>1, <4>2, <4>5
      <4>7. Pushed(c)[l].source \in Int BY <4>1, <4>2, <4>4
      <4> QED BY <1>1, <2>1, <4>1, <4>6, <4>7 DEF Before
    <3> QED BY <3>1, <3>2
  <2>3. IsEntryFor(Pushed(c), refLen + y, n + 1) BY <1>8, <2>1, <2>2 DEF IsEntryFor
  <2> QED BY <1>8, <2>1, <2>3 DEF EntryFor
<1>10. Entry(refLen, 0) \in RiftEntry BY <1>1 DEF Entry, RiftEntry
<1>11. Wrap(refLen + y + OffsetAt(OffsetRiftTable(c, refLen), refLen + y))
         = Wrap(refLen + y + Entry(refLen, 0).target - Entry(refLen, 0).source)
  BY <1>1, <1>7, <1>9, <1>10, CopiesByEntry
<1>12. refLen + y + Entry(refLen, 0).target - Entry(refLen, 0).source = y BY <1>1 DEF Entry
<1>13. Wrap(y) = y
  <2>1. y \in Word BY <1>1, WordsAre
  <2> QED BY <2>1, WrapsWord
<1> QED BY <1>11, <1>12, <1>13 DEF c, fold, s, FoldedRift

-----------------------------------------------------------------------------
(***************************************************************************)
(* The chain.  The invariant of each of its walks holds while it is walked,*)
(* and says of its result what the next one needs.                         *)
(***************************************************************************)
\* A table with a source at 0, and more than one segment unless it is the identity.
KeepsHeader(t) ==
  /\ IsSource(t, 0)
  /\ (\A i \in DOMAIN t : t[i].source = t[1].source) => \A i \in DOMAIN t : t[i] = Entry(0, 0)

InputsOK ==
  /\ \A t \in {io2rva, preprocessRift, peRift, cliRift} : t \in Table /\ Sorted(t)
  /\ KeepsHeader(io2rva)
  /\ refLen \in 0 .. Max

ReverseIdle ==
  /\ inverse = <<>> /\ reversing = "start" /\ active = 0 /\ boundary = 0
  /\ cursor = 0 /\ intervals = <<>>

\* The reversal of a table of one segment, which is the identity, is the identity.
InverseIs ==
  /\ OneSource => /\ reversing \in {"start", "done"}
                  /\ reversing = "done" => inverse = <<Entry(0, 0)>>
  /\ reversing = "done" => Sorted(inverse)

InRva(x) == Mapped(preprocessRift, Mapped(io2rva, x))

Products ==
  /\ WalkInv /\ KeepInv /\ KeepsHeader(a) /\ ReverseIdle
  /\ phase # "pe" => a = io2rva /\ b = preprocessRift
  /\ phase = "pe" => b = peRift /\ \A x \in Word : Mapped(a, x) = InRva(x)

Reversal ==
  /\ LeadInv /\ KeepsHeader(table) /\ InverseIs
  /\ \A x \in Word : Mapped(table, x) = MovedTo(x)

CopyInv ==
  /\ InputsOK
  /\ phase \in {"start", "preprocess", "pe"} => Products
  /\ phase = "reverse" => Reversal
  /\ CopiesFromOrigins

\* The lookup of a position behind some entry: the last at or before it.
LEMMA SegmentExists ==
  ASSUME NEW t \in Table, NEW x \in Int, NEW i \in DOMAIN t, t[i].source <= x
  PROVE  /\ SegmentOf(t, x) \in DOMAIN t /\ t[SegmentOf(t, x)].source <= x
         /\ \A j \in DOMAIN t : t[j].source <= x => j <= SegmentOf(t, x)
<1> DEFINE before == {j \in DOMAIN t : t[j].source <= x}
<1>1. Len(t) \in Nat /\ DOMAIN t = 1 .. Len(t) BY TableTyped
<1>2. before \in SUBSET (1 .. Len(t)) /\ before # {} BY <1>1
<1>3. \E m \in before : \A k \in before : k <= m
  <2> HIDE DEF before
  <2> QED BY <1>1, <1>2, LargestIndex
<1>4. SegmentOf(t, x) = CHOOSE k \in before : \A j \in before : j <= k
  BY <1>2 DEF SegmentOf
<1>5. SegmentOf(t, x) \in before /\ \A j \in before : j <= SegmentOf(t, x) BY <1>3, <1>4
<1> QED BY <1>5

\* A table of nothing but the header's entry maps every position to itself.
LEMMA HeaderMaps ==
  ASSUME NEW t \in Table, t # <<>>, \A i \in DOMAIN t : t[i] = Entry(0, 0), NEW x \in Word
  PROVE  Mapped(t, x) = x
<1>1. x \in Int BY WordsAre
<1>2. SegmentOf(t, x) \in DOMAIN t BY <1>1, SegmentTyped
<1>3. Offset(t[SegmentOf(t, x)]) = 0 BY <1>2 DEF Entry, Offset
<1>4. 0 \in Word BY HalfAssumption DEF Word
<1>5. RiftOffset(t, x) = 0 BY <1>3, <1>4, WrapsWord DEF RiftOffset
<1> QED BY <1>1, <1>5, WrapsWord DEF Mapped

\* A product keeps the header.
LEMMA ProductKeepsHeader ==
  ASSUME WalkInv, KeepInv, KeepsHeader(a), pc = "done"
  PROVE  out \in Table /\ Sorted(out) /\ KeepsHeader(out)
<1>1. out \in Table /\ a \in Table /\ Sorted(a) BY DEF WalkInv, WalkTypeOK
<1>2. a # <<>> BY DEF KeepsHeader, IsSource
<1>3. CASE b = <<>>
  <2>1. out = a BY <1>2, <1>3 DEF KeepInv
  <2> QED BY <1>1, <2>1
<1>4. CASE b # <<>>
  <2>1. SourcesKept(Half) /\ Sorted(out) /\ out # <<>> /\ out[1].source = Min
    BY <1>2, <1>4 DEF KeepInv
  <2>2. PICK i \in DOMAIN a : a[i].source = 0 BY DEF KeepsHeader, IsSource
  <2>3. 0 < Half /\ Min # 0 BY WordsAre
  <2>4. IsSource(out, 0) BY <2>1, <2>2, <2>3 DEF SourcesKept
  <2>5. ~\A o \in DOMAIN out : out[o].source = out[1].source
    BY <2>1, <2>3, <2>4 DEF IsSource
  <2> QED BY <1>1, <2>1, <2>4, <2>5 DEF KeepsHeader
<1> QED BY <1>3, <1>4

\* What the reversal of the chain returns leads back, whatever its table.
LEMMA ChainInverts == ASSUME Reversal, reversing = "done" PROVE InvertsFirst
<1>1. table \in Table /\ ReturnsInverse BY DEF Reversal, LeadInv, ReverseInv, TypeOK
<1>2. IsSource(table, 0) BY DEF Reversal, KeepsHeader
<1>3. CASE ~OneSource
  <2>1. \E i \in DOMAIN table : Source(i) = 0 BY <1>2 DEF IsSource, Source
  <2> QED BY <1>1, <1>3, <2>1 DEF ReturnsInverse
<1>4. CASE OneSource
  <2>1. inverse = <<Entry(0, 0)>> BY <1>4 DEF Reversal, InverseIs
  <2>2. table # <<>> BY <1>2 DEF IsSource
  <2>3. \A i \in DOMAIN table : table[i] = Entry(0, 0)
    BY <1>4 DEF Reversal, KeepsHeader, OneSource, Source
  <2>4. inverse \in Table BY DEF Reversal, LeadInv, ReverseInv, TypeOK
  <2>5. inverse # <<>> /\ \A i \in DOMAIN inverse : inverse[i] = Entry(0, 0) BY <2>1
  <2>6. \A x \in 0 .. Max : x \in Word /\ x \in Int
    BY WordsAre
  <2>7. \A x \in 0 .. Max : Mapped(table, x) = x /\ Mapped(inverse, x) = x
    BY <1>1, <2>2, <2>3, <2>4, <2>5, <2>6, HeaderMaps
  <2>8. \A y \in 0 .. Max : Preimages(y) = {y} BY <2>7 DEF Preimages
  <2>9. ASSUME NEW y \in 0 .. Max
        PROVE  Mapped(inverse, y) \in Preimages(y)
               /\ \A other \in Preimages(y) : Mapped(inverse, y) <= other
    <3>1. Mapped(inverse, y) = y /\ Preimages(y) = {y} /\ y \in Int BY <2>6, <2>7, <2>8
    <3> QED BY <3>1
  <2> QED BY <2>9 DEF InvertsFirst
<1> QED BY <1>3, <1>4

\* Where the metadata has entries, the last of them at a position is the one for it.
LEMMA CliCopies ==
  ASSUME NEW inv \in Table, NEW cli \in Table, Sorted(cli), refLen \in 0 .. Max,
         NEW y \in TargetOffsets \ {0}, NEW i \in DOMAIN cli, cli[i].source = y
  PROVE  LET c == FoldedRift(SortBySource(inv \o cli)) IN
           Wrap(refLen + y + OffsetAt(OffsetRiftTable(c, refLen), refLen + y))
             = cli[SegmentOf(cli, y)].target
<1> DEFINE n == Len(inv)
           t == inv \o cli
           k == SegmentOf(cli, y)
           R == [source : Word, target : Word]
<1>1. y \in Int /\ y > 0 BY WordsAre DEF TargetOffsets
<1>2. /\ k \in DOMAIN cli /\ cli[k].source <= y
      /\ \A j \in DOMAIN cli : cli[j].source <= y => j <= k
  <2>1. cli[i].source <= y BY <1>1
  <2> QED BY <1>1, <2>1, SegmentExists
<1>3. /\ n \in Nat /\ DOMAIN inv = 1 .. n /\ Len(cli) \in Nat /\ DOMAIN cli = 1 .. Len(cli)
      /\ \A j \in DOMAIN inv : inv[j].source \in Int
      /\ \A j \in DOMAIN cli : cli[j].source \in Int
      /\ cli[k].target \in Word /\ cli[k] \in R
  BY <1>2, TableTyped
<1>4. inv \in Seq(R) /\ cli \in Seq(R) BY DEF Table
<1> HIDE DEF k
<1>5. cli[k].source = y
  <2>1. i <= k /\ k \in DOMAIN cli BY <1>1, <1>2
  <2>2. cli[i].source <= cli[k].source BY <2>1 DEF Sorted
  <2> QED BY <1>1, <1>2, <1>3, <2>2
<1>6. /\ t \in Seq(R) /\ Len(t) = n + Len(cli)
      /\ \A j \in 1 .. n : t[j] = inv[j]
      /\ \A j \in 1 .. Len(cli) : t[n + j] = cli[j]
  <2> HIDE DEF R
  <2>1. t \in Seq(R) /\ Len(t) = n + Len(cli) BY <1>4
  <2>2. \A j \in 1 .. n : t[j] = inv[j] BY <1>3, <1>4
  <2>3. ASSUME NEW j \in 1 .. Len(cli) PROVE t[n + j] = cli[j]
    <3>1. n + j \in 1 .. n + Len(cli) /\ n + j > n /\ (n + j) - n = j BY <1>3
    <3>2. t[n + j] = cli[(n + j) - n] BY <1>3, <1>4, <3>1
    <3> QED BY <3>1, <3>2
  <2> QED BY <2>1, <2>2, <2>3
<1> DEFINE at == n + k
<1>7. at \in 1 .. n + Len(cli) /\ t[at] = cli[k] /\ DOMAIN t = 1 .. n + Len(cli)
  <2>1. k \in 1 .. Len(cli) BY <1>2, <1>3
  <2> QED BY <1>3, <1>6, <2>1
<1>8. t \in Table BY <1>6 DEF Table
<1> HIDE DEF n, t
<1>9. ASSUME NEW j \in DOMAIN t, t[j].source <= y PROVE Before(t, j, at)
  <2>1. t[at].source = y BY <1>5, <1>7
  <2>2. CASE j \in 1 .. n
    <3>1. t[j].source \in Int /\ j <= at
      <4>1. j <= n /\ k \in Nat BY <1>2, <1>3, <2>2
      <4> QED BY <1>3, <1>6, <2>2, <4>1
    <3> QED BY <1>1, <1>9, <2>1, <3>1 DEF Before
  <2>3. CASE j \notin 1 .. n
    <3> DEFINE l == j - n
    <3>1. l \in 1 .. Len(cli) /\ j = n + l BY <1>3, <1>7, <2>3
    <3> HIDE DEF l
    <3>2. t[j] = cli[l] BY <1>6, <3>1
    <3>3. l <= k /\ cli[l].source \in Int BY <1>2, <1>3, <1>9, <3>1, <3>2
    <3>4. j <= at
      <4>1. k \in Nat /\ l \in Nat BY <1>2, <1>3, <3>1
      <4> QED BY <1>3, <3>1, <3>3, <4>1
    <3> QED BY <1>1, <1>9, <2>1, <3>2, <3>3, <3>4 DEF Before
  <2> QED BY <2>2, <2>3
<1> HIDE DEF at
<1>10. at \in DOMAIN t /\ IsEntryFor(t, y, at) /\ t[at].source > 0
  <2>1. t[at].source <= y BY <1>2, <1>7
  <2> QED BY <1>1, <1>5, <1>7, <1>9, <2>1 DEF IsEntryFor
<1> DEFINE c == FoldedRift(SortBySource(t))
<1>11. Wrap(refLen + y + OffsetAt(OffsetRiftTable(c, refLen), refLen + y))
         = Wrap(y + Offset(t[at]))
  BY <1>8, <1>10, CopiesByList
<1>12. y + Offset(t[at]) = cli[k].target
  <2>1. cli[k].target \in Int BY <1>3, WordsAre
  <2> QED BY <1>1, <1>5, <1>7, <2>1 DEF Offset
<1>13. Wrap(cli[k].target) = cli[k].target BY <1>3, WrapsWord
<1> QED BY <1>11, <1>12, <1>13 DEF t, k

\* Without metadata, the decoder copies by the inverse of the chain: also where only the
\* boundary is left, if the inverse leads the header back to itself.
LEMMA InverseCopies ==
  ASSUME NEW inv \in Table, Sorted(inv), refLen \in 0 .. Max, NEW y \in TargetOffsets,
         Mapped(inv, 0) = 0
  PROVE  LET c == FoldedRift(SortBySource(inv)) IN
           Wrap(refLen + y + OffsetAt(OffsetRiftTable(c, refLen), refLen + y))
             = Mapped(inv, y)
<1>1. y \in Int /\ 0 <= y /\ y <= Max - refLen /\ y \in Word /\ 0 \in Word
  BY WordsAre DEF TargetOffsets
<1>2. /\ Len(inv) \in Nat /\ DOMAIN inv = 1 .. Len(inv)
      /\ \A j \in DOMAIN inv : inv[j].source \in Int /\ Offset(inv[j]) \in Int
  BY TableTyped
<1>3. CASE \E i \in DOMAIN inv : 0 < inv[i].source /\ inv[i].source <= y
  <2>1. PICK i \in DOMAIN inv : 0 < inv[i].source /\ inv[i].source <= y BY <1>3
  <2> DEFINE k == SegmentOf(inv, y)
  <2>2. /\ k \in DOMAIN inv /\ inv[k].source <= y
        /\ \A j \in DOMAIN inv : inv[j].source <= y => j <= k
    BY <1>1, <2>1, SegmentExists
  <2>3. Mapped(inv, y) = Wrap(y + Wrap(Offset(inv[k])))
    <3>1. inv # <<>> BY <2>1
    <3> QED BY <3>1 DEF Mapped, RiftOffset
  <2> HIDE DEF k
  <2>4. inv[k].source > 0
    <3>1. i <= k BY <2>1, <2>2
    <3>2. inv[i].source <= inv[k].source BY <2>1, <2>2, <3>1 DEF Sorted
    <3> QED BY <1>2, <2>1, <2>2, <3>2
  <2>5. ASSUME NEW j \in DOMAIN inv, inv[j].source <= y PROVE Before(inv, j, k)
    <3>1. j <= k BY <2>2, <2>5
    <3>2. inv[j].source <= inv[k].source BY <2>2, <3>1 DEF Sorted
    <3> QED BY <1>2, <2>2, <3>1, <3>2 DEF Before
  <2>6. IsEntryFor(inv, y, k) BY <2>2, <2>5 DEF IsEntryFor
  <2> DEFINE c == FoldedRift(SortBySource(inv))
  <2>7. Wrap(refLen + y + OffsetAt(OffsetRiftTable(c, refLen), refLen + y))
          = Wrap(y + Offset(inv[k]))
    BY <2>2, <2>4, <2>6, CopiesByList
  <2>8. Wrap(y + Wrap(Offset(inv[k]))) = Wrap(y + Offset(inv[k]))
    BY <1>1, <1>2, <2>2, WrapsSum
  <2> QED BY <2>3, <2>7, <2>8
<1>4. CASE ~\E i \in DOMAIN inv : 0 < inv[i].source /\ inv[i].source <= y
  <2>1. \A i \in DOMAIN inv : inv[i].source <= 0 \/ y < inv[i].source BY <1>1, <1>2, <1>4
  <2> DEFINE c == FoldedRift(SortBySource(inv))
  <2>2. Wrap(refLen + y + OffsetAt(OffsetRiftTable(c, refLen), refLen + y)) = y
    BY <2>1, CopiesByBoundary
  <2>3. {j \in DOMAIN inv : inv[j].source <= y} = {j \in DOMAIN inv : inv[j].source <= 0}
    BY <1>1, <1>2, <2>1
  <2>4. RiftOffset(inv, y) = RiftOffset(inv, 0)
    <3> DEFINE upto(x) == {j \in DOMAIN inv : inv[j].source <= x}
               last(S) == IF S = {} THEN Len(inv) ELSE CHOOSE j \in S : \A m \in S : m <= j
    <3>1. SegmentOf(inv, y) = last(upto(y)) /\ SegmentOf(inv, 0) = last(upto(0))
      BY DEF SegmentOf
    <3>2. upto(y) = upto(0) BY <2>3
    <3> HIDE DEF upto, last
    <3>3. SegmentOf(inv, y) = SegmentOf(inv, 0) BY <3>1, <3>2
    <3> QED BY <3>3 DEF RiftOffset
  <2>5. RiftOffset(inv, 0) = 0
    <3>1. RiftOffset(inv, 0) \in Word /\ RiftOffset(inv, 0) \in Int BY <1>1, MappedTyped
    <3>2. 0 + RiftOffset(inv, 0) = RiftOffset(inv, 0) BY <3>1
    <3>3. Wrap(RiftOffset(inv, 0)) = 0 BY <3>2 DEF Mapped
    <3> QED BY <3>1, <3>3, WrapsWord
  <2>6. Mapped(inv, y) = y BY <1>1, <2>4, <2>5, WrapsWord DEF Mapped
  <2> QED BY <2>2, <2>6
<1> QED BY <1>3, <1>4

\* So the fold makes a rift that copies from the origins.
LEMMA FoldCopies == ASSUME CopyInv, Fold PROVE CopiesFromOrigins'
<1>1. /\ phase = "reverse" /\ reversing = "done" /\ InputsOK /\ Reversal
      /\ copyRift' = FoldedRift(SortBySource(inverse \o cliRift))
      /\ refLen' = refLen /\ cliRift' = cliRift /\ parses' = parses
      /\ io2rva' = io2rva /\ preprocessRift' = preprocessRift /\ peRift' = peRift
  BY DEF CopyInv, Fold, FoldedRift, MergedRift, inputs
<1>2. /\ inverse \in Table /\ Sorted(inverse) /\ cliRift \in Table /\ Sorted(cliRift)
      /\ refLen \in 0 .. Max
  <2>1. inverse \in Table BY <1>1 DEF Reversal, LeadInv, ReverseInv, TypeOK
  <2>2. Sorted(inverse) BY <1>1 DEF Reversal, InverseIs
  <2> QED BY <1>1, <2>1, <2>2 DEF InputsOK
<1> DEFINE c == FoldedRift(SortBySource(inverse \o cliRift))
           From(y) == Wrap(refLen + y + OffsetAt(OffsetRiftTable(c, refLen), refLen + y))
<1>3. TargetOffsets' = TargetOffsets BY <1>1 DEF TargetOffsets
<1>4. \A y : CopiedFrom(y)' = From(y) BY <1>1 DEF CopiedFrom
<1>5. \A y : Origins(y)' = Origins(y) BY <1>1 DEF Origins, MovedTo
<1>6. MovedTo(0)' = MovedTo(0) BY <1>1 DEF MovedTo
<1>7. CliOverrides'
  <2>1. ASSUME NEW y \in TargetOffsets \ {0}, \E i \in DOMAIN cliRift : cliRift[i].source = y
        PROVE  From(y) = cliRift[SegmentOf(cliRift, y)].target
    <3>1. PICK i \in DOMAIN cliRift : cliRift[i].source = y BY <2>1
    <3> HIDE DEF From
    <3> QED BY <1>2, <3>1, CliCopies DEF From
  <2> HIDE DEF From
  <2> QED BY <1>1, <1>3, <1>4, <2>1 DEF CliOverrides
<1>8. ReturnsCopyRift'
  <2> SUFFICES ASSUME cliRift = <<>>, MovedTo(0) = 0 PROVE CopiesFromOrigin'
    BY <1>1, <1>6 DEF ReturnsCopyRift
  <2>1. inverse \o cliRift = inverse BY <1>2 DEF Table
  <2>2. InvertsFirst BY <1>1, ChainInverts
  <2>3. \A x \in 0 .. Max : x \in Word /\ x \in Int
    BY WordsAre
  <2>4. \A y \in 0 .. Max : Preimages(y) = Origins(y)
    BY <1>1, <2>3 DEF Reversal, Preimages, Origins
  <2>5. Mapped(inverse, 0) = 0
    <3>1. 0 \in 0 .. Max BY WordsAre
    <3>2. 0 \in Preimages(0) BY <2>4, <3>1 DEF Origins
    <3>3. Mapped(inverse, 0) \in Preimages(0) /\ Mapped(inverse, 0) <= 0
      BY <2>2, <3>1, <3>2 DEF InvertsFirst
    <3>4. Mapped(inverse, 0) \in 0 .. Max BY <3>3 DEF Preimages
    <3> QED BY <2>3, <3>3, <3>4
  <2>6. ASSUME NEW y \in TargetOffsets, Origins(y) # {}
        PROVE  From(y) \in Origins(y) /\ \A x \in Origins(y) : From(y) <= x
    <3>1. From(y) = Mapped(inverse, y) BY <1>2, <2>1, <2>5, InverseCopies
    <3>2. y \in 0 .. Max BY <1>2, WordsAre DEF TargetOffsets
    <3> HIDE DEF From
    <3> QED BY <2>2, <2>4, <2>6, <3>1, <3>2 DEF InvertsFirst
  <2> HIDE DEF From
  <2> QED BY <1>3, <1>4, <1>5, <2>6 DEF CopiesFromOrigin
<1> QED BY <1>7, <1>8 DEF CopiesFromOrigins

\* No step of the chain changes its inputs.
LEMMA InputsStay == ASSUME InputsOK, [Next]_vars PROVE InputsOK'
<1>1. inputs' = inputs
  BY DEF Next, vars, FallBack, Begin, MultiplyStep, MultiplyByPe, BeginReverse, ReverseStep,
         Fold
<1>2. /\ io2rva' = io2rva /\ preprocessRift' = preprocessRift /\ peRift' = peRift
      /\ cliRift' = cliRift /\ refLen' = refLen
  BY <1>1 DEF inputs
<1> QED BY <1>2 DEF InputsOK

\* A product changes neither of its operands, a reversal not its table.
LEMMA OperandsStay ==
  /\ [MultiplyNext]_multiplyVars => a' = a /\ b' = b
  /\ [ReverseNext]_reverseVars => table' = table
<1>1. [MultiplyNext]_multiplyVars => a' = a /\ b' = b
  BY DEF MultiplyNext, multiplyVars, StartMultiply, SkipSegment, EnterSegment, Split,
         LeaveSegment, Sort
<1>2. [ReverseNext]_reverseVars => table' = table
  BY DEF ReverseNext, reverseVars, StartReverse, Walk, Clean
<1> QED BY <1>1, <1>2

\* Nothing is asked of the copy rift before it is there.
LEMMA NotYetDone == (phase # "done" => CopiesFromOrigins)
                    /\ (phase' # "done" => CopiesFromOrigins')
BY DEF CopiesFromOrigins, ReturnsCopyRift, CliOverrides

\* The second product starts with what the first one made.
LEMMA SecondProduct == ASSUME InputsOK, Products, MultiplyByPe PROVE Products'
<1>1. /\ phase = "preprocess" /\ pc = "done" /\ phase' = "pe" /\ a' = out /\ b' = peRift
      /\ out' = <<>> /\ pc' = "start" /\ segment' = 0
      /\ io2rva' = io2rva /\ preprocessRift' = preprocessRift /\ peRift' = peRift
      /\ inverse' = inverse /\ reversing' = reversing /\ active' = active
      /\ boundary' = boundary /\ cursor' = cursor /\ intervals' = intervals
  BY DEF MultiplyByPe, Order, inputs, reverseVars
<1>2. WalkInv /\ KeepInv /\ KeepsHeader(a) /\ a = io2rva /\ b = preprocessRift
  BY <1>1 DEF Products
<1>3. out \in Table /\ Sorted(out) /\ KeepsHeader(out) BY <1>1, <1>2, ProductKeepsHeader
<1>4. peRift \in Table /\ Sorted(peRift) BY DEF InputsOK
<1>5. WalkInv'
  <2>1. <<>> \in Table BY DEF Table
  <2>2. segment' \in 0 .. Len(a') + 1
    <3>1. Len(out) \in Nat BY <1>3, TableTyped
    <3> QED BY <1>1, <3>1
  <2>3. WalkTypeOK' BY <1>1, <1>3, <1>4, <2>1, <2>2 DEF WalkTypeOK
  <2> QED BY <1>1, <2>3 DEF WalkInv, ReturnsProduct
<1>6. KeepInv' BY <1>1 DEF KeepInv
<1>7. KeepsHeader(a)' BY <1>1, <1>3 DEF KeepsHeader, IsSource
<1>8. ReverseIdle' BY <1>1 DEF Products, ReverseIdle
<1>9. \A x \in Word : Mapped(a', x) = InRva(x)'
  <2>1. \A x \in Word : Mapped(out, x) = Mapped(b, Mapped(a, x))
    BY <1>1, <1>2 DEF WalkInv, ReturnsProduct
  <2>2. \A x : InRva(x)' = Mapped(preprocessRift, Mapped(io2rva, x)) BY <1>1 DEF InRva
  <2> QED BY <1>1, <1>2, <2>1, <2>2
<1> QED BY <1>1, <1>5, <1>6, <1>7, <1>8, <1>9 DEF Products

\* The reversal starts with the product of all three.
LEMMA ReversalStarts == ASSUME InputsOK, Products, BeginReverse PROVE Reversal'
<1>1. /\ phase = "pe" /\ pc = "done" /\ table' = out
      /\ io2rva' = io2rva /\ preprocessRift' = preprocessRift /\ peRift' = peRift
      /\ inverse' = inverse /\ reversing' = reversing /\ active' = active
      /\ boundary' = boundary /\ cursor' = cursor /\ intervals' = intervals
  BY DEF BeginReverse, inputs
<1>2. WalkInv /\ KeepInv /\ KeepsHeader(a) /\ b = peRift
      /\ \A x \in Word : Mapped(a, x) = InRva(x)
  BY <1>1 DEF Products
<1>3. out \in Table /\ Sorted(out) /\ KeepsHeader(out) BY <1>1, <1>2, ProductKeepsHeader
<1>4. /\ inverse' = <<>> /\ reversing' = "start" /\ active' = 0 /\ boundary' = 0
      /\ cursor' = 0 /\ intervals' = <<>>
  BY <1>1 DEF Products, ReverseIdle
<1>5. ReverseInv'
  <2>1. Len(table') \in Nat BY <1>1, <1>3, TableTyped
  <2>2. 0 \in Word /\ 0 \in 0 .. Len(table') BY <2>1, HalfAssumption DEF Word
  <2>3. inverse' \in Table /\ intervals' \in Seq([first : Word, end : Word])
    BY <1>4 DEF Table
  <2>4. TypeOK' BY <1>1, <1>3, <1>4, <2>2, <2>3 DEF TypeOK
  <2>5. Apart(intervals)' BY <1>4 DEF Apart
  <2>6. (Len(intervals) <= Capacity)' BY <1>4, <2>1 DEF Capacity
  <2> QED BY <1>4, <2>4, <2>5, <2>6 DEF ReverseInv
<1>6. LeadInv' BY <1>1, <1>3, <1>4, <1>5 DEF LeadInv, ReturnsInverse
<1>7. KeepsHeader(table)' BY <1>1, <1>3 DEF KeepsHeader, IsSource
<1>8. InverseIs' BY <1>4 DEF InverseIs
<1>9. \A x \in Word : Mapped(table', x) = MovedTo(x)'
  <2>1. \A x \in Word : Mapped(out, x) = Mapped(b, Mapped(a, x))
    BY <1>1, <1>2 DEF WalkInv, ReturnsProduct
  <2>2. \A x : MovedTo(x)' = Mapped(peRift, InRva(x)) BY <1>1 DEF MovedTo, InRva
  <2> QED BY <1>1, <1>2, <2>1, <2>2
<1> QED BY <1>6, <1>7, <1>8, <1>9 DEF Reversal

\* The reversal's own steps.
LEMMA ReversalGoes ==
  ASSUME Reversal, [ReverseNext]_reverseVars, UNCHANGED inputs PROVE Reversal'
<1>1. /\ table' = table /\ io2rva' = io2rva /\ preprocessRift' = preprocessRift
      /\ peRift' = peRift
  BY OperandsStay DEF inputs
<1>2. LeadInv' BY LeadStays DEF Reversal
<1>3. KeepsHeader(table)' BY <1>1 DEF Reversal, KeepsHeader, IsSource
<1>4. \A x \in Word : Mapped(table', x) = MovedTo(x)'
  <2>1. \A x : MovedTo(x)' = MovedTo(x) BY <1>1 DEF MovedTo
  <2> QED BY <1>1, <2>1 DEF Reversal
<1>5. OneSource' <=> OneSource BY <1>1 DEF OneSource, Source
<1>6. InverseIs'
  <2>1. InverseIs /\ LeadInv /\ KeepsHeader(table) BY DEF Reversal
  <2>2. CASE StartReverse
    <3>1. table # <<>> /\ 1 \in DOMAIN table
      <4>1. table \in Table BY <2>1 DEF LeadInv, ReverseInv, TypeOK
      <4>2. table # <<>> BY <2>1 DEF KeepsHeader, IsSource
      <4> QED BY <4>1, <4>2, TableTyped
    <3>2. CASE OneSource
      <4>1. inverse' = <<Entry(0, Wrap(Offset(table[1])))>> /\ reversing' = "done"
        BY <2>2, <3>1, <3>2 DEF StartReverse
      <4>2. table[1] = Entry(0, 0)
        BY <2>1, <3>1, <3>2 DEF KeepsHeader, OneSource, Source
      <4>3. Wrap(Offset(table[1])) = 0
        <5>1. 0 \in Word BY HalfAssumption DEF Word
        <5>2. Offset(table[1]) = 0 BY <4>2 DEF Entry, Offset
        <5> QED BY <5>1, <5>2, WrapsWord
      <4>4. inverse' = <<Entry(0, 0)>> BY <4>1, <4>3
      <4>5. Sorted(inverse') BY <4>4 DEF Sorted, Entry
      <4> QED BY <4>1, <4>4, <4>5 DEF InverseIs
    <3>3. CASE ~OneSource
      <4>1. reversing' = "walk" BY <2>2, <3>1, <3>3 DEF StartReverse
      <4> QED BY <1>5, <3>3, <4>1 DEF InverseIs
    <3> QED BY <3>2, <3>3
  <2>3. CASE Walk
    <3>1. ~OneSource BY <2>1, <2>3 DEF Walk, LeadInv
    <3>2. reversing' \in {"walk", "clean", "panic"}
      <4>1. reversing = "walk" BY <2>3 DEF Walk
      <4> QED BY <2>3, <4>1 DEF Walk, AtBoundary
    <3> QED BY <1>5, <3>1, <3>2 DEF InverseIs
  <2>4. CASE Clean
    <3>1. reversing = "clean" /\ inverse' = Cleaned(inverse) BY <2>4 DEF Clean
    <3>2. ~OneSource BY <2>1, <3>1 DEF InverseIs
    <3>3. inverse \in Table BY <2>1 DEF LeadInv, ReverseInv, TypeOK
    <3>4. Cleaned(inverse) \in Table /\ StrictlySorted(Cleaned(inverse))
      BY <3>3, CleanedTyped
    <3>5. Sorted(inverse') BY <3>1, <3>4, SortKeepsAscending
    <3> QED BY <1>5, <3>2, <3>5 DEF InverseIs
  <2>5. CASE UNCHANGED reverseVars
    <3>1. inverse' = inverse /\ reversing' = reversing BY <2>5 DEF reverseVars
    <3> QED BY <1>5, <2>1, <3>1 DEF InverseIs
  <2> QED BY <2>2, <2>3, <2>4, <2>5 DEF ReverseNext
<1> QED BY <1>2, <1>3, <1>4, <1>6 DEF Reversal

\* The chain starts with its first product.
LEMMA InitCopyInv == ASSUME Init PROVE CopyInv
<1>1. /\ io2rva \in Io2Rvas /\ preprocessRift \in PreprocessRifts /\ peRift \in PeRifts
      /\ cliRift \in CliRifts /\ refLen \in RefLens /\ phase = "start"
      /\ a = io2rva /\ b = preprocessRift /\ out = <<>> /\ pc = "start" /\ segment = 0
      /\ ReverseIdle
  BY DEF Init, ReverseIdle
<1>2. \A t \in {io2rva, preprocessRift, peRift, cliRift} : t \in Table /\ Sorted(t)
  BY <1>1, PeAssumption
<1>3. refLen \in 0 .. Max BY <1>1, PeAssumption
<1>4. KeepsHeader(io2rva)
  <2>1. /\ \E i \in DOMAIN io2rva : io2rva[i].source = 0
        /\ \A i \in DOMAIN io2rva : io2rva[i].source = 0 => io2rva[i].target = 0
    BY <1>1, HeaderAssumption
  <2>2. ASSUME \A i \in DOMAIN io2rva : io2rva[i].source = io2rva[1].source,
               NEW i \in DOMAIN io2rva
        PROVE  io2rva[i] = Entry(0, 0)
    <3>1. io2rva[i].source = 0 /\ io2rva[i].target = 0 BY <2>1, <2>2
    <3>2. io2rva[i] \in [source : Word, target : Word] BY <1>2, TableTyped
    <3> QED BY <3>1, <3>2 DEF Entry
  <2> QED BY <2>1, <2>2 DEF KeepsHeader, IsSource
<1>5. InputsOK BY <1>2, <1>3, <1>4 DEF InputsOK
<1>6. WalkInv
  <2>1. <<>> \in Table BY DEF Table
  <2>2. Len(a) \in Nat BY <1>1, <1>2, TableTyped
  <2>3. segment \in 0 .. Len(a) + 1 BY <1>1, <2>2
  <2>4. WalkTypeOK BY <1>1, <1>2, <2>1, <2>3 DEF WalkTypeOK
  <2> QED BY <1>1, <2>4 DEF WalkInv, ReturnsProduct
<1>7. KeepInv BY <1>1 DEF KeepInv
<1>8. Products BY <1>1, <1>4, <1>6, <1>7 DEF Products
<1>9. CopiesFromOrigins BY <1>1, NotYetDone
<1> QED BY <1>1, <1>5, <1>8, <1>9 DEF CopyInv

\* Every step of the chain keeps the invariant.
LEMMA CopyStays == ASSUME CopyInv, [Next]_vars PROVE CopyInv'
<1>1. InputsOK /\ InputsOK' BY InputsStay DEF CopyInv
<1>2. CASE FallBack
  <2>1. phase' = "done" /\ parses' = parses /\ ~parses BY <1>2 DEF FallBack, inputs
  <2>2. CopiesFromOrigins' BY <2>1 DEF CopiesFromOrigins, ReturnsCopyRift, CliOverrides
  <2> QED BY <1>1, <2>1, <2>2 DEF CopyInv
<1>3. CASE Begin
  <2>1. /\ phase = "start" /\ phase' = "preprocess"
        /\ UNCHANGED <<inputs, multiplyVars, reverseVars>>
    BY <1>3 DEF Begin
  <2>2. Products BY <2>1 DEF CopyInv
  <2>3. WalkInv' /\ KeepInv' BY <2>1, <2>2, WalkStays, KeepStays DEF Products
  <2>4. a' = a /\ b' = b /\ io2rva' = io2rva /\ preprocessRift' = preprocessRift
    BY <2>1 DEF multiplyVars, inputs
  <2>5. KeepsHeader(a)' BY <2>2, <2>4 DEF Products, KeepsHeader, IsSource
  <2>6. ReverseIdle' BY <2>1, <2>2 DEF Products, ReverseIdle, reverseVars
  <2>7. Products' BY <2>1, <2>2, <2>3, <2>4, <2>5, <2>6 DEF Products
  <2> QED BY <1>1, <2>1, <2>7, NotYetDone DEF CopyInv
<1>4. CASE MultiplyStep
  <2>1. /\ phase \in {"preprocess", "pe"} /\ phase' = phase /\ MultiplyNext
        /\ UNCHANGED <<inputs, reverseVars>>
    BY <1>4 DEF MultiplyStep
  <2>2. Products BY <2>1 DEF CopyInv
  <2>3. WalkInv' /\ KeepInv' BY <2>1, <2>2, WalkStays, KeepStays DEF Products
  <2>4. a' = a /\ b' = b BY <2>1, OperandsStay
  <2>5. io2rva' = io2rva /\ preprocessRift' = preprocessRift /\ peRift' = peRift
    BY <2>1 DEF inputs
  <2>6. KeepsHeader(a)' BY <2>2, <2>4 DEF Products, KeepsHeader, IsSource
  <2>7. ReverseIdle' BY <2>1, <2>2 DEF Products, ReverseIdle, reverseVars
  <2>8. \A x : InRva(x)' = InRva(x) BY <2>5 DEF InRva
  <2>9. Products' BY <2>1, <2>2, <2>3, <2>4, <2>5, <2>6, <2>7, <2>8 DEF Products
  <2> QED BY <1>1, <2>1, <2>9, NotYetDone DEF CopyInv
<1>5. CASE MultiplyByPe
  <2>1. phase = "preprocess" /\ phase' = "pe" BY <1>5 DEF MultiplyByPe
  <2>2. Products' BY <1>1, <1>5, <2>1, SecondProduct DEF CopyInv
  <2> QED BY <1>1, <2>1, <2>2, NotYetDone DEF CopyInv
<1>6. CASE BeginReverse
  <2>1. phase = "pe" /\ phase' = "reverse" BY <1>6 DEF BeginReverse
  <2>2. Reversal' BY <1>1, <1>6, <2>1, ReversalStarts DEF CopyInv
  <2> QED BY <1>1, <2>1, <2>2, NotYetDone DEF CopyInv
<1>7. CASE ReverseStep
  <2>1. phase = "reverse" /\ phase' = phase /\ ReverseNext /\ UNCHANGED inputs
    BY <1>7 DEF ReverseStep
  <2>2. Reversal' BY <2>1, ReversalGoes DEF CopyInv
  <2> QED BY <1>1, <2>1, <2>2, NotYetDone DEF CopyInv
<1>8. CASE Fold
  <2>1. phase' = "done" BY <1>8 DEF Fold
  <2> QED BY <1>1, <1>8, <2>1, FoldCopies DEF CopyInv
<1>9. CASE UNCHANGED vars
  <2>1. /\ phase' = phase /\ copyRift' = copyRift
        /\ UNCHANGED inputs /\ UNCHANGED multiplyVars /\ UNCHANGED reverseVars
    BY <1>9 DEF vars
  <2>2. /\ io2rva' = io2rva /\ preprocessRift' = preprocessRift /\ peRift' = peRift
        /\ cliRift' = cliRift /\ refLen' = refLen /\ parses' = parses
    BY <2>1 DEF inputs
  <2>3. CASE phase \in {"start", "preprocess", "pe"}
    <3>1. Products BY <2>3 DEF CopyInv
    <3>2. WalkInv' /\ KeepInv' BY <2>1, <3>1, WalkStays, KeepStays DEF Products
    <3>3. a' = a /\ b' = b BY <2>1 DEF multiplyVars
    <3>4. KeepsHeader(a)' BY <3>1, <3>3 DEF Products, KeepsHeader, IsSource
    <3>5. ReverseIdle' BY <2>1, <3>1 DEF Products, ReverseIdle, reverseVars
    <3>6. \A x : InRva(x)' = InRva(x) BY <2>2 DEF InRva
    <3>7. Products' BY <2>1, <2>2, <3>1, <3>2, <3>3, <3>4, <3>5, <3>6 DEF Products
    <3> QED BY <1>1, <2>1, <2>3, <3>7, NotYetDone DEF CopyInv
  <2>4. CASE phase = "reverse"
    <3>1. Reversal' BY <2>1, <2>4, ReversalGoes DEF CopyInv
    <3> QED BY <1>1, <2>1, <2>4, <3>1, NotYetDone DEF CopyInv
  <2>5. CASE phase \notin {"start", "preprocess", "pe", "reverse"}
    <3>1. CopiesFromOrigins'
      <4>1. /\ \A y : CopiedFrom(y)' = CopiedFrom(y)
            /\ \A y : Origins(y)' = Origins(y)
            /\ TargetOffsets' = TargetOffsets /\ MovedTo(0)' = MovedTo(0)
        BY <2>1, <2>2 DEF CopiedFrom, Origins, MovedTo, TargetOffsets
      <4>2. CopiesFromOrigin' <=> CopiesFromOrigin BY <4>1 DEF CopiesFromOrigin
      <4>3. ReturnsCopyRift' BY <2>1, <2>2, <4>1, <4>2
        DEF CopyInv, CopiesFromOrigins, ReturnsCopyRift
      <4>4. CliOverrides' BY <2>1, <2>2, <4>1 DEF CopyInv, CopiesFromOrigins, CliOverrides
      <4> QED BY <4>3, <4>4 DEF CopiesFromOrigins
    <3> QED BY <1>1, <2>1, <2>5, <3>1 DEF CopyInv
  <2> QED BY <2>3, <2>4, <2>5
<1> QED BY <1>2, <1>3, <1>4, <1>5, <1>6, <1>7, <1>8, <1>9 DEF Next

\* A delta of an image that leaves the header where it is copies each byte from the
\* first place of the source that moves to it, and by the metadata's rift where that has
\* an entry: for all sections, moves and references, and words of any width.
THEOREM CopyRiftAlwaysLeadsToOrigins == Spec => []CopiesFromOrigins
<1>1. Init => CopyInv BY InitCopyInv
<1>2. CopyInv /\ [Next]_vars => CopyInv' BY CopyStays
<1>3. CopyInv => CopiesFromOrigins BY DEF CopyInv
<1> QED BY <1>1, <1>2, <1>3, PTL DEF Spec


-----------------------------------------------------------------------------
(***************************************************************************)
(* The reduction.  The invariant is that of a majority vote: of the entries*)
(* of a source seen so far, a target other than the candidate's has no more*)
(* than half of those the candidate's votes do not stand for.  What is kept*)
(* sends the sources behind it to their majorities already.                *)
(***************************************************************************)
\* Sources ascend from the header's; of a map with unset places each has one entry.
MapInv ==
  /\ map # <<>> /\ Sorted(map)
  /\ map[1] = Entry(0, 0)
  /\ \A i \in DOMAIN map : i > 1 => map[i].source > 0
  /\ dropUnset => Unset # 0 /\ \A i \in DOMAIN map : map[i].source = i - 1

\* The entries of a source before the next to be looked at, and those with one target.
Seen(from)             == {i \in 1 .. index - 1 : map[i].source = from}
SeenFor(from, to) == {i \in Seen(from) : map[i].target = to}

\* No target has more than half of the votes, but the candidate's.
VoteInv ==
  \A t \in Word :
    2 * Cardinality(SeenFor(candidate.source, t))
      <= Cardinality(Seen(candidate.source)) + (IF t = candidate.target THEN votes ELSE -votes)

\* The entries of sources that are through.
Through == {i \in 1 .. index - 1 : reducing = "vote" => map[i].source < candidate.source}

HasMajority(i) ==
  2 * Cardinality(Voters(map[i].source, map[i].target)) > Cardinality(Naming(map[i].source))

\* What is kept sends each of them to its majority.
KeptInv ==
  \A i \in Through :
    HasMajority(i) /\ ~(dropUnset /\ map[i].target = Unset)
      => map[i].source + MapOffset(reduced, map[i].source) = map[i].target

\* What is kept lies before what is to come.
AheadInv ==
  /\ reducing = "group" =>
       /\ \A i \in 1 .. index - 1, j \in index .. Len(map) : map[i].source < map[j].source
       /\ \A r \in DOMAIN reduced, j \in index .. Len(map) : reduced[r].source < map[j].source
       /\ index > 1 => reduced # <<>>
  /\ reducing = "vote" =>
       /\ index > 1
       /\ \A j \in index .. Len(map) : candidate.source <= map[j].source
       /\ \A i \in 1 .. index - 1 : map[i].source <= candidate.source
       /\ \A r \in DOMAIN reduced : reduced[r].source < candidate.source
       /\ candidate.source >= 0
       /\ candidate.source = 0 => index = 2 /\ candidate = Entry(0, 0)
       /\ reduced = <<>> => candidate.source = 0

ReduceInv ==
  /\ ReducedIsMinimal /\ MapInv /\ votes < index
  /\ reducing = "set" => reduced = <<>> /\ index = 1
  /\ reducing \in {"group", "vote"} =>
       /\ reduced # <<>> => reduced[1] = Entry(0, 0)
       /\ KeptInv /\ AheadInv
  /\ reducing = "vote" => VoteInv
  /\ ReturnsMajorities

\* The lookup of a position at or behind the first entry.
LEMMA LookupBehind ==
  ASSUME NEW t \in Table, t # <<>>, NEW x \in Int, t[1].source <= x
  PROVE  MapOffset(t, x) = Offset(t[SegmentOf(t, x)])
<1>1. 1 \in DOMAIN t BY TableTyped
<1>2. t[1].source \in Int BY <1>1, TableTyped
<1>3. ~(x < t[1].source) BY <1>2
<1> QED BY <1>3 DEF MapOffset

\* The last entry holds from its source on.
LEMMA LastHolds ==
  ASSUME NEW t \in Table, Sorted(t), t # <<>>, NEW x \in Int, t[Len(t)].source <= x
  PROVE  MapOffset(t, x) = Offset(t[Len(t)])
<1>1. Len(t) \in DOMAIN t /\ 1 \in DOMAIN t /\ DOMAIN t = 1 .. Len(t) /\ Len(t) \in Nat
  BY TableTyped
<1>2. SegmentOf(t, x) = Len(t)
  <2>1. ~(Len(t) < Len(t)) BY <1>1
  <2> QED BY <1>1, <2>1, SegmentAt
<1>3. t[1].source <= t[Len(t)].source BY <1>1 DEF Sorted
<1>4. t[1].source \in Int /\ t[Len(t)].source \in Int BY <1>1, TableTyped
<1>5. t[1].source <= x BY <1>3, <1>4
<1> QED BY <1>2, <1>5, LookupBehind

\* A table with an entry more, and its parts.
LEMMA AppendIs ==
  ASSUME NEW t \in Table, NEW e \in [source : Word, target : Word]
  PROVE  /\ Append(t, e) \in Table /\ Append(t, e) # <<>>
         /\ Len(Append(t, e)) = Len(t) + 1
         /\ DOMAIN Append(t, e) = 1 .. Len(t) + 1
         /\ \A i \in DOMAIN t : i \in DOMAIN Append(t, e) /\ Append(t, e)[i] = t[i]
         /\ Append(t, e)[Len(t) + 1] = e
<1> DEFINE R == [source : Word, target : Word]
<1>1. t \in Seq(R) /\ e \in R BY DEF Table
<1>2. /\ Append(t, e) \in Seq(R) /\ Len(Append(t, e)) = Len(t) + 1
      /\ Append(t, e) # <<>> /\ Len(t) \in Nat /\ DOMAIN t = 1 .. Len(t)
      /\ DOMAIN Append(t, e) = 1 .. Len(t) + 1
      /\ \A i \in 1 .. Len(t) : Append(t, e)[i] = t[i]
      /\ Append(t, e)[Len(t) + 1] = e
  <2> HIDE DEF R
  <2> QED BY <1>1
<1> QED BY <1>2 DEF Table

\* An entry behind all others leaves a table that ascends.
LEMMA AppendAscends ==
  ASSUME NEW t \in Table, NEW e \in [source : Word, target : Word], StrictlySorted(t),
         \A i \in DOMAIN t : t[i].source < e.source
  PROVE  StrictlySorted(Append(t, e)) /\ Sorted(Append(t, e))
<1> DEFINE u == Append(t, e)
<1>1. /\ u \in Table /\ DOMAIN u = 1 .. Len(t) + 1 /\ Len(t) \in Nat /\ DOMAIN t = 1 .. Len(t)
      /\ \A i \in DOMAIN t : u[i] = t[i]
      /\ u[Len(t) + 1] = e
  BY AppendIs, TableTyped
<1> HIDE DEF u
<1>2. StrictlySorted(u)
  <2> SUFFICES ASSUME NEW i \in DOMAIN u, NEW j \in DOMAIN u, i < j
               PROVE  u[i].source < u[j].source
    BY DEF StrictlySorted
  <2>1. i \in DOMAIN t BY <1>1
  <2>2. CASE j \in DOMAIN t BY <1>1, <2>1, <2>2 DEF StrictlySorted
  <2>3. CASE j \notin DOMAIN t
    <3>1. j = Len(t) + 1 BY <1>1, <2>3
    <3> QED BY <1>1, <2>1, <3>1
  <2> QED BY <2>2, <2>3
<1>3. Sorted(u) BY <1>1, <1>2, SortKeepsAscending
<1> QED BY <1>2, <1>3 DEF u

\* What lies in front of the new entry is looked up as before.
LEMMA AppendLooksUp ==
  ASSUME NEW t \in Table, NEW e \in [source : Word, target : Word], StrictlySorted(t),
         t # <<>>, \A i \in DOMAIN t : t[i].source < e.source,
         NEW x \in Int, t[1].source <= x, x < e.source
  PROVE  MapOffset(Append(t, e), x) = MapOffset(t, x)
<1> DEFINE u == Append(t, e)
           k == SegmentOf(t, x)
<1>1. /\ u \in Table /\ u # <<>> /\ Len(u) = Len(t) + 1 /\ DOMAIN u = 1 .. Len(t) + 1
      /\ \A i \in DOMAIN t : i \in DOMAIN u /\ u[i] = t[i]
      /\ u[Len(t) + 1] = e
  BY AppendIs
<1>2. Sorted(u) BY AppendAscends
<1>3. 1 \in DOMAIN t /\ Len(t) \in Nat /\ DOMAIN t = 1 .. Len(t)
      /\ \A i \in DOMAIN t : i \in Int /\ t[i].source \in Int
  BY TableTyped
<1>4. k \in DOMAIN t /\ t[k].source <= x /\ \A j \in DOMAIN t : t[j].source <= x => j <= k
  BY <1>3, SegmentExists
<1> HIDE DEF u, k
<1>5. k < Len(u) => x < u[k + 1].source
  <2>1. CASE k = Len(t) BY <1>1, <2>1
  <2>2. CASE k # Len(t)
    <3>1. k + 1 \in DOMAIN t BY <1>3, <1>4, <2>2
    <3>2. ~(t[k + 1].source <= x)
      <4>1. k \in Int /\ ~(k + 1 <= k) BY <1>3, <1>4
      <4> QED BY <1>4, <3>1, <4>1
    <3> QED BY <1>1, <1>3, <3>1, <3>2
  <2> QED BY <2>1, <2>2
<1>6. SegmentOf(u, x) = k
  <2>1. k \in DOMAIN u /\ u[k].source <= x BY <1>1, <1>4
  <2> QED BY <1>1, <1>2, <1>5, <2>1, SegmentAt
<1>7. MapOffset(u, x) = Offset(u[k])
  <2>1. u[1].source <= x BY <1>1, <1>3
  <2> QED BY <1>1, <1>6, <2>1, LookupBehind
<1>8. MapOffset(t, x) = Offset(t[k]) BY LookupBehind DEF k
<1> QED BY <1>1, <1>4, <1>7, <1>8 DEF u

\* Without its first entry, which maps what is behind it to itself, a table maps as before.
LEMMA TailLooksUp ==
  ASSUME NEW t \in Table, StrictlySorted(t), Len(t) > 1, Offset(t[1]) = 0,
         NEW x \in Int, t[1].source <= x
  PROVE  MapOffset(Tail(t), x) = MapOffset(t, x)
<1> DEFINE u == Tail(t)
<1>1. Len(t) \in Nat /\ DOMAIN t = 1 .. Len(t) /\ 1 \in DOMAIN t /\ 2 \in DOMAIN t /\ t # <<>>
      /\ \A i \in DOMAIN t : i \in Int /\ t[i].source \in Int
  <2>1. t # <<>> => 1 \in DOMAIN t BY TableTyped
  <2> QED BY <2>1, TableTyped
<1>2. /\ u \in Table /\ u # <<>> /\ Len(u) = Len(t) - 1 /\ DOMAIN u = 1 .. Len(t) - 1
      /\ \A i \in DOMAIN u : u[i] = t[i + 1]
  <2> DEFINE R == [source : Word, target : Word]
  <2>1. t \in Seq(R) BY DEF Table
  <2>2. /\ u \in Seq(R) /\ u # <<>> /\ Len(u) = Len(t) - 1 /\ DOMAIN u = 1 .. Len(t) - 1
        /\ \A i \in DOMAIN u : u[i] = t[i + 1]
    <3> HIDE DEF R
    <3> QED BY <1>1, <2>1
  <2> QED BY <2>2 DEF Table
<1>3. Sorted(t) BY SortKeepsAscending
<1> HIDE DEF u
<1>4. Sorted(u)
  <2> SUFFICES ASSUME NEW i \in DOMAIN u, NEW j \in DOMAIN u, i <= j
               PROVE  u[i].source <= u[j].source
    BY DEF Sorted
  <2>1. i + 1 \in DOMAIN t /\ j + 1 \in DOMAIN t /\ i + 1 <= j + 1 BY <1>1, <1>2
  <2>2. t[i + 1].source <= t[j + 1].source BY <1>3, <2>1 DEF Sorted
  <2> QED BY <1>2, <2>2
<1>5. 1 \in DOMAIN u /\ u[1] = t[2] BY <1>1, <1>2
<1>6. CASE x < t[2].source
  <2>1. SegmentOf(t, x) = 1 BY <1>1, <1>3, <1>6, SegmentAt
  <2>2. MapOffset(t, x) = 0 BY <1>1, <2>1, LookupBehind
  <2>3. MapOffset(u, x) = 0 BY <1>5, <1>6 DEF MapOffset
  <2> QED BY <2>2, <2>3 DEF u
<1>7. CASE ~(x < t[2].source)
  <2>1. t[2].source <= x BY <1>1, <1>7
  <2> DEFINE k == SegmentOf(t, x)
  <2>2. k \in DOMAIN t /\ t[k].source <= x /\ \A j \in DOMAIN t : t[j].source <= x => j <= k
    BY <1>1, SegmentExists
  <2> HIDE DEF k
  <2>3. 2 <= k /\ k - 1 \in DOMAIN u /\ u[k - 1] = t[k]
    <3>1. 2 <= k BY <1>1, <2>1, <2>2
    <3>2. k \in 1 .. Len(t) BY <1>1, <2>2
    <3>3. k - 1 \in DOMAIN u /\ (k - 1) + 1 = k BY <1>1, <1>2, <3>1, <3>2
    <3> QED BY <1>2, <3>1, <3>3
  <2>4. k - 1 < Len(u) => x < u[(k - 1) + 1].source
    <3> SUFFICES ASSUME k - 1 < Len(u) PROVE x < u[(k - 1) + 1].source OBVIOUS
    <3>1. k \in Int /\ (k - 1) + 1 = k /\ k + 1 \in DOMAIN t /\ k \in DOMAIN u
          /\ ~(k + 1 <= k)
      BY <1>1, <1>2, <2>2, <2>3
    <3>2. ~(t[k + 1].source <= x) BY <2>2, <3>1
    <3>3. u[k] = t[k + 1] BY <1>2, <3>1
    <3> QED BY <1>1, <3>1, <3>2, <3>3
  <2>5. SegmentOf(u, x) = k - 1
    <3>1. u[k - 1].source <= x BY <2>2, <2>3
    <3> QED BY <1>2, <1>4, <2>3, <2>4, <3>1, SegmentAt
  <2>6. MapOffset(u, x) = Offset(u[k - 1])
    <3>1. u[1].source <= x BY <1>5, <2>1
    <3> QED BY <1>2, <2>5, <3>1, LookupBehind
  <2>7. MapOffset(t, x) = Offset(t[k]) BY <1>1, LookupBehind DEF k
  <2> QED BY <2>3, <2>6, <2>7 DEF u
<1> QED BY <1>6, <1>7

\* What the invariant says of the map and the index.
LEMMA MapTyped ==
  ASSUME ReduceTypeOK, MapInv
  PROVE  /\ map \in Table /\ Len(map) \in Nat /\ DOMAIN map = 1 .. Len(map) /\ 1 \in DOMAIN map
         /\ index \in Nat /\ index \in 1 .. Len(map) + 1
         /\ \A i \in DOMAIN map :
              /\ i \in Int /\ map[i] \in [source : Word, target : Word]
              /\ map[i].source \in Int /\ map[i].target \in Int
              /\ map[i].source \in Word /\ map[i].target \in Word
              /\ 0 <= map[i].source
         /\ map[1].source = 0 /\ map[1].target = 0
         /\ \A i \in DOMAIN map : i # 1 => 0 < map[i].source
<1>1. map \in Table /\ index \in 1 .. Len(map) + 1 BY DEF ReduceTypeOK
<1>2. map # <<>> /\ map[1] = Entry(0, 0) /\ \A i \in DOMAIN map : i > 1 => map[i].source > 0
  BY DEF MapInv
<1>3. /\ Len(map) \in Nat /\ DOMAIN map = 1 .. Len(map) /\ Len(map) \in 1 .. Len(map)
      /\ \A i \in DOMAIN map : /\ i \in Int /\ map[i] \in [source : Word, target : Word]
                               /\ map[i].source \in Word /\ map[i].target \in Word
                               /\ map[i].source \in Int
  BY <1>1, <1>2, TableTyped
<1>4. 1 \in DOMAIN map /\ index \in Nat BY <1>1, <1>3
<1>5. map[1].source = 0 /\ map[1].target = 0 BY <1>2 DEF Entry
<1>6. ASSUME NEW i \in DOMAIN map PROVE 0 <= map[i].source /\ (i # 1 => 0 < map[i].source)
  <2>1. i = 1 \/ i > 1 BY <1>3
  <2> QED BY <1>2, <1>3, <1>5, <2>1
<1>7. \A i \in DOMAIN map : map[i].target \in Int BY <1>3, WordsAre
<1> QED BY <1>1, <1>3, <1>4, <1>5, <1>6, <1>7

\* The candidate is an entry of words.
LEMMA CandidateTyped ==
  ASSUME ReduceTypeOK
  PROVE  /\ candidate \in [source : Word, target : Word]
         /\ candidate.source \in Word /\ candidate.target \in Word
         /\ candidate.source \in Int /\ candidate.target \in Int
         /\ Offset(candidate) = candidate.target - candidate.source
         /\ votes \in Int /\ 0 <= votes
<1>1. candidate \in [source : Word, target : Word] /\ votes \in 0 .. Len(map)
  BY DEF ReduceTypeOK
<1>2. map \in Table BY DEF ReduceTypeOK
<1>3. Len(map) \in Nat BY <1>2, TableTyped
<1>4. candidate.source \in Word /\ candidate.target \in Word BY <1>1
<1>5. candidate.source \in Int /\ candidate.target \in Int BY <1>4, WordsAre
<1>6. votes \in Int /\ 0 <= votes BY <1>1, <1>3
<1>7. Offset(candidate) = candidate.target - candidate.source BY DEF Offset
<1> QED BY <1>1, <1>4, <1>5, <1>6, <1>7

-----------------------------------------------------------------------------
(***************************************************************************)
(* Counting votes.                                                         *)
(***************************************************************************)
\* The entries seen are finitely many.
LEMMA SeenFinite ==
  ASSUME ReduceTypeOK, MapInv, NEW s \in Word, NEW t \in Word
  PROVE  /\ IsFiniteSet(Seen(s)) /\ IsFiniteSet(SeenFor(s, t))
         /\ Cardinality(Seen(s)) \in Nat /\ Cardinality(SeenFor(s, t)) \in Nat
<1>1. index \in Nat BY MapTyped
<1>2. IsFiniteSet(1 .. index - 1)
  <2>1. 1 \in Int /\ index - 1 \in Int BY <1>1
  <2> QED BY <2>1, FS_Interval
<1>3. Seen(s) \subseteq 1 .. index - 1 BY DEF Seen
<1>4. IsFiniteSet(Seen(s)) BY <1>2, <1>3, FS_Subset
<1>5. SeenFor(s, t) \subseteq Seen(s) BY DEF SeenFor
<1>6. IsFiniteSet(SeenFor(s, t)) BY <1>4, <1>5, FS_Subset
<1> QED BY <1>4, <1>6, FS_CardinalityType

\* One entry more is counted for its source and its target.
LEMMA SeenMoves ==
  ASSUME ReduceTypeOK, MapInv, index <= Len(map), index' = index + 1, map' = map,
         NEW s \in Word, NEW t \in Word
  PROVE  /\ Cardinality(Seen(s)')
              = Cardinality(Seen(s)) + (IF map[index].source = s THEN 1 ELSE 0)
         /\ Cardinality(SeenFor(s, t)')
              = Cardinality(SeenFor(s, t))
                  + (IF map[index].source = s /\ map[index].target = t THEN 1 ELSE 0)
<1>1. index \in Nat /\ Len(map) \in Nat BY MapTyped
<1> DEFINE U == Seen(s)
           V == SeenFor(s, t)
           U1 == Seen(s)'
           V1 == SeenFor(s, t)'
           hit == map[index].source = s
           hitFor == map[index].source = s /\ map[index].target = t
<1>2. IsFiniteSet(U) /\ IsFiniteSet(V) /\ Cardinality(U) \in Nat /\ Cardinality(V) \in Nat
  BY SeenFinite
<1>3. index \notin U /\ index \notin V BY <1>1 DEF Seen, SeenFor
<1>4. \A i : i \in 1 .. index' - 1 <=> i \in 1 .. index - 1 \/ i = index
  <2>1. index' - 1 = index /\ index \in 1 .. index
    <3>1. index \in 1 .. Len(map) + 1 BY MapTyped
    <3> QED BY <1>1, <3>1
  <2>2. \A i : i \in 1 .. index <=> i \in 1 .. index - 1 \/ i = index BY <1>1, <2>1
  <2> QED BY <2>1, <2>2
<1>5. U1 = {i \in 1 .. index' - 1 : map[i].source = s} BY DEF Seen
<1>6. V1 = {i \in U1 : map[i].target = t} BY DEF SeenFor
<1>7. U1 = IF hit THEN U \cup {index} ELSE U
  <2> HIDE DEF U1
  <2> QED BY <1>4, <1>5 DEF Seen
<1>8. V1 = IF hitFor THEN V \cup {index} ELSE V
  <2> HIDE DEF U1, V1
  <2> QED BY <1>6, <1>7 DEF SeenFor, Seen
<1> HIDE DEF U1, V1, U, V
<1>9. Cardinality(U \cup {index}) = Cardinality(U) + 1 BY <1>2, <1>3, FS_AddElement
<1>10. Cardinality(V \cup {index}) = Cardinality(V) + 1 BY <1>2, <1>3, FS_AddElement
<1>11. Cardinality(U1) = Cardinality(U) + (IF hit THEN 1 ELSE 0)
  <2>1. CASE hit BY <1>7, <1>9, <2>1
  <2>2. CASE ~hit BY <1>2, <1>7, <2>2
  <2> QED BY <2>1, <2>2
<1>12. Cardinality(V1) = Cardinality(V) + (IF hitFor THEN 1 ELSE 0)
  <2>1. CASE hitFor BY <1>8, <1>10, <2>1
  <2>2. CASE ~hitFor BY <1>2, <1>8, <2>2
  <2> QED BY <2>1, <2>2
<1> QED BY <1>11, <1>12 DEF U, V, U1, V1

\* The first entry of a source elects its target.
LEMMA FirstVote ==
  ASSUME ReduceTypeOK, MapInv, index <= Len(map),
         \A i \in 1 .. index - 1 : map[i].source < map[index].source,
         index' = index + 1, map' = map, candidate' = map[index], votes' = 1
  PROVE  VoteInv'
<1>1. index \in DOMAIN map /\ map \in Table /\ \A i \in DOMAIN map : i \in Int /\ map[i].source \in Int
  BY MapTyped
<1>2. PICK s \in Word : s = map[index].source BY <1>1, MapTyped
<1>3. Seen(s) = {}
  <2>1. ASSUME NEW i \in Seen(s) PROVE FALSE
    <3>1. i \in 1 .. index - 1 /\ map[i].source = s BY DEF Seen
    <3>2. map[i].source < map[index].source BY <3>1
    <3> QED BY <1>1, <1>2, <3>1, <3>2
  <2> QED BY <2>1
<1>4. \A t \in Word : SeenFor(s, t) = {} BY <1>3 DEF SeenFor
<1>5. Cardinality(Seen(s)) = 0 /\ \A t \in Word : Cardinality(SeenFor(s, t)) = 0
  BY <1>3, <1>4, FS_EmptySet
<1> SUFFICES ASSUME NEW t \in Word
             PROVE  2 * Cardinality(SeenFor(candidate.source, t)')
                      <= Cardinality(Seen(candidate.source)')
                           + (IF t = candidate'.target THEN votes' ELSE -votes')
  BY DEF VoteInv
<1>6. /\ SeenFor(candidate.source, t)' = SeenFor(s, t)'
      /\ Seen(candidate.source)' = Seen(s)'
  BY <1>2 DEF SeenFor, Seen
<1>7. Cardinality(Seen(s)') = 0 + 1 BY <1>2, <1>5, SeenMoves
<1>8. Cardinality(SeenFor(s, t)') = 0 + (IF map[index].target = t THEN 1 ELSE 0)
  BY <1>2, <1>5, SeenMoves
<1>9. CASE t = map[index].target
  <2>1. Cardinality(SeenFor(s, t)') = 1 BY <1>8, <1>9
  <2> QED BY <1>6, <1>7, <1>9, <2>1
<1>10. CASE t # map[index].target
  <2>1. Cardinality(SeenFor(s, t)') = 0 BY <1>8, <1>10
  <2> QED BY <1>6, <1>7, <1>10, <2>1
<1> QED BY <1>9, <1>10

\* Every other one counts for the candidate or against it.
LEMMA VoteCounts ==
  ASSUME ReduceTypeOK, MapInv, VoteInv, Vote
  PROVE  VoteInv' /\ candidate'.source = candidate.source
<1>1. /\ index <= Len(map) /\ map[index].source = candidate.source
      /\ index' = index + 1 /\ map' = map /\ Elect
  BY DEF Vote, AnotherVote
<1>2. index \in DOMAIN map /\ \A i \in DOMAIN map : map[i].target \in Word BY <1>1, MapTyped
<1>3. PICK s \in Word : s = candidate.source BY CandidateTyped
<1>4. PICK c \in Word : c = candidate.target BY CandidateTyped
<1>5. PICK m \in Word : m = map[index].target BY <1>2
<1>6. PICK v \in Int : v = votes /\ 0 <= v BY CandidateTyped
<1>7. \/ m = c /\ votes' = v + 1 /\ candidate' = candidate
      \/ m # c /\ v = 0 /\ candidate' = map[index] /\ votes' = 1
      \/ m # c /\ v > 0 /\ candidate' = candidate /\ votes' = v - 1
  <2>1. m = c => votes' = v + 1 /\ candidate' = candidate
    BY <1>1, <1>4, <1>5, <1>6 DEF Elect
  <2>2. m # c /\ v = 0 => candidate' = map[index] /\ votes' = 1
    BY <1>1, <1>4, <1>5, <1>6 DEF Elect
  <2>3. m # c /\ v > 0 => candidate' = candidate /\ votes' = v - 1
    BY <1>1, <1>4, <1>5, <1>6 DEF Elect
  <2>4. v = 0 \/ v > 0 BY <1>6
  <2> QED BY <2>1, <2>2, <2>3, <2>4
<1>8. candidate'.source = s BY <1>1, <1>3, <1>7
<1> SUFFICES VoteInv' BY <1>3, <1>8
<1> SUFFICES ASSUME NEW t \in Word
             PROVE  2 * Cardinality(SeenFor(candidate.source, t)')
                      <= Cardinality(Seen(candidate.source)')
                           + (IF t = candidate'.target THEN votes' ELSE -votes')
  BY DEF VoteInv
<1>9. /\ SeenFor(candidate.source, t)' = SeenFor(s, t)'
      /\ Seen(candidate.source)' = Seen(s)'
  BY <1>8 DEF SeenFor, Seen
<1>10. PICK n \in Nat, q \in Nat : n = Cardinality(Seen(s)) /\ q = Cardinality(SeenFor(s, t))
  BY SeenFinite
<1>11. 2 * q <= n + (IF t = c THEN v ELSE -v)
  BY <1>3, <1>4, <1>6, <1>10 DEF VoteInv
<1>12. Cardinality(Seen(s)') = n + 1 BY <1>1, <1>3, <1>10, SeenMoves
<1>13. Cardinality(SeenFor(s, t)') = q + (IF m = t THEN 1 ELSE 0)
  BY <1>1, <1>3, <1>5, <1>10, SeenMoves
<1> SUFFICES 2 * (q + (IF m = t THEN 1 ELSE 0))
               <= (n + 1) + (IF t = candidate'.target THEN votes' ELSE -votes')
  BY <1>9, <1>12, <1>13
<1>14. CASE m = c /\ votes' = v + 1 /\ candidate' = candidate
  <2>1. CASE t = c BY <1>4, <1>6, <1>11, <1>14, <2>1
  <2>2. CASE t # c BY <1>4, <1>6, <1>11, <1>14, <2>2
  <2> QED BY <2>1, <2>2
<1>15. CASE m # c /\ v = 0 /\ candidate' = map[index] /\ votes' = 1
  <2>1. candidate'.target = m BY <1>5, <1>15
  <2>2. CASE t = m BY <1>6, <1>11, <1>15, <2>1, <2>2
  <2>3. CASE t # m BY <1>6, <1>11, <1>15, <2>1, <2>3
  <2> QED BY <2>2, <2>3
<1>16. CASE m # c /\ v > 0 /\ candidate' = candidate /\ votes' = v - 1
  <2>1. CASE t = c BY <1>4, <1>6, <1>11, <1>16, <2>1
  <2>2. CASE t # c BY <1>4, <1>6, <1>11, <1>16, <2>2
  <2> QED BY <2>1, <2>2
<1> QED BY <1>7, <1>14, <1>15, <1>16

\* When all entries of the source are seen, its majority, if it has one, is elected.
LEMMA MajorityElected ==
  ASSUME ReduceTypeOK, MapInv, VoteInv, NEW i \in DOMAIN map, HasMajority(i),
         map[i].source = candidate.source,
         \A j \in index .. Len(map) : candidate.source < map[j].source
  PROVE  map[i].target = candidate.target
<1>1. PICK s \in Word : s = candidate.source BY CandidateTyped
<1>2. PICK t \in Word : t = map[i].target BY MapTyped
<1>3. /\ DOMAIN map = 1 .. Len(map) /\ Len(map) \in Nat /\ index \in 1 .. Len(map) + 1
      /\ \A j \in DOMAIN map : map[j].source \in Int
  BY MapTyped
<1>4. Naming(s) = Seen(s)
  <2>1. ASSUME NEW j \in DOMAIN map, map[j].source = s PROVE j \in 1 .. index - 1
    <3>1. ~(j \in index .. Len(map)) BY <1>1, <1>3, <2>1
    <3> QED BY <1>3, <3>1
  <2>2. 1 .. index - 1 \subseteq DOMAIN map BY <1>3
  <2> QED BY <2>1, <2>2 DEF Naming, Seen
<1>5. Voters(s, t) = SeenFor(s, t) BY <1>4 DEF Voters, SeenFor
<1>6. PICK n \in Nat, q \in Nat : n = Cardinality(Seen(s)) /\ q = Cardinality(SeenFor(s, t))
  BY SeenFinite
<1>7. 2 * q > n BY <1>1, <1>2, <1>4, <1>5, <1>6 DEF HasMajority
<1>8. 2 * q <= n + (IF t = candidate.target THEN votes ELSE -votes)
  BY <1>1, <1>6 DEF VoteInv
<1>9. votes \in Int /\ 0 <= votes BY CandidateTyped
<1>10. CASE t # candidate.target BY <1>6, <1>7, <1>8, <1>9, <1>10
<1> QED BY <1>2, <1>10

-----------------------------------------------------------------------------
(***************************************************************************)
(* The steps of the reduction.                                             *)
(***************************************************************************)
\* A step that leaves the map keeps what is said of it.
LEMMA MapStays ==
  ASSUME MapInv, map' = map, dropUnset' = dropUnset PROVE MapInv'
BY DEF MapInv, Sorted

\* The table is as before, and ends with an entry that differs from the one before it.
LEMMA MinimalStays ==
  ASSUME ReducedIsMinimal, reduced' = reduced, ReduceTypeOK' PROVE ReducedIsMinimal'
BY DEF ReducedIsMinimal, StrictlySorted

\* A pair of rows changes a target, and no source.
LEMMA SetKeeps ==
  ASSUME ReduceInv, NEW s \in Rows, NEW t \in Rows, Set(s, t)
  PROVE  ReduceInv'
<1>1. /\ reducing = "set" /\ dropUnset /\ s < Len(map) /\ sets < MaxSets
      /\ map' = SetRiftEntry(map, s, t) /\ sets' = sets + 1
      /\ dropUnset' = dropUnset /\ reducing' = reducing /\ index' = index
      /\ candidate' = candidate /\ votes' = votes /\ reduced' = reduced
  BY DEF Set
<1>2. ReduceTypeOK /\ MapInv /\ reduced = <<>> /\ index = 1 /\ votes < index /\ ReducedIsMinimal
  BY <1>1 DEF ReduceInv, ReducedIsMinimal
<1>3. s \in Int /\ t \in Word /\ 1 <= s
  <2>1. Rows \subseteq 1 .. Max - 1 BY MapsAreTables
  <2>2. s \in 1 .. Max - 1 /\ t \in 1 .. Max - 1 BY <2>1
  <2>3. Max \in Int /\ Min <= 0 BY WordsAre
  <2>4. s \in Int /\ 1 <= s /\ t \in Int /\ Min <= t /\ t <= Max BY <2>2, <2>3, WordsAre
  <2> QED BY <2>4, WordsAre
<1>4. /\ map \in Table /\ DOMAIN map = 1 .. Len(map) /\ Len(map) \in Nat /\ 1 \in DOMAIN map
      /\ \A i \in DOMAIN map : i \in Int /\ map[i].source = i - 1
  BY <1>1, <1>2, MapTyped DEF MapInv
<1> DEFINE R == [source : Word, target : Word]
           k == s + 1
           u == [map EXCEPT ![k].target = t]
<1>5. k \in DOMAIN map /\ map[k].source = s /\ k # 1
  <2>1. k \in 1 .. Len(map) /\ k # 1 BY <1>1, <1>3, <1>4
  <2>2. map[k].source = k - 1 BY <1>4, <2>1
  <2> QED BY <1>3, <1>4, <2>1, <2>2
<1>6. \A i \in DOMAIN map : map[i].source = s => i = k BY <1>3, <1>4
<1>7. map' = u
  <2> DEFINE P(i) == /\ map[i].source = s
                     /\ \A j \in DOMAIN map : map[j].source = s => i <= j
  <2>1. k \in Int /\ k <= k BY <1>3
  <2>2. P(k) BY <1>5, <1>6, <2>1
  <2>3. \A i \in DOMAIN map : P(i) => i = k BY <1>6
  <2>4. (CHOOSE i \in DOMAIN map : P(i)) = k
    <3> HIDE DEF P, k
    <3> QED BY <1>5, <2>2, <2>3
  <2>5. \E i \in DOMAIN map : map[i].source = s BY <1>5
  <2>6. map' = [map EXCEPT ![CHOOSE i \in DOMAIN map : P(i)].target = t]
    BY <1>1, <2>5 DEF SetRiftEntry
  <2> HIDE DEF P, k
  <2> QED BY <2>4, <2>6
<1>8. /\ u \in Table /\ DOMAIN u = DOMAIN map /\ Len(u) = Len(map)
      /\ \A i \in DOMAIN map : u[i].source = map[i].source
      /\ \A i \in DOMAIN map : i # k => u[i] = map[i]
  <2>1. map[k] \in R BY <1>5, <1>2, MapTyped
  <2>2. u = [map EXCEPT ![k] = [map[k] EXCEPT !.target = t]] OBVIOUS
  <2>3. PICK e \in R : e = [map[k] EXCEPT !.target = t] BY <1>3, <2>1
  <2>4. e.source = map[k].source BY <2>1, <2>3
  <2>5. u = [map EXCEPT ![k] = e] BY <2>2, <2>3
  <2>6. map \in Seq(R) BY <1>4 DEF Table
  <2>7. [map EXCEPT ![k] = e] \in Seq(R) /\ Len([map EXCEPT ![k] = e]) = Len(map)
    <3> HIDE DEF R, u, k
    <3> QED BY <1>4, <1>5, <2>3, <2>6
  <2>8. /\ DOMAIN [map EXCEPT ![k] = e] = DOMAIN map
        /\ [map EXCEPT ![k] = e][k] = e
        /\ \A i \in DOMAIN map : i # k => [map EXCEPT ![k] = e][i] = map[i]
    <3> HIDE DEF R, u, k
    <3> QED BY <1>5
  <2> QED BY <2>4, <2>5, <2>7, <2>8 DEF Table
<1> HIDE DEF u, k, R
<1>9. MapInv'
  <2>1. u # <<>>
    <3>1. 1 \in DOMAIN u BY <1>4, <1>8
    <3>2. \A i : i \notin DOMAIN <<>> OBVIOUS
    <3> QED BY <3>1, <3>2
  <2>2. Sorted(u) BY <1>2, <1>8 DEF MapInv, Sorted
  <2>3. u[1] = Entry(0, 0) BY <1>2, <1>4, <1>5, <1>8 DEF MapInv
  <2>4. \A i \in DOMAIN u : i > 1 => u[i].source > 0 BY <1>2, <1>8 DEF MapInv
  <2>5. Unset # 0 /\ \A i \in DOMAIN u : u[i].source = i - 1 BY <1>1, <1>2, <1>4, <1>8 DEF MapInv
  <2> QED BY <1>1, <1>7, <2>1, <2>2, <2>3, <2>4, <2>5 DEF MapInv
<1>10. ReduceTypeOK'
  <2>1. sets + 1 \in 0 .. MaxSets
    <3>1. sets \in 0 .. MaxSets /\ MaxSets \in Nat BY <1>2, MapsAreTables DEF ReduceTypeOK
    <3> QED BY <1>1, <3>1
  <2> QED BY <1>1, <1>2, <1>7, <1>8, <2>1 DEF ReduceTypeOK
<1>11. ReducedIsMinimal' BY <1>1, <1>2, <1>10, MinimalStays
<1> QED BY <1>1, <1>2, <1>9, <1>11 DEF ReduceInv, ReturnsMajorities

\* Nothing is voted on yet.
LEMMA BeginKeeps == ASSUME ReduceInv, BeginReduce PROVE ReduceInv'
<1>1. /\ reducing = "set" /\ reducing' = "group"
      /\ map' = map /\ dropUnset' = dropUnset /\ index' = index /\ sets' = sets
      /\ candidate' = candidate /\ votes' = votes /\ reduced' = reduced
  BY DEF BeginReduce
<1>2. ReduceTypeOK /\ MapInv /\ reduced = <<>> /\ index = 1 /\ votes < index /\ ReducedIsMinimal
  BY <1>1 DEF ReduceInv, ReducedIsMinimal
<1>3. MapInv' BY <1>1, <1>2, MapStays
<1>4. ReduceTypeOK' BY <1>1, <1>2 DEF ReduceTypeOK
<1>5. ReducedIsMinimal' BY <1>1, <1>2, <1>4, MinimalStays
<1>6. 1 .. index' - 1 = {} BY <1>1, <1>2
<1>7. KeptInv' BY <1>6 DEF KeptInv, Through
<1>8. AheadInv' BY <1>1, <1>2, <1>6 DEF AheadInv
<1> QED BY <1>1, <1>2, <1>3, <1>5, <1>7, <1>8 DEF ReduceInv, ReturnsMajorities

\* What a step of the walk keeps, whatever it does with the candidate.
LEMMA WalkOn ==
  ASSUME ReduceInv, index <= Len(map), index' = index + 1, map' = map,
         dropUnset' = dropUnset, sets' = sets, reduced' = reduced,
         reducing' \in {"group", "vote"},
         candidate' = candidate \/ candidate' = map[index],
         votes' \in Int, 0 <= votes', votes' <= votes + 1
  PROVE  ReducedIsMinimal' /\ MapInv' /\ votes' < index'
<1>1. ReduceTypeOK /\ MapInv /\ ReducedIsMinimal /\ votes < index
  BY DEF ReduceInv, ReducedIsMinimal
<1>2. /\ index \in Nat /\ Len(map) \in Nat /\ index \in 1 .. Len(map) + 1
      /\ index \in DOMAIN map /\ map[index] \in [source : Word, target : Word]
  BY <1>1, MapTyped
<1>3. votes \in Int BY <1>1, CandidateTyped
<1>4. index' \in 1 .. Len(map) + 1 /\ votes' \in 0 .. Len(map) /\ votes' < index'
  BY <1>1, <1>2, <1>3
<1>5. ReduceTypeOK' BY <1>1, <1>2, <1>4 DEF ReduceTypeOK
<1> QED BY <1>1, <1>4, <1>5, MapStays, MinimalStays

\* Votes are cast once a map is walked.
LEMMA NextSourceKeeps == ASSUME ReduceInv, NextSource PROVE ReduceInv'
<1>1. /\ reducing = "group" /\ index <= Len(map) /\ index' = index + 1
      /\ map' = map /\ dropUnset' = dropUnset /\ sets' = sets /\ reduced' = reduced
      /\ dropUnset /\ map[index].target = Unset =>
           reducing' = reducing /\ candidate' = candidate /\ votes' = votes
      /\ ~(dropUnset /\ map[index].target = Unset) =>
           reducing' = "vote" /\ candidate' = map[index] /\ votes' = 1
  BY DEF NextSource
<1>2. /\ ReduceTypeOK /\ MapInv /\ votes < index /\ ReducedIsMinimal
      /\ KeptInv /\ AheadInv /\ (reduced # <<>> => reduced[1] = Entry(0, 0))
  BY <1>1 DEF ReduceInv, ReducedIsMinimal
<1>3. votes \in Int /\ 0 <= votes BY <1>2, CandidateTyped
<1>4. /\ DOMAIN map = 1 .. Len(map) /\ Len(map) \in Nat /\ index \in Nat
      /\ index \in DOMAIN map
      /\ \A i \in DOMAIN map : i \in Int /\ map[i].source \in Int /\ 0 <= map[i].source
                               /\ (i # 1 => 0 < map[i].source)
      /\ map[1] = Entry(0, 0) /\ map[1].target = 0
  BY <1>1, <1>2, MapTyped DEF MapInv
<1>5. /\ \A i \in 1 .. index - 1, j \in index .. Len(map) : map[i].source < map[j].source
      /\ \A r \in DOMAIN reduced, j \in index .. Len(map) : reduced[r].source < map[j].source
      /\ index > 1 => reduced # <<>>
  BY <1>1, <1>2 DEF AheadInv
<1>6. 1 .. index' - 1 = (1 .. index - 1) \cup {index} /\ index' .. Len(map) \subseteq index .. Len(map)
      /\ index \in index .. Len(map)
  BY <1>1, <1>4
<1>7. Sorted(map) BY <1>2 DEF MapInv
<1>8. CASE dropUnset /\ map[index].target = Unset
  <2>1. reducing' = "group" /\ candidate' = candidate /\ votes' = votes BY <1>1, <1>8
  <2>2. ReducedIsMinimal' /\ MapInv' /\ votes' < index' BY <1>1, <1>3, <2>1, WalkOn
  <2>3. \A i \in DOMAIN map : map[i].source = i - 1 BY <1>2, <1>8 DEF MapInv
  <2>4. AheadInv'
    <3>1. ASSUME NEW i \in 1 .. index' - 1, NEW j \in index' .. Len(map)
          PROVE  map[i].source < map[j].source
      <4>1. i \in DOMAIN map /\ j \in DOMAIN map /\ i < j BY <1>1, <1>4
      <4> QED BY <1>4, <2>3, <4>1
    <3>2. index # 1
      <4>1. Unset # 0 BY <1>2, <1>8 DEF MapInv
      <4> QED BY <1>4, <1>8, <4>1
    <3>3. reduced # <<>> BY <1>4, <1>5, <3>2
    <3> QED BY <1>1, <1>5, <1>6, <2>1, <3>1, <3>3 DEF AheadInv
  <2>5. KeptInv'
    <3> SUFFICES ASSUME NEW i \in Through', HasMajority(i)',
                        ~(dropUnset /\ map[i].target = Unset)
                 PROVE  map[i].source + MapOffset(reduced, map[i].source) = map[i].target
      BY <1>1 DEF KeptInv
    <3>1. i \in 1 .. index' - 1 BY DEF Through
    <3>2. i # index BY <1>8
    <3>3. i \in Through BY <1>1, <1>6, <3>1, <3>2 DEF Through
    <3>4. HasMajority(i) BY <1>1 DEF HasMajority, Voters, Naming
    <3> QED BY <1>2, <3>3, <3>4 DEF KeptInv
  <2> QED BY <1>1, <1>2, <2>1, <2>2, <2>4, <2>5 DEF ReduceInv, ReturnsMajorities
<1>9. CASE ~(dropUnset /\ map[index].target = Unset)
  <2>1. reducing' = "vote" /\ candidate' = map[index] /\ votes' = 1 BY <1>1, <1>9
  <2>2. ReducedIsMinimal' /\ MapInv' /\ votes' < index' BY <1>1, <1>3, <2>1, WalkOn
  <2>3. VoteInv' BY <1>1, <1>2, <1>5, <1>6, <2>1, FirstVote
  <2>4. AheadInv'
    <3>1. index' > 1 BY <1>1, <1>4
    <3>2. ASSUME NEW j \in index' .. Len(map) PROVE map[index].source <= map[j].source
      <4>1. j \in DOMAIN map /\ index <= j BY <1>1, <1>4
      <4> QED BY <1>4, <1>7, <4>1 DEF Sorted
    <3>3. ASSUME NEW i \in 1 .. index' - 1 PROVE map[i].source <= map[index].source
      <4>1. i \in DOMAIN map /\ i <= index BY <1>1, <1>4
      <4> QED BY <1>4, <1>7, <4>1 DEF Sorted
    <3>4. map[index].source >= 0 BY <1>4
    <3>5. map[index].source = 0 => index' = 2 /\ map[index] = Entry(0, 0)
      <4>1. map[index].source = 0 => index = 1 BY <1>4
      <4> QED BY <1>1, <1>4, <4>1
    <3>6. reduced = <<>> => map[index].source = 0
      <4>1. reduced = <<>> => index = 1 BY <1>4, <1>5
      <4>2. map[1].source = 0 BY <1>4 DEF Entry
      <4> QED BY <4>1, <4>2
    <3>7. \A r \in DOMAIN reduced : reduced[r].source < map[index].source BY <1>5, <1>6
    <3> QED BY <1>1, <2>1, <3>1, <3>2, <3>3, <3>4, <3>5, <3>6, <3>7 DEF AheadInv
  <2>5. KeptInv'
    <3> SUFFICES ASSUME NEW i \in Through', HasMajority(i)',
                        ~(dropUnset /\ map[i].target = Unset)
                 PROVE  map[i].source + MapOffset(reduced, map[i].source) = map[i].target
      BY <1>1 DEF KeptInv
    <3>1. i \in 1 .. index' - 1 /\ map[i].source < map[index].source
      BY <1>1, <2>1 DEF Through
    <3>2. i # index BY <1>4, <3>1
    <3>3. i \in Through BY <1>1, <1>6, <3>1, <3>2 DEF Through
    <3>4. HasMajority(i) BY <1>1 DEF HasMajority, Voters, Naming
    <3> QED BY <1>2, <3>3, <3>4 DEF KeptInv
  <2> QED BY <1>1, <1>2, <2>1, <2>2, <2>3, <2>4, <2>5 DEF ReduceInv, ReturnsMajorities
<1> QED BY <1>8, <1>9

\* A vote moves the lead, and nothing else.
LEMMA VoteKeeps == ASSUME ReduceInv, Vote PROVE ReduceInv'
<1>1. /\ reducing = "vote" /\ index <= Len(map) /\ map[index].source = candidate.source
      /\ index' = index + 1 /\ Elect
      /\ map' = map /\ dropUnset' = dropUnset /\ reducing' = reducing /\ sets' = sets
      /\ reduced' = reduced
  BY DEF Vote, AnotherVote
<1>2. /\ ReduceTypeOK /\ MapInv /\ votes < index /\ ReducedIsMinimal /\ VoteInv
      /\ KeptInv /\ AheadInv /\ (reduced # <<>> => reduced[1] = Entry(0, 0))
  BY <1>1 DEF ReduceInv, ReducedIsMinimal
<1>3. votes \in Int /\ 0 <= votes /\ candidate.source \in Int BY <1>2, CandidateTyped
<1>4. /\ DOMAIN map = 1 .. Len(map) /\ Len(map) \in Nat /\ index \in Nat
      /\ index \in DOMAIN map
      /\ \A i \in DOMAIN map : i \in Int /\ map[i].source \in Int /\ 0 <= map[i].source
                               /\ (i # 1 => 0 < map[i].source)
  BY <1>1, <1>2, MapTyped
<1>5. /\ index > 1
      /\ \A j \in index .. Len(map) : candidate.source <= map[j].source
      /\ \A i \in 1 .. index - 1 : map[i].source <= candidate.source
      /\ \A r \in DOMAIN reduced : reduced[r].source < candidate.source
      /\ reduced = <<>> => candidate.source = 0
  BY <1>1, <1>2 DEF AheadInv
<1>6. VoteInv' /\ candidate'.source = candidate.source BY <1>2, VoteCounts
<1>7. /\ candidate' = candidate \/ candidate' = map[index]
      /\ votes' \in Int /\ 0 <= votes' /\ votes' <= votes + 1
  <2>1. CASE map[index].target = candidate.target
    <3>1. votes' = votes + 1 /\ candidate' = candidate BY <1>1, <2>1 DEF Elect
    <3> QED BY <1>3, <3>1
  <2>2. CASE map[index].target # candidate.target /\ votes = 0
    <3>1. votes' = 1 /\ candidate' = map[index] BY <1>1, <2>2 DEF Elect
    <3> QED BY <1>3, <2>2, <3>1
  <2>3. CASE map[index].target # candidate.target /\ votes > 0
    <3>1. votes' = votes - 1 /\ candidate' = candidate BY <1>1, <1>3, <2>3 DEF Elect
    <3> QED BY <1>3, <2>3, <3>1
  <2> QED BY <1>3, <2>1, <2>2, <2>3
<1>8. ReducedIsMinimal' /\ MapInv' /\ votes' < index' BY <1>1, <1>7, WalkOn
<1>9. candidate.source > 0
  <2>1. index # 1 BY <1>4, <1>5
  <2> QED BY <1>1, <1>4, <2>1
<1>10. 1 .. index' - 1 = (1 .. index - 1) \cup {index} /\ index' .. Len(map) \subseteq index .. Len(map)
  BY <1>1, <1>4
<1>11. AheadInv'
  <2>1. \A i \in 1 .. index' - 1 : map[i].source <= candidate.source
    BY <1>1, <1>3, <1>5, <1>10
  <2>2. index' > 1 BY <1>1, <1>4
  <2>3. candidate.source >= 0 /\ candidate.source # 0 BY <1>3, <1>9
  <2> QED BY <1>1, <1>5, <1>6, <1>10, <2>1, <2>2, <2>3 DEF AheadInv
<1>12. KeptInv'
  <2> SUFFICES ASSUME NEW i \in Through', HasMajority(i)',
                      ~(dropUnset /\ map[i].target = Unset)
               PROVE  map[i].source + MapOffset(reduced, map[i].source) = map[i].target
    BY <1>1 DEF KeptInv
  <2>1. i \in 1 .. index' - 1 /\ map[i].source < candidate.source
    BY <1>1, <1>6 DEF Through
  <2>2. i # index BY <1>1, <1>3, <2>1
  <2>3. i \in Through BY <1>10, <2>1, <2>2 DEF Through
  <2>4. HasMajority(i) BY <1>1 DEF HasMajority, Voters, Naming
  <2> QED BY <1>2, <2>3, <2>4 DEF KeptInv
<1> QED BY <1>1, <1>2, <1>6, <1>8, <1>11, <1>12 DEF ReduceInv, ReturnsMajorities

\* The candidate is kept, unless the entry before it has its offset already.
LEMMA KeepsCandidate ==
  ASSUME ReduceInv, Keep
  PROVE  /\ reduced' \in Table /\ StrictlySorted(reduced') /\ reduced' # <<>>
         /\ reduced'[1] = Entry(0, 0)
         /\ \A r \in 1 .. Len(reduced') - 1 : Offset(reduced'[r]) # Offset(reduced'[r + 1])
         /\ \A r \in DOMAIN reduced' : reduced'[r].source <= candidate.source
         /\ Offset(reduced'[Len(reduced')]) = Offset(candidate)
         /\ \A x \in Int : 0 <= x /\ x < candidate.source =>
              MapOffset(reduced', x) = MapOffset(reduced, x)
<1>1. /\ reducing = "vote"
      /\ reduced' = IF SameOffsetAsLast(candidate) THEN reduced ELSE Append(reduced, candidate)
  BY DEF Keep
<1>2. /\ ReduceTypeOK /\ reduced \in Table /\ StrictlySorted(reduced)
      /\ \A r \in 1 .. Len(reduced) - 1 : Offset(reduced[r]) # Offset(reduced[r + 1])
      /\ (reduced # <<>> => reduced[1] = Entry(0, 0)) /\ AheadInv
  BY <1>1 DEF ReduceInv, ReducedIsMinimal, ReduceTypeOK
<1>3. /\ candidate \in [source : Word, target : Word] /\ candidate.source \in Int
  BY <1>2, CandidateTyped
<1>4. /\ \A r \in DOMAIN reduced : reduced[r].source < candidate.source
      /\ candidate.source >= 0
      /\ candidate.source = 0 => candidate = Entry(0, 0)
      /\ reduced = <<>> => candidate.source = 0
  BY <1>1, <1>2 DEF AheadInv
<1>5. /\ Len(reduced) \in Nat /\ DOMAIN reduced = 1 .. Len(reduced)
      /\ \A r \in DOMAIN reduced : r \in Int /\ reduced[r].source \in Int
  BY <1>2, TableTyped
<1>6. CASE SameOffsetAsLast(candidate)
  <2>1. reduced' = reduced /\ reduced # <<>>
        /\ Offset(reduced[Len(reduced)]) = Offset(candidate)
    BY <1>1, <1>6 DEF SameOffsetAsLast
  <2>2. \A r \in DOMAIN reduced : reduced[r].source <= candidate.source BY <1>3, <1>4, <1>5
  <2> QED BY <1>2, <2>1, <2>2
<1>7. CASE ~SameOffsetAsLast(candidate)
  <2> DEFINE u == Append(reduced, candidate)
             n == Len(reduced)
  <2>1. reduced' = u BY <1>1, <1>7
  <2>2. /\ u \in Table /\ u # <<>> /\ Len(u) = n + 1 /\ DOMAIN u = 1 .. n + 1
        /\ \A r \in DOMAIN reduced : u[r] = reduced[r]
        /\ u[n + 1] = candidate
    BY <1>2, <1>3, AppendIs
  <2>3. StrictlySorted(u) BY <1>2, <1>3, <1>4, AppendAscends
  <2>4. \A x \in Int : 0 <= x /\ x < candidate.source => MapOffset(u, x) = MapOffset(reduced, x)
    <3> SUFFICES ASSUME NEW x \in Int, 0 <= x, x < candidate.source
                 PROVE  MapOffset(u, x) = MapOffset(reduced, x)
      OBVIOUS
    <3>1. reduced # <<>> BY <1>3, <1>4
    <3>2. reduced[1].source = 0 BY <1>2, <3>1 DEF Entry
    <3>3. reduced[1].source <= x BY <3>2
    <3> QED BY <1>2, <1>3, <1>4, <3>1, <3>3, AppendLooksUp
  <2> HIDE DEF u
  <2>5. n \in Nat /\ DOMAIN reduced = 1 .. n BY <1>5
  <2>6. u[1] = Entry(0, 0)
    <3>1. CASE n = 0
      <4>1. reduced = <<>> BY <1>2, <3>1 DEF Table
      <4> QED BY <1>4, <2>2, <3>1, <4>1
    <3>2. CASE n # 0
      <4>1. 1 \in DOMAIN reduced BY <2>5, <3>2
      <4>2. \A i : i \notin DOMAIN <<>> OBVIOUS
      <4>3. reduced # <<>> BY <4>1, <4>2
      <4> QED BY <1>2, <2>2, <4>1, <4>3
    <3> QED BY <3>1, <3>2
  <2>7. ASSUME NEW r \in 1 .. Len(u) - 1 PROVE Offset(u[r]) # Offset(u[r + 1])
    <3>1. r \in DOMAIN reduced /\ r \in Int BY <2>2, <2>5
    <3>2. CASE r = n
      <4>1. reduced # <<>>
        <5>1. \A i : i \notin DOMAIN <<>> OBVIOUS
        <5> QED BY <3>1, <5>1
      <4>2. Offset(reduced[n]) # Offset(candidate) BY <1>7, <4>1 DEF SameOffsetAsLast
      <4> QED BY <2>2, <3>1, <3>2, <4>2
    <3>3. CASE r # n
      <4>1. r \in 1 .. n - 1 /\ r + 1 \in DOMAIN reduced BY <2>5, <3>1, <3>3
      <4>2. Offset(reduced[r]) # Offset(reduced[r + 1]) BY <1>2, <4>1
      <4> QED BY <2>2, <3>1, <4>1, <4>2
    <3> QED BY <3>2, <3>3
  <2>8. ASSUME NEW r \in DOMAIN u PROVE u[r].source <= candidate.source
    <3>1. CASE r \in DOMAIN reduced BY <1>3, <1>4, <1>5, <2>2, <3>1
    <3>2. CASE r \notin DOMAIN reduced
      <4>1. r = n + 1 BY <2>2, <2>5, <3>2
      <4> QED BY <1>3, <2>2, <4>1
    <3> QED BY <3>1, <3>2
  <2> QED BY <2>1, <2>2, <2>3, <2>4, <2>6, <2>7, <2>8
<1> QED BY <1>6, <1>7

\* When the entries of a source are through, what is kept sends it to its majority.
LEMMA KeepKeeps == ASSUME ReduceInv, Keep PROVE ReduceInv'
<1>1. /\ reducing = "vote" /\ ~AnotherVote /\ reducing' = "group"
      /\ map' = map /\ dropUnset' = dropUnset /\ index' = index /\ sets' = sets
      /\ candidate' = candidate /\ votes' = votes
  BY DEF Keep
<1>2. /\ ReduceTypeOK /\ MapInv /\ votes < index /\ VoteInv /\ KeptInv /\ AheadInv
  BY <1>1 DEF ReduceInv, ReducedIsMinimal
<1>3. /\ reduced' \in Table /\ StrictlySorted(reduced') /\ reduced' # <<>>
      /\ reduced'[1] = Entry(0, 0)
      /\ \A r \in 1 .. Len(reduced') - 1 : Offset(reduced'[r]) # Offset(reduced'[r + 1])
      /\ \A r \in DOMAIN reduced' : reduced'[r].source <= candidate.source
      /\ Offset(reduced'[Len(reduced')]) = Offset(candidate)
      /\ \A x \in Int : 0 <= x /\ x < candidate.source =>
           MapOffset(reduced', x) = MapOffset(reduced, x)
  BY KeepsCandidate
<1>4. /\ DOMAIN map = 1 .. Len(map) /\ Len(map) \in Nat /\ index \in Nat
      /\ index \in 1 .. Len(map) + 1
      /\ \A i \in DOMAIN map : i \in Int /\ map[i].source \in Int /\ 0 <= map[i].source
                               /\ map[i].target \in Int
  BY <1>2, MapTyped
<1>5. candidate.source \in Int /\ candidate.target \in Int
      /\ Offset(candidate) = candidate.target - candidate.source
  BY <1>2, CandidateTyped
<1>6. /\ \A j \in index .. Len(map) : candidate.source <= map[j].source
      /\ \A i \in 1 .. index - 1 : map[i].source <= candidate.source
  BY <1>1, <1>2 DEF AheadInv
<1>7. ASSUME NEW j \in index .. Len(map) PROVE candidate.source < map[j].source
  <2>1. index \in DOMAIN map /\ j \in DOMAIN map /\ index <= j /\ index <= Len(map)
        /\ index \in index .. Len(map)
    BY <1>4
  <2>2. map[index].source # candidate.source BY <1>1, <2>1 DEF AnotherVote
  <2>3. candidate.source <= map[index].source BY <1>6, <2>1
  <2>4. map[index].source <= map[j].source BY <1>2, <2>1 DEF MapInv, Sorted
  <2> QED BY <1>4, <1>5, <2>1, <2>2, <2>3, <2>4
<1>8. \A r \in DOMAIN reduced' : reduced'[r].source \in Int BY <1>3, TableTyped
<1>9. AheadInv'
  <2>1. ASSUME NEW i \in 1 .. index - 1, NEW j \in index .. Len(map)
        PROVE  map[i].source < map[j].source
    <3>1. i \in DOMAIN map /\ j \in DOMAIN map BY <1>4
    <3> QED BY <1>4, <1>5, <1>6, <1>7, <3>1
  <2>2. ASSUME NEW r \in DOMAIN reduced', NEW j \in index .. Len(map)
        PROVE  reduced'[r].source < map[j].source
    <3>1. j \in DOMAIN map BY <1>4
    <3> QED BY <1>3, <1>4, <1>5, <1>7, <1>8, <3>1
  <2> QED BY <1>1, <1>3, <2>1, <2>2 DEF AheadInv
<1>10. KeptInv'
  <2> SUFFICES ASSUME NEW i \in Through', HasMajority(i)',
                      ~(dropUnset /\ map[i].target = Unset)
               PROVE  map[i].source + MapOffset(reduced', map[i].source) = map[i].target
    BY <1>1 DEF KeptInv
  <2>1. i \in 1 .. index - 1 /\ i \in DOMAIN map BY <1>1, <1>4 DEF Through
  <2>2. map[i].source <= candidate.source BY <1>6, <2>1
  <2>3. HasMajority(i) BY <1>1 DEF HasMajority, Voters, Naming
  <2>4. CASE map[i].source < candidate.source
    <3>1. i \in Through BY <2>1, <2>4 DEF Through
    <3>2. map[i].source + MapOffset(reduced, map[i].source) = map[i].target
      BY <1>2, <2>3, <3>1 DEF KeptInv
    <3>3. MapOffset(reduced', map[i].source) = MapOffset(reduced, map[i].source)
      BY <1>3, <1>4, <2>1, <2>4
    <3> QED BY <3>2, <3>3
  <2>5. CASE map[i].source = candidate.source
    <3>1. map[i].target = candidate.target BY <1>2, <1>7, <2>1, <2>3, <2>5, MajorityElected
    <3>2. Len(reduced') \in DOMAIN reduced' BY <1>3, TableTyped
    <3>3. reduced'[Len(reduced')].source <= map[i].source BY <1>3, <2>5, <3>2
    <3>4. Sorted(reduced') BY <1>3, SortKeepsAscending
    <3>5. PICK x \in Int : x = map[i].source BY <1>4, <2>1
    <3>6. PICK t : t = reduced' OBVIOUS
    <3>7. MapOffset(t, x) = Offset(t[Len(t)])
      BY <1>3, <3>3, <3>4, <3>5, <3>6, LastHolds
    <3>8. MapOffset(reduced', map[i].source) = candidate.target - candidate.source
      BY <1>3, <1>5, <3>5, <3>6, <3>7
    <3> QED BY <1>5, <2>5, <3>1, <3>8
  <2> QED BY <1>4, <1>5, <2>1, <2>2, <2>4, <2>5
<1>11. MapInv' BY <1>1, <1>2, MapStays
<1>12. ReduceTypeOK' BY <1>1, <1>2, <1>3 DEF ReduceTypeOK
<1>13. ReducedIsMinimal' BY <1>3, <1>12 DEF ReducedIsMinimal
<1> QED BY <1>1, <1>2, <1>3, <1>9, <1>10, <1>11, <1>13 DEF ReduceInv, ReturnsMajorities

\* At the end the header's entry goes where the last one has its offset.
LEMMA TrimKeeps == ASSUME ReduceInv, Trim PROVE ReduceInv'
<1>1. /\ reducing = "group" /\ index > Len(map) /\ reducing' = "done"
      /\ reduced' = Trimmed(reduced)
      /\ map' = map /\ dropUnset' = dropUnset /\ index' = index /\ sets' = sets
      /\ candidate' = candidate /\ votes' = votes
  BY DEF Trim
<1>2. /\ ReduceTypeOK /\ reduced \in Table /\ StrictlySorted(reduced)
      /\ \A r \in 1 .. Len(reduced) - 1 : Offset(reduced[r]) # Offset(reduced[r + 1])
      /\ MapInv /\ votes < index /\ KeptInv /\ AheadInv
      /\ (reduced # <<>> => reduced[1] = Entry(0, 0))
  BY <1>1 DEF ReduceInv, ReducedIsMinimal, ReduceTypeOK
<1>3. /\ DOMAIN map = 1 .. Len(map) /\ Len(map) \in Nat /\ index \in Nat /\ 1 \in DOMAIN map
      /\ \A i \in DOMAIN map : i \in Int /\ map[i].source \in Int /\ 0 <= map[i].source
  BY <1>2, MapTyped
<1>4. reduced # <<>> /\ reduced[1] = Entry(0, 0)
  <2>1. index > 1 BY <1>1, <1>3
  <2> QED BY <1>1, <1>2, <2>1 DEF AheadInv
<1>5. /\ Len(reduced) \in Nat /\ DOMAIN reduced = 1 .. Len(reduced) /\ 1 \in DOMAIN reduced
      /\ Len(reduced) \in DOMAIN reduced
  BY <1>2, <1>4, TableTyped
<1>6. Offset(reduced[1]) = 0 /\ reduced[1].source = 0 BY <1>4 DEF Entry, Offset
<1> DEFINE u == Trimmed(reduced)
<1>7. /\ u \in Table /\ StrictlySorted(u)
      /\ \A r \in 1 .. Len(u) - 1 : Offset(u[r]) # Offset(u[r + 1])
      /\ \A x \in Int : 0 <= x => MapOffset(u, x) = MapOffset(reduced, x)
  <2>1. CASE Len(reduced) = 1
    <3>1. u = <<>> BY <1>6, <2>1 DEF Trimmed
    <3>2. u \in Table /\ StrictlySorted(u) /\ 1 .. Len(u) - 1 = {}
      BY <3>1 DEF Table, StrictlySorted
    <3>3. ASSUME NEW x \in Int, 0 <= x PROVE MapOffset(u, x) = MapOffset(reduced, x)
      <4>1. reduced[Len(reduced)].source <= x BY <1>6, <2>1, <3>3
      <4>2. Sorted(reduced) BY <1>2, SortKeepsAscending
      <4>3. MapOffset(reduced, x) = 0 BY <1>2, <1>4, <1>6, <2>1, <4>1, <4>2, LastHolds
      <4> QED BY <3>1, <4>3 DEF MapOffset
    <3> QED BY <3>2, <3>3
  <2>2. CASE Len(reduced) > 1 /\ Offset(reduced[1]) = Offset(reduced[Len(reduced)])
    <3>1. u = Tail(reduced) BY <2>2 DEF Trimmed
    <3>2. \A x \in Int : 0 <= x => MapOffset(u, x) = MapOffset(reduced, x)
      BY <1>2, <1>6, <2>2, <3>1, TailLooksUp
    <3>3. /\ u \in Table /\ Len(u) = Len(reduced) - 1 /\ DOMAIN u = 1 .. Len(reduced) - 1
          /\ \A r \in DOMAIN u : u[r] = reduced[r + 1]
      <4> DEFINE R == [source : Word, target : Word]
      <4>1. reduced \in Seq(R) BY <1>2 DEF Table
      <4>2. /\ Tail(reduced) \in Seq(R) /\ Len(Tail(reduced)) = Len(reduced) - 1
            /\ DOMAIN Tail(reduced) = 1 .. Len(reduced) - 1
            /\ \A r \in DOMAIN Tail(reduced) : Tail(reduced)[r] = reduced[r + 1]
        <5> HIDE DEF R
        <5> QED BY <2>2, <4>1
      <4> QED BY <3>1, <4>2 DEF Table
    <3> HIDE DEF u
    <3>4. StrictlySorted(u)
      <4> SUFFICES ASSUME NEW i \in DOMAIN u, NEW j \in DOMAIN u, i < j
                   PROVE  u[i].source < u[j].source
        BY DEF StrictlySorted
      <4>1. i + 1 \in DOMAIN reduced /\ j + 1 \in DOMAIN reduced /\ i + 1 < j + 1
        BY <1>5, <3>3
      <4>2. reduced[i + 1].source < reduced[j + 1].source BY <1>2, <4>1 DEF StrictlySorted
      <4> QED BY <3>3, <4>2
    <3>5. ASSUME NEW r \in 1 .. Len(u) - 1 PROVE Offset(u[r]) # Offset(u[r + 1])
      <4>1. r \in DOMAIN u /\ r + 1 \in DOMAIN u /\ r + 1 \in 1 .. Len(reduced) - 1
        BY <1>5, <3>3
      <4>2. Offset(reduced[r + 1]) # Offset(reduced[(r + 1) + 1]) BY <1>2, <4>1
      <4> QED BY <3>3, <4>1, <4>2
    <3> QED BY <3>2, <3>3, <3>4, <3>5
  <2>3. CASE Len(reduced) > 1 /\ Offset(reduced[1]) # Offset(reduced[Len(reduced)])
    <3>1. u = reduced BY <2>3 DEF Trimmed
    <3> QED BY <1>2, <3>1
  <2>4. Len(reduced) = 1 \/ Len(reduced) > 1 BY <1>5
  <2> QED BY <2>1, <2>2, <2>3, <2>4
<1> HIDE DEF u
<1>8. reduced' = u BY <1>1 DEF u
<1>9. ReturnsMajorities'
  <2> SUFFICES ASSUME NEW i \in DOMAIN map,
                      2 * Cardinality(Voters(map[i].source, map[i].target))
                        > Cardinality(Naming(map[i].source)),
                      ~(dropUnset /\ map[i].target = Unset)
               PROVE  map[i].source + MapOffset(u, map[i].source) = map[i].target
    BY <1>1, <1>8 DEF ReturnsMajorities, KeepsMajorities, Voters, Naming
  <2>1. i \in Through BY <1>1, <1>3 DEF Through
  <2>2. map[i].source + MapOffset(reduced, map[i].source) = map[i].target
    BY <1>2, <2>1 DEF KeptInv, HasMajority
  <2>3. MapOffset(u, map[i].source) = MapOffset(reduced, map[i].source) BY <1>3, <1>7
  <2> QED BY <2>2, <2>3
<1>10. MapInv' BY <1>1, <1>2, MapStays
<1>11. ReduceTypeOK' BY <1>1, <1>2, <1>7, <1>8 DEF ReduceTypeOK
<1>12. ReducedIsMinimal' BY <1>7, <1>8, <1>11 DEF ReducedIsMinimal
<1> QED BY <1>1, <1>2, <1>9, <1>10, <1>12 DEF ReduceInv

-----------------------------------------------------------------------------
(***************************************************************************)
(* The result.                                                             *)
(***************************************************************************)
\* A vector with a place for each row ascends from row 0, which is itself.
LEMMA SeededIs ==
  ASSUME NEW rows \in RowCounts
  PROVE  LET v == SeededVector(rows)
         IN  /\ v \in Table /\ v # <<>> /\ Sorted(v) /\ v[1] = Entry(0, 0)
             /\ \A i \in DOMAIN v : i \in Int /\ v[i].source = i - 1
<1> DEFINE R == [source : Word, target : Word]
           r0 == [k \in 1 .. rows + 1 |-> Entry(k - 1, Unset)]
           v == SeededVector(rows)
<1>1. rows \in Nat /\ rows >= 1 /\ rows <= Half - 1
  <2>1. RowCounts \subseteq 1 .. Half - 1 /\ Half \in Nat BY MapsAreTables, HalfAssumption
  <2>2. rows \in 1 .. Half - 1 BY <2>1
  <2> QED BY <2>1, <2>2
<1>2. \A k \in 1 .. rows + 1 : k - 1 \in Word /\ k \in Int
  <2>1. Min <= 0 /\ Min \in Int /\ Max = Half - 1 /\ Half \in Nat BY WordsAre
  <2>2. ASSUME NEW k \in 1 .. rows + 1 PROVE k - 1 \in Word /\ k \in Int
    <3>1. k - 1 \in Int /\ Min <= k - 1 /\ k - 1 <= Max BY <1>1, <2>1
    <3> QED BY <3>1, WordsAre
  <2> QED BY <2>2
<1>3. 0 \in Word /\ Unset \in Word BY WordsAre, HalfAssumption DEF Word, Unset
<1>4. r0 \in [1 .. rows + 1 -> R] BY <1>2, <1>3 DEF Entry
<1>5. ResetVector(rows + 1) = r0 BY DEF ResetVector
<1>6. 0 + 1 \in DOMAIN r0 /\ 0 + 1 = 1 /\ 1 \in 1 .. rows + 1 BY <1>1
<1>7. v = [r0 EXCEPT ![1].target = 0]
  <2>1. v = SetVectorEntry(r0, 0, 0) BY <1>5 DEF SeededVector
  <2> HIDE DEF v, r0
  <2> QED BY <1>6, <2>1 DEF SetVectorEntry
<1>8. r0[1] = Entry(0, Unset) BY <1>6
<1>9. [r0[1] EXCEPT !.target = 0] = Entry(0, 0) BY <1>8 DEF Entry
<1>10. v = [r0 EXCEPT ![1] = Entry(0, 0)]
  <2>1. v = [r0 EXCEPT ![1] = [r0[1] EXCEPT !.target = 0]] BY <1>7
  <2> HIDE DEF v, r0
  <2> QED BY <1>9, <2>1
<1>11. Entry(0, 0) \in R /\ Entry(0, 0).source = 0 BY <1>3 DEF Entry
<1>12. /\ v \in [1 .. rows + 1 -> R] /\ DOMAIN v = 1 .. rows + 1
       /\ v[1] = Entry(0, 0) /\ \A i \in 1 .. rows + 1 : i # 1 => v[i] = r0[i]
  <2> HIDE DEF v, r0, R
  <2> QED BY <1>4, <1>6, <1>10, <1>11
<1>13. v \in Table
  <2> HIDE DEF v, R
  <2>1. rows + 1 \in Nat BY <1>1
  <2>2. v \in Seq(R) BY <1>12, <2>1
  <2> QED BY <2>2 DEF Table, R
<1>14. ASSUME NEW i \in 1 .. rows + 1 PROVE i \in Int /\ v[i].source = i - 1
  <2>1. CASE i = 1 BY <1>11, <1>12, <2>1
  <2>2. CASE i # 1
    <3>1. v[i] = Entry(i - 1, Unset) BY <1>12, <2>2
    <3> HIDE DEF v
    <3> QED BY <3>1 DEF Entry
  <2> QED BY <2>1, <2>2
<1> HIDE DEF v, r0, R
<1>15. v # <<>>
  <2>1. 1 \in DOMAIN v BY <1>6, <1>12
  <2>2. \A i : i \notin DOMAIN <<>> OBVIOUS
  <2> QED BY <2>1, <2>2
<1>16. Sorted(v)
  <2> SUFFICES ASSUME NEW i \in DOMAIN v, NEW j \in DOMAIN v, i <= j
               PROVE  v[i].source <= v[j].source
    BY DEF Sorted
  <2> QED BY <1>12, <1>14
<1> QED BY <1>12, <1>13, <1>14, <1>15, <1>16 DEF v

\* A reduction starts with no votes.
LEMMA InitReduceInv == ASSUME ReduceInit PROVE ReduceInv
<1>1. /\ reducing = "set" /\ sets = 0 /\ index = 1 /\ candidate = Entry(0, 0) /\ votes = 0
      /\ reduced = <<>>
      /\ \/ dropUnset = TRUE /\ \E rows \in RowCounts : map = SeededVector(rows)
         \/ dropUnset = FALSE /\ map \in HeapMaps
  BY DEF ReduceInit
<1>2. map \in Table /\ MapInv
  <2>1. CASE dropUnset = TRUE /\ \E rows \in RowCounts : map = SeededVector(rows)
    <3>1. PICK rows \in RowCounts : map = SeededVector(rows) BY <2>1
    <3>2. /\ map \in Table /\ map # <<>> /\ Sorted(map) /\ map[1] = Entry(0, 0)
          /\ \A i \in DOMAIN map : i \in Int /\ map[i].source = i - 1
      BY <3>1, SeededIs
    <3>3. Unset # 0
      <4>1. RowCounts \subseteq 1 .. Half - 1 /\ Half \in Nat BY MapsAreTables, HalfAssumption
      <4>2. rows \in 1 .. Half - 1 BY <4>1
      <4> QED BY <4>1, <4>2 DEF Unset, Max
    <3>4. \A i \in DOMAIN map : i > 1 => map[i].source > 0 BY <3>2
    <3> QED BY <3>2, <3>3, <3>4 DEF MapInv
  <2>2. CASE dropUnset = FALSE /\ map \in HeapMaps
    <3>1. /\ map \in Table /\ Sorted(map) /\ map # <<>> /\ map[1] = Entry(0, 0)
          /\ \A i \in DOMAIN map : i > 1 => map[i].source > 0
      BY <2>2, MapsAreTables
    <3> QED BY <2>2, <3>1 DEF MapInv
  <2> QED BY <1>1, <2>1, <2>2
<1>3. Len(map) \in Nat BY <1>2, TableTyped
<1>4. ReduceTypeOK
  <2>1. 0 \in Word BY HalfAssumption DEF Word
  <2>2. candidate \in [source : Word, target : Word] BY <1>1, <2>1 DEF Entry
  <2>3. <<>> \in Table BY DEF Table
  <2>4. 0 \in 0 .. MaxSets /\ 1 \in 1 .. Len(map) + 1 /\ 0 \in 0 .. Len(map)
    BY <1>3, MapsAreTables
  <2> QED BY <1>1, <1>2, <2>2, <2>3, <2>4 DEF ReduceTypeOK
<1>5. ReducedIsMinimal
  <2>1. StrictlySorted(<<>>) BY DEF StrictlySorted
  <2>2. 1 .. Len(<<>>) - 1 = {} OBVIOUS
  <2> QED BY <1>1, <1>4, <2>1, <2>2 DEF ReducedIsMinimal
<1> QED BY <1>1, <1>2, <1>5 DEF ReduceInv, ReturnsMajorities

\* Each step keeps the invariant.
LEMMA ReduceStays == ASSUME ReduceInv, [ReduceNext]_reduceVars PROVE ReduceInv'
<1>1. CASE UNCHANGED reduceVars
  <2>1. /\ map' = map /\ dropUnset' = dropUnset /\ reducing' = reducing /\ sets' = sets
        /\ index' = index /\ candidate' = candidate /\ votes' = votes /\ reduced' = reduced
    BY <1>1 DEF reduceVars
  <2>2. ReducedIsMinimal' /\ MapInv'
    <3>1. ReduceTypeOK /\ MapInv /\ ReducedIsMinimal BY DEF ReduceInv, ReducedIsMinimal
    <3>2. ReduceTypeOK' BY <2>1, <3>1 DEF ReduceTypeOK
    <3> QED BY <2>1, <3>1, <3>2, MapStays, MinimalStays
  <2>3. KeptInv => KeptInv' BY <2>1 DEF KeptInv, Through, HasMajority, Voters, Naming
  <2>4. AheadInv => AheadInv' BY <2>1 DEF AheadInv
  <2>5. VoteInv => VoteInv' BY <2>1 DEF VoteInv, Seen, SeenFor
  <2>6. ReturnsMajorities => ReturnsMajorities'
    BY <2>1 DEF ReturnsMajorities, KeepsMajorities, Voters, Naming
  <2> QED BY <2>1, <2>2, <2>3, <2>4, <2>5, <2>6 DEF ReduceInv
<1>2. CASE ReduceNext
  <2>1. ASSUME NEW s \in Rows, NEW t \in Rows, Set(s, t) PROVE ReduceInv' BY <2>1, SetKeeps
  <2>2. CASE BeginReduce BY <2>2, BeginKeeps
  <2>3. CASE NextSource BY <2>3, NextSourceKeeps
  <2>4. CASE Vote BY <2>4, VoteKeeps
  <2>5. CASE Keep BY <2>5, KeepKeeps
  <2>6. CASE Trim BY <2>6, TrimKeeps
  <2> QED BY <1>2, <2>1, <2>2, <2>3, <2>4, <2>5, <2>6 DEF ReduceNext
<1> QED BY <1>1, <1>2

(***************************************************************************)
(* internal_reduce, for any map of rows with any pairs set and any map of  *)
(* a heap's offsets: what it leaves ascends, with neighbours of different  *)
(* offsets, and sends each source to the target more than half of its      *)
(* entries name.                                                           *)
(***************************************************************************)
THEOREM ReduceAlwaysKeepsMajorities == ReduceSpec => []ReducesToMajorities
<1>1. ReduceInit => ReduceInv BY InitReduceInv
<1>2. ReduceInv /\ [ReduceNext]_reduceVars => ReduceInv' BY ReduceStays
<1>3. ReduceInv => ReducesToMajorities BY DEF ReduceInv, ReducesToMajorities
<1> QED BY <1>1, <1>2, <1>3, PTL DEF ReduceSpec
=============================================================================
