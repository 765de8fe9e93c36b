---------------------------- MODULE LzmsCodingProofs ---------------------------
(***************************************************************************)
(* What is proved of the range coder of LZMS and of its filter for x86     *)
(* code.                                                                   *)
(*                                                                         *)
(* The range coder.  For words of any size and probabilities of any        *)
(* denominator that fits one: a carry always finds room, the range is      *)
(* never empty, the number of zeros kept with a window is the number of    *)
(* its zeros, and the decoder reads back the decisions that were coded.    *)
(*                                                                         *)
(* The last takes a second invariant, StepInv.  It gives the digits the    *)
(* encoder stands for, were it flushed now; the path both sides take       *)
(* through ranges and probabilities; and the code the decoder has at each  *)
(* point of the path.  The digits determine the codes, from the front; but *)
(* only the end of the path, where the code is 0, bounds them, from the    *)
(* back: each lies below the range of its point.                           *)
(*                                                                         *)
(* The filter.  For any data, and bytes, displacements, targets and        *)
(* windows of any size, the second pass undoes the first: it takes the     *)
(* same walk over the data, of which FilterInv says that there is one.     *)
(***************************************************************************)
EXTENDS LzmsRangeCoder, X86Filter,
        FiniteSetTheorems, SequenceTheorems, WellFoundedInduction, TLAPS

-----------------------------------------------------------------------------
(***************************************************************************)
(* Arithmetic.                                                             *)
(***************************************************************************)
\* Products grow with their factors.
LEMMA ProductGrows ==
  ASSUME NEW a \in Nat, NEW b \in Nat, NEW c \in Nat, a <= b
  PROVE  a * c <= b * c /\ c * a <= c * b
<1>1. b * c = a * c + (b - a) * c OBVIOUS
<1>2. (b - a) * c >= 0 OBVIOUS
<1>3. a * c \in Nat /\ b * c \in Nat /\ (b - a) * c \in Nat OBVIOUS
<1>4. c * a = a * c /\ c * b = b * c OBVIOUS
<1> QED BY <1>1, <1>2, <1>3, <1>4

\* Division with remainder.
LEMMA Dividing ==
  ASSUME NEW a \in Nat, NEW p \in Nat \ {0}
  PROVE  /\ a = p * (a \div p) + (a % p)
         /\ (a \div p) \in Nat
         /\ (a % p) \in 0 .. p - 1
OBVIOUS

\* A quotient is at least q when the dividend holds q divisors.
LEMMA QuotientAtLeast ==
  ASSUME NEW a \in Nat, NEW p \in Nat \ {0}, NEW q \in Nat, p * q <= a
  PROVE  q <= (a \div p)
<1> DEFINE d == a \div p
<1>1. a = p * d + (a % p) /\ d \in Nat /\ (a % p) \in 0 .. p - 1 BY Dividing
<1> HIDE DEF d
<1>2. SUFFICES ASSUME d + 1 <= q PROVE FALSE BY <1>1 DEF d
<1>3. p * (d + 1) <= p * q BY <1>1, <1>2, ProductGrows
<1>4. p * (d + 1) = p * d + p BY <1>1
<1>5. p * d \in Nat /\ p * q \in Nat BY <1>1
<1> QED BY <1>1, <1>3, <1>4, <1>5

\* And below q when it is less.
LEMMA QuotientBelow ==
  ASSUME NEW a \in Nat, NEW p \in Nat \ {0}, NEW q \in Nat, a < p * q
  PROVE  (a \div p) < q
<1> DEFINE d == a \div p
<1>1. a = p * d + (a % p) /\ d \in Nat /\ (a % p) \in 0 .. p - 1 BY Dividing
<1> HIDE DEF d
<1>2. SUFFICES ASSUME q <= d PROVE FALSE BY <1>1 DEF d
<1>3. p * q <= p * d BY <1>1, <1>2, ProductGrows
<1>4. p * d \in Nat /\ p * q \in Nat BY <1>1
<1> QED BY <1>1, <1>3, <1>4

\* Quotient and remainder are the only ones.
LEMMA OnlyQuotient ==
  ASSUME NEW a \in Nat, NEW p \in Nat \ {0}, NEW q \in Nat, NEW r \in 0 .. p - 1,
         a = p * q + r
  PROVE  (a \div p) = q /\ (a % p) = r
<1> DEFINE d == a \div p
           m == a % p
<1>1. a = p * d + m /\ d \in Nat /\ m \in 0 .. p - 1 BY Dividing
<1>2. p * q \in Nat /\ p * (q + 1) \in Nat /\ p * (q + 1) = p * q + p OBVIOUS
<1>3. p * q <= a /\ a < p * (q + 1) BY <1>2
<1>4. q <= d BY <1>3, QuotientAtLeast
<1>5. d < q + 1 BY <1>3, QuotientBelow
<1> HIDE DEF d, m
<1>6. d = q BY <1>1, <1>4, <1>5
<1>7. p * d \in Nat /\ p * d = p * q BY <1>1, <1>6
<1> QED BY <1>1, <1>2, <1>6, <1>7 DEF d, m

\* Every nonempty set of indices has a largest element.  (The sets of the
\* members from k on are finite; a minimal one among them starts at the
\* largest member.)
LEMMA LargestIndex ==
  ASSUME NEW n \in Nat, NEW S \in SUBSET (1 .. n), S # {}
  PROVE  \E m \in S : \A k \in S : k <= m
<1> DEFINE From(k) == {j \in S : j >= k}
<1> DEFINE T == {From(k) : k \in S}
<1>1. IsFiniteSet(1 .. n) BY FS_Interval
<1>2. IsFiniteSet(S) BY <1>1, FS_Subset
<1>3. T \subseteq FiniteSubsetsOf(S)
  BY <1>2, FS_Subset DEF FiniteSubsetsOf
<1>4. T # {} OBVIOUS
<1>5. PICK x \in T : \A y \in T : ~ (<<y, x>> \in StrictSubsetOrdering(S))
  <2> HIDE DEF T
  <2> QED BY <1>3, <1>4, WFMin, FS_StrictSubsetOrderingWellFounded
<1>6. PICK m \in S : x = From(m) OBVIOUS
<1>7. ASSUME NEW k \in S, k > m PROVE FALSE
  <2>1. k \in Int /\ m \in Int /\ \A j \in S : j \in Int OBVIOUS
  <2>2. From(k) \subseteq x
    <3>1. ASSUME NEW j \in S, j >= k PROVE j >= m BY <3>1, <1>7, <2>1
    <3> QED BY <3>1, <1>6
  <2>3. m \in x /\ m \notin From(k) BY <1>6, <1>7, <2>1
  <2>4. From(k) \in T OBVIOUS
  <2>5. <<From(k), x>> \in StrictSubsetOrdering(S)
    BY <2>2, <2>3, <1>6 DEF StrictSubsetOrdering
  <2> QED BY <1>5, <2>4, <2>5
<1> QED BY <1>7

\* What the constants say of Code.
LEMMA CodeFacts ==
  /\ Word \in Nat /\ Word >= 2 /\ Denominator \in Nat \ {0} /\ Denominator <= Word
  /\ Code \in Nat /\ Code = Word * Word /\ Code >= 2 * Word
  /\ Code - Word = Word * (Word - 1)
<1>1. Word \in Nat /\ Word >= 2 /\ Denominator \in Nat \ {0} /\ Denominator <= Word
  BY RangeCoderConstants
<1>2. 2 * Word <= Word * Word BY <1>1, ProductGrows
<1>3. Word * (Word - 1) = Word * Word - Word BY <1>1
<1>4. Word * Word \in Nat BY <1>1
<1> QED BY <1>1, <1>2, <1>3, <1>4 DEF Code

\* A multiple of a word, cut to two words, leaves room for one more word.
LEMMA CutMultiple ==
  ASSUME NEW a \in Nat
  PROVE  /\ (a * Word) % Code \in 0 .. Code - Word
         /\ a < Word => (a * Word) % Code = a * Word
<1> DEFINE q == (a * Word) \div Code
           r == (a * Word) % Code
<1>0. /\ Word \in Nat /\ Word >= 2 /\ Code \in Nat \ {0}
      /\ Code = Word * Word /\ Code - Word = Word * (Word - 1)
  BY CodeFacts
<1>1. a * Word \in Nat BY <1>0
<1>2. a * Word = Code * q + r /\ q \in Nat /\ r \in 0 .. Code - 1
  BY <1>0, <1>1, Dividing
<1> HIDE DEF q, r
<1>3. r = Word * (a - Word * q)
  <2>1. Code * q = Word * (Word * q) BY <1>0, <1>2
  <2>2. Word * (a - Word * q) = a * Word - Word * (Word * q) BY <1>0, <1>2
  <2>3. Word * (Word * q) \in Nat BY <1>0, <1>2
  <2> QED BY <1>1, <1>2, <2>1, <2>2, <2>3
<1> DEFINE m == a - Word * q
<1>4. m \in Int BY <1>0, <1>2
<1> HIDE DEF m
<1>5. m <= Word - 1
  <2> SUFFICES ASSUME m >= Word PROVE FALSE BY <1>0, <1>4
  <2>1. Word * Word <= m * Word BY <1>0, <1>4, ProductGrows
  <2>2. m * Word = r BY <1>0, <1>3, <1>4 DEF m
  <2> QED BY <1>0, <1>2, <2>1, <2>2
<1>6. m >= 0
  <2> SUFFICES ASSUME m <= -1 PROVE FALSE BY <1>4
  <2>1. Word * m = -(Word * (-m)) BY <1>0, <1>4
  <2>2. Word * (-m) >= Word BY <1>0, <1>4, ProductGrows
  <2>3. Word * (-m) \in Int BY <1>0, <1>4
  <2> QED BY <1>0, <1>2, <1>3, <2>1, <2>2, <2>3 DEF m
<1>7. r <= Word * (Word - 1)
  <2>1. Word * m <= Word * (Word - 1) BY <1>0, <1>4, <1>5, <1>6, ProductGrows
  <2> QED BY <1>3, <2>1 DEF m
<1>8. ASSUME a < Word PROVE r = a * Word
  <2>1. a * Word <= (Word - 1) * Word BY <1>0, <1>8, ProductGrows
  <2>2. (Word - 1) * Word = Code - Word BY <1>0
  <2>3. a * Word < Code BY <1>0, <1>1, <2>1, <2>2
  <2> QED BY <1>0, <1>1, <2>3 DEF r
<1> QED BY <1>0, <1>2, <1>7, <1>8 DEF r

-----------------------------------------------------------------------------
(***************************************************************************)
(* The windows.                                                            *)
(***************************************************************************)
WindowType == [1 .. Denominator -> Bit]
EntryType  == [recent : WindowType, numZeros : 0 .. Denominator]

Counted(entry) == entry.numZeros = Cardinality(Zeros(entry.recent))

\* The zeros of a window are finitely many.
LEMMA ZerosAreFinite ==
  ASSUME NEW w \in WindowType
  PROVE  /\ IsFiniteSet(Zeros(w)) /\ Zeros(w) \subseteq 1 .. Denominator
         /\ Cardinality(Zeros(w)) \in 0 .. Denominator
<1>0. Denominator \in Nat \ {0} BY CodeFacts
<1>1. IsFiniteSet(1 .. Denominator) /\ Cardinality(1 .. Denominator) = Denominator
  BY <1>0, FS_Interval
<1>2. Zeros(w) \subseteq 1 .. Denominator BY DEF Zeros, WindowType
<1>3. IsFiniteSet(Zeros(w)) /\ Cardinality(Zeros(w)) <= Denominator
  BY <1>1, <1>2, FS_Subset
<1>4. Cardinality(Zeros(w)) \in Nat BY <1>3, FS_CardinalityType
<1> QED BY <1>0, <1>2, <1>3, <1>4

\* update keeps the number of zeros in step with the window.
LEMMA UpdateCounts ==
  ASSUME NEW entry \in EntryType, NEW bit \in Bit, Counted(entry)
  PROVE  Updated(entry, bit) \in EntryType /\ Counted(Updated(entry, bit))
<1> DEFINE w == entry.recent
           v == Updated(entry, bit).recent
           A == Zeros(w) \ {1}
           B == Zeros(v) \ {Denominator}
           f == [i \in A |-> i - 1]
<1>0. Denominator \in Nat \ {0} /\ Denominator >= 2 BY RangeCoderConstants
<1>1. w \in WindowType BY DEF EntryType
<1>2. v = [i \in 1 .. Denominator |-> IF i = Denominator THEN bit ELSE w[i + 1]]
  BY DEF Updated
<1>3. v \in WindowType BY <1>0, <1>1, <1>2 DEF WindowType, Bit
<1>4. /\ A \subseteq 2 .. Denominator /\ \A i \in A : w[i] = 0
      /\ \A i \in 2 .. Denominator : w[i] = 0 => i \in A
  BY <1>0, <1>1 DEF Zeros, WindowType
<1>5. /\ B \subseteq 1 .. Denominator - 1 /\ \A i \in B : v[i] = 0
      /\ \A i \in 1 .. Denominator - 1 : v[i] = 0 => i \in B
  BY <1>0, <1>3 DEF Zeros, WindowType
<1>6. \A i \in 1 .. Denominator - 1 : v[i] = w[i + 1]
  <2> HIDE DEF v, w
  <2> QED BY <1>0, <1>2
<1> HIDE DEF v, w, A, B
<1>7. f \in Bijection(A, B)
  <2>1. \A i \in A : i - 1 \in B
    <3> TAKE i \in A
    <3>1. i \in 2 .. Denominator /\ w[i] = 0 BY <1>4
    <3>2. i - 1 \in 1 .. Denominator - 1 /\ (i - 1) + 1 = i BY <1>0, <3>1
    <3>3. v[i - 1] = 0 BY <1>6, <3>1, <3>2
    <3> QED BY <1>5, <3>2, <3>3
  <2>2. \A j \in B : \E i \in A : f[i] = j
    <3> TAKE j \in B
    <3>1. j \in 1 .. Denominator - 1 /\ v[j] = 0 BY <1>5
    <3>2. j + 1 \in 2 .. Denominator /\ (j + 1) - 1 = j BY <1>0, <3>1
    <3>3. w[j + 1] = 0 BY <1>6, <3>1
    <3>4. j + 1 \in A BY <1>4, <3>2, <3>3
    <3> QED BY <3>2, <3>4
  <2>3. \A i, j \in A : f[i] = f[j] => i = j BY <1>0, <1>4
  <2>4. f \in [A -> B] BY <2>1
  <2>5. f \in Surjection(A, B) BY <2>2, <2>4 DEF Surjection
  <2>6. f \in Injection(A, B) BY <2>3, <2>4 DEF Injection, IsInjective
  <2> QED BY <2>5, <2>6 DEF Bijection
<1>8. /\ IsFiniteSet(Zeros(w)) /\ Cardinality(Zeros(w)) \in 0 .. Denominator
      /\ IsFiniteSet(Zeros(v)) /\ Cardinality(Zeros(v)) \in 0 .. Denominator
  BY <1>1, <1>3, ZerosAreFinite
<1>9. Cardinality(A) = Cardinality(B)
  <2>1. IsFiniteSet(A) BY <1>8, FS_RemoveElement DEF A
  <2>2. ExistsBijection(A, B) BY <1>7 DEF ExistsBijection
  <2> QED BY <2>1, <2>2, FS_Bijection
<1>10. Cardinality(A) = IF 1 \in Zeros(w) THEN Cardinality(Zeros(w)) - 1
                                          ELSE Cardinality(Zeros(w))
  BY <1>8, FS_RemoveElement DEF A
<1>11. Cardinality(B) = IF Denominator \in Zeros(v) THEN Cardinality(Zeros(v)) - 1
                                                    ELSE Cardinality(Zeros(v))
  BY <1>8, FS_RemoveElement DEF B
<1>12. 1 \in Zeros(w) <=> w[1] = 0 BY <1>0, <1>1 DEF Zeros, WindowType
<1>13. Denominator \in Zeros(v) <=> bit = 0
  BY <1>0, <1>2, <1>3 DEF Zeros, WindowType
<1>14. w[1] \in {0, 1} /\ bit \in {0, 1} BY <1>0, <1>1 DEF WindowType, Bit
<1>15. Updated(entry, bit).numZeros
         = Cardinality(Zeros(w)) - (1 - w[1]) + (1 - bit)
  BY DEF Updated, Counted, w
<1>16. Updated(entry, bit).numZeros = Cardinality(Zeros(v))
  <2>1. Cardinality(Zeros(w)) - (1 - w[1]) = Cardinality(A)
    <3>1. CASE w[1] = 0 BY <3>1, <1>8, <1>10, <1>12
    <3>2. CASE w[1] = 1 BY <3>2, <1>8, <1>10, <1>12
    <3> QED BY <3>1, <3>2, <1>14
  <2>2. Cardinality(Zeros(v)) - (1 - bit) = Cardinality(B)
    <3>1. CASE bit = 0 BY <3>1, <1>8, <1>11, <1>13
    <3>2. CASE bit = 1 BY <3>2, <1>8, <1>11, <1>13
    <3> QED BY <3>1, <3>2, <1>14
  <2>3. bit \in Int BY <1>14
  <2> QED BY <1>8, <1>9, <1>15, <2>1, <2>2, <2>3
<1>17. Updated(entry, bit)
         = [recent |-> v, numZeros |-> Updated(entry, bit).numZeros]
  BY DEF Updated, v
<1> QED BY <1>3, <1>8, <1>16, <1>17 DEF EntryType, Counted, v

\* A model whose windows are counted.
GoodModel(m) ==
  /\ m \in [probs : [0 .. NumContexts - 1 -> EntryType], context : 0 .. NumContexts - 1]
  /\ \A c \in 0 .. NumContexts - 1 : Counted(m.probs[c])

\* Learning a bit leaves a good model good.
LEMMA LearnedIsGood ==
  ASSUME NEW m, NEW bit \in Bit, GoodModel(m)
  PROVE  GoodModel(Learned(m, bit))
<1>0. NumContexts \in Nat \ {0} BY RangeCoderConstants
<1>1. /\ m.context \in 0 .. NumContexts - 1
      /\ m.probs \in [0 .. NumContexts - 1 -> EntryType]
  BY DEF GoodModel
<1>2. m.probs[m.context] \in EntryType /\ Counted(m.probs[m.context])
  BY <1>1 DEF GoodModel
<1> DEFINE u == Updated(m.probs[m.context], bit)
<1>3. u \in EntryType /\ Counted(u) BY <1>2, UpdateCounts
<1> DEFINE c == (2 * m.context + bit) % NumContexts
<1>4. c \in 0 .. NumContexts - 1
  <2>1. 2 * m.context + bit \in Nat BY <1>0, <1>1 DEF Bit
  <2> QED BY <1>0, <2>1, Dividing
<1>5. Learned(m, bit) = [probs |-> [m.probs EXCEPT ![m.context] = u], context |-> c]
  BY DEF Learned
<1> HIDE DEF u, c
<1> QED BY <1>1, <1>3, <1>4, <1>5 DEF GoodModel

\* A probability is neither 0 nor 1.
LEMMA ProbabilityInside ==
  ASSUME NEW m, GoodModel(m)
  PROVE  Probability(m.probs[m.context]) \in 1 .. Denominator - 1
<1>1. m.probs[m.context].numZeros \in 0 .. Denominator
  BY DEF GoodModel, EntryType
<1>2. Denominator \in Nat /\ Denominator >= 2 BY RangeCoderConstants
<1> QED BY <1>1, <1>2 DEF Probability

\* Both bits get a part of a range of at least a word, and of the widest range
\* the ones get at least a word.
LEMMA BoundInside ==
  ASSUME NEW m, GoodModel(m), NEW r \in Word .. Code - 1
  PROVE  /\ Bound(r, m) \in 1 .. r - 1
         /\ r = Code - 1 => Bound(r, m) <= Code - Word
<1> DEFINE d == Denominator
           q == r \div d
           p == Probability(m.probs[m.context])
<1>0. /\ Word \in Nat /\ Word >= 2 /\ d \in Nat \ {0} /\ d >= 2 /\ d <= Word
      /\ Code \in Nat /\ Code = Word * Word
  BY CodeFacts, RangeCoderConstants
<1>1. p \in 1 .. d - 1 BY ProbabilityInside
<1>2. r \in Nat /\ r >= Word /\ r <= Code - 1 BY <1>0
<1>3. Bound(r, m) = q * p BY DEF Bound
<1>4. r = d * q + (r % d) /\ q \in Nat /\ (r % d) \in 0 .. d - 1
  BY <1>0, <1>2, Dividing
<1>5. q >= 1 BY <1>0, <1>2, QuotientAtLeast
<1> HIDE DEF d, q, p
<1>6. q * p >= 1
  <2>1. 1 * p <= q * p BY <1>0, <1>1, <1>4, <1>5, ProductGrows
  <2>2. q * p \in Nat BY <1>1, <1>4
  <2> QED BY <1>1, <2>1, <2>2
<1>7. q * p <= r - q
  <2>1. p \in Nat /\ d - 1 \in Nat /\ p <= d - 1 BY <1>0, <1>1
  <2>2. q * p <= q * (d - 1) BY <1>4, <2>1, ProductGrows
  <2>3. q * (d - 1) = d * q - q BY <1>0, <1>4
  <2>4. d * q \in Nat /\ q * p \in Nat BY <1>0, <1>1, <1>4
  <2> QED BY <1>2, <1>4, <2>2, <2>3, <2>4
<1>8. ASSUME r = Code - 1 PROVE q >= Word - 1
  <2>1. d * (Word - 1) <= Word * (Word - 1) BY <1>0, ProductGrows
  <2>2. Word * (Word - 1) = Code - Word BY <1>0
  <2>3. d * (Word - 1) <= r BY <1>0, <1>8, <2>1, <2>2
  <2> QED BY <1>0, <1>2, <2>3, QuotientAtLeast DEF q
<1>9. q * p \in Nat BY <1>1, <1>4
<1> QED BY <1>0, <1>2, <1>3, <1>4, <1>5, <1>6, <1>7, <1>8, <1>9

-----------------------------------------------------------------------------
(***************************************************************************)
(* The encoder: low + range bounds how far a carry can still reach.        *)
(***************************************************************************)
EncType == [low : Nat, range : 0 .. Code - 1, cache : 0 .. Word - 1,
            count : Nat, first : BOOLEAN]

\* The state of an encoder that has coded something.
Roomy(e) ==
  /\ e \in EncType
  /\ e.cache + 1 < Word
  /\ e.first => e.count = 0 /\ e.low + e.range <= Code - Word
  /\ e.low + e.range <= 2 * Code - 2 * Word

\* A shift leaves room for a carry in the word it caches.
LEMMA ShiftLeavesRoom ==
  ASSUME NEW e, Roomy(e), e.first => e.range > 0
  PROVE  /\ Roomy(Shifted(e)) /\ ~Shifted(e).first
         /\ Shifted(e).range = (e.range * Word) % Code
<1>0. /\ Word \in Nat \ {0} /\ Word >= 2 /\ Code \in Nat \ {0} /\ Code >= 2 * Word
      /\ Code = Word * Word /\ Code - Word = Word * (Word - 1)
  BY CodeFacts
<1>1. /\ e.low \in Nat /\ e.range \in 0 .. Code - 1 /\ e.cache \in 0 .. Word - 1
      /\ e.count \in Nat /\ e.first \in BOOLEAN /\ e.cache + 1 < Word
      /\ e.first => e.count = 0 /\ e.low < Code - Word
      /\ e.low + e.range <= 2 * Code - 2 * Word
  <2>1. /\ e.low \in Nat /\ e.range \in 0 .. Code - 1 /\ e.cache \in 0 .. Word - 1
        /\ e.count \in Nat /\ e.first \in BOOLEAN
    BY DEF Roomy, EncType
  <2>2. /\ e.cache + 1 < Word
        /\ e.first => e.count = 0 /\ e.low + e.range <= Code - Word /\ e.range > 0
        /\ e.low + e.range <= 2 * Code - 2 * Word
    BY DEF Roomy
  <2> QED BY <1>0, <2>1, <2>2
<1> DEFINE low   == (e.low % Word) * Word
           range == (e.range * Word) % Code
           top   == (e.low \div Word) % Word
           cache == IF Settled(e) THEN top ELSE e.cache
           count == IF Settled(e) THEN 0 ELSE e.count + 1
           first == e.first /\ ~Settled(e)
<1>2. Shifted(e) = [low |-> low, range |-> range, cache |-> cache,
                    count |-> count, first |-> first]
  BY DEF Shifted
<1>3. low \in 0 .. Code - Word
  <2>1. (e.low % Word) \in 0 .. Word - 1 BY <1>0, <1>1, Dividing
  <2>2. (e.low % Word) * Word <= (Word - 1) * Word BY <1>0, <2>1, ProductGrows
  <2>3. (Word - 1) * Word = Code - Word BY <1>0
  <2>4. (e.low % Word) * Word \in Nat BY <1>0, <2>1
  <2> QED BY <1>0, <2>2, <2>3, <2>4
<1>4. range \in 0 .. Code - Word
  <2>1. e.range \in Nat BY <1>0, <1>1
  <2> QED BY <2>1, CutMultiple
<1>5. ASSUME Settled(e) PROVE top \in 0 .. Word - 2
  <2> DEFINE d == e.low \div Word
  <2>0. d \in Nat BY <1>0, <1>1, Dividing
  <2>1. CASE e.low < Code - Word
    <3>1. Word - 1 \in Nat BY <1>0
    <3>2. d < Word - 1 BY <1>0, <1>1, <2>1, <3>1, QuotientBelow
    <3> HIDE DEF d
    <3>3. (d % Word) = d BY <1>0, <2>0, <3>2
    <3> QED BY <1>0, <2>0, <3>2, <3>3 DEF d
  <2>2. CASE e.low >= Code
    <3>1. Word * Word <= e.low /\ e.low < Word * (2 * Word - 1)
      <4>1. e.low <= 2 * Code - 2 * Word BY <1>0, <1>1
      <4>2. Word * (2 * Word - 1) = 2 * (Word * Word) - Word BY <1>0
      <4> QED BY <1>0, <1>1, <2>2, <4>1, <4>2
    <3>2. 2 * Word - 1 \in Nat BY <1>0
    <3>3. Word <= d BY <1>0, <1>1, <3>1, QuotientAtLeast
    <3>4. d < 2 * Word - 1 BY <1>0, <1>1, <3>1, <3>2, QuotientBelow
    <3> HIDE DEF d
    <3>5. (d % Word) = d - Word BY <1>0, <2>0, <3>3, <3>4
    <3> QED BY <1>0, <2>0, <3>3, <3>4, <3>5 DEF d
  <2> QED BY <1>5, <2>1, <2>2 DEF Settled, Overflow
<1>6. cache \in 0 .. Word - 1 /\ cache + 1 < Word
  <2>1. CASE Settled(e) BY <2>1, <1>0, <1>5
  <2>2. CASE ~Settled(e) BY <2>2, <1>1
  <2> QED BY <2>1, <2>2
<1>7. ~first BY <1>1 DEF Settled
<1>8. count \in Nat BY <1>1
<1>9. low + range <= 2 * Code - 2 * Word BY <1>0, <1>3, <1>4
<1>10. low \in Nat /\ range \in 0 .. Code - 1 BY <1>0, <1>3, <1>4
<1>11. first \in BOOLEAN BY <1>7
<1>12. Shifted(e).range = (e.range * Word) % Code BY <1>2
<1> HIDE DEF low, range, cache, count, first
<1> QED BY <1>2, <1>6, <1>7, <1>8, <1>9, <1>10, <1>11, <1>12 DEF Roomy, EncType

\* What a shift writes is words.
LEMMA EmitsWords ==
  ASSUME NEW e \in EncType
  PROVE  EmittedBy(e) \in Seq(0 .. Word - 1)
<1>0. Word \in Nat \ {0} /\ Word >= 2 BY CodeFacts
<1> DEFINE W == 0 .. Word - 1
           c == (e.cache + (IF Overflow(e) THEN 1 ELSE 0)) % Word
           fill == IF Overflow(e) THEN 0 ELSE Word - 1
<1>1. e.cache \in Nat /\ e.count \in Nat BY DEF EncType
<1>2. c \in W
  <2>1. e.cache + (IF Overflow(e) THEN 1 ELSE 0) \in Nat BY <1>1
  <2> QED BY <1>0, <2>1, Dividing
<1>3. fill \in W BY <1>0
<1>4. EmittedBy(e) = IF ~Settled(e) \/ e.first
                     THEN <<>> ELSE <<c>> \o [i \in 1 .. e.count |-> fill]
  BY DEF EmittedBy
<1> HIDE DEF W, c, fill
<1>5. <<c>> \in Seq(W) BY <1>2
<1>6. [i \in 1 .. e.count |-> fill] \in Seq(W) BY <1>1, <1>3
<1>7. <<c>> \o [i \in 1 .. e.count |-> fill] \in Seq(W)
  BY <1>5, <1>6, ConcatProperties
<1>8. <<>> \in Seq(W) BY EmptySeq
<1> QED BY <1>4, <1>7, <1>8 DEF W

\* Narrowing takes nothing but range, and never all of it.
LEMMA Narrowing ==
  ASSUME NEW e \in EncType, NEW bit \in Bit, NEW b \in 1 .. e.range - 1
  PROVE  /\ Narrowed(e, bit, b) \in EncType
         /\ Narrowed(e, bit, b).low + Narrowed(e, bit, b).range <= e.low + e.range
         /\ Narrowed(e, bit, b).range > 0
         /\ Narrowed(e, bit, b).cache = e.cache
         /\ Narrowed(e, bit, b).count = e.count
         /\ Narrowed(e, bit, b).first = e.first
<1>0. Word \in Nat /\ Code \in Nat BY CodeFacts
<1>1. /\ e.low \in Nat /\ e.range \in 0 .. Code - 1
      /\ e.cache \in 0 .. Word - 1 /\ e.count \in Nat /\ e.first \in BOOLEAN
  BY DEF EncType
<1> DEFINE low   == IF bit = 0 THEN e.low ELSE e.low + b
           range == IF bit = 0 THEN b ELSE e.range - b
<1>2. Narrowed(e, bit, b) = [low |-> low, range |-> range, cache |-> e.cache,
                             count |-> e.count, first |-> e.first]
  <2>1. e = [low |-> e.low, range |-> e.range, cache |-> e.cache,
             count |-> e.count, first |-> e.first]
    BY DEF EncType
  <2>2. CASE bit = 0 BY <2>1, <2>2 DEF Narrowed
  <2>3. CASE bit # 0 BY <2>1, <2>3 DEF Narrowed
  <2> QED BY <2>2, <2>3
<1>3. low \in Nat /\ range \in 1 .. Code - 1 /\ low + range <= e.low + e.range
  BY <1>0, <1>1
<1> HIDE DEF low, range
<1> QED BY <1>0, <1>1, <1>2, <1>3 DEF EncType

-----------------------------------------------------------------------------
(***************************************************************************)
(* The invariant.                                                          *)
(***************************************************************************)
NewEncoder ==
  [low |-> 0, range |-> Code - 1, cache |-> 0, count |-> 0, first |-> TRUE]

DecType == [range : 1 .. Code - 1, code : 0 .. Code - 1, pos : Nat]

\* What the encoder's part of the state satisfies: until the first decision it
\* is new, and from then on it leaves room for a carry.
EncoderInv ==
  /\ bits \in Seq(Bit)
  /\ words \in Seq(0 .. Word - 1)
  /\ GoodModel(model)
  /\ enc \in EncType /\ flushed \in 0 .. Flushes
  /\ bits = <<>> => enc = NewEncoder /\ flushed = 0
  /\ bits # <<>> => Roomy(enc)
  /\ flushed = 0 => enc.range > 0
  /\ flushed > 0 => ~enc.first

\* And the decoder's.
DecoderInv ==
  /\ decoded \in Seq(Bit)
  /\ GoodModel(dmodel)
  /\ dec \in DecType

IInv == EncoderInv /\ DecoderInv

LEMMA InitIInv == Init => IInv
<1> SUFFICES ASSUME Init PROVE IInv OBVIOUS
<1>0. /\ Word \in Nat /\ Word >= 2 /\ Code \in Nat /\ Code >= 2 * Word
      /\ NumContexts \in Nat \ {0} /\ InitialWindows \subseteq WindowType
  BY CodeFacts, RangeCoderConstants DEF WindowType
<1>1. GoodModel(model)
  <2>1. PICK windows \in [0 .. NumContexts - 1 -> InitialWindows] :
          model = [probs   |-> [c \in 0 .. NumContexts - 1 |-> Entry(windows[c])],
                   context |-> 0]
    BY DEF Init
  <2>2. ASSUME NEW c \in 0 .. NumContexts - 1
        PROVE  Entry(windows[c]) \in EntryType /\ Counted(Entry(windows[c]))
    <3>1. windows[c] \in WindowType BY <1>0
    <3>2. Cardinality(Zeros(windows[c])) \in 0 .. Denominator
      BY <3>1, ZerosAreFinite
    <3> QED BY <3>1, <3>2 DEF Entry, EntryType, Counted
  <2> QED BY <1>0, <2>1, <2>2 DEF GoodModel
<1>2. enc = NewEncoder /\ enc \in EncType /\ enc.range > 0
  BY <1>0 DEF Init, NewEncoder, EncType
<1>3. dec \in DecType BY <1>0 DEF Init, DecType
<1>4. <<>> \in Seq(Bit) /\ <<>> \in Seq(0 .. Word - 1) BY EmptySeq
<1>5. /\ bits = <<>> /\ decoded = <<>> /\ words = <<>> /\ flushed = 0
      /\ dmodel = model
  BY DEF Init
<1>6. 0 \in 0 .. Flushes /\ ~(0 > 0) BY DEF Flushes
<1> QED BY <1>1, <1>2, <1>3, <1>4, <1>5, <1>6 DEF IInv, EncoderInv, DecoderInv

-----------------------------------------------------------------------------
\* Normalising a roomy encoder with a range keeps it roomy and gives it a word
\* of range at least.
LEMMA NormalizingLeavesRoom ==
  ASSUME NEW e, Roomy(e), e.range > 0
  PROVE  /\ Roomy(Normalized(e)) /\ Normalized(e).range \in Word .. Code - 1
         /\ NormalizeEmits(e) \in Seq(0 .. Word - 1)
<1>0. /\ Word \in Nat \ {0} /\ Word >= 2 /\ Code \in Nat /\ Code >= 2 * Word
  BY CodeFacts
<1>1. e \in EncType /\ e.range \in 1 .. Code - 1 BY <1>0 DEF Roomy, EncType
<1>2. CASE e.range < Word
  <2>1. Roomy(Shifted(e)) /\ Shifted(e).range = (e.range * Word) % Code
    BY <1>1, ShiftLeavesRoom
  <2>2. (e.range * Word) % Code = e.range * Word BY <1>0, <1>1, <1>2, CutMultiple
  <2>3. 1 * Word <= e.range * Word BY <1>0, <1>1, ProductGrows
  <2>4. Shifted(e).range \in 0 .. Code - 1 BY <2>1 DEF Roomy, EncType
  <2>5. Shifted(e).range >= Word BY <1>0, <2>1, <2>2, <2>3
  <2>6. EmittedBy(e) \in Seq(0 .. Word - 1) BY <1>1, EmitsWords
  <2>7. Shifted(e).range \in Word .. Code - 1 BY <1>0, <2>4, <2>5
  <2> QED BY <1>2, <2>1, <2>6, <2>7 DEF Normalized, NormalizeEmits
<1>3. CASE ~(e.range < Word)
  <2>1. <<>> \in Seq(0 .. Word - 1) BY EmptySeq
  <2>2. e.range \in Word .. Code - 1 BY <1>0, <1>1, <1>3
  <2> QED BY <1>3, <2>1, <2>2 DEF Normalized, NormalizeEmits
<1> QED BY <1>2, <1>3

\* Coding a decision leaves the encoder roomy.
LEMMA EncodeBitKeepsInv ==
  ASSUME EncoderInv, NEW bit \in Bit, EncodeBit(bit)
  PROVE  EncoderInv'
<1> DEFINE n == Normalized(enc)
           b == Bound(n.range, model)
           W == 0 .. Word - 1
<1>0. /\ Word \in Nat /\ Word >= 2 /\ Code \in Nat /\ Code >= 2 * Word BY CodeFacts
<1>1. /\ flushed = 0 /\ (bits = <<>> => bit = 0)
      /\ words' = words \o NormalizeEmits(enc)
      /\ enc' = Narrowed(n, bit, b)
      /\ model' = Learned(model, bit)
      /\ bits' = Append(bits, bit)
      /\ flushed' = flushed
  BY DEF EncodeBit, MayCode
<1>2. /\ bits \in Seq(Bit) /\ words \in Seq(W) /\ GoodModel(model)
      /\ enc \in EncType /\ enc.range > 0
      /\ bits = <<>> => enc = NewEncoder
      /\ bits # <<>> => Roomy(enc)
  BY <1>1 DEF EncoderInv
<1>3. /\ n \in EncType /\ n.range \in Word .. Code - 1
      /\ NormalizeEmits(enc) \in Seq(W)
      /\ bits = <<>> => n = NewEncoder
      /\ bits # <<>> => Roomy(n)
  <2>1. CASE bits # <<>>
    BY <1>2, <2>1, NormalizingLeavesRoom DEF Roomy
  <2>2. CASE bits = <<>>
    <3>1. enc = NewEncoder /\ enc.range = Code - 1 BY <1>2, <2>2 DEF NewEncoder
    <3>2. ~(enc.range < Word) BY <1>0, <3>1
    <3>3. n = enc /\ NormalizeEmits(enc) = <<>>
      BY <3>2 DEF Normalized, NormalizeEmits
    <3>4. <<>> \in Seq(W) BY EmptySeq
    <3>5. Code - 1 \in Word .. Code - 1 BY <1>0
    <3> QED BY <1>2, <2>2, <3>1, <3>3, <3>4, <3>5
  <2> QED BY <2>1, <2>2
<1>4. b \in 1 .. n.range - 1 /\ (n.range = Code - 1 => b <= Code - Word)
  <2> HIDE DEF n
  <2> QED BY <1>2, <1>3, BoundInside
<1> HIDE DEF n, b
<1>5. /\ enc' \in EncType /\ enc'.range > 0
      /\ enc'.low + enc'.range <= n.low + n.range
      /\ enc'.cache = n.cache /\ enc'.count = n.count /\ enc'.first = n.first
  BY <1>1, <1>3, <1>4, Narrowing
<1>6. Roomy(enc')
  <2>1. CASE bits # <<>>
    <3>1. Roomy(n) BY <1>3, <2>1
    <3>2. n.low + n.range \in Int /\ enc'.low + enc'.range \in Int
      BY <1>3, <1>5 DEF EncType
    <3> QED BY <1>0, <1>5, <3>1, <3>2 DEF Roomy
  <2>2. CASE bits = <<>>
    <3>1. n = NewEncoder /\ bit = 0 BY <1>1, <1>3, <2>2
    <3>2. n.range = Code - 1 BY <3>1 DEF NewEncoder
    <3>3. b <= Code - Word BY <1>4, <3>2
    <3>4. enc' = [low |-> 0, range |-> b, cache |-> 0, count |-> 0, first |-> TRUE]
      BY <1>1, <3>1 DEF Narrowed, NewEncoder
    <3>5. /\ enc'.low = 0 /\ enc'.range = b /\ enc'.cache = 0 /\ enc'.count = 0
      BY <3>4
    <3>6. b \in Int BY <1>4
    <3> QED BY <1>0, <1>5, <3>3, <3>5, <3>6 DEF Roomy
  <2> QED BY <2>1, <2>2
<1>7. words' \in Seq(W) BY <1>1, <1>2, <1>3, ConcatProperties
<1>8. bits' \in Seq(Bit) /\ bits' # <<>> BY <1>1, <1>2, AppendProperties
<1>9. GoodModel(model') BY <1>1, <1>2, LearnedIsGood
<1>10. flushed' = 0 /\ 0 \in 0 .. Flushes /\ ~(0 > 0) BY <1>1 DEF Flushes
<1> QED BY <1>5, <1>6, <1>7, <1>8, <1>9, <1>10 DEF EncoderInv

\* So does each shift of finish.
LEMMA FlushKeepsInv ==
  ASSUME EncoderInv, Flush
  PROVE  EncoderInv'
<1>1. /\ bits # <<>> /\ flushed < Flushes
      /\ words' = words \o EmittedBy(enc)
      /\ enc' = Shifted(enc)
      /\ flushed' = flushed + 1
      /\ bits' = bits /\ model' = model
  BY DEF Flush
<1>2. /\ bits \in Seq(Bit) /\ words \in Seq(0 .. Word - 1) /\ GoodModel(model)
      /\ enc \in EncType /\ Roomy(enc) /\ flushed \in 0 .. Flushes
      /\ flushed = 0 => enc.range > 0
      /\ flushed > 0 => ~enc.first
  BY <1>1 DEF EncoderInv
<1>3. enc.first => enc.range > 0 BY <1>2
<1>4. Roomy(enc') /\ ~enc'.first BY <1>1, <1>2, <1>3, ShiftLeavesRoom
<1>5. words' \in Seq(0 .. Word - 1) BY <1>1, <1>2, EmitsWords, ConcatProperties
<1>6. flushed' \in 0 .. Flushes /\ flushed' # 0 BY <1>1, <1>2 DEF Flushes
<1>7. enc' \in EncType BY <1>4 DEF Roomy
<1> QED BY <1>1, <1>2, <1>4, <1>5, <1>6, <1>7 DEF EncoderInv

\* What the decoder takes from the stream are words.
LEMMA WordAtIsWord ==
  ASSUME words \in Seq(0 .. Word - 1), NEW p \in Nat
  PROVE  WordAt(p) \in 0 .. Word - 1
<1>1. Word \in Nat /\ Word >= 2 BY CodeFacts
<1>2. Len(words) \in Nat BY LenProperties
<1>3. CASE p < Len(words)
  <2>1. p + 1 \in 1 .. Len(words) BY <1>2, <1>3
  <2>2. words[p + 1] \in 0 .. Word - 1 BY <2>1, ElementOfSeq
  <2> QED BY <1>3, <2>2 DEF WordAt
<1>4. CASE ~(p < Len(words)) BY <1>1, <1>4 DEF WordAt
<1> QED BY <1>3, <1>4

\* Two words make a code.
LEMMA TwoWords ==
  ASSUME NEW a \in 0 .. Word - 1, NEW b \in 0 .. Word - 1
  PROVE  a * Word + b \in 0 .. Code - 1
<1>0. Word \in Nat /\ Word >= 2 /\ Code \in Nat /\ Code = Word * Word BY CodeFacts
<1>1. a * Word <= (Word - 1) * Word BY <1>0, ProductGrows
<1>2. (Word - 1) * Word = Code - Word BY <1>0
<1>3. a * Word \in Nat BY <1>0
<1> QED BY <1>0, <1>1, <1>2, <1>3

LEMMA OpenDecoderKeepsInv ==
  ASSUME IInv, OpenDecoder
  PROVE  DecoderInv'
<1>1. words \in Seq(0 .. Word - 1) BY DEF IInv, EncoderInv
<1>2. WordAt(0) \in 0 .. Word - 1 /\ WordAt(1) \in 0 .. Word - 1
  BY <1>1, WordAtIsWord
<1>3. WordAt(0) * Word + WordAt(1) \in 0 .. Code - 1 BY <1>2, TwoWords
<1>4. dec' = [dec EXCEPT !.code = WordAt(0) * Word + WordAt(1), !.pos = 2]
  BY DEF OpenDecoder
<1>5. dec' \in DecType
  <2> DEFINE c == WordAt(0) * Word + WordAt(1)
  <2>1. c \in 0 .. Code - 1 BY <1>3
  <2>2. dec' = [dec EXCEPT !.code = c, !.pos = 2] BY <1>4
  <2> HIDE DEF c
  <2>3. dec \in DecType BY DEF IInv, DecoderInv
  <2> QED BY <2>1, <2>2, <2>3 DEF DecType
<1>6. decoded' = decoded /\ dmodel' = dmodel BY DEF OpenDecoder
<1> QED BY <1>5, <1>6 DEF IInv, DecoderInv

\* The decoder's normalize gives it a word of range at least.
LEMMA DecoderNormalizes ==
  ASSUME IInv
  PROVE  DecoderNormalized \in [range : Word .. Code - 1, code : 0 .. Code - 1, pos : Nat]
<1>0. /\ Word \in Nat \ {0} /\ Word >= 2 /\ Code \in Nat \ {0} /\ Code >= 2 * Word
  BY CodeFacts
<1>1. dec \in DecType /\ words \in Seq(0 .. Word - 1)
  BY DEF IInv, EncoderInv, DecoderInv
<1>2. dec.range \in 1 .. Code - 1 /\ dec.code \in 0 .. Code - 1 /\ dec.pos \in Nat
  BY <1>1 DEF DecType
<1>3. CASE dec.range < Word
  <2>1. (dec.range * Word) % Code = dec.range * Word BY <1>0, <1>2, <1>3, CutMultiple
  <2>2. (dec.range * Word) % Code \in 0 .. Code - Word BY <1>2, CutMultiple
  <2>3. 1 * Word <= dec.range * Word BY <1>0, <1>2, ProductGrows
  <2>4. (dec.range * Word) % Code \in Word .. Code - 1
    BY <1>0, <2>1, <2>2, <2>3
  <2>5. (dec.code * Word) % Code \in 0 .. Code - Word BY <1>2, CutMultiple
  <2>6. WordAt(dec.pos) \in 0 .. Word - 1 BY <1>1, <1>2, WordAtIsWord
  <2>7. ((dec.code * Word) % Code) + WordAt(dec.pos) \in 0 .. Code - 1
    BY <1>0, <2>5, <2>6
  <2>8. DecoderNormalized = [range |-> (dec.range * Word) % Code,
                             code  |-> ((dec.code * Word) % Code) + WordAt(dec.pos),
                             pos   |-> dec.pos + 1]
    BY <1>3 DEF DecoderNormalized
  <2>9. dec.pos + 1 \in Nat BY <1>2
  <2> QED BY <2>4, <2>7, <2>8, <2>9
<1>4. CASE ~(dec.range < Word)
  <2>1. dec.range \in Word .. Code - 1 BY <1>0, <1>2, <1>4
  <2> QED BY <1>1, <1>4, <2>1 DEF DecoderNormalized, DecType
<1> QED BY <1>3, <1>4

LEMMA DecodeBitKeepsInv ==
  ASSUME IInv, DecodeBit
  PROVE  DecoderInv'
<1> DEFINE d == DecoderNormalized
           b == Bound(d.range, dmodel)
           bit == IF d.code < b THEN 0 ELSE 1
<1>0. Code \in Nat /\ Word \in Nat /\ Word >= 2 BY CodeFacts
<1>1. d \in [range : Word .. Code - 1, code : 0 .. Code - 1, pos : Nat]
  BY DecoderNormalizes
<1>2. GoodModel(dmodel) /\ decoded \in Seq(Bit) BY DEF IInv, DecoderInv
<1>3. b \in 1 .. d.range - 1
  <2>1. d.range \in Word .. Code - 1 BY <1>1
  <2> HIDE DEF d
  <2> QED BY <1>2, <2>1, BoundInside
<1>4. /\ dec' = IF bit = 0
                THEN [d EXCEPT !.range = b]
                ELSE [d EXCEPT !.range = @ - b, !.code = @ - b]
      /\ dmodel' = Learned(dmodel, bit)
      /\ decoded' = Append(decoded, bit)
  BY DEF DecodeBit
<1>5. bit \in Bit /\ (bit = 0 <=> d.code < b) BY DEF Bit
<1> HIDE DEF d, b, bit
<1>6. d.range \in Word .. Code - 1 /\ d.code \in 0 .. Code - 1 /\ d.pos \in Nat
  BY <1>1
<1>7. dec' \in DecType
  <2>1. CASE bit = 0
    <3>1. dec' = [d EXCEPT !.range = b] BY <1>4, <2>1
    <3>2. b \in 1 .. Code - 1 BY <1>0, <1>3, <1>6
    <3> QED BY <1>1, <3>1, <3>2 DEF DecType
  <2>2. CASE bit # 0
    <3>1. dec' = [d EXCEPT !.range = @ - b, !.code = @ - b] BY <1>4, <2>2
    <3>2. d.range - b \in 1 .. Code - 1 BY <1>0, <1>3, <1>6
    <3>3. d.code - b \in 0 .. Code - 1 BY <1>0, <1>3, <1>5, <1>6, <2>2
    <3> QED BY <1>1, <3>1, <3>2, <3>3 DEF DecType
  <2> QED BY <2>1, <2>2
<1>8. GoodModel(dmodel') BY <1>2, <1>4, <1>5, LearnedIsGood
<1>9. decoded' \in Seq(Bit) BY <1>2, <1>4, <1>5, AppendProperties
<1> QED BY <1>7, <1>8, <1>9 DEF DecoderInv

-----------------------------------------------------------------------------
\* Every step keeps the invariant.
LEMMA NextIInv == IInv /\ [Next]_vars => IInv'
<1> SUFFICES ASSUME IInv, [Next]_vars PROVE IInv' OBVIOUS
<1>1. ASSUME NEW bit \in Bit, EncodeBit(bit) PROVE IInv'
  <2>1. EncoderInv' BY <1>1, EncodeBitKeepsInv DEF IInv
  <2> QED BY <1>1, <2>1 DEF IInv, DecoderInv, EncodeBit
<1>2. CASE Flush
  <2>1. EncoderInv' BY <1>2, FlushKeepsInv DEF IInv
  <2> QED BY <1>2, <2>1 DEF IInv, DecoderInv, Flush
<1>3. CASE OpenDecoder
  <2>1. DecoderInv' BY <1>3, OpenDecoderKeepsInv
  <2> QED BY <1>3, <2>1 DEF IInv, EncoderInv, OpenDecoder
<1>4. CASE DecodeBit
  <2>1. DecoderInv' BY <1>4, DecodeBitKeepsInv
  <2> QED BY <1>4, <2>1 DEF IInv, EncoderInv, DecodeBit
<1>5. CASE UNCHANGED vars
  BY <1>5 DEF IInv, EncoderInv, DecoderInv, vars
<1> QED BY <1>1, <1>2, <1>3, <1>4, <1>5 DEF Next

\* Hence it holds throughout.
THEOREM Invariance == Spec => []IInv
BY InitIInv, NextIInv, PTL DEF Spec

(***************************************************************************)
(* The types: no code, no cached word, no context and no number of zeros   *)
(* leaves the width the code gives it.                                     *)
(***************************************************************************)
THEOREM TypeCorrect == Spec => []TypeOK
<1>1. IInv => TypeOK
  <2> SUFFICES ASSUME IInv PROVE TypeOK OBVIOUS
  <2>1. model \in Models /\ dmodel \in Models
    BY DEF IInv, EncoderInv, DecoderInv, GoodModel, Models, EntryType, WindowType
  <2>2. dec \in [range : 0 .. Code - 1, code : 0 .. Code - 1, pos : Nat]
    <3>1. dec \in DecType BY DEF IInv, DecoderInv
    <3> QED BY <3>1, CodeFacts DEF DecType
  <2> QED BY <2>1, <2>2 DEF IInv, EncoderInv, DecoderInv, TypeOK, EncType
<1> QED BY <1>1, Invariance, PTL

(***************************************************************************)
(* shift_low never wraps the cached word nor drops counted words: a carry  *)
(* out of low reaches every word it has to, whatever is coded.             *)
(***************************************************************************)
THEOREM CarryAlwaysHasRoom == Spec => []CarryHasRoom
<1>1. IInv => CarryHasRoom
  <2> SUFFICES ASSUME IInv PROVE CarryHasRoom OBVIOUS
  <2>1. CASE bits = <<>>
    <3>1. enc = NewEncoder BY <2>1 DEF IInv, EncoderInv
    <3>2. enc.cache = 0 /\ enc.count = 0 BY <3>1 DEF NewEncoder
    <3> QED BY <3>2, CodeFacts DEF CarryHasRoom
  <2>2. CASE bits # <<>> BY <2>2 DEF IInv, EncoderInv, Roomy, CarryHasRoom
  <2> QED BY <2>1, <2>2
<1> QED BY <1>1, Invariance, PTL

(***************************************************************************)
(* Neither the encoder's range before finish nor the decoder's ever is     *)
(* empty, so normalize brings it back to a word in one turn and never      *)
(* loops for ever.                                                         *)
(***************************************************************************)
THEOREM RangeNeverEmpty == Spec => []RangeIsNeverEmpty
<1>1. IInv => RangeIsNeverEmpty
  BY DEF IInv, EncoderInv, DecoderInv, DecType, RangeIsNeverEmpty
<1> QED BY <1>1, Invariance, PTL

(***************************************************************************)
(* ProbEntry::update keeps num_zeros equal to the zeros of its window, so  *)
(* the decrement never goes below 0.                                       *)
(***************************************************************************)
THEOREM WindowsAlwaysCounted == Spec => []CountsTheWindow
<1>1. IInv => CountsTheWindow
  <2> SUFFICES ASSUME IInv PROVE CountsTheWindow OBVIOUS
  <2>1. GoodModel(model) /\ GoodModel(dmodel) BY DEF IInv, EncoderInv, DecoderInv
  <2>2. ASSUME NEW m, GoodModel(m), NEW c \in DOMAIN m.probs
        PROVE  m.probs[c].numZeros = Cardinality(Zeros(m.probs[c].recent))
    BY <2>2 DEF GoodModel, Counted
  <2> QED BY <2>1, <2>2 DEF CountsTheWindow
<1> QED BY <1>1, Invariance, PTL

-----------------------------------------------------------------------------
(***************************************************************************)
(* What the decoder reads.  Were the encoder flushed now, its words would  *)
(* be these digits: the words it has settled, the cached word and the run  *)
(* of all ones behind it with a carry run through them, and low.           *)
(***************************************************************************)
Carry(e)   == IF Overflow(e) THEN 1 ELSE 0
LowPart(e) == IF Overflow(e) THEN e.low - Code ELSE e.low

\* How many digits there are, the two of low included.
Total(e, ws) == IF e.first THEN 2 ELSE Len(ws) + e.count + 3

Digit(e, ws, p) ==
  CASE p = Total(e, ws)     -> LowPart(e) % Word
    [] p = Total(e, ws) - 1 -> LowPart(e) \div Word
    [] p < Total(e, ws) - 1 ->
         CASE p <= Len(ws)    -> ws[p]
           [] p = Len(ws) + 1 -> e.cache + Carry(e)
           [] p > Len(ws) + 1 -> IF Overflow(e) THEN 0 ELSE Word - 1

(***************************************************************************)
(* The path of the decisions: after each number of them, the range, the    *)
(* model, and how often the range was normalised.  Both sides walk it.     *)
(***************************************************************************)
IsShort(point)    == point.range < Word
FullRange(point)  == IF IsShort(point) THEN point.range * Word ELSE point.range
PointBound(point) == Bound(FullRange(point), point.model)

\* The point a decision leads to.
Onward(point, bit) ==
  [shifts |-> IF IsShort(point) THEN point.shifts + 1 ELSE point.shifts,
   range  |-> IF bit = 0 THEN PointBound(point) ELSE FullRange(point) - PointBound(point),
   model  |-> Learned(point.model, bit)]

IsPath(path) ==
  /\ DOMAIN path = 0 .. Len(bits)
  /\ \A k \in 0 .. Len(bits) :
       /\ path[k].shifts \in Nat /\ path[k].range \in 1 .. Code - 1
       /\ GoodModel(path[k].model)
       /\ path[k].shifts <= path[Len(bits)].shifts
  /\ path[0].shifts = 0 /\ path[0].range = Code - 1
  /\ \A k \in 1 .. Len(bits) : path[k] = Onward(path[k - 1], bits[k])

\* What the decoder's code is at each point of the path, were the digits its
\* words: how far they lie above the low end of the range.  At the end it is 0.
AreCodes(codes, path) ==
  /\ codes \in [0 .. Len(bits) -> Nat]
  /\ codes[0] = Digit(enc, words, 1) * Word + Digit(enc, words, 2)
  /\ \A k \in 1 .. Len(bits) :
       codes[k] + (IF bits[k] = 0 THEN 0 ELSE PointBound(path[k - 1])) =
         IF IsShort(path[k - 1])
         THEN codes[k - 1] * Word + Digit(enc, words, path[k].shifts + 2)
         ELSE codes[k - 1]
  /\ codes[Len(bits)] = 0

\* The encoder is at the end of the path.  Two shifts of finish clear low, a
\* third settles all that is pending.
EncoderAt(path) ==
  /\ Total(enc, words) = path[Len(bits)].shifts + 2 + flushed
  /\ model = path[Len(bits)].model
  /\ flushed = 0 => enc.range = path[Len(bits)].range
  /\ flushed >= 1 => enc.low % Word = 0 /\ enc.low < Code
  /\ flushed >= 2 => enc.low = 0
  /\ flushed >= 3 => enc.count = 0
  /\ enc.first => words = <<>>

\* The decoder is at the point of the path it has come to.
DecoderAt(path, codes) ==
  /\ Len(decoded) \in 0 .. Len(bits)
  /\ \A k \in 1 .. Len(decoded) : decoded[k] = bits[k]
  /\ dmodel = path[Len(decoded)].model
  /\ dec.range = path[Len(decoded)].range
  /\ IF dec.pos = 0
     THEN Len(decoded) = 0
     ELSE /\ flushed = Flushes
          /\ dec.pos = path[Len(decoded)].shifts + 2
          /\ dec.code = codes[Len(decoded)]

InStep(path, codes) ==
  IsPath(path) /\ AreCodes(codes, path) /\ EncoderAt(path) /\ DecoderAt(path, codes)

StepInv == IInv /\ \E path, codes : InStep(path, codes)

-----------------------------------------------------------------------------
(***************************************************************************)
(* The digits: shifts append to them, and bits add to them.                *)
(***************************************************************************)
\* low in two digits and a carry.
LEMMA LowInDigits ==
  ASSUME NEW e \in EncType, e.low < 2 * Code
  PROVE  /\ LowPart(e) \in 0 .. Code - 1 /\ Carry(e) \in 0 .. 1
         /\ e.low = Carry(e) * Code + LowPart(e)
         /\ LowPart(e) = Word * (LowPart(e) \div Word) + (LowPart(e) % Word)
         /\ (LowPart(e) \div Word) \in 0 .. Word - 1
         /\ (LowPart(e) % Word) \in 0 .. Word - 1
         /\ (e.low % Word) = (LowPart(e) % Word)
         /\ ((e.low \div Word) % Word) = (LowPart(e) \div Word)
<1> DEFINE x == LowPart(e)
           c == Carry(e)
           d == x \div Word
           m == x % Word
<1>0. Word \in Nat \ {0} /\ Word >= 2 /\ Code \in Nat /\ Code = Word * Word BY CodeFacts
<1>1. e.low \in Nat BY DEF EncType
<1>2. /\ x \in 0 .. Code - 1 /\ c \in 0 .. 1 /\ e.low = c * Code + x
      /\ (c = 0 \/ c = 1)
  BY <1>0, <1>1 DEF LowPart, Carry, Overflow
<1>3. x \in Nat BY <1>0, <1>2
<1> HIDE DEF x, c
<1>4. x = Word * d + m /\ d \in Nat /\ m \in 0 .. Word - 1 BY <1>0, <1>3, Dividing
<1>5. d < Word BY <1>0, <1>2, <1>3, QuotientBelow
<1> HIDE DEF d, m
<1>6. d \in 0 .. Word - 1 BY <1>0, <1>4, <1>5
<1> DEFINE q == c * Word + d
<1>7. q \in Nat /\ q = Word * c + d BY <1>0, <1>2, <1>4
<1>8. e.low = Word * q + m
  <2>1. CASE c = 0 BY <1>0, <1>1, <1>2, <1>4, <2>1
  <2>2. CASE c = 1
    <3>1. q = Word + d BY <1>0, <1>4, <2>2
    <3>2. Word * (Word + d) = Word * Word + Word * d BY <1>0, <1>4
    <3>3. e.low = Word * Word + x BY <1>0, <1>2, <1>3, <2>2
    <3>4. Word * d \in Nat /\ Word * Word \in Nat BY <1>0, <1>4
    <3> QED BY <1>3, <1>4, <3>1, <3>2, <3>3, <3>4
  <2> QED BY <1>2, <2>1, <2>2
<1> HIDE DEF q
<1>9. (e.low \div Word) = q /\ (e.low % Word) = m
  BY <1>0, <1>1, <1>4, <1>7, <1>8, OnlyQuotient
<1>10. (q % Word) = d
  <2>1. c \in Nat BY <1>2
  <2> QED BY <1>0, <1>6, <1>7, <2>1, OnlyQuotient
<1> QED BY <1>2, <1>4, <1>6, <1>9, <1>10 DEF x, c, d, m

\* What the digits are, place by place.
LEMMA DigitPlaces ==
  ASSUME NEW e \in EncType, NEW ws \in Seq(0 .. Word - 1)
  PROVE  /\ Total(e, ws) \in Nat /\ Total(e, ws) >= 2
         /\ ~e.first => Total(e, ws) = Len(ws) + e.count + 3
         /\ Digit(e, ws, Total(e, ws)) = LowPart(e) % Word
         /\ Digit(e, ws, Total(e, ws) - 1) = LowPart(e) \div Word
         /\ \A p \in 1 .. Total(e, ws) - 2 :
              /\ p <= Len(ws) => Digit(e, ws, p) = ws[p]
              /\ p = Len(ws) + 1 => Digit(e, ws, p) = e.cache + Carry(e)
              /\ p > Len(ws) + 1 =>
                   Digit(e, ws, p) = IF Overflow(e) THEN 0 ELSE Word - 1
<1> DEFINE T == Total(e, ws)
<1>1. Len(ws) \in Nat /\ e.count \in Nat BY LenProperties DEF EncType
<1>2. T \in Nat /\ T >= 2 /\ (~e.first => T = Len(ws) + e.count + 3)
  BY <1>1 DEF Total
<1> HIDE DEF T
<1>3. Digit(e, ws, T) = LowPart(e) % Word BY <1>2 DEF Digit, T
<1>4. Digit(e, ws, T - 1) = LowPart(e) \div Word
  <2>1. T - 1 # T /\ ~(T - 1 < T - 1) BY <1>2
  <2> QED BY <2>1 DEF Digit, T
<1>5. ASSUME NEW p \in 1 .. T - 2
      PROVE  /\ p <= Len(ws) => Digit(e, ws, p) = ws[p]
             /\ p = Len(ws) + 1 => Digit(e, ws, p) = e.cache + Carry(e)
             /\ p > Len(ws) + 1 =>
                  Digit(e, ws, p) = IF Overflow(e) THEN 0 ELSE Word - 1
  <2>1. p # T /\ p # T - 1 /\ p < T - 1 /\ p \in Nat BY <1>2
  <2>2. Digit(e, ws, p) = CASE p <= Len(ws)    -> ws[p]
                            [] p = Len(ws) + 1 -> e.cache + Carry(e)
                            [] p > Len(ws) + 1 -> IF Overflow(e) THEN 0 ELSE Word - 1
    BY <2>1 DEF Digit, T
  <2>3. CASE p <= Len(ws)
    <3>1. ~(p = Len(ws) + 1) /\ ~(p > Len(ws) + 1) BY <1>1, <2>1, <2>3
    <3> QED BY <2>2, <2>3, <3>1
  <2>4. CASE p = Len(ws) + 1
    <3>1. ~(p <= Len(ws)) /\ ~(p > Len(ws) + 1) BY <1>1, <2>1, <2>4
    <3> QED BY <2>2, <2>4, <3>1
  <2>5. CASE p > Len(ws) + 1
    <3>1. ~(p <= Len(ws)) /\ ~(p = Len(ws) + 1) BY <1>1, <2>1, <2>5
    <3> QED BY <2>2, <2>5, <3>1
  <2> QED BY <1>1, <2>1, <2>3, <2>4, <2>5
<1> QED BY <1>2, <1>3, <1>4, <1>5 DEF T

\* And each is a digit, while a carry has room.
LEMMA DigitsAreWords ==
  ASSUME NEW e \in EncType, NEW ws \in Seq(0 .. Word - 1),
         e.cache + 1 < Word, e.low < 2 * Code, NEW p \in 1 .. Total(e, ws)
  PROVE  Digit(e, ws, p) \in 0 .. Word - 1
<1> DEFINE T == Total(e, ws)
<1>0. Word \in Nat /\ Word >= 2 BY CodeFacts
<1>1. T \in Nat /\ T >= 2 /\ Len(ws) \in Nat BY DigitPlaces, LenProperties
<1>2. p = T \/ p = T - 1 \/ p \in 1 .. T - 2
  <2> HIDE DEF T
  <2>1. p \in 1 .. T BY DEF T
  <2> QED BY <1>1, <2>1
<1>3. CASE p = T BY <1>3, DigitPlaces, LowInDigits
<1>4. CASE p = T - 1 BY <1>4, DigitPlaces, LowInDigits
<1>5. CASE p \in 1 .. T - 2
  <2>1. CASE p <= Len(ws)
    <3>1. p \in 1 .. Len(ws) BY <1>1, <1>5, <2>1
    <3>2. ws[p] \in 0 .. Word - 1 BY <3>1, ElementOfSeq
    <3> QED BY <1>5, <2>1, <3>2, DigitPlaces
  <2>2. CASE p = Len(ws) + 1
    <3>1. Carry(e) \in 0 .. 1 /\ e.cache \in Nat BY <1>0, LowInDigits DEF EncType
    <3>2. e.cache + Carry(e) \in 0 .. Word - 1 BY <1>0, <3>1
    <3> QED BY <1>5, <2>2, <3>2, DigitPlaces
  <2>3. CASE p > Len(ws) + 1
    <3>1. Digit(e, ws, p) = IF Overflow(e) THEN 0 ELSE Word - 1
      BY <1>5, <2>3, DigitPlaces
    <3> QED BY <1>0, <3>1
  <2> QED BY <1>1, <1>5, <2>1, <2>2, <2>3
<1> QED BY <1>2, <1>3, <1>4, <1>5

\* A shift appends a digit 0 to them.
LEMMA ShiftAppends ==
  ASSUME NEW e \in EncType, NEW ws \in Seq(0 .. Word - 1),
         e.cache + 1 < Word, e.low < 2 * Code,
         e.first => ws = <<>> /\ e.low < Code - Word
  PROVE  LET f  == Shifted(e)
             vs == ws \o EmittedBy(e)
             T  == Total(e, ws)
         IN  /\ Total(f, vs) = T + 1
             /\ Digit(f, vs, T + 1) = 0
             /\ \A p \in 1 .. T : Digit(f, vs, p) = Digit(e, ws, p)
<1> DEFINE f  == Shifted(e)
           vs == ws \o EmittedBy(e)
           T  == Total(e, ws)
           W  == 0 .. Word - 1
           m  == e.low % Word
           fill == IF Overflow(e) THEN 0 ELSE Word - 1
<1>0. /\ Word \in Nat \ {0} /\ Word >= 2 /\ Code \in Nat /\ Code >= 2 * Word
      /\ Code = Word * Word /\ Code - Word = Word * (Word - 1)
  BY CodeFacts
<1>1. /\ e.low \in Nat /\ e.cache \in 0 .. Word - 1 /\ e.count \in Nat
      /\ e.range \in Nat /\ e.first \in BOOLEAN
  BY <1>0 DEF EncType
<1>2. m \in 0 .. Word - 1 BY <1>0, <1>1, Dividing
<1>3. /\ f.low = m * Word
      /\ f.cache = IF Settled(e) THEN (e.low \div Word) % Word ELSE e.cache
      /\ f.count = IF Settled(e) THEN 0 ELSE e.count + 1
      /\ f.first = (e.first /\ ~Settled(e))
  BY DEF Shifted
<1>4. f.low \in 0 .. Code - Word
  <2>1. m * Word \in Nat /\ m * Word <= (Word - 1) * Word BY <1>0, <1>2, ProductGrows
  <2>2. (Word - 1) * Word = Code - Word BY <1>0
  <2> HIDE DEF m
  <2> QED BY <1>0, <1>3, <2>1, <2>2
<1>5. f \in EncType
  <2>1. (e.range * Word) % Code \in 0 .. Code - Word BY <1>1, CutMultiple
  <2>2. (e.range * Word) % Code \in 0 .. Code - 1 BY <1>0, <2>1
  <2>3. ((e.low \div Word) % Word) \in 0 .. Word - 1
    <3>1. (e.low \div Word) \in Nat BY <1>0, <1>1, Dividing
    <3> QED BY <1>0, <3>1, Dividing
  <2>4. f.low \in Nat BY <1>0, <1>4
  <2> DEFINE range == (e.range * Word) % Code
             top   == (e.low \div Word) % Word
             cache == IF Settled(e) THEN top ELSE e.cache
             count == IF Settled(e) THEN 0 ELSE e.count + 1
             first == e.first /\ ~Settled(e)
  <2>5. f = [low |-> f.low, range |-> range, cache |-> cache, count |-> count,
             first |-> first]
    BY <1>3 DEF Shifted
  <2>6. range \in 0 .. Code - 1 /\ top \in 0 .. Word - 1 BY <2>2, <2>3
  <2> HIDE DEF f, range, top
  <2>7. cache \in 0 .. Word - 1 /\ count \in Nat /\ first \in BOOLEAN BY <1>1, <2>6
  <2> HIDE DEF cache, count, first
  <2> QED BY <2>4, <2>5, <2>6, <2>7 DEF EncType
<1>6. /\ ~Overflow(f) /\ LowPart(f) = f.low /\ Carry(f) = 0
      /\ (f.low \div Word) = m /\ (f.low % Word) = 0
  <2>1. ~Overflow(f) BY <1>0, <1>4 DEF Overflow
  <2>2. LowPart(f) = f.low /\ Carry(f) = 0 BY <2>1 DEF LowPart, Carry
  <2>3. f.low \in Nat /\ f.low = Word * m + 0 /\ m \in Nat /\ 0 \in 0 .. Word - 1
    BY <1>0, <1>2, <1>3, <1>4
  <2> HIDE DEF m, f
  <2>4. (f.low \div Word) = m /\ (f.low % Word) = 0 BY <1>0, <2>3, OnlyQuotient
  <2> QED BY <2>1, <2>2, <2>4
<1>7. /\ Digit(e, ws, T) = m
      /\ Digit(e, ws, T - 1) = ((e.low \div Word) % Word)
      /\ T \in Nat /\ T >= 2 /\ Len(ws) \in Nat
      /\ ~e.first => T = Len(ws) + e.count + 3
      /\ e.first => T = 2
  BY DigitPlaces, LowInDigits, LenProperties DEF Total
<1>8. vs \in Seq(W) /\ EmittedBy(e) \in Seq(W) BY EmitsWords, ConcatProperties
<1> DEFINE U == Total(f, vs)
<1>9. /\ U \in Nat /\ U >= 2 /\ (~f.first => U = Len(vs) + f.count + 3)
      /\ Digit(f, vs, U) = 0 /\ Digit(f, vs, U - 1) = m
      /\ \A p \in 1 .. U - 2 :
           /\ p <= Len(vs) => Digit(f, vs, p) = vs[p]
           /\ p = Len(vs) + 1 => Digit(f, vs, p) = f.cache + 0
           /\ p > Len(vs) + 1 => Digit(f, vs, p) = Word - 1
  <2> HIDE DEF f, vs, m
  <2>1. vs \in Seq(0 .. Word - 1) BY <1>8
  <2>2. U \in Nat /\ U >= 2 /\ (~f.first => U = Len(vs) + f.count + 3)
    BY <1>5, <2>1, DigitPlaces
  <2>3. Digit(f, vs, U) = 0 /\ Digit(f, vs, U - 1) = m BY <1>5, <1>6, <2>1, DigitPlaces
  <2>4. \A p \in 1 .. U - 2 :
           /\ p <= Len(vs) => Digit(f, vs, p) = vs[p]
           /\ p = Len(vs) + 1 => Digit(f, vs, p) = f.cache + Carry(f)
           /\ p > Len(vs) + 1 =>
                Digit(f, vs, p) = IF Overflow(f) THEN 0 ELSE Word - 1
    BY <1>5, <2>1, DigitPlaces
  <2> HIDE DEF U
  <2> QED BY <1>6, <2>2, <2>3, <2>4
<1>10. \A p \in 1 .. T - 2 :
         /\ p <= Len(ws) => Digit(e, ws, p) = ws[p]
         /\ p = Len(ws) + 1 => Digit(e, ws, p) = e.cache + Carry(e)
         /\ p > Len(ws) + 1 => Digit(e, ws, p) = fill
  BY DigitPlaces
<1>11. ((e.low \div Word) % Word) \in Nat
  <2> DEFINE d == e.low \div Word
  <2>1. d \in Nat BY <1>0, <1>1, Dividing
  <2> HIDE DEF d
  <2>2. (d % Word) \in 0 .. Word - 1 BY <1>0, <2>1, Dividing
  <2>3. (d % Word) \in Nat BY <2>2
  <2> QED BY <2>3 DEF d
<1> DEFINE top == (e.low \div Word) % Word
           Same == /\ U = T + 1
                   /\ \A p \in 1 .. T - 1 : Digit(f, vs, p) = Digit(e, ws, p)
<1> HIDE DEF f, vs, T, U, m, fill, top
<1>12. ASSUME e.first PROVE Same
  <2>1. Settled(e) /\ ws = <<>> /\ EmittedBy(e) = <<>>
    BY <1>12 DEF Settled, EmittedBy
  <2>2. vs = <<>> /\ Len(vs) = 0 /\ ~f.first /\ f.count = 0 /\ f.cache = top
    <3>1. vs = <<>> BY <2>1, ConcatEmptySeq DEF vs
    <3>2. ~f.first /\ f.count = 0 /\ f.cache = top BY <1>3, <2>1 DEF top
    <3> QED BY <3>1, <3>2
  <2>3. U = 3 /\ T = 2 BY <1>7, <1>9, <1>12, <2>2
  <2>4. Digit(f, vs, 1) = top BY <1>9, <1>11, <2>2, <2>3 DEF top
  <2>5. \A p \in 1 .. T - 1 : p = 1 /\ p = T - 1 BY <2>3
  <2> QED BY <1>7, <2>3, <2>4, <2>5 DEF top
<1>13. ASSUME ~e.first /\ Settled(e) PROVE Same
  <2> DEFINE c == (e.cache + Carry(e)) % Word
  <2>1. EmittedBy(e) = <<c>> \o [i \in 1 .. e.count |-> fill]
    BY <1>13 DEF EmittedBy, Carry, fill
  <2>2. c = e.cache + Carry(e)
    <3>1. Carry(e) \in 0 .. 1 BY LowInDigits
    <3>2. e.cache + Carry(e) \in 0 .. Word - 1 BY <1>0, <1>1, <3>1
    <3> DEFINE x == e.cache + Carry(e)
    <3>3. x \in 0 .. Word - 1 BY <3>2
    <3> HIDE DEF x
    <3>4. (x % Word) = x BY <1>0, <3>3
    <3> QED BY <3>4 DEF x
  <2> HIDE DEF c
  <2>3. PICK run : run = [i \in 1 .. e.count |-> fill] OBVIOUS
  <2>4. Len(run) = e.count /\ (\A i \in 1 .. e.count : run[i] = fill)
        /\ run \in Seq({fill})
    <3>1. run \in [1 .. e.count -> {fill}] BY <2>3
    <3>2. run \in Seq({fill}) BY <1>1, <3>1, SeqDef
    <3>3. DOMAIN run = 1 .. e.count BY <2>3
    <3>4. Len(run) = e.count BY <1>1, <3>2, <3>3, LenProperties
    <3> QED BY <2>3, <3>2, <3>4
  <2>5. /\ Len(EmittedBy(e)) = e.count + 1 /\ EmittedBy(e)[1] = c
        /\ \A i \in 2 .. e.count + 1 : EmittedBy(e)[i] = fill
    <3> DEFINE D == {c, fill}
    <3>1. <<c>> \in Seq(D) /\ Len(<<c>>) = 1 /\ <<c>>[1] = c OBVIOUS
    <3>2. run \in Seq(D) BY <1>1, <2>3
    <3>3. EmittedBy(e) = <<c>> \o run BY <2>1, <2>3
    <3> HIDE DEF D
    <3>4. /\ Len(EmittedBy(e)) = 1 + Len(run)
          /\ \A i \in 1 .. Len(<<c>>) + Len(run) :
               EmittedBy(e)[i] = IF i <= Len(<<c>>) THEN <<c>>[i] ELSE run[i - Len(<<c>>)]
      BY <3>1, <3>2, <3>3, ConcatProperties
    <3>5. EmittedBy(e)[1] = c BY <1>1, <2>4, <3>1, <3>4
    <3>6. ASSUME NEW i \in 2 .. e.count + 1 PROVE EmittedBy(e)[i] = fill
      <4>1. i \in 1 .. 1 + e.count /\ ~(i <= 1) /\ i - 1 \in 1 .. e.count BY <1>1
      <4> QED BY <2>4, <3>1, <3>4, <4>1
    <3> QED BY <1>1, <2>4, <3>4, <3>5, <3>6
  <2>6. Len(vs) = Len(ws) + e.count + 1
    <3>1. Len(vs) = Len(ws) + Len(EmittedBy(e)) BY <1>8, ConcatProperties DEF vs
    <3>2. Len(EmittedBy(e)) = e.count + 1 /\ Len(ws) \in Nat /\ e.count \in Nat
      BY <1>1, <1>7, <2>5
    <3> QED BY <3>1, <3>2
  <2>7. \A i \in 1 .. Len(vs) : vs[i] = IF i <= Len(ws) THEN ws[i]
                                        ELSE EmittedBy(e)[i - Len(ws)]
    BY <1>1, <1>7, <1>8, <2>5, <2>6, ConcatProperties DEF vs
  <2>8. /\ ~f.first /\ f.count = 0 /\ f.cache = top
    BY <1>3, <1>13 DEF top
  <2>9. T = Len(ws) + e.count + 3 /\ U = T + 1 /\ Len(vs) = T - 2
    BY <1>1, <1>7, <1>9, <1>13, <2>6, <2>8
  <2>10. ASSUME NEW p \in 1 .. T - 1 PROVE Digit(f, vs, p) = Digit(e, ws, p)
    <3>0. p \in 1 .. U - 2 /\ p \in Nat /\ (p = T - 1 \/ p \in 1 .. T - 2)
      BY <1>7, <2>9
    <3>1. CASE p = T - 1
      <4>1. p = Len(vs) + 1 BY <1>7, <2>9, <3>1
      <4> QED BY <1>7, <1>9, <1>11, <2>8, <3>0, <3>1, <4>1 DEF top
    <3>2. CASE p \in 1 .. T - 2
      <4>1. p \in 1 .. Len(vs) /\ p <= Len(vs) BY <1>7, <2>9, <3>2
      <4>2. Digit(f, vs, p) = vs[p] BY <1>9, <3>0, <4>1
      <4>3. CASE p <= Len(ws) BY <1>10, <2>7, <3>2, <4>1, <4>2, <4>3
      <4>4. CASE p = Len(ws) + 1
        <5>1. ~(p <= Len(ws)) /\ p - Len(ws) = 1 BY <1>7, <4>4
        <5> QED BY <1>10, <2>2, <2>5, <2>7, <3>2, <4>1, <4>2, <4>4, <5>1
      <4>5. CASE p > Len(ws) + 1
        <5>1. ~(p <= Len(ws)) /\ p - Len(ws) \in 2 .. e.count + 1
          <6>1. Len(ws) \in Nat /\ e.count \in Nat /\ p \in Nat BY <1>1, <1>7, <3>0
          <6>2. p <= Len(ws) + e.count + 1 BY <2>9, <3>2, <6>1
          <6> QED BY <4>5, <6>1, <6>2
        <5> QED BY <1>10, <2>5, <2>7, <3>2, <4>1, <4>2, <4>5, <5>1
      <4> QED BY <1>7, <3>0, <4>3, <4>4, <4>5
    <3> QED BY <3>0, <3>1, <3>2
  <2> QED BY <2>9, <2>10
<1>14. ASSUME ~e.first /\ ~Settled(e) PROVE Same
  <2>1. EmittedBy(e) = <<>> BY <1>14 DEF EmittedBy
  <2>2. vs = ws BY <1>8, <2>1, ConcatEmptySeq DEF vs
  <2>3. ~f.first /\ f.count = e.count + 1 /\ f.cache = e.cache BY <1>3, <1>14
  <2>4. T = Len(ws) + e.count + 3 /\ U = T + 1
    BY <1>1, <1>7, <1>9, <1>14, <2>2, <2>3
  <2>5. ~Overflow(e) /\ e.low >= Code - Word /\ e.low < Code /\ Carry(e) = 0
        /\ fill = Word - 1
    BY <1>0, <1>1, <1>14 DEF Settled, Overflow, Carry, fill
  <2>6. top = Word - 1
    <3>1. (e.low \div Word) < Word BY <1>0, <1>1, <2>5, QuotientBelow
    <3>2. Word - 1 <= (e.low \div Word)
      <4>1. Word - 1 \in Nat /\ Word * (Word - 1) <= e.low BY <1>0, <1>1, <2>5
      <4> QED BY <1>0, <1>1, <4>1, QuotientAtLeast
    <3>3. (e.low \div Word) \in Nat BY <1>0, <1>1, Dividing
    <3> DEFINE d == e.low \div Word
    <3> HIDE DEF d
    <3>4. d = Word - 1 BY <1>0, <3>1, <3>2, <3>3 DEF d
    <3>5. (d % Word) = d BY <1>0, <3>4
    <3> QED BY <3>4, <3>5 DEF top, d
  <2>7. ASSUME NEW p \in 1 .. T - 1 PROVE Digit(f, vs, p) = Digit(e, ws, p)
    <3>0. p \in 1 .. U - 2 /\ p \in Nat /\ (p = T - 1 \/ p \in 1 .. T - 2)
      BY <1>7, <2>4
    <3>1. CASE p = T - 1
      <4>1. p > Len(vs) + 1 BY <1>1, <1>7, <2>2, <2>4, <3>1, SMTT(30)
      <4> QED BY <1>7, <1>9, <2>6, <3>0, <3>1, <4>1 DEF top
    <3>2. CASE p \in 1 .. T - 2
      <4>1. CASE p <= Len(ws) BY <1>9, <1>10, <2>2, <3>0, <3>2, <4>1
      <4>2. CASE p = Len(ws) + 1 BY <1>9, <1>10, <2>2, <2>3, <2>5, <3>0, <3>2, <4>2
      <4>3. CASE p > Len(ws) + 1 BY <1>9, <1>10, <2>2, <2>5, <3>0, <3>2, <4>3
      <4> QED BY <1>7, <3>0, <4>1, <4>2, <4>3
    <3> QED BY <3>0, <3>1, <3>2
  <2> QED BY <2>4, <2>7
<1>15. Same
  <2> HIDE DEF Same
  <2> QED BY <1>12, <1>13, <1>14, Zenon
<1>16. Digit(f, vs, T) = Digit(e, ws, T)
  <2>1. U - 1 = T BY <1>7, <1>15
  <2> QED BY <1>7, <1>9, <2>1
<1>17. \A p \in 1 .. T : Digit(f, vs, p) = Digit(e, ws, p)
  <2>1. \A p \in 1 .. T : p = T \/ p \in 1 .. T - 1 BY <1>7
  <2> QED BY <1>15, <1>16, <2>1
<1>18. U = T + 1 /\ Digit(f, vs, T + 1) = 0 BY <1>9, <1>15
<1> QED BY <1>17, <1>18 DEF f, vs, T, U

\* Adding to low adds to the digits: each place takes what the place behind it
\* carries, and passes on what does not fit.
LEMMA AddingCarries ==
  ASSUME NEW e \in EncType, NEW f \in EncType, NEW ws \in Seq(0 .. Word - 1), NEW b \in Nat,
         f.low = e.low + b, f.low < 2 * Code,
         f.cache = e.cache, f.count = e.count, f.first = e.first,
         e.first => ws = <<>> /\ f.low < Code
  PROVE  /\ Total(f, ws) = Total(e, ws)
         /\ \E inc \in [2 .. Total(e, ws) -> Nat] :
              /\ inc[Total(e, ws)] = b
              /\ Digit(f, ws, 1) * Word + Digit(f, ws, 2) =
                   Digit(e, ws, 1) * Word + Digit(e, ws, 2) + inc[2]
              /\ \A p \in 3 .. Total(e, ws) :
                   inc[p - 1] * Word + Digit(f, ws, p) = Digit(e, ws, p) + inc[p]
<1> DEFINE T  == Total(e, ws)
           dE == LowPart(e) \div Word
           mE == LowPart(e) % Word
           dF == LowPart(f) \div Word
           mF == LowPart(f) % Word
           k  == Carry(f) - Carry(e)
           j  == (mE + b) \div Word
<1>0. Word \in Nat \ {0} /\ Word >= 2 /\ Code \in Nat /\ Code = Word * Word BY CodeFacts
<1>1. /\ e.low \in Nat /\ f.low \in Nat /\ e.low < 2 * Code
      /\ e.cache \in Nat /\ e.count \in Nat
  BY <1>0 DEF EncType
<1>2. Total(f, ws) = T BY DEF Total
<1>3. /\ T \in Nat /\ T >= 2 /\ Len(ws) \in Nat
      /\ (e.first => T = 2) /\ (~e.first => T = Len(ws) + e.count + 3)
  BY DigitPlaces, LenProperties DEF Total
<1>4. /\ LowPart(e) \in Nat /\ LowPart(f) \in Nat
      /\ LowPart(e) < Code /\ LowPart(f) < Code
      /\ Carry(e) \in 0 .. 1 /\ Carry(f) \in 0 .. 1
      /\ e.low = Carry(e) * Code + LowPart(e) /\ f.low = Carry(f) * Code + LowPart(f)
  <2>1. LowPart(e) \in 0 .. Code - 1 /\ LowPart(f) \in 0 .. Code - 1
    BY <1>1, LowInDigits
  <2>2. LowPart(e) \in Nat /\ LowPart(f) \in Nat
        /\ LowPart(e) < Code /\ LowPart(f) < Code
    BY <1>0, <2>1
  <2> QED BY <1>1, <2>2, LowInDigits
<1>5. /\ LowPart(e) = Word * dE + mE /\ dE \in 0 .. Word - 1 /\ mE \in 0 .. Word - 1
      /\ LowPart(f) = Word * dF + mF /\ dF \in 0 .. Word - 1 /\ mF \in 0 .. Word - 1
      /\ (f.low % Word) = mF /\ (e.low % Word) = mE
  BY <1>1, LowInDigits
<1>6. k \in 0 .. 1 /\ LowPart(e) + b = k * Code + LowPart(f)
  <2>1. Carry(e) = 1 => Carry(f) = 1 BY <1>0, <1>1, <1>4 DEF Carry, Overflow
  <2>2. k \in 0 .. 1 BY <1>4, <2>1
  <2>3. k * Code = Carry(f) * Code - Carry(e) * Code BY <1>0, <1>4
  <2>4. Carry(f) * Code \in Nat /\ Carry(e) * Code \in Nat BY <1>0, <1>4
  <2> HIDE DEF k
  <2> QED BY <1>1, <1>4, <2>2, <2>3, <2>4, SMTT(30)
<1> HIDE DEF dE, mE, dF, mF
<1>7. j \in Nat /\ mE + b = Word * j + mF
  <2> DEFINE r == (mE + b) % Word
             h == e.low \div Word
  <2>1. mE + b \in Nat BY <1>5
  <2>2. mE + b = Word * j + r /\ j \in Nat /\ r \in 0 .. Word - 1
    BY <1>0, <2>1, Dividing
  <2>3. e.low = Word * h + mE /\ h \in Nat BY <1>0, <1>1, <1>5, Dividing
  <2> HIDE DEF r, h, j
  <2>4. h + j \in Nat /\ Word * (h + j) = Word * h + Word * j BY <1>0, <2>2, <2>3
  <2>5. f.low = Word * (h + j) + r
    <3> DEFINE u == Word * h
               v == Word * j
    <3>1. u \in Nat /\ v \in Nat /\ mE \in Nat /\ r \in Nat BY <1>0, <1>5, <2>2, <2>3
    <3>2. e.low = u + mE /\ mE + b = v + r /\ Word * (h + j) = u + v
      BY <2>2, <2>3, <2>4
    <3> HIDE DEF u, v
    <3> QED BY <1>1, <3>1, <3>2
  <2> DEFINE q == h + j
             x == f.low
  <2>6. x \in Nat /\ q \in Nat /\ x = Word * q + r BY <1>1, <2>4, <2>5
  <2>7. (f.low % Word) = r
    <3> HIDE DEF q, x
    <3>1. (x % Word) = r BY <1>0, <2>2, <2>6, OnlyQuotient
    <3> QED BY <3>1 DEF x
  <2> QED BY <1>5, <2>2, <2>7 DEF j
<1> HIDE DEF k, j
<1>8. dE + j = k * Word + dF
  <2>1. k * Code = Word * (k * Word) BY <1>0, <1>6
  <2>2. Word * (dE + j) = Word * dE + Word * j
        /\ Word * (k * Word + dF) = Word * (k * Word) + Word * dF
    BY <1>0, <1>5, <1>6, <1>7
  <2>3. /\ Word * dE \in Nat /\ Word * j \in Nat /\ Word * dF \in Nat
        /\ Word * (k * Word) \in Nat
    BY <1>0, <1>5, <1>6, <1>7
  <2>4. Word * (dE + j) = Word * (k * Word + dF)
    <3> DEFINE uE == Word * dE
               uF == Word * dF
               uJ == Word * j
               uK == Word * (k * Word)
    <3>1. /\ uE \in Nat /\ uF \in Nat /\ uJ \in Nat /\ uK \in Nat
          /\ mE \in Nat /\ mF \in Nat
      BY <1>5, <2>3
    <3>2. /\ LowPart(e) = uE + mE /\ LowPart(f) = uF + mF /\ mE + b = uJ + mF
          /\ LowPart(e) + b = uK + LowPart(f)
      BY <1>5, <1>6, <1>7, <2>1
    <3>3. Word * (dE + j) = uE + uJ /\ Word * (k * Word + dF) = uK + uF BY <2>2
    <3> HIDE DEF uE, uF, uJ, uK
    <3> QED BY <3>1, <3>2, <3>3
  <2>5. k * Word \in Nat BY <1>0, <1>6
  <2> DEFINE x == dE + j
             y == k * Word + dF
  <2>6. x \in Nat /\ y \in Nat BY <1>5, <1>7, <2>5
  <2>7. Word * x = Word * y BY <2>4
  <2> HIDE DEF x, y
  <2>8. x = y
    <3>1. (Word * x) \in Nat /\ 0 \in 0 .. Word - 1 BY <1>0, <2>6
    <3>2. ((Word * x) \div Word) = x BY <1>0, <2>6, <3>1, OnlyQuotient
    <3>3. ((Word * x) \div Word) = y BY <1>0, <2>6, <2>7, <3>1, OnlyQuotient
    <3> QED BY <3>2, <3>3
  <2> QED BY <2>8 DEF x, y
<1> DEFINE DE(p) == Digit(e, ws, p)
           DF(p) == Digit(f, ws, p)
           inc == [p \in 2 .. T |-> IF p = T THEN b ELSE IF p = T - 1 THEN j
                                    ELSE IF p > Len(ws) THEN k ELSE 0]
<1>9. /\ DE(T) = mE /\ DE(T - 1) = dE /\ DF(T) = mF /\ DF(T - 1) = dF
      /\ \A p \in 1 .. T - 2 :
           /\ p <= Len(ws) => DE(p) = ws[p] /\ DF(p) = ws[p]
           /\ p = Len(ws) + 1 => DE(p) = e.cache + Carry(e) /\ DF(p) = e.cache + Carry(f)
           /\ p > Len(ws) + 1 => /\ DE(p) = IF Overflow(e) THEN 0 ELSE Word - 1
                                 /\ DF(p) = IF Overflow(f) THEN 0 ELSE Word - 1
  BY <1>2, DigitPlaces DEF dE, mE, dF, mF
<1> HIDE DEF DE, DF
<1>10. inc \in [2 .. T -> Nat]
  <2>1. b \in Nat /\ j \in Nat /\ k \in Nat /\ 0 \in Nat BY <1>6, <1>7
  <2> HIDE DEF T
  <2> QED BY <2>1
<1>11. /\ inc[T] = b
       /\ T > 2 => inc[T - 1] = j
       /\ \A p \in 2 .. T - 2 : inc[p] = IF p > Len(ws) THEN k ELSE 0
  <2>1. T \in 2 .. T /\ (T > 2 => T - 1 \in 2 .. T /\ T - 1 # T) BY <1>3
  <2>2. \A p \in 2 .. T - 2 : p \in 2 .. T /\ p # T /\ p # T - 1 BY <1>3
  <2> HIDE DEF T
  <2> QED BY <2>1, <2>2
<1> HIDE DEF inc, T
\* In the run behind the cached word, a carry turns all ones into zeros.
<1>12. ASSUME NEW p \in 1 .. T - 2, p > Len(ws) + 1
       PROVE  DE(p) \in Nat /\ DF(p) \in Nat /\ k * Word + DF(p) = DE(p) + k
  <2>1. /\ DE(p) = (IF Overflow(e) THEN 0 ELSE Word - 1)
        /\ DF(p) = (IF Overflow(f) THEN 0 ELSE Word - 1)
    BY <1>9, <1>12
  <2>2. k = Carry(f) - Carry(e) BY DEF k
  <2>3. CASE k = 0
    <3>1. Overflow(e) <=> Overflow(f) BY <1>4, <2>2, <2>3 DEF Carry
    <3> QED BY <1>0, <2>1, <2>3, <3>1
  <2>4. CASE k = 1
    <3>1. ~Overflow(e) /\ Overflow(f) BY <1>4, <2>2, <2>4 DEF Carry
    <3>2. DE(p) = Word - 1 /\ DF(p) = 0 BY <2>1, <3>1
    <3> QED BY <1>0, <2>4, <3>2
  <2> QED BY <1>6, <2>3, <2>4
<1>13. ASSUME NEW p \in 1 .. T - 2, p = Len(ws) + 1
       PROVE  DE(p) \in Nat /\ DF(p) = DE(p) + k
  <2>1. DE(p) = e.cache + Carry(e) /\ DF(p) = e.cache + Carry(f) BY <1>9, <1>13
  <2>2. k = Carry(f) - Carry(e) BY DEF k
  <2> QED BY <1>1, <1>4, <2>1, <2>2, SMTT(30)
<1>14. ASSUME NEW p \in 1 .. T - 2, p <= Len(ws)
       PROVE  DE(p) \in Nat /\ DF(p) = DE(p)
  <2>1. DE(p) = ws[p] /\ DF(p) = ws[p] BY <1>9, <1>14
  <2>2. p \in 1 .. Len(ws) BY <1>3, <1>14
  <2>3. ws[p] \in 0 .. Word - 1 BY <2>2, ElementOfSeq
  <2> QED BY <2>1, <2>3
<1>15. ASSUME NEW p \in 3 .. T
       PROVE  inc[p - 1] * Word + DF(p) = DE(p) + inc[p]
  <2>0. p \in Nat /\ ~e.first /\ T = Len(ws) + e.count + 3 /\ T > 2
        /\ (p = T \/ p = T - 1 \/ p \in 3 .. T - 2)
    BY <1>3
  <2>1. CASE p = T
    <3>1. inc[p - 1] = j /\ inc[p] = b /\ DF(p) = mF /\ DE(p) = mE
      BY <1>9, <1>11, <2>0, <2>1
    <3> QED BY <1>0, <1>5, <1>7, <3>1
  <2>2. CASE p = T - 1
    <3>1. p - 1 \in 2 .. T - 2 /\ p - 1 > Len(ws) BY <1>1, <1>3, <2>0, <2>2, SMTT(30)
    <3>2. inc[p - 1] = k /\ inc[p] = j /\ DF(p) = dF /\ DE(p) = dE
      BY <1>9, <1>11, <2>0, <2>2, <3>1
    <3> QED BY <1>8, <3>2
  <2>3. CASE p \in 3 .. T - 2
    <3>0. p \in 1 .. T - 2 /\ p \in 2 .. T - 2 /\ p - 1 \in 2 .. T - 2 BY <1>3, <2>3
    <3>1. CASE p <= Len(ws)
      <4>1. ~(p > Len(ws)) /\ ~(p - 1 > Len(ws)) BY <1>3, <2>0, <3>1
      <4>2. inc[p] = 0 /\ inc[p - 1] = 0 BY <1>11, <3>0, <4>1
      <4>3. DE(p) \in Nat /\ DF(p) = DE(p) BY <1>14, <3>0, <3>1
      <4> QED BY <1>0, <4>2, <4>3
    <3>2. CASE p = Len(ws) + 1
      <4>1. p > Len(ws) /\ ~(p - 1 > Len(ws)) BY <1>3, <2>0, <3>2
      <4>2. inc[p] = k /\ inc[p - 1] = 0 BY <1>11, <3>0, <4>1
      <4>3. DE(p) \in Nat /\ DF(p) = DE(p) + k BY <1>13, <3>0, <3>2
      <4> QED BY <1>0, <1>6, <4>2, <4>3
    <3>3. CASE p > Len(ws) + 1
      <4>1. p > Len(ws) /\ p - 1 > Len(ws) BY <1>3, <2>0, <3>3
      <4>2. inc[p] = k /\ inc[p - 1] = k BY <1>11, <3>0, <4>1
      <4> QED BY <1>12, <3>0, <3>3, <4>2
    <3> QED BY <1>3, <2>0, <3>1, <3>2, <3>3
  <2> QED BY <2>0, <2>1, <2>2, <2>3
<1>16. DF(1) * Word + DF(2) = DE(1) * Word + DE(2) + inc[2]
  <2>1. CASE e.first
    <3>1. T = 2 /\ k = 0
      <4>1. Carry(f) = 0 /\ Carry(e) = 0
        BY <1>0, <1>1, <2>1 DEF Carry, Overflow
      <4> QED BY <1>3, <2>1, <4>1 DEF k
    <3>2. DF(1) = dF /\ DF(2) = mF /\ DE(1) = dE /\ DE(2) = mE /\ inc[2] = b
      BY <1>9, <1>11, <3>1
    <3>3. LowPart(e) + b = LowPart(f) BY <1>0, <1>4, <1>6, <3>1
    <3>4. Word * dE = dE * Word /\ Word * dF = dF * Word
          /\ dE * Word \in Nat /\ dF * Word \in Nat
      BY <1>0, <1>5
    <3> QED BY <1>5, <3>2, <3>3, <3>4
  <2>2. CASE ~e.first /\ T = 3
    <3>1. Len(ws) = 0 /\ 1 \in 1 .. T - 2 BY <1>1, <1>3, <2>2
    <3>2. DE(1) \in Nat /\ DF(1) = DE(1) + k BY <1>13, <3>1
    <3>3. DE(2) = dE /\ DF(2) = dF /\ inc[2] = j BY <1>9, <1>11, <2>2
    <3>4. (DE(1) + k) * Word = DE(1) * Word + k * Word BY <1>0, <1>6, <3>2
    <3>5. DE(1) * Word \in Nat /\ k * Word \in Nat BY <1>0, <1>6, <3>2
    <3> QED BY <1>5, <1>7, <1>8, <3>2, <3>3, <3>4, <3>5, SMTT(30)
  <2>3. CASE ~e.first /\ T > 3
    <3>1. 1 \in 1 .. T - 2 /\ 2 \in 1 .. T - 2 /\ 2 \in 2 .. T - 2 BY <1>3, <2>3
    <3>2. CASE Len(ws) = 0
      <4>1. DE(1) \in Nat /\ DF(1) = DE(1) + k BY <1>13, <3>1, <3>2
      <4>2. DE(2) \in Nat /\ DF(2) \in Nat /\ k * Word + DF(2) = DE(2) + k
        BY <1>12, <3>1, <3>2
      <4>3. inc[2] = k BY <1>11, <3>1, <3>2
      <4>4. (DE(1) + k) * Word = DE(1) * Word + k * Word BY <1>0, <1>6, <4>1
      <4>5. DE(1) * Word \in Nat /\ k * Word \in Nat BY <1>0, <1>6, <4>1
      <4> DEFINE u == DE(1) * Word
                 v == k * Word
      <4>6. /\ DF(1) * Word = u + v /\ v + DF(2) = DE(2) + k /\ u \in Nat /\ v \in Nat
            /\ DE(1) * Word = u /\ k \in Nat /\ DE(2) \in Nat /\ DF(2) \in Nat
        BY <1>6, <4>1, <4>2, <4>4, <4>5
      <4> HIDE DEF u, v
      <4>7. (u + v) + DF(2) = (u + DE(2)) + k BY <4>6, SMTT(30)
      <4> QED BY <4>3, <4>6, <4>7
    <3>3. CASE Len(ws) = 1
      <4>1. DE(1) \in Nat /\ DF(1) = DE(1) BY <1>14, <3>1, <3>3
      <4>2. DE(2) \in Nat /\ DF(2) = DE(2) + k BY <1>13, <3>1, <3>3
      <4>3. inc[2] = k BY <1>11, <3>1, <3>3
      <4>4. DE(1) * Word \in Nat BY <1>0, <4>1
      <4> QED BY <1>6, <4>1, <4>2, <4>3, <4>4
    <3>4. CASE Len(ws) >= 2
      <4>1. DE(1) \in Nat /\ DF(1) = DE(1) BY <1>14, <3>1, <3>4
      <4>2. DE(2) \in Nat /\ DF(2) = DE(2) BY <1>14, <3>1, <3>4
      <4>3. inc[2] = 0
        <5>1. ~(2 > Len(ws)) BY <1>3, <3>4
        <5> QED BY <1>11, <3>1, <5>1
      <4>4. DE(1) * Word \in Nat BY <1>0, <4>1
      <4> QED BY <4>1, <4>2, <4>3, <4>4
    <3>5. Len(ws) = 0 \/ Len(ws) = 1 \/ Len(ws) >= 2
      <4>1. \A n \in Nat : n = 0 \/ n = 1 \/ n >= 2 OBVIOUS
      <4> QED BY <1>3, <4>1
    <3> QED BY <3>2, <3>3, <3>4, <3>5
  <2>4. T = 3 \/ T > 3 \/ e.first BY <1>1, <1>3
  <2> QED BY <2>1, <2>2, <2>3, <2>4
<1> QED BY <1>2, <1>10, <1>11, <1>15, <1>16 DEF T, DE, DF

-----------------------------------------------------------------------------
(***************************************************************************)
(* The path and the codes along it.                                        *)
(***************************************************************************)
\* A point has a word of range once normalised, and both bits a part of it.
LEMMA PointParts ==
  ASSUME NEW point, point.range \in 1 .. Code - 1, GoodModel(point.model),
         NEW bit \in Bit
  PROVE  /\ FullRange(point) \in Word .. Code - 1
         /\ IsShort(point) => FullRange(point) = (point.range * Word) % Code
         /\ PointBound(point) \in 1 .. FullRange(point) - 1
         /\ Onward(point, bit).range \in 1 .. Code - 1
         /\ GoodModel(Onward(point, bit).model)
<1> DEFINE r == point.range
           full == FullRange(point)
           bound == PointBound(point)
<1>0. /\ Word \in Nat \ {0} /\ Word >= 2 /\ Code \in Nat /\ Code >= 2 * Word
  BY CodeFacts
<1>1. full \in Word .. Code - 1 /\ (IsShort(point) => full = (r * Word) % Code)
  <2>1. CASE r < Word
    <3>1. r \in Nat /\ r >= 1 BY <1>0
    <3>2. (r * Word) % Code = r * Word BY <2>1, <3>1, CutMultiple
    <3>3. (r * Word) % Code \in 0 .. Code - Word BY <3>1, CutMultiple
    <3>4. 1 * Word <= r * Word BY <1>0, <3>1, ProductGrows
    <3>5. full = r * Word BY <2>1 DEF FullRange, IsShort
    <3> HIDE DEF r, full
    <3>6. full \in 0 .. Code - Word /\ full >= Word BY <1>0, <3>2, <3>3, <3>4, <3>5
    <3>7. full \in Word .. Code - 1 BY <1>0, <3>6
    <3> QED BY <3>2, <3>5, <3>7
  <2>2. CASE ~(r < Word)
    <3>1. full = r /\ ~IsShort(point) BY <2>2 DEF FullRange, IsShort
    <3> QED BY <1>0, <2>2, <3>1
  <2> QED BY <2>1, <2>2
<1> HIDE DEF full
<1>2. bound \in 1 .. full - 1 BY <1>1, BoundInside DEF PointBound, full
<1>3. Onward(point, bit).range = IF bit = 0 THEN bound ELSE full - bound
  BY DEF Onward, full
<1>4. GoodModel(Onward(point, bit).model) BY LearnedIsGood DEF Onward
<1> HIDE DEF bound
<1>5. Onward(point, bit).range \in 1 .. Code - 1 BY <1>0, <1>1, <1>2, <1>3
<1> QED BY <1>1, <1>2, <1>4, <1>5 DEF full, bound

\* The low end of the range is never passed and the high end never reached: at
\* the end the code is 0, and what lies below the range behind a decision lies
\* below the range in front of it.
LEMMA CodesBelowRange ==
  ASSUME NEW path, NEW codes, IsPath(path), AreCodes(codes, path),
         bits \in Seq(Bit), \A p \in 1 .. Total(enc, words) : Digit(enc, words, p) \in Nat,
         path[Len(bits)].shifts + 2 <= Total(enc, words), Total(enc, words) \in Nat
  PROVE  \A k \in 0 .. Len(bits) : codes[k] < path[k].range
<1> DEFINE n == Len(bits)
           Wrong == {k \in 0 .. n : ~(codes[k] < path[k].range)}
           Moved == {k \in 1 .. n + 1 : k - 1 \in Wrong}
<1> SUFFICES ASSUME Wrong # {} PROVE FALSE OBVIOUS
<1>0. /\ Word \in Nat \ {0} /\ Word >= 2 /\ Code \in Nat /\ Code >= 2 * Word
      /\ n \in Nat
  BY CodeFacts, LenProperties
<1>1. PICK m \in Moved : \A k \in Moved : k <= m
  <2>1. PICK k \in Wrong : TRUE OBVIOUS
  <2>2. k \in Nat /\ k + 1 \in 1 .. n + 1 /\ (k + 1) - 1 = k BY <1>0, <2>1
  <2>3. k + 1 \in Moved BY <2>1, <2>2
  <2>4. Moved \in SUBSET (1 .. n + 1) /\ n + 1 \in Nat BY <1>0
  <2> HIDE DEF Moved, n
  <2> QED BY <2>3, <2>4, LargestIndex
<1> DEFINE k == m - 1
<1>2. k \in 0 .. n /\ k \in Wrong /\ k + 1 = m BY <1>0, <1>1
<1>3. k # n
  <2>1. codes[n] = 0 BY DEF AreCodes
  <2>2. path[n].range \in 1 .. Code - 1 BY <1>0 DEF IsPath
  <2>3. codes[n] < path[n].range BY <1>0, <2>1, <2>2
  <2>4. n \notin Wrong BY <2>3
  <2> QED BY <1>2, <2>4
<1>4. m \in 1 .. n /\ m \in 0 .. n BY <1>0, <1>2, <1>3
<1>5. codes[m] < path[m].range
  <2>1. m \notin Wrong
    <3>1. m \in Wrong => m + 1 \in Moved
      <4>1. m + 1 \in 1 .. n + 1 /\ (m + 1) - 1 = m BY <1>0, <1>4
      <4> QED BY <4>1
    <3>2. m \in Nat BY <1>4
    <3> HIDE DEF Moved
    <3> QED BY <1>1, <3>1, <3>2
  <2> QED BY <1>4, <2>1
<1> HIDE DEF Moved, Wrong
<1> DEFINE pt    == path[k]
           bound == PointBound(pt)
           full  == FullRange(pt)
           bit   == bits[m]
           d     == Digit(enc, words, path[m].shifts + 2)
<1>6. /\ bit \in Bit /\ pt.range \in 1 .. Code - 1 /\ pt.shifts \in Nat
      /\ GoodModel(pt.model)
      /\ path[m] = Onward(pt, bit)
      /\ path[m].shifts \in Nat /\ path[m].shifts <= path[n].shifts
      /\ path[n].shifts \in Nat
  <2>1. bit \in Bit BY <1>4, ElementOfSeq
  <2>2. 0 \in 0 .. n /\ n \in 0 .. n BY <1>0
  <2> HIDE DEF bit, n, k
  <2> QED BY <1>2, <1>4, <2>1, <2>2 DEF IsPath, bit, n, k
<1>7. full \in Word .. Code - 1 /\ bound \in 1 .. full - 1
  <2> HIDE DEF pt, bit
  <2> QED BY <1>6, PointParts
<1>8. path[m].range = IF bit = 0 THEN bound ELSE full - bound
  <2> HIDE DEF pt, bit
  <2> QED BY <1>6 DEF Onward
<1>9. /\ codes[m] \in Nat /\ codes[k] \in Nat
      /\ codes[m] + (IF bit = 0 THEN 0 ELSE bound) =
           IF IsShort(pt) THEN codes[k] * Word + d ELSE codes[k]
  <2>1. \A q \in 0 .. n : codes[q] \in Nat BY DEF AreCodes
  <2>2. codes[m] \in Nat /\ codes[k] \in Nat BY <1>2, <1>4, <2>1
  <2>3. codes[m] + (IF bits[m] = 0 THEN 0 ELSE PointBound(path[m - 1])) =
           IF IsShort(path[m - 1]) THEN codes[m - 1] * Word + d ELSE codes[m - 1]
    BY <1>4 DEF AreCodes
  <2> QED BY <2>2, <2>3
<1>10. d \in Nat
  <2>1. path[m].shifts + 2 \in 1 .. Total(enc, words) BY <1>6
  <2> QED BY <2>1
<1> HIDE DEF n, k, bit, d
<1>11. codes[m] + (IF bit = 0 THEN 0 ELSE bound) < full
  <2> HIDE DEF pt, bound, full
  <2> QED BY <1>0, <1>5, <1>7, <1>8, <1>9
<1>12. codes[k] < pt.range
  <2>1. CASE ~IsShort(pt)
    <3>1. full = pt.range BY <2>1 DEF FullRange
    <3> QED BY <1>9, <1>11, <2>1, <3>1
  <2>2. CASE IsShort(pt)
    <3>1. full = pt.range * Word BY <2>2 DEF FullRange
    <3>2. codes[k] * Word + d < pt.range * Word BY <1>9, <1>11, <2>2, <3>1
    <3>3. SUFFICES ASSUME pt.range <= codes[k] PROVE FALSE BY <1>6, <1>9
    <3>4. pt.range \in Nat BY <1>6
    <3>5. pt.range * Word <= codes[k] * Word BY <1>0, <1>9, <3>3, <3>4, ProductGrows
    <3>6. pt.range * Word \in Nat /\ codes[k] * Word \in Nat BY <1>0, <1>9, <3>4
    <3> DEFINE u == pt.range * Word
               v == codes[k] * Word
    <3>7. u \in Nat /\ v \in Nat /\ u <= v /\ v + d < u BY <3>2, <3>5, <3>6
    <3> HIDE DEF u, v
    <3> QED BY <1>10, <3>7
  <2> QED BY <2>1, <2>2
<1> QED BY <1>2, <1>12 DEF Wrong

\* The digits of the encoder are digits, and while it has nothing settled
\* nothing is written.
LEMMA EncoderDigits ==
  ASSUME EncoderInv, enc.first => words = <<>>
  PROVE  /\ enc \in EncType /\ words \in Seq(0 .. Word - 1)
         /\ enc.cache + 1 < Word /\ enc.low < 2 * Code
         /\ enc.first => enc.low < Code
         /\ enc.first /\ enc.range > 0 /\ bits # <<>> => enc.low < Code - Word
         /\ Total(enc, words) \in Nat /\ Total(enc, words) >= 2
         /\ \A p \in 1 .. Total(enc, words) : Digit(enc, words, p) \in 0 .. Word - 1
<1>0. /\ Word \in Nat \ {0} /\ Word >= 2 /\ Code \in Nat /\ Code >= 2 * Word
  BY CodeFacts
<1>1. enc \in EncType /\ words \in Seq(0 .. Word - 1) BY DEF EncoderInv
<1>2. enc.low \in Nat /\ enc.range \in Nat BY <1>0, <1>1 DEF EncType
<1>3. /\ enc.cache + 1 < Word /\ enc.low < 2 * Code
      /\ enc.first => enc.low < Code
      /\ enc.first /\ enc.range > 0 /\ bits # <<>> => enc.low < Code - Word
  <2>1. CASE bits = <<>>
    <3>1. enc = NewEncoder BY <2>1 DEF EncoderInv
    <3>2. enc.cache = 0 /\ enc.low = 0 BY <3>1 DEF NewEncoder
    <3> QED BY <1>0, <2>1, <3>2
  <2>2. CASE bits # <<>>
    <3>1. Roomy(enc) BY <2>2 DEF EncoderInv
    <3>2. /\ enc.cache + 1 < Word /\ enc.low + enc.range <= 2 * Code - 2 * Word
          /\ enc.first => enc.low + enc.range <= Code - Word
      BY <3>1 DEF Roomy
    <3> QED BY <1>0, <1>2, <3>2
  <2> QED BY <2>1, <2>2
<1>4. Total(enc, words) \in Nat /\ Total(enc, words) >= 2 BY <1>1, DigitPlaces
<1>5. \A p \in 1 .. Total(enc, words) : Digit(enc, words, p) \in 0 .. Word - 1
  BY <1>1, <1>3, DigitsAreWords
<1> QED BY <1>1, <1>3, <1>4, <1>5

\* Normalising appends a digit 0 where it has to, and changes none.
LEMMA NormalizingKeepsDigits ==
  ASSUME EncoderInv, enc.first => words = <<>>, flushed = 0
  PROVE  LET e  == Normalized(enc)
             ws == words \o NormalizeEmits(enc)
             T  == Total(enc, words)
         IN  /\ e \in EncType /\ ws \in Seq(0 .. Word - 1)
             /\ e.first => ws = <<>>
             /\ Total(e, ws) = IF enc.range < Word THEN T + 1 ELSE T
             /\ \A p \in 1 .. T : Digit(e, ws, p) = Digit(enc, words, p)
             /\ enc.range < Word => Digit(e, ws, T + 1) = 0
             /\ e.range = IF enc.range < Word THEN (enc.range * Word) % Code ELSE enc.range
<1>0. /\ Word \in Nat \ {0} /\ Word >= 2 /\ Code \in Nat /\ Code >= 2 * Word
  BY CodeFacts
<1>1. /\ enc \in EncType /\ words \in Seq(0 .. Word - 1)
      /\ enc.cache + 1 < Word /\ enc.low < 2 * Code /\ enc.range > 0
      /\ enc.first /\ enc.range > 0 /\ bits # <<>> => enc.low < Code - Word
  BY EncoderDigits DEF EncoderInv
<1>2. CASE enc.range < Word
  <2>1. bits # <<>>
    <3>1. bits = <<>> => enc.range = Code - 1 BY DEF EncoderInv, NewEncoder
    <3> QED BY <1>0, <1>2, <3>1
  <2>2. Roomy(enc) BY <2>1 DEF EncoderInv
  <2>3. /\ Normalized(enc) = Shifted(enc) /\ NormalizeEmits(enc) = EmittedBy(enc)
    BY <1>2 DEF Normalized, NormalizeEmits
  <2>4. /\ Roomy(Shifted(enc)) /\ ~Shifted(enc).first
        /\ Shifted(enc).range = (enc.range * Word) % Code
    BY <1>1, <2>2, ShiftLeavesRoom
  <2>5. words \o EmittedBy(enc) \in Seq(0 .. Word - 1)
    BY <1>1, EmitsWords, ConcatProperties
  <2>6. enc.first => words = <<>> /\ enc.low < Code - Word BY <1>1, <2>1
  <2>7. /\ Total(Shifted(enc), words \o EmittedBy(enc)) = Total(enc, words) + 1
        /\ Digit(Shifted(enc), words \o EmittedBy(enc), Total(enc, words) + 1) = 0
        /\ \A p \in 1 .. Total(enc, words) :
             Digit(Shifted(enc), words \o EmittedBy(enc), p) = Digit(enc, words, p)
    BY <1>1, <2>6, ShiftAppends
  <2>8. Shifted(enc) \in EncType BY <2>4 DEF Roomy
  <2> QED BY <1>2, <2>3, <2>4, <2>5, <2>7, <2>8
<1>3. CASE ~(enc.range < Word)
  <2>1. Normalized(enc) = enc /\ NormalizeEmits(enc) = <<>>
    BY <1>3 DEF Normalized, NormalizeEmits
  <2>2. words \o <<>> = words BY <1>1, ConcatEmptySeq
  <2> QED BY <1>1, <1>3, <2>1, <2>2
<1> QED BY <1>2, <1>3

\* At the start both are at the only point there is.
LEMMA InitInStep == Init => StepInv
<1> SUFFICES ASSUME Init PROVE StepInv OBVIOUS
<1>0. /\ Word \in Nat \ {0} /\ Word >= 2 /\ Code \in Nat /\ Code >= 2 * Word
      /\ Len(bits) = 0 /\ Len(decoded) = 0
  BY CodeFacts DEF Init
<1>1. IInv BY InitIInv
<1>2. /\ enc = NewEncoder /\ words = <<>> /\ flushed = 0 /\ dmodel = model
      /\ dec = [range |-> Code - 1, code |-> 0, pos |-> 0]
      /\ decoded = <<>> /\ GoodModel(model)
  BY <1>1 DEF Init, NewEncoder, IInv, EncoderInv
<1>3. Total(enc, words) = 2 /\ Digit(enc, words, 1) = 0 /\ Digit(enc, words, 2) = 0
  <2>1. enc.low = 0 /\ enc.first = TRUE BY <1>2 DEF NewEncoder
  <2>2. ~Overflow(enc) BY <1>0, <2>1 DEF Overflow
  <2>3. LowPart(enc) = 0 /\ Total(enc, words) = 2 BY <2>1, <2>2 DEF LowPart, Total
  <2>4. (0 % Word) = 0 /\ (0 \div Word) = 0
    <3>1. 0 \in Nat /\ 0 \in 0 .. Word - 1 /\ 0 = Word * 0 + 0 BY <1>0
    <3> QED BY <1>0, <3>1, OnlyQuotient
  <2>5. enc \in EncType /\ words \in Seq(0 .. Word - 1) BY <1>1 DEF IInv, EncoderInv
  <2>6. Digit(enc, words, 2) = 0 /\ Digit(enc, words, 2 - 1) = 0
    BY <2>3, <2>4, <2>5, DigitPlaces
  <2> QED BY <2>3, <2>6
<1> DEFINE path  == [k \in {0} |-> [shifts |-> 0, range |-> Code - 1, model |-> model]]
           codes == [k \in {0} |-> 0]
<1>4. 0 .. Len(bits) = {0} BY <1>0
<1>5. IsPath(path)
  <2>1. Code - 1 \in 1 .. Code - 1 BY <1>0
  <2>2. \A k \in 1 .. Len(bits) : FALSE BY <1>0
  <2> QED BY <1>0, <1>2, <1>4, <2>1, <2>2 DEF IsPath
<1>6. AreCodes(codes, path)
  <2>1. \A k \in 1 .. Len(bits) : FALSE BY <1>0
  <2>2. codes \in [0 .. Len(bits) -> Nat] BY <1>4
  <2>3. 0 * Word + 0 = 0 BY <1>0
  <2> QED BY <1>0, <1>3, <2>1, <2>2, <2>3 DEF AreCodes
<1>7. EncoderAt(path)
  <2>1. enc.range = Code - 1 BY <1>2 DEF NewEncoder
  <2> QED BY <1>0, <1>2, <1>3, <2>1 DEF EncoderAt
<1>8. DecoderAt(path, codes)
  <2>1. \A k \in 1 .. Len(decoded) : FALSE BY <1>0
  <2>2. Len(decoded) \in 0 .. Len(bits) BY <1>0
  <2> QED BY <1>0, <1>2, <2>1, <2>2 DEF DecoderAt
<1> QED BY <1>1, <1>5, <1>6, <1>7, <1>8 DEF StepInv, InStep

-----------------------------------------------------------------------------
(***************************************************************************)
(* Every step keeps both sides in step.                                    *)
(***************************************************************************)
\* A decision more: the path goes one point further, and every code takes what
\* the bound added to low carries into the digits it is made of.
LEMMA EncodeKeepsStep ==
  ASSUME IInv, NEW path, NEW codes, InStep(path, codes),
         NEW bit \in Bit, EncodeBit(bit)
  PROVE  \E onward, sums : InStep(onward, sums)'
<1> DEFINE n  == Len(bits)
           e  == Normalized(enc)
           ws == words \o NormalizeEmits(enc)
           T  == Total(enc, words)
           U  == Total(e, ws)
           pt == path[n]
           bound == PointBound(pt)
           b  == IF bit = 0 THEN 0 ELSE bound
<1>0. /\ Word \in Nat \ {0} /\ Word >= 2 /\ Code \in Nat /\ Code >= 2 * Word
      /\ n \in Nat
  BY CodeFacts, LenProperties DEF IInv, EncoderInv
<1>1. /\ flushed = 0 /\ words' = ws /\ bits' = Append(bits, bit)
      /\ enc' = Narrowed(e, bit, Bound(e.range, model))
      /\ model' = Learned(model, bit)
      /\ flushed' = 0 /\ decoded' = decoded /\ dmodel' = dmodel /\ dec' = dec
  BY DEF EncodeBit, MayCode
<1>2. /\ IsPath(path) /\ AreCodes(codes, path) /\ EncoderAt(path)
      /\ DecoderAt(path, codes) /\ EncoderInv /\ bits \in Seq(Bit)
  BY DEF InStep, IInv, EncoderInv
<1>3. /\ enc.first => words = <<>>
      /\ model = pt.model /\ enc.range = pt.range /\ T = pt.shifts + 2
  <2>1. T = pt.shifts + 2 + 0 /\ pt.shifts \in Nat BY <1>0, <1>1, <1>2 DEF EncoderAt, IsPath
  <2>2. T = pt.shifts + 2
    <3> HIDE DEF T, pt
    <3> QED BY <2>1
  <2> QED BY <1>1, <1>2, <2>2 DEF EncoderAt
<1>4. /\ pt.range \in 1 .. Code - 1 /\ GoodModel(pt.model) /\ pt.shifts \in Nat
      /\ path[0].shifts = 0 /\ path[0].range = Code - 1
      /\ DOMAIN path = 0 .. n
      /\ \A k \in 0 .. n : /\ path[k].shifts \in Nat /\ path[k].range \in 1 .. Code - 1
                           /\ GoodModel(path[k].model) /\ path[k].shifts <= pt.shifts
      /\ \A k \in 1 .. n : path[k] = Onward(path[k - 1], bits[k])
  <2>1. n \in 0 .. n BY <1>0
  <2> QED BY <1>2, <2>1 DEF IsPath
<1>5. /\ e \in EncType /\ ws \in Seq(0 .. Word - 1) /\ (e.first => ws = <<>>)
      /\ U = (IF IsShort(pt) THEN T + 1 ELSE T)
      /\ \A p \in 1 .. T : Digit(e, ws, p) = Digit(enc, words, p)
      /\ IsShort(pt) => Digit(e, ws, T + 1) = 0
      /\ e.range = IF IsShort(pt) THEN (pt.range * Word) % Code ELSE pt.range
  BY <1>1, <1>2, <1>3, NormalizingKeepsDigits DEF IsShort
<1> DEFINE next == Onward(pt, bit)
<1>6. /\ FullRange(pt) = e.range /\ e.range \in Word .. Code - 1
      /\ bound = Bound(e.range, model) /\ bound \in 1 .. e.range - 1
      /\ next.range \in 1 .. Code - 1 /\ GoodModel(next.model)
  <2>1. /\ FullRange(pt) \in Word .. Code - 1
        /\ IsShort(pt) => FullRange(pt) = (pt.range * Word) % Code
        /\ bound \in 1 .. FullRange(pt) - 1
        /\ next.range \in 1 .. Code - 1 /\ GoodModel(next.model)
    <3> HIDE DEF pt
    <3> QED BY <1>4, PointParts
  <2>2. FullRange(pt) = e.range BY <1>5, <2>1 DEF FullRange
  <2> QED BY <1>3, <2>1, <2>2 DEF PointBound
<1> HIDE DEF e, ws, T, U, pt, bound, next
<1>7. /\ next.shifts = IF IsShort(pt) THEN pt.shifts + 1 ELSE pt.shifts
      /\ next.range = IF bit = 0 THEN bound ELSE e.range - bound
      /\ next.model = model'
  BY <1>1, <1>3, <1>6 DEF Onward, bound, next
<1>8. /\ enc' \in EncType /\ enc'.low = e.low + b /\ enc'.range = next.range
      /\ enc'.cache = e.cache /\ enc'.count = e.count /\ enc'.first = e.first
  <2>1. enc' = Narrowed(e, bit, bound) BY <1>1, <1>6
  <2>2. /\ enc' \in EncType /\ enc'.cache = e.cache /\ enc'.count = e.count
        /\ enc'.first = e.first
    BY <1>5, <1>6, <2>1, Narrowing
  <2>3. e.low \in Nat /\ e.range \in Nat BY <1>0, <1>5, <1>6 DEF EncType
  <2>4. CASE bit = 0
    <3>1. enc' = [e EXCEPT !.range = bound] BY <2>1, <2>4 DEF Narrowed
    <3>2. enc'.low = e.low /\ enc'.range = bound BY <1>5, <3>1 DEF EncType
    <3> QED BY <1>7, <2>2, <2>3, <2>4, <3>2
  <2>5. CASE bit # 0
    <3>1. enc' = [e EXCEPT !.low = @ + bound, !.range = @ - bound]
      BY <2>1, <2>5 DEF Narrowed
    <3>2. enc'.low = e.low + bound /\ enc'.range = e.range - bound
      BY <1>5, <3>1 DEF EncType
    <3> QED BY <1>7, <2>2, <2>5, <3>2
  <2> QED BY <2>4, <2>5
<1>9. b \in Nat /\ (bit = 0 => b = 0) /\ (bit # 0 => b = bound) BY <1>6
<1>10. enc'.low < 2 * Code /\ (e.first => ws = <<>> /\ enc'.low < Code)
  <2>1. EncoderInv' BY <1>2, EncodeBitKeepsInv
  <2>2. bits' # <<>> BY <1>1, <1>2, AppendProperties
  <2>3. Roomy(enc') BY <2>1, <2>2 DEF EncoderInv
  <2>4. /\ enc'.low + enc'.range <= 2 * Code - 2 * Word
        /\ enc'.first => enc'.low + enc'.range <= Code - Word
    BY <2>3 DEF Roomy
  <2>5. enc'.low \in Nat /\ enc'.range \in Nat BY <1>0, <1>8 DEF EncType
  <2>6. enc'.low < 2 * Code /\ (e.first => enc'.low < Code) BY <1>0, <1>8, <2>4, <2>5
  <2> QED BY <1>5, <2>6
<1>11. PICK inc \in [2 .. U -> Nat] :
         /\ Total(enc', ws) = U
         /\ inc[U] = b
         /\ Digit(enc', ws, 1) * Word + Digit(enc', ws, 2) =
              Digit(e, ws, 1) * Word + Digit(e, ws, 2) + inc[2]
         /\ \A p \in 3 .. U :
              inc[p - 1] * Word + Digit(enc', ws, p) = Digit(e, ws, p) + inc[p]
  <2> HIDE DEF b
  <2>1. PICK f : f = enc' OBVIOUS
  <2>2. /\ f \in EncType /\ f.low = e.low + b /\ f.cache = e.cache /\ f.count = e.count
        /\ f.first = e.first /\ f.low < 2 * Code /\ (e.first => ws = <<>> /\ f.low < Code)
    BY <1>8, <1>10, <2>1
  <2>3. /\ Total(f, ws) = Total(e, ws)
        /\ \E inc \in [2 .. Total(e, ws) -> Nat] :
              /\ inc[Total(e, ws)] = b
              /\ Digit(f, ws, 1) * Word + Digit(f, ws, 2) =
                   Digit(e, ws, 1) * Word + Digit(e, ws, 2) + inc[2]
              /\ \A p \in 3 .. Total(e, ws) :
                   inc[p - 1] * Word + Digit(f, ws, p) = Digit(e, ws, p) + inc[p]
    BY <1>5, <1>9, <2>2, AddingCarries
  <2> QED BY <2>1, <2>3 DEF U
<1> HIDE DEF b
<1>12. /\ T \in Nat /\ T >= 2 /\ U \in Nat /\ U >= 2 /\ U = next.shifts + 2
       /\ next.shifts \in Nat /\ pt.shifts <= next.shifts
  <2>1. T \in Nat /\ T >= 2 BY <1>2, <1>3, EncoderDigits DEF T
  <2> QED BY <1>3, <1>4, <1>5, <1>7, <2>1, SMTT(30)
<1>d. PICK onward, sums :
        /\ onward = [k \in 0 .. n + 1 |-> IF k <= n THEN path[k] ELSE next]
        /\ sums   = [k \in 0 .. n + 1 |-> IF k <= n THEN codes[k] + inc[path[k].shifts + 2]
                                         ELSE 0]
  OBVIOUS
<1>13. /\ Len(bits') = n + 1 /\ bits'[n + 1] = bit
       /\ \A k \in 1 .. n : bits'[k] = bits[k]
  BY <1>1, <1>2, AppendProperties
<1>14. /\ onward[n + 1] = next /\ sums[n + 1] = 0
       /\ \A k \in 0 .. n : /\ onward[k] = path[k]
                            /\ sums[k] = codes[k] + inc[path[k].shifts + 2]
  <2>1. n + 1 \in 0 .. n + 1 /\ ~(n + 1 <= n) BY <1>0
  <2>2. \A k \in 0 .. n : k \in 0 .. n + 1 /\ k <= n BY <1>0
  <2> QED BY <1>d, <2>1, <2>2
<1>15. DOMAIN onward = 0 .. n + 1 /\ DOMAIN sums = 0 .. n + 1
       /\ sums = [k \in DOMAIN sums |-> sums[k]]
  BY <1>d
<1>16. \A k \in 0 .. n : path[k].shifts + 2 \in 2 .. U /\ codes[k] \in Nat
  <2>1. \A k \in 0 .. n : path[k].shifts \in Nat /\ path[k].shifts <= pt.shifts BY <1>4
  <2>2. \A k \in 0 .. n : codes[k] \in Nat BY <1>2 DEF AreCodes
  <2> QED BY <1>4, <1>12, <2>1, <2>2, SMTT(30)
<1>17. \A k \in 0 .. n + 1 : k \in 0 .. n \/ k = n + 1 BY <1>0
<1>18. n \in 0 .. n /\ 0 \in 0 .. n /\ (\A k \in 1 .. n : k \in 0 .. n /\ k - 1 \in 0 .. n)
  BY <1>0
<1> HIDE DEF n
<1>19. IsPath(onward)'
  <2>1. ASSUME NEW k \in 0 .. n + 1
        PROVE  /\ onward[k].shifts \in Nat /\ onward[k].range \in 1 .. Code - 1
               /\ GoodModel(onward[k].model) /\ onward[k].shifts <= onward[n + 1].shifts
    <3>1. CASE k = n + 1 BY <1>6, <1>12, <1>14, <3>1
    <3>2. CASE k \in 0 .. n
      <4>1. path[k].shifts \in Nat /\ path[k].shifts <= pt.shifts BY <1>4, <3>2
      <4>2. path[k].shifts <= next.shifts BY <1>4, <1>12, <4>1
      <4> QED BY <1>4, <1>14, <3>2, <4>2
    <3> QED BY <1>17, <3>1, <3>2
  <2>2. ASSUME NEW k \in 1 .. n + 1 PROVE onward[k] = Onward(onward[k - 1], bits'[k])
    <3>1. CASE k = n + 1
      <4>1. k - 1 = n BY <1>0, <3>1
      <4>2. onward[k - 1] = pt BY <1>14, <1>18, <4>1 DEF pt
      <4> QED BY <1>13, <1>14, <3>1, <4>2 DEF next
    <3>2. CASE k \in 1 .. n BY <1>4, <1>13, <1>14, <1>18, <3>2
    <3>3. k = n + 1 \/ k \in 1 .. n BY <1>0
    <3> QED BY <3>1, <3>2, <3>3
  <2>3. onward[0].shifts = 0 /\ onward[0].range = Code - 1 BY <1>4, <1>14, <1>18
  <2> QED BY <1>13, <1>15, <2>1, <2>2, <2>3 DEF IsPath
<1>20. AreCodes(sums, onward)'
  <2>1. sums \in [0 .. n + 1 -> Nat]
    <3>1. ASSUME NEW k \in 0 .. n + 1 PROVE sums[k] \in Nat
      <4>1. CASE k = n + 1 BY <1>14, <4>1
      <4>2. CASE k \in 0 .. n
        <5>1. inc[path[k].shifts + 2] \in Nat /\ codes[k] \in Nat BY <1>16, <4>2
        <5> QED BY <1>14, <4>2, <5>1
      <4> QED BY <1>17, <4>1, <4>2
    <3> QED BY <1>15, <3>1
  <2>2. sums[0] = Digit(enc', ws, 1) * Word + Digit(enc', ws, 2)
    <3>1. codes[0] = Digit(enc, words, 1) * Word + Digit(enc, words, 2)
      BY <1>2 DEF AreCodes
    <3>2. sums[0] = codes[0] + inc[2]
      <4>1. path[0].shifts + 2 = 2 BY <1>4
      <4> QED BY <1>14, <1>18, <4>1
    <3>3. 1 \in 1 .. T /\ 2 \in 1 .. T BY <1>12
    <3>4. Digit(e, ws, 1) = Digit(enc, words, 1) /\ Digit(e, ws, 2) = Digit(enc, words, 2)
      BY <1>5, <3>3
    <3>5. sums[0] = (Digit(e, ws, 1) * Word + Digit(e, ws, 2)) + inc[2]
      BY <3>1, <3>2, <3>4
    <3> QED BY <1>11, <3>5
  <2>3. ASSUME NEW k \in 1 .. n
        PROVE  sums[k] + (IF bits'[k] = 0 THEN 0 ELSE PointBound(onward[k - 1])) =
                 IF IsShort(onward[k - 1])
                 THEN sums[k - 1] * Word + Digit(enc', ws, onward[k].shifts + 2)
                 ELSE sums[k - 1]
    <3> DEFINE was  == path[k - 1]
               p    == path[k].shifts + 2
               a    == IF bits[k] = 0 THEN 0 ELSE PointBound(was)
    <3>1. /\ onward[k - 1] = was /\ onward[k] = path[k] /\ bits'[k] = bits[k]
          /\ sums[k] = codes[k] + inc[p]
          /\ sums[k - 1] = codes[k - 1] + inc[was.shifts + 2]
      BY <1>13, <1>14, <1>18
    <3>2. codes[k] + a = IF IsShort(was)
                         THEN codes[k - 1] * Word + Digit(enc, words, p)
                         ELSE codes[k - 1]
      BY <1>2 DEF AreCodes, n
    <3>3. /\ path[k] = Onward(was, bits[k]) /\ was.shifts \in Nat
          /\ path[k].shifts <= pt.shifts
      BY <1>4, <1>18
    <3>4. /\ codes[k] \in Nat /\ codes[k - 1] \in Nat
          /\ inc[p] \in Nat /\ inc[was.shifts + 2] \in Nat
      BY <1>16, <1>18
    <3>5. a \in Nat
      <4>1. was.range \in 1 .. Code - 1 /\ GoodModel(was.model) BY <1>4, <1>18
      <4> HIDE DEF was
      <4>2. PointBound(was) \in 1 .. FullRange(was) - 1 /\ FullRange(was) \in Word .. Code - 1
        BY <1>6, <4>1, PointParts
      <4>3. PointBound(was) \in Nat BY <1>0, <4>2
      <4> QED BY <4>3
    <3> HIDE DEF was, p, a
    <3>6. CASE ~IsShort(was)
      <4>1. p = was.shifts + 2 BY <3>3, <3>6 DEF Onward, p
      <4>2. codes[k] + a = codes[k - 1] BY <3>2, <3>6
      <4>3. sums[k] + a = sums[k - 1] BY <3>1, <3>4, <3>5, <4>1, <4>2
      <4> QED BY <3>1, <3>6, <4>3 DEF a
    <3>7. CASE IsShort(was)
      <4>1. p = was.shifts + 3 /\ p - 1 = was.shifts + 2 /\ p \in 3 .. U /\ p \in 1 .. T
        <5>1. path[k].shifts = was.shifts + 1 BY <3>3, <3>7 DEF Onward
        <5>2. p = was.shifts + 1 + 2 BY <5>1 DEF p
        <5>3. path[k].shifts \in Nat /\ pt.shifts \in Nat BY <1>4, <1>18
        <5>4. p = path[k].shifts + 2 BY DEF p
        <5>5. p <= T /\ p \in Nat BY <1>3, <3>3, <5>3, <5>4
        <5>6. T <= U BY <1>3, <1>4, <1>12
        <5>7. p >= 3 BY <3>3, <5>2
        <5> HIDE DEF T, U
        <5> QED BY <1>12, <3>3, <5>2, <5>5, <5>6, <5>7
      <4>2. codes[k] + a = codes[k - 1] * Word + Digit(enc, words, p) BY <3>2, <3>7
      <4>3. inc[p - 1] * Word + Digit(enc', ws, p) = Digit(enc, words, p) + inc[p]
        BY <1>5, <1>11, <4>1
      <4>4. /\ Digit(enc, words, p) \in Nat /\ Digit(enc', ws, p) \in Int
        <5>1. Digit(enc, words, p) \in Nat
          <6>1. Digit(enc, words, p) \in 0 .. Word - 1
            BY <1>2, <1>3, <4>1, EncoderDigits DEF T
          <6> QED BY <1>0, <6>1
        <5>2. Digit(enc', ws, p) \in 0 .. Word - 1
          <6>1. PICK f : f = enc' OBVIOUS
          <6>2. f \in EncType /\ f.low < 2 * Code BY <1>8, <1>10, <6>1
          <6>3. f.cache + 1 < Word
            <7>1. EncoderInv' BY <1>2, EncodeBitKeepsInv
            <7>2. bits' # <<>> BY <1>1, <1>2, AppendProperties
            <7> QED BY <6>1, <7>1, <7>2 DEF EncoderInv, Roomy
          <6>4. p \in 1 .. Total(f, ws) BY <1>11, <4>1, <6>1
          <6> QED BY <1>5, <6>1, <6>2, <6>3, <6>4, DigitsAreWords
        <5> QED BY <1>0, <5>1, <5>2
      <4>5. sums[k] + a = sums[k - 1] * Word + Digit(enc', ws, p)
        <5> DEFINE u == codes[k - 1] * Word
                   v == inc[p - 1] * Word
                   x == Digit(enc, words, p)
                   y == Digit(enc', ws, p)
        <5>1. (codes[k - 1] + inc[p - 1]) * Word = u + v BY <1>0, <3>4, <4>1
        <5>2. u \in Nat /\ v \in Nat BY <1>0, <3>4, <4>1, SMTT(30)
        <5>3. sums[k - 1] * Word = u + v BY <3>1, <4>1, <5>1
        <5>4. codes[k] + a = u + x /\ v + y = x + inc[p] /\ x \in Nat /\ y \in Int
          BY <4>2, <4>3, <4>4
        <5> HIDE DEF u, v, x, y
        <5>5. sums[k] = codes[k] + inc[p] /\ codes[k] \in Nat /\ inc[p] \in Nat
          BY <3>1, <3>4
        <5>6. sums[k] + a = (u + v) + y
          BY <3>5, <5>2, <5>4, <5>5
        <5> QED BY <5>3, <5>6 DEF y
      <4> QED BY <3>1, <3>7, <4>5 DEF a, p
    <3> QED BY <3>6, <3>7
  <2>4. sums[n + 1] + (IF bits'[n + 1] = 0 THEN 0 ELSE PointBound(onward[n])) =
          IF IsShort(onward[n])
          THEN sums[n] * Word + Digit(enc', ws, onward[n + 1].shifts + 2)
          ELSE sums[n]
    <3>1. /\ sums[n + 1] = 0 /\ bits'[n + 1] = bit /\ onward[n] = pt
          /\ onward[n + 1].shifts + 2 = U
      BY <1>12, <1>13, <1>14, <1>18 DEF pt
    <3>2. (IF bit = 0 THEN 0 ELSE PointBound(pt)) = b BY DEF b, bound
    <3>3. sums[n] = inc[pt.shifts + 2]
      <4>1. codes[n] = 0 BY <1>2 DEF AreCodes, n
      <4>2. inc[path[n].shifts + 2] \in Nat BY <1>16, <1>18
      <4> QED BY <1>14, <1>18, <4>1, <4>2 DEF pt
    <3>4. 0 + b = b BY <1>9
    <3>5. CASE ~IsShort(pt)
      <4>1. U = pt.shifts + 2 BY <1>3, <1>5, <3>5
      <4> QED BY <1>11, <3>1, <3>2, <3>3, <3>4, <3>5, <4>1
    <3>6. CASE IsShort(pt)
      <4>1. U = T + 1 /\ U - 1 = pt.shifts + 2 /\ U \in 3 .. U
        BY <1>3, <1>4, <1>5, <1>12, <3>6
      <4>2. Digit(e, ws, U) = 0 BY <1>5, <3>6, <4>1
      <4>3. inc[U - 1] * Word + Digit(enc', ws, U) = 0 + b BY <1>11, <4>1, <4>2
      <4> QED BY <3>1, <3>2, <3>3, <3>4, <3>6, <4>1, <4>3
    <3> QED BY <3>5, <3>6
  <2>5. ASSUME NEW k \in 1 .. n + 1
        PROVE  sums[k] + (IF bits'[k] = 0 THEN 0 ELSE PointBound(onward[k - 1])) =
                 IF IsShort(onward[k - 1])
                 THEN sums[k - 1] * Word + Digit(enc', ws, onward[k].shifts + 2)
                 ELSE sums[k - 1]
    <3>1. k \in 1 .. n \/ (k = n + 1 /\ k - 1 = n) BY <1>0
    <3> QED BY <2>3, <2>4, <3>1
  <2> QED BY <1>1, <1>13, <1>14, <2>1, <2>2, <2>5 DEF AreCodes
<1>21. EncoderAt(onward)'
  <2>1. Total(enc', words') = onward[n + 1].shifts + 2 + 0 BY <1>1, <1>11, <1>12, <1>14
  <2>2. model' = onward[n + 1].model /\ enc'.range = onward[n + 1].range
    BY <1>7, <1>8, <1>14
  <2>3. enc'.first => words' = <<>> BY <1>1, <1>5, <1>8
  <2>4. ~(0 >= 1) /\ ~(0 >= 2) /\ ~(0 >= 3) OBVIOUS
  <2> QED BY <1>1, <1>13, <2>1, <2>2, <2>3, <2>4 DEF EncoderAt
<1>22. DecoderAt(onward, sums)'
  <2>1. dec.pos = 0 /\ Len(decoded) = 0
    BY <1>1, <1>2 DEF DecoderAt, Flushes
  <2>2. /\ dmodel = path[0].model /\ dec.range = path[0].range
    BY <1>2, <2>1 DEF DecoderAt
  <2>3. onward[0] = path[0] BY <1>14, <1>18
  <2>4. 0 \in 0 .. n + 1 /\ \A k \in 1 .. 0 : FALSE BY <1>0
  <2> QED BY <1>1, <1>13, <2>1, <2>2, <2>3, <2>4 DEF DecoderAt
<1> QED BY <1>19, <1>20, <1>21, <1>22 DEF InStep

\* The codes hang on the digits up to the last shift only.
LEMMA DigitsKeepCodes ==
  ASSUME NEW path, NEW codes, IsPath(path), AreCodes(codes, path), bits' = bits,
         Len(bits) \in Nat,
         \A p \in 1 .. path[Len(bits)].shifts + 2 :
           Digit(enc', words', p) = Digit(enc, words, p)
  PROVE  IsPath(path)' /\ AreCodes(codes, path)'
<1> DEFINE n == Len(bits)
<1>1. n \in 0 .. n /\ path[n].shifts \in Nat BY DEF IsPath
<1>2. /\ Digit(enc', words', 1) = Digit(enc, words, 1)
      /\ Digit(enc', words', 2) = Digit(enc, words, 2)
  <2>1. 1 \in 1 .. path[n].shifts + 2 /\ 2 \in 1 .. path[n].shifts + 2 BY <1>1
  <2> QED BY <2>1
<1>3. ASSUME NEW k \in 1 .. n
      PROVE  Digit(enc', words', path[k].shifts + 2) = Digit(enc, words, path[k].shifts + 2)
  <2>1. path[k].shifts \in Nat /\ path[k].shifts <= path[n].shifts BY <1>1 DEF IsPath
  <2>2. path[k].shifts + 2 \in 1 .. path[n].shifts + 2 BY <1>1, <2>1
  <2> QED BY <2>2
<1>4. IsPath(path)' BY DEF IsPath
<1>5. AreCodes(codes, path)'
  <2>1. /\ codes \in [0 .. n -> Nat] /\ codes[n] = 0
        /\ codes[0] = Digit(enc, words, 1) * Word + Digit(enc, words, 2)
        /\ \A k \in 1 .. n :
             codes[k] + (IF bits[k] = 0 THEN 0 ELSE PointBound(path[k - 1])) =
               IF IsShort(path[k - 1])
               THEN codes[k - 1] * Word + Digit(enc, words, path[k].shifts + 2)
               ELSE codes[k - 1]
    BY DEF AreCodes
  <2> QED BY <1>2, <1>3, <2>1 DEF AreCodes
<1> QED BY <1>4, <1>5

\* A shift of finish appends a digit 0; the first two of them empty low, and
\* the third settles every word still held back.
LEMMA FlushKeepsStep ==
  ASSUME IInv, NEW path, NEW codes, InStep(path, codes), Flush
  PROVE  InStep(path, codes)'
<1> DEFINE n == Len(bits)
           T == Total(enc, words)
           m == enc.low % Word
<1>0. /\ Word \in Nat \ {0} /\ Word >= 2 /\ Code \in Nat /\ Code >= 2 * Word
      /\ Code = Word * Word /\ n \in Nat
  BY CodeFacts, LenProperties DEF IInv, EncoderInv
<1>1. /\ bits # <<>> /\ flushed < Flushes
      /\ words' = words \o EmittedBy(enc) /\ enc' = Shifted(enc)
      /\ flushed' = flushed + 1
      /\ bits' = bits /\ model' = model /\ decoded' = decoded
      /\ dmodel' = dmodel /\ dec' = dec
  BY DEF Flush
<1>2. /\ IsPath(path) /\ AreCodes(codes, path) /\ EncoderAt(path)
      /\ DecoderAt(path, codes) /\ EncoderInv /\ flushed \in 0 .. Flushes
  BY DEF InStep, IInv, EncoderInv
<1>3. /\ T = path[n].shifts + 2 + flushed /\ path[n].shifts \in Nat
      /\ flushed >= 1 => m = 0 /\ enc.low < Code
      /\ flushed >= 2 => enc.low = 0
      /\ enc.first => words = <<>>
  <2>1. n \in 0 .. n BY <1>0
  <2> QED BY <1>2, <2>1 DEF EncoderAt, IsPath
<1>4. /\ enc \in EncType /\ words \in Seq(0 .. Word - 1)
      /\ enc.cache + 1 < Word /\ enc.low < 2 * Code
      /\ enc.first => words = <<>> /\ enc.low < Code - Word
  <2>1. enc.first => enc.range > 0
    <3>1. flushed = 0 \/ flushed > 0 BY <1>2
    <3> QED BY <1>2, <3>1 DEF EncoderInv
  <2> QED BY <1>1, <1>2, <1>3, <2>1, EncoderDigits
<1>5. /\ Total(enc', words') = T + 1
      /\ \A p \in 1 .. T : Digit(enc', words', p) = Digit(enc, words, p)
  BY <1>1, <1>4, ShiftAppends
<1>6. ~enc'.first
  <2>1. flushed' > 0 BY <1>1, <1>2
  <2>2. EncoderInv' BY <1>1, <1>2, FlushKeepsInv
  <2> QED BY <2>1, <2>2 DEF EncoderInv
<1>7. /\ enc'.low = m * Word /\ m \in 0 .. Word - 1
      /\ enc.low = 0 => m = 0 /\ enc'.count = 0
  <2>1. enc.low \in Nat BY <1>4 DEF EncType
  <2>2. m \in 0 .. Word - 1 BY <1>0, <2>1, Dividing
  <2>3. enc'.low = m * Word BY <1>1 DEF Shifted
  <2>4. ASSUME enc.low = 0 PROVE m = 0 /\ enc'.count = 0
    <3>1. enc.low < Code - Word BY <1>0, <2>4
    <3>2. Settled(enc) BY <3>1 DEF Settled
    <3>3. enc'.count = 0 BY <1>1, <3>2 DEF Shifted
    <3>4. 0 = Word * 0 + 0 /\ 0 \in Nat /\ 0 \in 0 .. Word - 1 BY <1>0
    <3>5. (0 % Word) = 0 BY <1>0, <3>4, OnlyQuotient
    <3> QED BY <2>4, <3>3, <3>5
  <2> QED BY <2>2, <2>3, <2>4
<1>8. /\ enc'.low % Word = 0 /\ enc'.low < Code
      /\ m = 0 => enc'.low = 0
  <2>1. m \in Nat /\ m <= Word - 1 BY <1>0, <1>7
  <2> HIDE DEF m
  <2>2. m * Word <= (Word - 1) * Word BY <1>0, <2>1, ProductGrows
  <2>3. (Word - 1) * Word = Code - Word BY <1>0
  <2>4. m * Word = Word * m + 0 /\ m * Word \in Nat /\ 0 \in 0 .. Word - 1 BY <1>0, <2>1
  <2>5. (m * Word) % Word = 0 BY <1>0, <2>1, <2>4, OnlyQuotient
  <2>6. m * Word < Code BY <1>0, <2>2, <2>3, <2>4
  <2>7. m = 0 => m * Word = 0 BY <1>0
  <2> QED BY <1>7, <2>5, <2>6, <2>7
<1>9. \A p \in 1 .. path[n].shifts + 2 : Digit(enc', words', p) = Digit(enc, words, p)
  <2>1. \A p \in 1 .. path[n].shifts + 2 : p \in 1 .. T
    <3> HIDE DEF T
    <3> QED BY <1>2, <1>3
  <2> QED BY <1>5, <2>1
<1>10. IsPath(path)' /\ AreCodes(codes, path)' BY <1>0, <1>1, <1>2, <1>9, DigitsKeepCodes
<1>11. EncoderAt(path)'
  <2>1. Total(enc', words') = path[n].shifts + 2 + flushed'
    <3>1. flushed \in Nat BY <1>2 DEF Flushes
    <3>2. (path[n].shifts + 2 + flushed) + 1 = path[n].shifts + 2 + (flushed + 1)
      BY <1>3, <3>1
    <3> QED BY <1>1, <1>3, <1>5, <3>2
  <2>2. ~(flushed' = 0) BY <1>1, <1>2
  <2>3. model' = path[n].model BY <1>1, <1>2 DEF EncoderAt
  <2>4. flushed' >= 2 => enc'.low = 0
    <3>1. flushed' >= 2 => flushed >= 1 BY <1>1, <1>2
    <3> QED BY <1>3, <1>8, <3>1
  <2>5. flushed' >= 3 => enc'.count = 0
    <3>1. flushed' >= 3 => flushed >= 2 BY <1>1, <1>2
    <3> QED BY <1>3, <1>7, <3>1
  <2> QED BY <1>1, <1>6, <1>8, <2>1, <2>2, <2>3, <2>4, <2>5 DEF EncoderAt
<1>12. DecoderAt(path, codes)'
  <2>1. dec.pos = 0 BY <1>1, <1>2 DEF DecoderAt, Flushes
  <2> QED BY <1>1, <1>2, <2>1 DEF DecoderAt
<1> QED BY <1>10, <1>11, <1>12 DEF InStep

\* Once all is flushed, the digits are the words, but for three zeros.
LEMMA DigitsAreWritten ==
  ASSUME EncoderInv, NEW path, IsPath(path), EncoderAt(path), flushed = Flushes
  PROVE  /\ Len(words) = path[Len(bits)].shifts + 3
         /\ \A p \in 1 .. Len(words) : WordAt(p - 1) = Digit(enc, words, p)
<1> DEFINE n == Len(bits)
           T == Total(enc, words)
           L == Len(words)
<1>0. n \in Nat /\ L \in Nat BY LenProperties DEF EncoderInv
<1>1. /\ enc \in EncType /\ words \in Seq(0 .. Word - 1) /\ ~enc.first
  BY DEF EncoderInv, Flushes
<1>2. T = path[n].shifts + 2 + 4 /\ path[n].shifts \in Nat /\ enc.count = 0
  <2>1. n \in 0 .. n BY <1>0
  <2> QED BY <2>1 DEF EncoderAt, IsPath, Flushes
<1>3. T = L + 0 + 3
  BY <1>1, <1>2, DigitPlaces
<1>4. \A p \in 1 .. T - 2 : p <= L => Digit(enc, words, p) = words[p]
  BY <1>1, DigitPlaces
<1> HIDE DEF T, L, n
<1>5. L = path[n].shifts + 3 BY <1>0, <1>2, <1>3
<1>6. ASSUME NEW p \in 1 .. L PROVE WordAt(p - 1) = Digit(enc, words, p)
  <2>1. p \in 1 .. T - 2 /\ p <= L /\ p - 1 < L /\ (p - 1) + 1 = p BY <1>0, <1>3
  <2> QED BY <1>4, <2>1 DEF WordAt, L
<1> QED BY <1>5, <1>6 DEF n, L

\* No code reaches the range of its point.
LEMMA CodesInRange ==
  ASSUME IInv, NEW path, NEW codes, InStep(path, codes)
  PROVE  \A k \in 0 .. Len(bits) : codes[k] < path[k].range
<1> DEFINE n == Len(bits)
           T == Total(enc, words)
<1>1. /\ IsPath(path) /\ AreCodes(codes, path) /\ EncoderAt(path) /\ EncoderInv
      /\ bits \in Seq(Bit) /\ flushed \in Nat
  BY DEF InStep, IInv, EncoderInv, Flushes
<1>2. n \in Nat /\ Word \in Nat BY <1>1, LenProperties, CodeFacts
<1>3. enc.first => words = <<>> BY <1>1 DEF EncoderAt
<1>4. T \in Nat /\ \A p \in 1 .. T : Digit(enc, words, p) \in 0 .. Word - 1
  BY <1>1, <1>3, EncoderDigits
<1>5. \A p \in 1 .. T : Digit(enc, words, p) \in Nat BY <1>2, <1>4
<1>6. T = path[n].shifts + 2 + flushed /\ path[n].shifts \in Nat
  <2>1. n \in 0 .. n BY <1>2
  <2> QED BY <1>1, <2>1 DEF EncoderAt, IsPath
<1>7. path[n].shifts + 2 <= T
  <2> HIDE DEF T
  <2> QED BY <1>1, <1>6
<1> QED BY <1>1, <1>4, <1>5, <1>7, CodesBelowRange

\* The decoder opens at the start of the path.
LEMMA OpenKeepsStep ==
  ASSUME IInv, NEW path, NEW codes, InStep(path, codes), OpenDecoder
  PROVE  InStep(path, codes)'
<1> DEFINE n == Len(bits)
<1>0. n \in Nat BY LenProperties DEF IInv, EncoderInv
<1>1. /\ flushed = Flushes /\ dec.pos = 0
      /\ dec' = [dec EXCEPT !.code = WordAt(0) * Word + WordAt(1), !.pos = 2]
      /\ bits' = bits /\ model' = model /\ enc' = enc /\ words' = words
      /\ flushed' = flushed /\ decoded' = decoded /\ dmodel' = dmodel
  BY DEF OpenDecoder
<1>2. /\ IsPath(path) /\ AreCodes(codes, path) /\ EncoderAt(path)
      /\ DecoderAt(path, codes) /\ EncoderInv /\ dec \in DecType
  BY DEF InStep, IInv, DecoderInv
<1>3. IsPath(path)' /\ AreCodes(codes, path)' /\ EncoderAt(path)'
  BY <1>1, <1>2 DEF IsPath, AreCodes, EncoderAt
<1>4. Len(words) = path[n].shifts + 3 /\ path[n].shifts \in Nat
  <2>1. n \in 0 .. n BY <1>0
  <2> QED BY <1>1, <1>2, <2>1, DigitsAreWritten DEF IsPath
<1>5. WordAt(0) = Digit(enc, words, 1) /\ WordAt(1) = Digit(enc, words, 2)
  <2>1. 1 \in 1 .. Len(words) /\ 2 \in 1 .. Len(words) /\ 1 - 1 = 0 /\ 2 - 1 = 1 BY <1>4
  <2>2. \A p \in 1 .. Len(words) : WordAt(p - 1) = Digit(enc, words, p)
    BY <1>1, <1>2, DigitsAreWritten
  <2>3. WordAt(1 - 1) = Digit(enc, words, 1) /\ WordAt(2 - 1) = Digit(enc, words, 2)
    BY <2>1, <2>2
  <2> QED BY <2>1, <2>3
<1>6. dec'.code = codes[0] /\ dec'.pos = 2 /\ dec'.range = dec.range
  <2>1. codes[0] = Digit(enc, words, 1) * Word + Digit(enc, words, 2) BY <1>2 DEF AreCodes
  <2>2. /\ dec'.code = WordAt(0) * Word + WordAt(1) /\ dec'.pos = 2
        /\ dec'.range = dec.range
    BY <1>1, <1>2 DEF DecType
  <2> QED BY <1>5, <2>1, <2>2
<1>7. Len(decoded) = 0 /\ path[0].shifts + 2 = 2
  BY <1>1, <1>2 DEF DecoderAt, IsPath
<1>8. DecoderAt(path, codes)'
  <2>1. /\ Len(decoded) \in 0 .. Len(bits)
        /\ \A k \in 1 .. Len(decoded) : decoded[k] = bits[k]
        /\ dmodel = path[Len(decoded)].model
        /\ dec.range = path[Len(decoded)].range
    BY <1>2 DEF DecoderAt
  <2>2. ~(2 = 0) OBVIOUS
  <2> QED BY <1>1, <1>6, <1>7, <2>1, <2>2 DEF DecoderAt
<1> QED BY <1>3, <1>8 DEF InStep

\* The decoder takes one step along the path: from the code of its point it
\* computes that of the next, and reads off the decision that was coded.
LEMMA DecodeKeepsStep ==
  ASSUME IInv, NEW path, NEW codes, InStep(path, codes), DecodeBit
  PROVE  InStep(path, codes)'
<1> DEFINE n == Len(bits)
           k == Len(decoded)
           j == k + 1
           d == DecoderNormalized
           bound == Bound(d.range, dmodel)
           bit == IF d.code < bound THEN 0 ELSE 1
           pt == path[k]
           next == path[j]
           a == IF bits[j] = 0 THEN 0 ELSE PointBound(pt)
<1>0. /\ Word \in Nat \ {0} /\ Word >= 2 /\ Code \in Nat /\ Code >= 2 * Word
      /\ n \in Nat /\ k \in Nat
  BY CodeFacts, LenProperties DEF IInv, EncoderInv, DecoderInv
<1>1. /\ dec.pos > 0 /\ k < n
      /\ dec' = IF bit = 0
                THEN [d EXCEPT !.range = bound]
                ELSE [d EXCEPT !.range = @ - bound, !.code = @ - bound]
      /\ dmodel' = Learned(dmodel, bit)
      /\ decoded' = Append(decoded, bit)
      /\ bits' = bits /\ model' = model /\ enc' = enc /\ words' = words
      /\ flushed' = flushed
  BY DEF DecodeBit
<1>2. /\ IsPath(path) /\ AreCodes(codes, path) /\ EncoderAt(path)
      /\ DecoderAt(path, codes) /\ EncoderInv /\ dec \in DecType
      /\ decoded \in Seq(Bit) /\ bits \in Seq(Bit) /\ GoodModel(dmodel)
  BY DEF InStep, IInv, EncoderInv, DecoderInv
<1>3. IsPath(path)' /\ AreCodes(codes, path)' /\ EncoderAt(path)'
  BY <1>1, <1>2 DEF IsPath, AreCodes, EncoderAt
<1>4. /\ flushed = Flushes /\ dec.pos = pt.shifts + 2 /\ dec.code = codes[k]
      /\ dmodel = pt.model /\ dec.range = pt.range
      /\ \A i \in 1 .. k : decoded[i] = bits[i]
  <2>1. ~(dec.pos = 0) BY <1>1, <1>2 DEF DecType
  <2> QED BY <1>2, <2>1 DEF DecoderAt
<1>5. /\ j \in 1 .. n /\ k \in 0 .. n /\ j \in 0 .. n /\ n \in 0 .. n /\ j - 1 = k
      /\ bits[j] \in Bit
  <2>1. /\ j \in 1 .. n /\ k \in 0 .. n /\ j \in 0 .. n /\ n \in 0 .. n /\ j - 1 = k
    BY <1>0, <1>1
  <2> QED BY <1>2, <2>1, ElementOfSeq
<1>6. /\ pt.shifts \in Nat /\ pt.range \in 1 .. Code - 1 /\ GoodModel(pt.model)
      /\ next.shifts \in Nat /\ next.range \in 1 .. Code - 1
      /\ next.shifts <= path[n].shifts /\ path[n].shifts \in Nat
      /\ next = Onward(pt, bits[j])
  BY <1>2, <1>5 DEF IsPath
<1>7. /\ FullRange(pt) \in Word .. Code - 1
      /\ IsShort(pt) => FullRange(pt) = (pt.range * Word) % Code
      /\ PointBound(pt) \in 1 .. FullRange(pt) - 1
  BY <1>5, <1>6, PointParts
<1>8. /\ codes \in [0 .. n -> Nat]
      /\ codes[j] + a = IF IsShort(pt)
                        THEN codes[k] * Word + Digit(enc, words, next.shifts + 2)
                        ELSE codes[k]
  BY <1>2, <1>5 DEF AreCodes
<1>9. codes[k] \in Nat /\ codes[j] \in Nat BY <1>5, <1>8
<1>10. codes[k] < pt.range /\ codes[j] < next.range BY <1>5, CodesInRange
<1>11. /\ d.range = FullRange(pt) /\ d.code = codes[j] + a /\ d.pos = next.shifts + 2
       /\ d = [range |-> d.range, code |-> d.code, pos |-> d.pos]
  <2>1. CASE IsShort(pt)
    <3>1. dec.range < Word BY <1>4, <2>1 DEF IsShort
    <3>2. d = [range |-> (dec.range * Word) % Code,
               code  |-> ((dec.code * Word) % Code) + WordAt(dec.pos),
               pos   |-> dec.pos + 1]
      BY <3>1 DEF DecoderNormalized
    <3>3. next.shifts = pt.shifts + 1 BY <1>6, <2>1 DEF Onward
    <3>4. codes[k] < Word
      <4>1. pt.range < Word /\ pt.range \in Nat BY <1>0, <1>6, <2>1 DEF IsShort
      <4> QED BY <1>0, <1>9, <1>10, <4>1
    <3>5. (dec.code * Word) % Code = codes[k] * Word
      BY <1>4, <1>9, <3>4, CutMultiple
    <3>6. WordAt(dec.pos) = Digit(enc, words, next.shifts + 2)
      <4>1. Len(words) = path[n].shifts + 3 BY <1>2, <1>4, DigitsAreWritten
      <4>2. next.shifts + 2 \in 1 .. Len(words) /\ (next.shifts + 2) - 1 = dec.pos
        <5>1. next.shifts + 2 \in 1 .. Len(words) BY <1>6, <4>1
        <5>2. ((pt.shifts + 1) + 2) - 1 = pt.shifts + 2 BY <1>6
        <5> QED BY <1>4, <3>3, <5>1, <5>2
      <4>3. \A p \in 1 .. Len(words) : WordAt(p - 1) = Digit(enc, words, p)
        BY <1>2, <1>4, DigitsAreWritten
      <4>4. WordAt((next.shifts + 2) - 1) = Digit(enc, words, next.shifts + 2)
        BY <4>2, <4>3
      <4> QED BY <4>2, <4>4
    <3>7. d.code = codes[j] + a
      <4>1. d.code = codes[k] * Word + Digit(enc, words, next.shifts + 2)
        BY <3>2, <3>5, <3>6
      <4> QED BY <1>8, <2>1, <4>1
    <3>8. d.range = FullRange(pt) BY <1>4, <1>7, <2>1, <3>2
    <3>9. d.pos = next.shifts + 2
      <4>1. d.pos = dec.pos + 1 BY <3>2
      <4> QED BY <1>4, <1>6, <3>3, <4>1
    <3> QED BY <3>2, <3>7, <3>8, <3>9
  <2>2. CASE ~IsShort(pt)
    <3>1. ~(dec.range < Word) BY <1>4, <2>2 DEF IsShort
    <3>2. d = dec BY <3>1 DEF DecoderNormalized
    <3>3. next.shifts = pt.shifts BY <1>6, <2>2 DEF Onward
    <3>4. d.range = FullRange(pt) BY <1>4, <2>2, <3>2 DEF FullRange
    <3>5. d.code = codes[j] + a BY <1>4, <1>8, <2>2, <3>2
    <3>6. d = [range |-> d.range, code |-> d.code, pos |-> d.pos]
      BY <1>2, <3>2 DEF DecType
    <3> QED BY <1>4, <3>2, <3>3, <3>4, <3>5, <3>6
  <2> QED BY <2>1, <2>2
<1>12. bound = PointBound(pt) BY <1>4, <1>11 DEF PointBound
<1>13. /\ next.range = IF bits[j] = 0 THEN PointBound(pt) ELSE FullRange(pt) - PointBound(pt)
       /\ next.model = Learned(pt.model, bits[j])
  BY <1>6 DEF Onward
<1> HIDE DEF d, bound, pt, next, j, k, n
<1>14. bit = bits[j] /\ d.code - (IF bit = 0 THEN 0 ELSE bound) = codes[j]
  <2> DEFINE v == PointBound(pt)
  <2>1. v \in Nat /\ FullRange(pt) \in Nat /\ v < FullRange(pt) BY <1>0, <1>7
  <2> HIDE DEF v
  <2>2. CASE bits[j] = 0
    <3>1. d.code = codes[j] BY <1>9, <1>11, <2>2 DEF a
    <3>2. codes[j] < v BY <1>10, <1>13, <2>2 DEF v
    <3>3. bit = 0 BY <1>12, <3>1, <3>2 DEF v
    <3> QED BY <1>9, <2>2, <3>1, <3>3
  <2>3. CASE bits[j] # 0
    <3>1. d.code = codes[j] + v BY <1>11, <2>3 DEF a, v
    <3>2. ~(d.code < v) BY <1>9, <2>1, <3>1
    <3>3. bit = 1 BY <1>12, <3>2 DEF v
    <3>4. bits[j] = 1 BY <1>5, <2>3 DEF Bit
    <3>5. d.code - v = codes[j] BY <1>9, <2>1, <3>1
    <3> QED BY <1>12, <3>3, <3>4, <3>5 DEF v
  <2> QED BY <2>2, <2>3
<1> HIDE DEF bit, a
<1>15. /\ dec'.range = next.range /\ dec'.code = codes[j] /\ dec'.pos = next.shifts + 2
  <2>1. d.code \in Int
    <3>1. bound \in Int BY <1>0, <1>7, <1>12
    <3>2. a \in Int BY <1>0, <1>7 DEF a
    <3> QED BY <1>9, <1>11, <3>2
  <2>2. CASE bit = 0
    <3>1. dec' = [d EXCEPT !.range = bound] BY <1>1, <2>2
    <3>2. dec'.range = bound /\ dec'.code = d.code /\ dec'.pos = d.pos BY <1>11, <3>1
    <3>3. d.code = codes[j] BY <1>14, <2>1, <2>2
    <3> QED BY <1>11, <1>12, <1>13, <1>14, <2>2, <3>2, <3>3
  <2>3. CASE bit # 0
    <3>1. dec' = [d EXCEPT !.range = @ - bound, !.code = @ - bound] BY <1>1, <2>3
    <3>2. dec'.range = d.range - bound /\ dec'.code = d.code - bound /\ dec'.pos = d.pos
      BY <1>11, <3>1
    <3> QED BY <1>11, <1>12, <1>13, <1>14, <2>3, <3>2
  <2> QED BY <2>2, <2>3
<1>16. /\ Len(decoded') = j /\ decoded'[j] = bit
       /\ \A i \in 1 .. k : decoded'[i] = decoded[i]
  <2>1. bit \in Bit BY DEF bit, Bit
  <2> QED BY <1>1, <1>2, <2>1, AppendProperties DEF j, k
<1>17. DecoderAt(path, codes)'
  <2>1. ASSUME NEW i \in 1 .. j PROVE decoded'[i] = bits[i]
    <3>1. CASE i = j BY <1>14, <1>16, <3>1
    <3>2. CASE i \in 1 .. k BY <1>4, <1>16, <3>2
    <3>3. i = j \/ i \in 1 .. k BY <1>0 DEF j
    <3> QED BY <3>1, <3>2, <3>3
  <2>2. dmodel' = next.model BY <1>1, <1>4, <1>13, <1>14 DEF bit
  <2>3. ~(dec'.pos = 0) BY <1>6, <1>15
  <2>4. j \in 0 .. Len(bits) BY <1>5 DEF n
  <2> QED BY <1>1, <1>4, <1>15, <1>16, <2>1, <2>2, <2>3, <2>4 DEF DecoderAt, next
<1> QED BY <1>3, <1>17 DEF InStep

\* Every step keeps both sides in step.
LEMMA NextStepInv == StepInv /\ [Next]_vars => StepInv'
<1> SUFFICES ASSUME StepInv, [Next]_vars PROVE StepInv' OBVIOUS
<1>1. IInv' BY NextIInv DEF StepInv
<1>2. PICK path, codes : InStep(path, codes) BY DEF StepInv
<1>3. IInv BY DEF StepInv
<1> SUFFICES \E p, c : InStep(p, c)' BY <1>1 DEF StepInv
<1>4. ASSUME NEW bit \in Bit, EncodeBit(bit) PROVE \E p, c : InStep(p, c)'
  BY <1>2, <1>3, <1>4, EncodeKeepsStep
<1>5. CASE Flush BY <1>2, <1>3, <1>5, FlushKeepsStep
<1>6. CASE OpenDecoder BY <1>2, <1>3, <1>6, OpenKeepsStep
<1>7. CASE DecodeBit BY <1>2, <1>3, <1>7, DecodeKeepsStep
<1>8. CASE UNCHANGED vars
  <2>1. InStep(path, codes)'
    BY <1>2, <1>8 DEF vars, InStep, IsPath, AreCodes, EncoderAt, DecoderAt
  <2> QED BY <2>1
<1> QED BY <1>4, <1>5, <1>6, <1>7, <1>8 DEF Next

\* At every moment there are such a path and such codes.
THEOREM AlwaysInStep == Spec => []StepInv
BY InitInStep, NextStepInv, PTL DEF Spec

(***************************************************************************)
(* RangeDecoder reads back the decisions RangeEncoder was given, however   *)
(* late a carry ran through words it already holds back, whatever the      *)
(* windows of the probabilities were, and for words of every size.         *)
(***************************************************************************)
THEOREM DecoderReadsTheDecisions == Spec => []DecodesWhatWasCoded
<1>1. StepInv => DecodesWhatWasCoded
  <2> SUFFICES ASSUME StepInv PROVE DecodesWhatWasCoded OBVIOUS
  <2>1. PICK path, codes : InStep(path, codes) BY DEF StepInv
  <2>2. decoded \in Seq(Bit) /\ bits \in Seq(Bit)
    BY DEF StepInv, IInv, EncoderInv, DecoderInv
  <2>3. /\ Len(decoded) \in 0 .. Len(bits)
        /\ \A k \in 1 .. Len(decoded) : decoded[k] = bits[k]
    BY <2>1 DEF InStep, DecoderAt
  <2>4. Len(bits) \in Nat BY <2>2, LenProperties
  <2>5. /\ SubSeq(bits, 1, Len(decoded)) \in Seq(Bit)
        /\ Len(SubSeq(bits, 1, Len(decoded))) = Len(decoded)
        /\ \A i \in 1 .. Len(decoded) : SubSeq(bits, 1, Len(decoded))[i] = bits[i]
    BY <2>2, <2>3, <2>4
  <2> QED BY <2>2, <2>3, <2>5, SeqEqual DEF DecodesWhatWasCoded
<1> QED BY <1>1, AlwaysInStep, PTL

(***************************************************************************)
(* The decoder's code lies below its range, so that the comparison with    *)
(* the bound decides as the encoder did and no subtraction underflows.     *)
(***************************************************************************)
THEOREM CodeAlwaysInRange == Spec => []CodeStaysInRange
<1>1. StepInv => CodeStaysInRange
  <2> SUFFICES ASSUME StepInv, dec.pos > 0 PROVE dec.code < dec.range
    BY DEF CodeStaysInRange
  <2>1. PICK path, codes : InStep(path, codes) BY DEF StepInv
  <2>2. ~(dec.pos = 0) BY DEF StepInv, IInv, DecoderInv, DecType
  <2>3. /\ Len(decoded) \in 0 .. Len(bits)
        /\ dec.range = path[Len(decoded)].range /\ dec.code = codes[Len(decoded)]
    BY <2>1, <2>2 DEF InStep, DecoderAt
  <2> QED BY <2>1, <2>3, CodesInRange DEF StepInv
<1> QED BY <1>1, AlwaysInStep, PTL

(***************************************************************************)
(* The decoder shifts when the encoder shifted, so the words it has read   *)
(* are words finish had written; it never reaches the backward bit stream. *)
(***************************************************************************)
THEOREM AlwaysReadsOwnWords == Spec => []ReadsOwnWords
<1>1. StepInv => ReadsOwnWords
  <2> SUFFICES ASSUME StepInv PROVE dec.pos <= Len(words) BY DEF ReadsOwnWords
  <2> DEFINE n == Len(bits)
             k == Len(decoded)
  <2>1. PICK path, codes : InStep(path, codes) BY DEF StepInv
  <2>2. /\ IsPath(path) /\ EncoderAt(path) /\ DecoderAt(path, codes) /\ EncoderInv
        /\ dec.pos \in Nat
    BY <2>1 DEF InStep, StepInv, IInv, DecoderInv, DecType
  <2>3. CASE dec.pos = 0
    <3>1. Len(words) \in Nat BY <2>2, LenProperties DEF EncoderInv
    <3> QED BY <2>3, <3>1
  <2>4. CASE dec.pos # 0
    <3>1. flushed = Flushes /\ dec.pos = path[k].shifts + 2 /\ k \in 0 .. n
      BY <2>2, <2>4 DEF DecoderAt
    <3>2. Len(words) = path[n].shifts + 3 BY <2>2, <3>1, DigitsAreWritten
    <3>3. n \in Nat BY <2>2, LenProperties DEF EncoderInv
    <3>4. n \in 0 .. n BY <3>3
    <3>5. path[k].shifts \in Nat /\ path[n].shifts \in Nat /\ path[k].shifts <= path[n].shifts
      BY <2>2, <3>1, <3>4 DEF IsPath
    <3> QED BY <3>1, <3>2, <3>5
  <2> QED BY <2>3, <2>4
<1> QED BY <1>1, AlwaysInStep, PTL

-----------------------------------------------------------------------------
\* Every nonempty set of indices has a smallest element: of the sets of the members
\* up to one, the least stops at it.
LEMMA SmallestNumber ==
  ASSUME NEW n \in Nat, NEW S \in SUBSET (0 .. n), S # {}
  PROVE  \E m \in S : \A k \in S : m <= k
<1> DEFINE UpTo(k) == {j \in S : j <= k}
           T == {UpTo(k) : k \in S}
<1>1. IsFiniteSet(0 .. n) BY FS_Interval
<1>2. IsFiniteSet(S) BY <1>1, FS_Subset
<1>3. T \subseteq FiniteSubsetsOf(S) BY <1>2, FS_Subset DEF FiniteSubsetsOf
<1>4. T # {} OBVIOUS
<1>5. PICK x \in T : \A y \in T : ~ (<<y, x>> \in StrictSubsetOrdering(S))
  <2> HIDE DEF T
  <2> QED BY <1>3, <1>4, WFMin, FS_StrictSubsetOrderingWellFounded
<1>6. PICK m \in S : x = UpTo(m) OBVIOUS
<1>7. ASSUME NEW k \in S, k < m PROVE FALSE
  <2>1. k \in Int /\ m \in Int /\ \A j \in S : j \in Int OBVIOUS
  <2>2. UpTo(k) \subseteq x
    <3>1. ASSUME NEW j \in S, j <= k PROVE j <= m BY <3>1, <1>7, <2>1
    <3> QED BY <3>1, <1>6
  <2>3. m \in x /\ m \notin UpTo(k) BY <1>6, <1>7, <2>1
  <2>4. UpTo(k) \in T OBVIOUS
  <2>5. <<UpTo(k), x>> \in StrictSubsetOrdering(S)
    BY <2>2, <2>3, <1>6 DEF StrictSubsetOrdering
  <2> QED BY <1>5, <2>4, <2>5
<1> QED BY <1>7

-----------------------------------------------------------------------------
(***************************************************************************)
(* The x86 filter: displacements, of which the carry out of the last byte  *)
(* is lost.                                                                *)
(***************************************************************************)
Octets == 0 .. ByteValues - 1

\* Quotient and remainder of any number, and of one with a multiple added to it.
LEMMA DividingByValues ==
  ASSUME NEW a \in Int, NEW k \in Int
  PROVE  /\ a = ByteValues * (a \div ByteValues) + (a % ByteValues)
         /\ (a \div ByteValues) \in Int /\ (a % ByteValues) \in Octets
         /\ ((ByteValues * k + a) \div ByteValues) = k + (a \div ByteValues)
         /\ ((ByteValues * k + a) % ByteValues) = (a % ByteValues)
<1>0. ByteValues \in Nat \ {0} BY FilterAssumption
<1>1. \A c \in Int : /\ c = ByteValues * (c \div ByteValues) + (c % ByteValues)
                     /\ (c \div ByteValues) \in Int /\ (c % ByteValues) \in Octets
  BY <1>0 DEF Octets
<1> DEFINE q == a \div ByteValues
           r == a % ByteValues
           s == ByteValues * k + a
           q2 == s \div ByteValues
           r2 == s % ByteValues
<1>2. a = ByteValues * q + r /\ q \in Int /\ r \in Octets BY <1>1
<1>3. s \in Int BY <1>0
<1>4. s = ByteValues * q2 + r2 /\ q2 \in Int /\ r2 \in Octets
  <2> HIDE DEF s
  <2> QED BY <1>1, <1>3
<1>5. s = ByteValues * k + a OBVIOUS
<1> HIDE DEF q, r, s, q2, r2
<1> DEFINE d == (k + q) - q2
<1>6. d \in Int BY <1>2, <1>4
<1>7. ByteValues * d + r = r2
  <2>1. ByteValues * d = ByteValues * k + ByteValues * q - ByteValues * q2 BY <1>0, <1>2, <1>4
  <2>2. ByteValues * k \in Int /\ ByteValues * q \in Int /\ ByteValues * q2 \in Int
    BY <1>0, <1>2, <1>4
  <2> DEFINE x == ByteValues * k
             y == ByteValues * q
             z == ByteValues * q2
             w == ByteValues * d
  <2>3. w = x + y - z /\ x \in Int /\ y \in Int /\ z \in Int BY <2>1, <2>2
  <2>4. s = x + a /\ a = y + r /\ s = z + r2 BY <1>2, <1>4, <1>5
  <2>5. r \in Int /\ r2 \in Int BY <1>2, <1>4 DEF Octets
  <2> HIDE DEF x, y, z, w
  <2>6. w + r = r2 BY <2>3, <2>4, <2>5
  <2> QED BY <2>6 DEF w
<1> HIDE DEF d
<1>8. d = 0
  <2>1. CASE d > 0
    <3>1. ByteValues * d >= ByteValues BY <1>0, <1>6, <2>1
    <3>2. ByteValues * d \in Int BY <1>0, <1>6
    <3> DEFINE w == ByteValues * d
    <3> HIDE DEF w
    <3>3. w >= ByteValues /\ w \in Int /\ w + r = r2 BY <1>7, <3>1, <3>2 DEF w
    <3> QED BY <1>0, <1>2, <1>4, <3>3 DEF Octets
  <2>2. CASE d < 0
    <3>1. ByteValues * d <= -ByteValues
      <4>1. ByteValues * (-d) >= ByteValues BY <1>0, <1>6, <2>2
      <4>2. ByteValues * d = -(ByteValues * (-d)) BY <1>0, <1>6
      <4>3. ByteValues * (-d) \in Int BY <1>0, <1>6
      <4> QED BY <1>0, <4>1, <4>2, <4>3
    <3>2. ByteValues * d \in Int BY <1>0, <1>6
    <3> DEFINE w == ByteValues * d
    <3> HIDE DEF w
    <3>3. w <= -ByteValues /\ w \in Int /\ w + r = r2 BY <1>7, <3>1, <3>2 DEF w
    <3> QED BY <1>0, <1>2, <1>4, <3>3 DEF Octets
  <2> QED BY <1>6, <2>1, <2>2
<1>9. q2 = k + q /\ r2 = r
  <2>1. k + q = q2 BY <1>2, <1>4, <1>8 DEF d
  <2>2. ByteValues * 0 = 0 BY <1>0
  <2>3. r = r2 BY <1>2, <1>4, <1>7, <1>8, <2>2 DEF Octets
  <2> QED BY <2>1, <2>3
<1> QED BY <1>2, <1>9 DEF q, r, q2, r2, s

\* What is left of a number at each of its places, without the bytes below.
IsShifts(f, v) ==
  /\ f \in [1 .. WideBytes -> Int] /\ f[1] = v
  /\ \A i \in 2 .. WideBytes : f[i] = f[i - 1] \div ByteValues

\* The bytes of a number are the lowest of what is left at each place.
LEMMA DigitsFacts ==
  ASSUME NEW v \in Int
  PROVE  /\ \E f : IsShifts(f, v) /\ Digits(v) = [i \in 1 .. WideBytes |-> f[i] % ByteValues]
         /\ Digits(v) \in [1 .. WideBytes -> Octets]
<1>0. WideBytes \in Nat \ {0} BY FilterAssumption
<1> DEFINE Shifts(f, n) == /\ f \in [1 .. n -> Int] /\ f[1] = v
                           /\ \A i \in 2 .. n : f[i] = f[i - 1] \div ByteValues
           S == {n \in 1 .. WideBytes : ~ \E f : Shifts(f, n)}
<1>1. \E f : Shifts(f, WideBytes)
  <2>0. WideBytes \in 1 .. WideBytes BY <1>0
  <2>1. SUFFICES ASSUME S # {} PROVE FALSE BY <2>0
  <2>2. PICK n \in S : \A k \in S : n <= k
    <3>1. S \in SUBSET (0 .. WideBytes) OBVIOUS
    <3> HIDE DEF S
    <3> QED BY <1>0, <2>1, <3>1, SmallestNumber
  <2>3. n \in 1 .. WideBytes /\ ~ \E f : Shifts(f, n) BY <2>2
  <2>4. CASE n = 1
    <3>1. Shifts([i \in 1 .. 1 |-> v], 1) OBVIOUS
    <3> QED BY <2>3, <2>4, <3>1
  <2>5. CASE n # 1
    <3>1. n - 1 \in 1 .. WideBytes /\ ~(n <= n - 1) BY <2>3, <2>5, <1>0
    <3>2. PICK f : Shifts(f, n - 1) BY <2>2, <3>1
    <3> DEFINE g == [i \in 1 .. n |-> IF i = n THEN f[n - 1] \div ByteValues ELSE f[i]]
    <3>3. f[n - 1] \in Int BY <3>1, <3>2
    <3>4. (f[n - 1] \div ByteValues) \in Int BY <3>3, DividingByValues
    <3>5. g \in [1 .. n -> Int]
      <4>1. ASSUME NEW i \in 1 .. n
            PROVE  (IF i = n THEN f[n - 1] \div ByteValues ELSE f[i]) \in Int
        <5>1. i = n \/ i \in 1 .. n - 1 BY <2>3
        <5> QED BY <5>1, <3>2, <3>4
      <4> QED BY <4>1
    <3>6. g[1] = v BY <2>3, <2>5, <3>2
    <3>7. ASSUME NEW i \in 2 .. n PROVE g[i] = g[i - 1] \div ByteValues
      <4>1. i - 1 \in 1 .. n /\ i - 1 # n /\ i \in 1 .. n BY <2>3
      <4>2. g[i - 1] = f[i - 1] BY <4>1
      <4>3. CASE i = n BY <4>1, <4>2, <4>3
      <4>4. CASE i # n
        <5>1. i \in 2 .. n - 1 BY <2>3, <4>4
        <5>2. f[i] = f[i - 1] \div ByteValues BY <3>2, <5>1
        <5> QED BY <4>1, <4>2, <4>4, <5>2
      <4> QED BY <4>3, <4>4
    <3>8. Shifts(g, n)
      <4> HIDE DEF g
      <4> QED BY <3>5, <3>6, <3>7
    <3> QED BY <2>3, <3>8
  <2> QED BY <2>4, <2>5
<1>2. PICK f : IsShifts(f, v) BY <1>1 DEF IsShifts
<1> DEFINE Recurs(g) == g = [i \in 1 .. WideBytes |->
                               IF i = 1 THEN v ELSE g[i - 1] \div ByteValues]
           Divided == CHOOSE g : Recurs(g)
<1>3. Recurs(f)
  <2>1. ASSUME NEW i \in 1 .. WideBytes
        PROVE  f[i] = IF i = 1 THEN v ELSE f[i - 1] \div ByteValues
    <3>1. i = 1 \/ i \in 2 .. WideBytes OBVIOUS
    <3> QED BY <3>1, <1>2 DEF IsShifts
  <2> QED BY <1>2, <2>1 DEF IsShifts
<1>4. Recurs(Divided)
  <2> HIDE DEF Recurs
  <2> QED BY <1>3
<1>5. Digits(v) = [i \in 1 .. WideBytes |-> Divided[i] % ByteValues] BY DEF Digits
<1> HIDE DEF Divided
<1>6. ASSUME NEW i \in 1 .. WideBytes PROVE Divided[i] = f[i]
  <2> DEFINE W == {j \in 1 .. WideBytes : Divided[j] # f[j]}
  <2>1. SUFFICES ASSUME W # {} PROVE FALSE OBVIOUS
  <2>2. PICK j \in W : \A k \in W : j <= k
    <3>1. W \in SUBSET (0 .. WideBytes) OBVIOUS
    <3> HIDE DEF W
    <3> QED BY <1>0, <2>1, <3>1, SmallestNumber
  <2>3. j \in 1 .. WideBytes /\ Divided[j] # f[j] BY <2>2
  <2>4. \A k \in 1 .. WideBytes :
          /\ Divided[k] = IF k = 1 THEN v ELSE Divided[k - 1] \div ByteValues
          /\ f[k] = IF k = 1 THEN v ELSE f[k - 1] \div ByteValues
    BY <1>3, <1>4
  <2>5. j # 1 BY <2>3, <2>4
  <2>6. j - 1 \in 1 .. WideBytes /\ ~(j <= j - 1) BY <1>0, <2>3, <2>5
  <2>7. Divided[j - 1] = f[j - 1] BY <2>2, <2>6
  <2> QED BY <2>3, <2>4, <2>5, <2>7
<1>7. Digits(v) = [i \in 1 .. WideBytes |-> f[i] % ByteValues]
  <2> HIDE DEF Recurs
  <2> QED BY <1>5, <1>6
<1>8. Digits(v) \in [1 .. WideBytes -> Octets]
  <2>1. ASSUME NEW i \in 1 .. WideBytes PROVE (f[i] % ByteValues) \in Octets
    <3>1. f[i] \in Int BY <1>2 DEF IsShifts
    <3> QED BY <3>1, DividingByValues
  <2> QED BY <1>7, <2>1
<1> QED BY <1>2, <1>7, <1>8
\* Numbers that end in the same byte still do with the same added, and the carry is
\* the same.
LEMMA SameCarry ==
  ASSUME NEW a \in Int, NEW b \in Int, NEW c \in Int, (a % ByteValues) = (b % ByteValues)
  PROVE  /\ ((a + c) % ByteValues) = ((b + c) % ByteValues)
         /\ ((a + c) \div ByteValues) - (a \div ByteValues)
              = ((b + c) \div ByteValues) - (b \div ByteValues)
<1>0. ByteValues \in Nat \ {0} BY FilterAssumption
<1> DEFINE q(n) == n \div ByteValues
           r == a % ByteValues
<1>1. ASSUME NEW n \in Int, (n % ByteValues) = r
      PROVE  /\ ((n + c) % ByteValues) = ((r + c) % ByteValues)
             /\ q(n + c) = q(n) + q(r + c) /\ q(n) \in Int /\ q(r + c) \in Int
  <2>1. n = ByteValues * q(n) + r /\ q(n) \in Int /\ r \in Octets BY <1>1, DividingByValues
  <2> DEFINE k == q(n)
             s == r + c
  <2>2. k \in Int /\ s \in Int BY <2>1 DEF Octets
  <2>3. n + c = ByteValues * k + s
    <3>1. ByteValues * k \in Int BY <1>0, <2>2
    <3> DEFINE x == ByteValues * k
    <3>2. n = x + r /\ x \in Int BY <2>1, <3>1
    <3>3. r \in Int BY <2>1 DEF Octets
    <3> HIDE DEF x, k, r
    <3>4. n + c = x + (r + c) BY <3>2, <3>3
    <3> QED BY <3>4 DEF x
  <2> HIDE DEF k, s, r
  <2>4. /\ ((ByteValues * k + s) \div ByteValues) = k + (s \div ByteValues)
        /\ ((ByteValues * k + s) % ByteValues) = (s % ByteValues)
        /\ (s \div ByteValues) \in Int
    BY <2>2, DividingByValues
  <2> QED BY <2>2, <2>3, <2>4 DEF k, s
<1> HIDE DEF r
<1>2. /\ ((a + c) % ByteValues) = ((r + c) % ByteValues)
      /\ q(a + c) = q(a) + q(r + c) /\ q(a) \in Int /\ q(r + c) \in Int
  BY <1>1 DEF r
<1>3. /\ ((b + c) % ByteValues) = ((r + c) % ByteValues)
      /\ q(b + c) = q(b) + q(r + c) /\ q(b) \in Int
  BY <1>1 DEF r
<1> HIDE DEF q
<1>4. q(a + c) - q(a) = q(b + c) - q(b) BY <1>2, <1>3
<1> QED BY <1>2, <1>3, <1>4 DEF q

\* Numbers with the same bytes still have them with the same added: an address can be
\* added to a displacement, and taken off, whatever was lost of the sum.
LEMMA SameDigits ==
  ASSUME NEW v \in Int, NEW w \in Int, NEW c \in Int, Digits(v) = Digits(w)
  PROVE  Digits(v + c) = Digits(w + c)
<1>0. WideBytes \in Nat \ {0} BY FilterAssumption
<1>1. PICK f : IsShifts(f, v) /\ Digits(v) = [i \in 1 .. WideBytes |-> f[i] % ByteValues]
  BY DigitsFacts
<1>2. PICK g : IsShifts(g, w) /\ Digits(w) = [i \in 1 .. WideBytes |-> g[i] % ByteValues]
  BY DigitsFacts
<1>3. PICK f2 : /\ IsShifts(f2, v + c)
                /\ Digits(v + c) = [i \in 1 .. WideBytes |-> f2[i] % ByteValues]
  <2>1. v + c \in Int OBVIOUS
  <2> QED BY <2>1, DigitsFacts
<1>4. PICK g2 : /\ IsShifts(g2, w + c)
                /\ Digits(w + c) = [i \in 1 .. WideBytes |-> g2[i] % ByteValues]
  <2>1. w + c \in Int OBVIOUS
  <2> QED BY <2>1, DigitsFacts
<1>5. ASSUME NEW i \in 1 .. WideBytes
      PROVE  /\ f[i] \in Int /\ g[i] \in Int /\ f2[i] \in Int /\ g2[i] \in Int
             /\ (f[i] % ByteValues) = (g[i] % ByteValues)
  <2>1. (f[i] % ByteValues) = (g[i] % ByteValues) BY <1>1, <1>2
  <2> QED BY <2>1, <1>1, <1>2, <1>3, <1>4 DEF IsShifts
<1>6. ASSUME NEW i \in 1 .. WideBytes PROVE f2[i] - f[i] = g2[i] - g[i]
  <2> DEFINE W == {j \in 1 .. WideBytes : f2[j] - f[j] # g2[j] - g[j]}
  <2>1. SUFFICES ASSUME W # {} PROVE FALSE OBVIOUS
  <2>2. PICK j \in W : \A k \in W : j <= k
    <3>1. W \in SUBSET (0 .. WideBytes) OBVIOUS
    <3> HIDE DEF W
    <3> QED BY <1>0, <2>1, <3>1, SmallestNumber
  <2>3. j \in 1 .. WideBytes /\ f2[j] - f[j] # g2[j] - g[j] BY <2>2
  <2>4. j # 1
    <3>1. f[1] = v /\ g[1] = w /\ f2[1] = v + c /\ g2[1] = w + c
      BY <1>1, <1>2, <1>3, <1>4 DEF IsShifts
    <3> QED BY <2>3, <3>1
  <2>5. j - 1 \in 1 .. WideBytes /\ ~(j <= j - 1) /\ j \in 2 .. WideBytes BY <1>0, <2>3, <2>4
  <2> DEFINE k == j - 1
             d == f2[k] - f[k]
  <2>6. d = g2[k] - g[k] BY <2>2, <2>5
  <2>7. /\ f[k] \in Int /\ g[k] \in Int /\ f2[k] \in Int /\ g2[k] \in Int
        /\ (f[k] % ByteValues) = (g[k] % ByteValues)
    <3> HIDE DEF d
    <3> QED BY <1>5, <2>5
  <2>8. /\ f[j] = f[k] \div ByteValues /\ g[j] = g[k] \div ByteValues
        /\ f2[j] = f2[k] \div ByteValues /\ g2[j] = g2[k] \div ByteValues
    BY <2>5, <1>1, <1>2, <1>3, <1>4 DEF IsShifts
  <2>9. f2[k] = f[k] + d /\ g2[k] = g[k] + d /\ d \in Int BY <2>6, <2>7
  <2> HIDE DEF d
  <2>10. ((f[k] + d) \div ByteValues) - (f[k] \div ByteValues)
           = ((g[k] + d) \div ByteValues) - (g[k] \div ByteValues)
    BY <2>7, <2>9, SameCarry
  <2> QED BY <2>3, <2>8, <2>9, <2>10
<1>7. ASSUME NEW i \in 1 .. WideBytes PROVE (f2[i] % ByteValues) = (g2[i] % ByteValues)
  <2> DEFINE d == f2[i] - f[i]
  <2>1. d = g2[i] - g[i] BY <1>6
  <2>2. f2[i] = f[i] + d /\ g2[i] = g[i] + d /\ d \in Int BY <1>5, <2>1
  <2> HIDE DEF d
  <2>3. ((f[i] + d) % ByteValues) = ((g[i] + d) % ByteValues) BY <1>5, <2>2, SameCarry
  <2> QED BY <2>2, <2>3
<1> QED BY <1>3, <1>4, <1>7

\* A number that is read has the bytes it was read from.
LEMMA ReadsDigits ==
  ASSUME NEW data, NEW p \in Int, \A i \in 1 .. WideBytes : data[p + i] \in Octets
  PROVE  /\ NumberAt(data, p) \in Int
         /\ Digits(NumberAt(data, p)) = [i \in 1 .. WideBytes |-> data[p + i]]
<1>0. WideBytes \in Nat \ {0} /\ ByteValues \in Nat \ {0} BY FilterAssumption
<1> DEFINE b(i) == data[p + i]
           Top(f, n) == /\ f \in [WideBytes - n .. WideBytes -> Int]
                        /\ f[WideBytes] = b(WideBytes)
                        /\ \A i \in WideBytes - n .. WideBytes - 1 :
                             f[i] = b(i) + ByteValues * f[i + 1]
           S == {n \in 0 .. WideBytes - 1 : ~ \E f : Top(f, n)}
<1>a. \A i \in 1 .. WideBytes : b(i) \in Octets /\ b(i) \in Int BY DEF Octets
<1> HIDE DEF b
<1>1. \E f : Top(f, WideBytes - 1)
  <2>0. WideBytes - 1 \in 0 .. WideBytes - 1 BY <1>0
  <2>1. SUFFICES ASSUME S # {} PROVE FALSE BY <2>0
  <2>2. PICK n \in S : \A k \in S : n <= k
    <3>1. S \in SUBSET (0 .. WideBytes) BY <1>0
    <3> HIDE DEF S
    <3> QED BY <1>0, <2>1, <3>1, SmallestNumber
  <2>3. n \in 0 .. WideBytes - 1 /\ ~ \E f : Top(f, n) BY <2>2
  <2>4. CASE n = 0
    <3>1. WideBytes \in 1 .. WideBytes BY <1>0
    <3>2. Top([i \in WideBytes - 0 .. WideBytes |-> b(WideBytes)], 0) BY <1>0, <1>a, <3>1
    <3> QED BY <2>3, <2>4, <3>2
  <2>5. CASE n # 0
    <3>1. n - 1 \in 0 .. WideBytes - 1 /\ ~(n <= n - 1) BY <2>3, <2>5, <1>0
    <3>2. PICK f : Top(f, n - 1) BY <2>2, <3>1
    <3> DEFINE m == WideBytes - n
    <3>3. m \in 1 .. WideBytes - 1 /\ m + 1 = WideBytes - (n - 1) BY <1>0, <2>3, <2>5
    <3>4. f \in [m + 1 .. WideBytes -> Int] /\ f[WideBytes] = b(WideBytes)
          /\ \A i \in m + 1 .. WideBytes - 1 : f[i] = b(i) + ByteValues * f[i + 1]
      <4> HIDE DEF m
      <4> QED BY <3>2, <3>3
    <3> HIDE DEF m
    <3> DEFINE g == [i \in m .. WideBytes |-> IF i = m THEN b(m) + ByteValues * f[m + 1] ELSE f[i]]
    <3>5. b(m) + ByteValues * f[m + 1] \in Int
      <4>1. f[m + 1] \in Int /\ b(m) \in Int BY <1>0, <1>a, <3>3, <3>4
      <4>2. ByteValues * f[m + 1] \in Int BY <1>0, <4>1
      <4> QED BY <4>1, <4>2
    <3>6. g \in [m .. WideBytes -> Int]
      <4>1. ASSUME NEW i \in m .. WideBytes
            PROVE  (IF i = m THEN b(m) + ByteValues * f[m + 1] ELSE f[i]) \in Int
        <5>1. i = m \/ i \in m + 1 .. WideBytes BY <1>0, <3>3
        <5> QED BY <3>4, <3>5, <5>1
      <4> QED BY <4>1
    <3>7. g[WideBytes] = b(WideBytes) BY <1>0, <3>3, <3>4
    <3>8. ASSUME NEW i \in m .. WideBytes - 1 PROVE g[i] = b(i) + ByteValues * g[i + 1]
      <4>1. i + 1 \in m .. WideBytes /\ i + 1 # m /\ i \in m .. WideBytes BY <1>0, <3>3
      <4>2. g[i + 1] = f[i + 1] BY <4>1
      <4>3. CASE i = m BY <4>1, <4>2, <4>3
      <4>4. CASE i # m
        <5>1. i \in m + 1 .. WideBytes - 1 BY <1>0, <3>3, <4>4
        <5>2. f[i] = b(i) + ByteValues * f[i + 1] BY <3>4, <5>1
        <5> QED BY <4>1, <4>2, <4>4, <5>2
      <4> QED BY <4>3, <4>4
    <3>9. Top(g, n)
      <4> HIDE DEF g
      <4> QED BY <3>6, <3>7, <3>8 DEF m
    <3> QED BY <2>3, <3>9
  <2> QED BY <2>4, <2>5
<1>2. PICK h : Top(h, WideBytes - 1) BY <1>1
<1>3. /\ h \in [1 .. WideBytes -> Int] /\ h[WideBytes] = b(WideBytes)
      /\ \A i \in 1 .. WideBytes - 1 : h[i] = b(i) + ByteValues * h[i + 1]
  <2>1. WideBytes - (WideBytes - 1) = 1 BY <1>0
  <2> QED BY <1>2, <2>1
<1> DEFINE Recurs(g) == g = [i \in 1 .. WideBytes |->
                               IF i = WideBytes THEN data[p + i]
                                                ELSE data[p + i] + ByteValues * g[i + 1]]
           Value == CHOOSE g : Recurs(g)
<1>4. Recurs(h)
  <2>1. ASSUME NEW i \in 1 .. WideBytes
        PROVE  h[i] = IF i = WideBytes THEN b(i) ELSE b(i) + ByteValues * h[i + 1]
    <3>1. i = WideBytes \/ i \in 1 .. WideBytes - 1 BY <1>0
    <3> QED BY <3>1, <1>3
  <2> QED BY <1>3, <2>1 DEF b
<1>5. Recurs(Value)
  <2> HIDE DEF Recurs
  <2> QED BY <1>4
<1>6. NumberAt(data, p) = Value[1] BY DEF NumberAt
<1> HIDE DEF Value
<1>7. Value[1] = h[1]
  <2> DEFINE W == {k \in 0 .. WideBytes - 1 : Value[WideBytes - k] # h[WideBytes - k]}
  <2>1. W = {}
    <3>1. SUFFICES ASSUME W # {} PROVE FALSE OBVIOUS
    <3>2. PICK k \in W : \A j \in W : k <= j
      <4>1. W \in SUBSET (0 .. WideBytes) BY <1>0
      <4> HIDE DEF W
      <4> QED BY <1>0, <3>1, <4>1, SmallestNumber
    <3>3. k \in 0 .. WideBytes - 1 /\ Value[WideBytes - k] # h[WideBytes - k] BY <3>2
    <3>4. \A i \in 1 .. WideBytes :
            /\ Value[i] = IF i = WideBytes THEN b(i) ELSE b(i) + ByteValues * Value[i + 1]
            /\ h[i] = IF i = WideBytes THEN b(i) ELSE b(i) + ByteValues * h[i + 1]
      BY <1>4, <1>5 DEF b
    <3> DEFINE i == WideBytes - k
    <3>5. i \in 1 .. WideBytes BY <1>0, <3>3
    <3>6. i # WideBytes
      <4> HIDE DEF i, Recurs
      <4> QED BY <3>3, <3>4, <3>5 DEF i
    <3>7. i + 1 = WideBytes - (k - 1) /\ k - 1 \in 0 .. WideBytes - 1 /\ ~(k <= k - 1)
      BY <1>0, <3>3, <3>6
    <3>8. Value[i + 1] = h[i + 1]
      <4> HIDE DEF i, Recurs
      <4> QED BY <3>2, <3>7
    <3> HIDE DEF i, Recurs
    <3> QED BY <3>3, <3>4, <3>5, <3>6, <3>8 DEF i
  <2>2. WideBytes - 1 \in 0 .. WideBytes - 1 /\ WideBytes - (WideBytes - 1) = 1 BY <1>0
  <2>3. WideBytes - 1 \notin W BY <2>1
  <2> HIDE DEF Recurs
  <2> QED BY <2>2, <2>3
<1>8. NumberAt(data, p) = h[1] /\ h[1] \in Int
  <2>1. 1 \in 1 .. WideBytes BY <1>0
  <2> HIDE DEF Recurs
  <2> QED BY <1>3, <1>6, <1>7, <2>1
<1>9. PICK f : IsShifts(f, h[1]) /\ Digits(h[1]) = [i \in 1 .. WideBytes |-> f[i] % ByteValues]
  BY <1>8, DigitsFacts
<1>10. \A c \in Octets : (c \div ByteValues) = 0 /\ (c % ByteValues) = c
  <2>1. SUFFICES ASSUME NEW c \in Octets PROVE (c \div ByteValues) = 0 /\ (c % ByteValues) = c
    OBVIOUS
  <2>2. c \in 0 .. ByteValues - 1 BY DEF Octets
  <2> QED BY <1>0, <2>2
<1>11. ASSUME NEW i \in 1 .. WideBytes - 1
       PROVE  (h[i] \div ByteValues) = h[i + 1] /\ (h[i] % ByteValues) = b(i)
  <2>1. h[i] = b(i) + ByteValues * h[i + 1] /\ b(i) \in Octets /\ b(i) \in Int BY <1>0, <1>3, <1>a
  <2>2. h[i + 1] \in Int
    <3>1. i + 1 \in 1 .. WideBytes BY <1>0
    <3> QED BY <1>3, <3>1
  <2> DEFINE k == h[i + 1]
             a == b(i)
  <2>3. h[i] = ByteValues * k + a
    <3>1. ByteValues * k \in Int BY <1>0, <2>2
    <3> DEFINE x == ByteValues * k
    <3>2. h[i] = a + x /\ x \in Int /\ a \in Int BY <2>1, <3>1
    <3> HIDE DEF x, a, k
    <3>3. h[i] = x + a BY <3>2
    <3> QED BY <3>3 DEF x
  <2>4. k \in Int /\ a \in Int /\ a \in Octets BY <2>1, <2>2
  <2> HIDE DEF k, a
  <2>5. /\ ((ByteValues * k + a) \div ByteValues) = k + (a \div ByteValues)
        /\ ((ByteValues * k + a) % ByteValues) = (a % ByteValues)
    BY <2>4, DividingByValues
  <2>6. (a \div ByteValues) = 0 /\ (a % ByteValues) = a BY <1>10, <2>4
  <2> QED BY <2>3, <2>4, <2>5, <2>6 DEF k, a
<1>12. ASSUME NEW i \in 1 .. WideBytes PROVE f[i] = h[i]
  <2> DEFINE W == {j \in 1 .. WideBytes : f[j] # h[j]}
  <2>1. SUFFICES ASSUME W # {} PROVE FALSE OBVIOUS
  <2>2. PICK j \in W : \A k \in W : j <= k
    <3>1. W \in SUBSET (0 .. WideBytes) OBVIOUS
    <3> HIDE DEF W
    <3> QED BY <1>0, <2>1, <3>1, SmallestNumber
  <2>3. j \in 1 .. WideBytes /\ f[j] # h[j] BY <2>2
  <2>4. j # 1 BY <2>3, <1>9 DEF IsShifts
  <2>5. j - 1 \in 1 .. WideBytes - 1 /\ ~(j <= j - 1) /\ j \in 2 .. WideBytes
        /\ (j - 1) + 1 = j /\ j - 1 \in 1 .. WideBytes
    BY <1>0, <2>3, <2>4
  <2>6. f[j - 1] = h[j - 1] BY <2>2, <2>5
  <2>7. f[j] = f[j - 1] \div ByteValues BY <2>5, <1>9 DEF IsShifts
  <2>8. (h[j - 1] \div ByteValues) = h[(j - 1) + 1] BY <1>11, <2>5
  <2> QED BY <2>3, <2>5, <2>6, <2>7, <2>8
<1>13. ASSUME NEW i \in 1 .. WideBytes PROVE (f[i] % ByteValues) = b(i)
  <2>1. CASE i = WideBytes
    <3>1. h[i] = b(i) /\ b(i) \in Octets BY <1>3, <1>a, <2>1
    <3> QED BY <1>10, <1>12, <3>1
  <2>2. CASE i # WideBytes
    <3>1. i \in 1 .. WideBytes - 1 BY <1>0, <2>2
    <3>2. (h[i] % ByteValues) = b(i) BY <1>11, <3>1
    <3> QED BY <1>12, <3>2
  <2> QED BY <2>1, <2>2
<1>14. [i \in 1 .. WideBytes |-> f[i] % ByteValues] = [i \in 1 .. WideBytes |-> data[p + i]]
  BY <1>13 DEF b
<1> QED BY <1>8, <1>9, <1>14

\* What is read depends on the bytes read.
LEMMA ReadsTheSame ==
  ASSUME NEW data, NEW other, NEW p \in Int,
         \A i \in 1 .. WideBytes : data[p + i] = other[p + i]
  PROVE  NumberAt(data, p) = NumberAt(other, p)
<1> DEFINE Recurs(d, g) == g = [i \in 1 .. WideBytes |->
                                  IF i = WideBytes THEN d[p + i]
                                                   ELSE d[p + i] + ByteValues * g[i + 1]]
<1>1. ASSUME NEW g PROVE Recurs(data, g) <=> Recurs(other, g)
  <2>1. [i \in 1 .. WideBytes |-> IF i = WideBytes THEN data[p + i]
                                                   ELSE data[p + i] + ByteValues * g[i + 1]]
        = [i \in 1 .. WideBytes |-> IF i = WideBytes THEN other[p + i]
                                                     ELSE other[p + i] + ByteValues * g[i + 1]]
    OBVIOUS
  <2> QED BY <2>1
<1>2. (CHOOSE g : Recurs(data, g)) = (CHOOSE g : Recurs(other, g))
  <2> HIDE DEF Recurs
  <2> QED BY <1>1
<1>3. NumberAt(data, p) = (CHOOSE g : Recurs(data, g))[1] BY DEF NumberAt
<1>4. NumberAt(other, p) = (CHOOSE g : Recurs(other, g))[1] BY DEF NumberAt
<1> QED BY <1>2, <1>3, <1>4
-----------------------------------------------------------------------------
(***************************************************************************)
(* A pass of the filter as a walk over data: where it is, and what it      *)
(* remembers, at each instruction.                                         *)
(***************************************************************************)
PassPoint ==
  [place : Nat \ {0}, last : Int, usages : [Targets -> Int], count : Nat]
PassBegin ==
  [place |-> PassStart.place, last |-> PassStart.last, usages |-> PassStart.usages, count |-> 0]
Position(count) == [place |-> place, last |-> lastPlace, usages |-> usages, count |-> count]

Inside(data, i) == Len(data) > TailLen + 1 /\ i < Len(data) - TailLen

\* Whether data has a displacement at a point, where, and whether it is changed.
Translates(data, a) == OpcodeOf(data, a.place)[1] > 0
Displaced(data, a)  == a.place + OpcodeOf(data, a.place)[1]
EndAt(data, a)      == Displaced(data, a) + WideBytes - 1
TargetAt(data, a)   == TargetOf(a.place + NumberAt(data, Displaced(data, a)))
Near(data, a)       == Translates(data, a) /\ a.place - a.last <= OpcodeOf(data, a.place)[2]

\* The next point, and what the first pass leaves between the two.
After(data, a) ==
  IF Translates(data, a)
  THEN [place  |-> EndAt(data, a) + 1,
        last   |-> IF EndAt(data, a) - a.usages[TargetAt(data, a)] <= IdWindow
                   THEN EndAt(data, a) ELSE a.last,
        usages |-> [a.usages EXCEPT ![TargetAt(data, a)] = EndAt(data, a)],
        count  |-> IF Near(data, a) THEN a.count + 1 ELSE a.count]
  ELSE [place  |-> IF ByteAt(data, a.place) = Jump THEN a.place + 1 + WideBytes ELSE a.place + 1,
        last   |-> a.last, usages |-> a.usages, count |-> a.count]
Image(data, a) ==
  IF Near(data, a)
  THEN WithNumber(data, Displaced(data, a), NumberAt(data, Displaced(data, a)) + a.place)
  ELSE data

\* What an instruction starts with: one to three bytes, of which the first is an opener.
LEMMA OpcodeFacts ==
  ASSUME NEW data, NEW q \in Nat
  PROVE  /\ OpcodeOf(data, q)[1] \in 0 .. 3
         /\ OpcodeOf(data, q)[1] > 0 => ByteAt(data, q) \in Openers \ {Jump}
         /\ OpcodeOf(data, q)[1] = 1 => ByteAt(data, q) = Call
BY FilterAssumption DEF OpcodeOf, Openers

\* The opcode is read from the bytes before the displacement; where there is none, from
\* the next two at most, and the second of them only behind a byte no instruction opens
\* with.
LEMMA OpcodeKept ==
  ASSUME NEW data, NEW other, NEW q \in Nat, data[q + 1] = other[q + 1],
         \A j \in 1 .. OpcodeOf(data, q)[1] : data[q + j] = other[q + j],
         OpcodeOf(data, q)[1] = 0 =>
           \/ ByteAt(data, q) = Jump
           \/ /\ data[q + 2] = other[q + 2]
              /\ data[q + 3] = other[q + 3] \/ data[q + 2] \in Openers
  PROVE  OpcodeOf(other, q) = OpcodeOf(data, q)
<1>1. /\ q + 1 + 1 = q + 2 /\ q + 2 + 1 = q + 3 OBVIOUS
<1>2. /\ ByteAt(data, q) = data[q + 1] /\ ByteAt(other, q) = other[q + 1]
      /\ ByteAt(data, q + 1) = data[q + 2] /\ ByteAt(other, q + 1) = other[q + 2]
      /\ ByteAt(data, q + 2) = data[q + 3] /\ ByteAt(other, q + 2) = other[q + 3]
  BY <1>1 DEF ByteAt
<1>3. OpcodeOf(data, q)[1] \in 0 .. 3 BY OpcodeFacts
<1>4. CASE OpcodeOf(data, q)[1] = 0
  <2>1. CASE ByteAt(data, q) = Jump
    BY <1>2, <2>1, FilterAssumption DEF OpcodeOf, Openers
  <2>2. CASE data[q + 2] = other[q + 2] /\ data[q + 3] = other[q + 3]
    BY <1>2, <2>2 DEF OpcodeOf
  <2>3. CASE data[q + 2] = other[q + 2] /\ data[q + 2] \in Openers
    <3>1. data[q + 2] \notin {Lea, Load, AddImm} BY <2>3, FilterAssumption
    <3> QED BY <1>2, <2>3, <3>1 DEF OpcodeOf
  <2> QED BY <1>4, <2>1, <2>2, <2>3
<1>5. CASE OpcodeOf(data, q)[1] = 1
  <2>1. ByteAt(data, q) = Call BY <1>5, OpcodeFacts
  <2> QED BY <1>2, <2>1, FilterAssumption DEF OpcodeOf
<1>6. CASE OpcodeOf(data, q)[1] = 2
  <2>1. data[q + 2] = other[q + 2] BY <1>6
  <2>2. ByteAt(data, q) = Group /\ ByteAt(data, q + 1) = Indirect
    BY <1>6, FilterAssumption DEF OpcodeOf, Openers
  <2> QED BY <1>2, <2>1, <2>2, FilterAssumption DEF OpcodeOf, Openers
<1>7. CASE OpcodeOf(data, q)[1] = 3
  <2>1. data[q + 2] = other[q + 2] /\ data[q + 3] = other[q + 3] BY <1>7
  <2> QED BY <1>2, <2>1 DEF OpcodeOf
<1> QED BY <1>3, <1>4, <1>5, <1>6, <1>7

\* A number is written over its bytes and no others.
LEMMA WithNumberFacts ==
  ASSUME NEW data \in Seq(Octets), NEW p \in Nat, NEW v \in Int, p + WideBytes <= Len(data)
  PROVE  /\ WithNumber(data, p, v) \in Seq(Octets)
         /\ Len(WithNumber(data, p, v)) = Len(data)
         /\ \A i \in 1 .. Len(data) :
              WithNumber(data, p, v)[i] = IF i \in p + 1 .. p + WideBytes THEN Digits(v)[i - p]
                                                                         ELSE data[i]
<1>0. WideBytes \in Nat \ {0} BY FilterAssumption
<1> DEFINE w == WithNumber(data, p, v)
           n == Len(data)
<1>1. n \in Nat /\ DOMAIN data = 1 .. n /\ \A i \in 1 .. n : data[i] \in Octets OBVIOUS
<1>2. w = [i \in 1 .. n |-> IF i \in p + 1 .. p + WideBytes THEN Digits(v)[i - p] ELSE data[i]]
  BY <1>1 DEF WithNumber
<1>3. ASSUME NEW i \in 1 .. n
      PROVE  (IF i \in p + 1 .. p + WideBytes THEN Digits(v)[i - p] ELSE data[i]) \in Octets
  <2>1. CASE i \in p + 1 .. p + WideBytes
    <3>1. i - p \in 1 .. WideBytes BY <1>0, <2>1
    <3>2. Digits(v) \in [1 .. WideBytes -> Octets] BY DigitsFacts
    <3>3. Digits(v)[i - p] \in Octets BY <3>1, <3>2
    <3> QED BY <2>1, <3>3
  <2>2. CASE i \notin p + 1 .. p + WideBytes BY <1>1, <2>2
  <2> QED BY <2>1, <2>2
<1>4. w \in [1 .. n -> Octets]
  <2> HIDE DEF w, n
  <2> QED BY <1>2, <1>3
<1>5. w \in Seq(Octets) /\ Len(w) = n
  <2> HIDE DEF w, n
  <2>1. w \in Seq(Octets) BY <1>1, <1>4, IsASeq
  <2> QED BY <1>1, <1>4, <2>1, LenProperties
<1> QED BY <1>2, <1>5
\* A displacement begins behind its opcode and ends before the data does.
LEMMA DisplacedFacts ==
  ASSUME NEW data \in Seq(Octets), NEW a \in PassPoint, Inside(data, a.place)
  PROVE  /\ a.place \in Nat \ {0} /\ a.place + 3 <= Len(data)
         /\ a.place + 1 + WideBytes <= Len(data)
         /\ Displaced(data, a) \in a.place .. a.place + 3
         /\ Displaced(data, a) + WideBytes <= Len(data)
         /\ Translates(data, a) => Displaced(data, a) > a.place
         /\ NumberAt(data, Displaced(data, a)) \in Int
         /\ Digits(NumberAt(data, Displaced(data, a)))
              = [i \in 1 .. WideBytes |-> data[Displaced(data, a) + i]]
         /\ TargetAt(data, a) \in Targets
<1>0. WideBytes \in Nat \ {0} /\ TailLen \in Nat /\ WideBytes + 2 <= TailLen
      /\ HalfBytes \in 1 .. WideBytes
  BY FilterAssumption
<1> DEFINE p == Displaced(data, a)
           q == a.place
           n == Len(data)
<1>1. q \in Nat \ {0} /\ n \in Nat BY DEF PassPoint
<1>2. OpcodeOf(data, q)[1] \in 0 .. 3 /\ p = q + OpcodeOf(data, q)[1]
  BY <1>1, OpcodeFacts DEF Displaced
<1>3. n > TailLen + 1 /\ q < n - TailLen BY DEF Inside
<1>4. q + 3 <= n /\ q + 1 + WideBytes <= n /\ p \in q .. q + 3 /\ p + WideBytes <= n
      /\ (Translates(data, a) => p > q)
  <2>1. Translates(data, a) <=> OpcodeOf(data, q)[1] > 0 BY DEF Translates
  <2> HIDE DEF p, q, n
  <2> QED BY <1>0, <1>1, <1>2, <1>3, <2>1
<1>5. \A i \in 1 .. WideBytes : data[p + i] \in Octets
  <2> HIDE DEF p, q
  <2>1. ASSUME NEW i \in 1 .. WideBytes PROVE data[p + i] \in Octets
    <3>1. p + i \in 1 .. n BY <1>0, <1>1, <1>4
    <3> QED BY <3>1
  <2> QED BY <2>1
<1>6. /\ NumberAt(data, p) \in Int
      /\ Digits(NumberAt(data, p)) = [i \in 1 .. WideBytes |-> data[p + i]]
  <2>1. p \in Int BY <1>1, <1>4
  <2> HIDE DEF p
  <2> QED BY <1>5, <2>1, ReadsDigits
<1>7. TargetAt(data, a) \in Targets
  <2> HIDE DEF p, q
  <2>1. q + NumberAt(data, p) \in Int BY <1>1, <1>6
  <2>2. Digits(q + NumberAt(data, p)) \in [1 .. WideBytes -> Octets] BY <2>1, DigitsFacts
  <2>3. \A i \in 1 .. HalfBytes : i \in 1 .. WideBytes BY <1>0
  <2>4. TargetOf(q + NumberAt(data, p)) \in Targets BY <2>2, <2>3 DEF TargetOf, Targets, Octets
  <2> QED BY <2>4 DEF TargetAt, p, q
<1> QED BY <1>1, <1>4, <1>6, <1>7

\* A walk goes forward through the data, and what it leaves behind has the same opcodes
\* as the data.
LEMMA AfterFacts ==
  ASSUME NEW data \in Seq(Octets), NEW a \in PassPoint, Inside(data, a.place)
  PROVE  /\ After(data, a) \in PassPoint
         /\ a.place < After(data, a).place /\ After(data, a).place <= Len(data)
         /\ After(data, a).count = IF Near(data, a) THEN a.count + 1 ELSE a.count
         /\ Image(data, a) \in Seq(Octets) /\ Len(Image(data, a)) = Len(data)
         /\ \A i \in 1 .. Len(data) :
              Image(data, a)[i] =
                IF Near(data, a) /\ i \in Displaced(data, a) + 1 .. Displaced(data, a) + WideBytes
                THEN Digits(NumberAt(data, Displaced(data, a)) + a.place)[i - Displaced(data, a)]
                ELSE data[i]
         /\ Translates(data, a) => After(data, a).place = Displaced(data, a) + WideBytes
         /\ ~Translates(data, a) => Image(data, a) = data
<1>0. WideBytes \in Nat \ {0} BY FilterAssumption
<1> DEFINE p == Displaced(data, a)
           t == TargetAt(data, a)
           b == After(data, a)
           e == EndAt(data, a)
<1>1. /\ a.place \in Nat \ {0} /\ a.place + 1 + WideBytes <= Len(data) /\ Len(data) \in Nat
      /\ p \in a.place .. a.place + 3 /\ p + WideBytes <= Len(data)
      /\ Translates(data, a) => p > a.place
      /\ NumberAt(data, p) \in Int /\ t \in Targets
  BY DisplacedFacts
<1>2. a.last \in Int /\ a.usages \in [Targets -> Int] /\ a.count \in Nat BY DEF PassPoint
<1>3. e = p + WideBytes - 1 BY DEF EndAt
<1>4. ASSUME Translates(data, a)
      PROVE  /\ b \in PassPoint /\ a.place < b.place /\ b.place <= Len(data)
             /\ b.count = IF Near(data, a) THEN a.count + 1 ELSE a.count
             /\ Translates(data, a) => b.place = p + WideBytes
  <2> HIDE DEF p, t, e
  <2>1. b = [place  |-> e + 1,
             last   |-> IF e - a.usages[t] <= IdWindow THEN e ELSE a.last,
             usages |-> [a.usages EXCEPT ![t] = e],
             count  |-> IF Near(data, a) THEN a.count + 1 ELSE a.count]
    BY <1>4 DEF After, t, e
  <2>2. e \in Int /\ e + 1 \in Nat \ {0} /\ e + 1 = p + WideBytes /\ a.place < e + 1
    BY <1>0, <1>1, <1>3, <1>4
  <2>3. [a.usages EXCEPT ![t] = e] \in [Targets -> Int] BY <1>1, <1>2, <2>2
  <2>4. (IF e - a.usages[t] <= IdWindow THEN e ELSE a.last) \in Int BY <1>2, <2>2
  <2>5. (IF Near(data, a) THEN a.count + 1 ELSE a.count) \in Nat BY <1>2
  <2>6. b \in PassPoint BY <2>1, <2>2, <2>3, <2>4, <2>5 DEF PassPoint
  <2>7. /\ a.place < b.place /\ b.place <= Len(data) /\ b.place = p + WideBytes
        /\ b.count = IF Near(data, a) THEN a.count + 1 ELSE a.count
    BY <1>0, <1>1, <2>1, <2>2
  <2> HIDE DEF b
  <2> QED BY <2>6, <2>7
<1>5. ASSUME ~Translates(data, a)
      PROVE  /\ b \in PassPoint /\ a.place < b.place /\ b.place <= Len(data)
             /\ b.count = IF Near(data, a) THEN a.count + 1 ELSE a.count
             /\ Translates(data, a) => b.place = p + WideBytes
  <2>1. ~Near(data, a) BY <1>5 DEF Near
  <2>2. b = [place  |-> IF ByteAt(data, a.place) = Jump THEN a.place + 1 + WideBytes
                                                        ELSE a.place + 1,
             last   |-> a.last, usages |-> a.usages, count |-> a.count]
    BY <1>5 DEF After
  <2>3. b \in PassPoint /\ a.place < b.place /\ b.place <= Len(data) /\ b.count = a.count
    <3> HIDE DEF b
    <3>1. b.place \in {a.place + 1 + WideBytes, a.place + 1} /\ b.count = a.count BY <2>2
    <3>2. b.place \in Nat \ {0} /\ a.place < b.place /\ b.place <= Len(data) BY <1>0, <1>1, <3>1
    <3>3. b = [place |-> b.place, last |-> a.last, usages |-> a.usages, count |-> a.count]
      BY <2>2
    <3> QED BY <1>2, <3>1, <3>2, <3>3 DEF PassPoint
  <2> HIDE DEF b, p
  <2> QED BY <1>5, <2>1, <2>3
<1>6. /\ b \in PassPoint /\ a.place < b.place /\ b.place <= Len(data)
      /\ b.count = IF Near(data, a) THEN a.count + 1 ELSE a.count
      /\ Translates(data, a) => b.place = p + WideBytes
  BY <1>4, <1>5
<1>7. ~Translates(data, a) => Image(data, a) = data BY DEF Image, Near
<1>8. /\ Image(data, a) \in Seq(Octets) /\ Len(Image(data, a)) = Len(data)
      /\ \A i \in 1 .. Len(data) :
           Image(data, a)[i] = IF Near(data, a) /\ i \in p + 1 .. p + WideBytes
                               THEN Digits(NumberAt(data, p) + a.place)[i - p] ELSE data[i]
  <2>1. CASE ~Near(data, a) BY <2>1 DEF Image
  <2>2. CASE Near(data, a)
    <3> DEFINE v == NumberAt(data, p) + a.place
               w == WithNumber(data, p, v)
    <3>1. Image(data, a) = w BY <2>2 DEF Image
    <3>2. p \in Nat /\ v \in Int /\ p + WideBytes <= Len(data) BY <1>1
    <3> HIDE DEF v, p
    <3>3. /\ w \in Seq(Octets) /\ Len(w) = Len(data)
          /\ \A i \in 1 .. Len(data) :
               w[i] = IF i \in p + 1 .. p + WideBytes THEN Digits(v)[i - p] ELSE data[i]
      BY <3>2, WithNumberFacts
    <3> HIDE DEF w
    <3> QED BY <2>2, <3>1, <3>3 DEF v
  <2> QED BY <2>1, <2>2
<1> QED BY <1>6, <1>7, <1>8

-----------------------------------------------------------------------------
(***************************************************************************)
(* What a step of either pass does to the walk.                            *)
(***************************************************************************)
FilterTypeOK ==
  /\ original \in Seq(Octets) /\ code \in Seq(Octets) /\ Len(code) = Len(original)
  /\ undoing \in BOOLEAN /\ place \in Nat \ {0} /\ lastPlace \in Int
  /\ usages \in [Targets -> Int] /\ marks \in [do : Seq(Nat), undo : Seq(Nat)]
  /\ filterPc \in {"scan", "done"}

\* Scanning goes on while the place is in scope.
LEMMA ScopeIsInside ==
  ASSUME FilterTypeOK
  PROVE  \A i : InScope(i) <=> Inside(original, i)
BY DEF FilterTypeOK, InScope, Inside

\* The first pass walks the data, which is unchanged from where it is, and leaves what the
\* walk leaves.
LEMMA FirstPassStep ==
  ASSUME FilterTypeOK, ~undoing, SkipJump \/ SkipByte \/ Translate,
         \A i \in 1 .. Len(original) : i > place => code[i] = original[i],
         NEW a, a = Position(Len(marks.do))
  PROVE  /\ a \in PassPoint /\ Inside(original, place)
         /\ [place |-> place', last |-> lastPlace', usages |-> usages',
             count |-> Len(marks'.do)] = After(original, a)
         /\ marks'.do = IF Near(original, a) THEN Append(marks.do, place) ELSE marks.do
         /\ marks'.undo = marks.undo /\ marks' \in [do : Seq(Nat), undo : Seq(Nat)]
         /\ UNCHANGED <<original, undoing, filterPc>>
         /\ code' \in Seq(Octets) /\ Len(code') = Len(code)
         /\ \A i \in 1 .. Len(original) :
              code'[i] = IF i <= place THEN code[i] ELSE Image(original, a)[i]
<1>0. WideBytes \in Nat \ {0} BY FilterAssumption
<1>1. Scanning BY DEF SkipJump, SkipByte, Translate
<1>2. Inside(original, place) /\ filterPc = "scan" BY <1>1, ScopeIsInside DEF Scanning
<1>3. a \in PassPoint /\ a.place = place /\ a.last = lastPlace /\ a.usages = usages
      /\ a.count = Len(marks.do)
  BY DEF Position, PassPoint, FilterTypeOK
<1> DEFINE n == Len(original)
           p == Displaced(original, a)
<1>4. /\ place \in Nat \ {0} /\ place + 3 <= n /\ place + 1 + WideBytes <= n /\ n \in Nat
      /\ p \in place .. place + 3 /\ p + WideBytes <= n
      /\ Translates(original, a) => p > place
      /\ NumberAt(original, p) \in Int
  <2>1. original \in Seq(Octets) BY DEF FilterTypeOK
  <2> QED BY <1>2, <1>3, <2>1, DisplacedFacts
<1>5. \A i \in place + 1 .. n : code[i] = original[i] BY <1>4
<1>6. OpcodeOf(code, place) = OpcodeOf(original, place)
  <2>1. /\ place + 1 + 1 = place + 2 /\ place + 2 + 1 = place + 3
        /\ place + 1 \in place + 1 .. n /\ place + 2 \in place + 1 .. n
        /\ place + 3 \in place + 1 .. n
    BY <1>4
  <2>2. code[place + 1] = original[place + 1] /\ code[place + 2] = original[place + 2]
        /\ code[place + 3] = original[place + 3]
    BY <1>5, <2>1
  <2>3. /\ ByteAt(code, place) = ByteAt(original, place)
        /\ ByteAt(code, place + 1) = ByteAt(original, place + 1)
        /\ ByteAt(code, place + 2) = ByteAt(original, place + 2)
    BY <2>1, <2>2 DEF ByteAt
  <2> QED BY <2>3 DEF OpcodeOf
<1>7. ByteAt(code, place) = ByteAt(original, place)
  <2>1. place + 1 \in place + 1 .. n BY <1>4
  <2> QED BY <1>5, <2>1 DEF ByteAt
<1>8. /\ Opcode = OpcodeOf(original, place)
      /\ Opcode[1] \in 0 .. 3
      /\ Translates(original, a) <=> Opcode[1] > 0
      /\ p = place + Opcode[1]
      /\ Near(original, a) <=> Translates(original, a) /\ Active
  <2>1. OpcodeOf(original, place)[1] \in 0 .. 3 BY <1>4, OpcodeFacts
  <2> QED BY <1>3, <1>6, <2>1 DEF Opcode, Translates, Displaced, Near, Active
<1>9. original \in Seq(Octets) BY DEF FilterTypeOK
<1>10. /\ After(original, a).count = IF Near(original, a) THEN a.count + 1 ELSE a.count
       /\ Image(original, a) \in Seq(Octets) /\ Len(Image(original, a)) = n
       /\ \A i \in 1 .. n :
            Image(original, a)[i] = IF Near(original, a) /\ i \in p + 1 .. p + WideBytes
                                    THEN Digits(NumberAt(original, p) + a.place)[i - p]
                                    ELSE original[i]
       /\ ~Translates(original, a) => Image(original, a) = original
  BY <1>2, <1>3, <1>9, AfterFacts
<1>11. CASE SkipJump \/ SkipByte
  <2>1. /\ ~Translates(original, a) /\ ~Near(original, a) /\ code' = code /\ marks' = marks
        /\ lastPlace' = lastPlace /\ usages' = usages /\ UNCHANGED <<original, undoing, filterPc>>
    BY <1>8, <1>11 DEF SkipJump, SkipByte
  <2>2. place' = IF ByteAt(original, place) = Jump THEN place + 1 + WideBytes ELSE place + 1
    BY <1>7, <1>11 DEF SkipJump, SkipByte
  <2>3. After(original, a)
          = [place |-> place', last |-> lastPlace', usages |-> usages', count |-> Len(marks'.do)]
    BY <1>3, <2>1, <2>2 DEF After
  <2>4. \A i \in 1 .. n : code'[i] = IF i <= place THEN code[i] ELSE Image(original, a)[i]
    BY <1>5, <1>10, <2>1, <1>4
  <2>5. code' \in Seq(Octets) /\ Len(code') = Len(code)
        /\ marks' \in [do : Seq(Nat), undo : Seq(Nat)]
    BY <2>1 DEF FilterTypeOK
  <2> QED BY <1>2, <1>3, <2>1, <2>3, <2>4, <2>5
<1>12. CASE Translate
  <2>1. Translates(original, a) /\ p > place BY <1>4, <1>8, <1>12 DEF Translate
  <2> DEFINE t == TargetOf(place + Relative(p))
             e == p + WideBytes - 1
  <2>2. /\ code' = Written(p)
        /\ lastPlace' = IF e - usages[t] <= IdWindow THEN e ELSE lastPlace
        /\ usages' = [usages EXCEPT ![t] = e] /\ place' = e + 1
        /\ marks' = IF ~Active THEN marks ELSE [marks EXCEPT !.do = Append(@, place)]
        /\ UNCHANGED <<original, undoing, filterPc>>
    BY <1>8, <1>12 DEF Translate
  <2>3. Relative(p) = NumberAt(original, p)
    <3>1. NumberAt(code, p) = NumberAt(original, p)
      <4>1. \A i \in 1 .. WideBytes : code[p + i] = original[p + i]
        <5> HIDE DEF p, n
        <5>1. \A i \in 1 .. WideBytes : p + i \in place + 1 .. n BY <1>0, <1>4, <2>1
        <5> QED BY <1>5, <5>1
      <4>2. p \in Int BY <1>4
      <4> HIDE DEF p
      <4> QED BY <4>1, <4>2, ReadsTheSame
    <3>2. NumberAt(original, p) - 0 = NumberAt(original, p) BY <1>4
    <3> QED BY <3>1, <3>2 DEF Relative
  <2>4. t = TargetAt(original, a) /\ e = EndAt(original, a)
    BY <1>3, <2>3 DEF TargetAt, EndAt
  <2>5. Near(original, a) <=> Active BY <1>8, <2>1
  <2>6. /\ marks'.do = IF Near(original, a) THEN Append(marks.do, place) ELSE marks.do
        /\ marks'.undo = marks.undo /\ marks' \in [do : Seq(Nat), undo : Seq(Nat)]
    <3>1. marks \in [do : Seq(Nat), undo : Seq(Nat)] /\ place \in Nat BY <1>4 DEF FilterTypeOK
    <3>2. CASE ~Active BY <2>2, <2>5, <3>1, <3>2
    <3>3. CASE Active
      <4>1. marks' = [marks EXCEPT !.do = Append(@, place)] BY <2>2, <3>3
      <4>2. Append(marks.do, place) \in Seq(Nat) BY <3>1
      <4> QED BY <2>5, <3>1, <3>3, <4>1, <4>2
    <3> QED BY <3>2, <3>3
  <2>7. Len(marks'.do) = IF Near(original, a) THEN a.count + 1 ELSE a.count
    <3>1. marks.do \in Seq(Nat) /\ place \in Nat BY <1>4 DEF FilterTypeOK
    <3> QED BY <1>3, <2>6, <3>1
  <2>8. After(original, a)
          = [place |-> place', last |-> lastPlace', usages |-> usages', count |-> Len(marks'.do)]
    <3> HIDE DEF t, e, p
    <3> QED BY <1>3, <2>1, <2>2, <2>4, <2>7 DEF After
  <2>9. /\ code' \in Seq(Octets) /\ Len(code') = Len(code)
        /\ \A i \in 1 .. n : code'[i] = IF i <= place THEN code[i] ELSE Image(original, a)[i]
    <3>0. code \in Seq(Octets) /\ Len(code) = n BY DEF FilterTypeOK
    <3>1. CASE ~Active
      <4>1. code' = code BY <2>2, <3>1 DEF Written
      <4>2. ~Near(original, a) BY <2>5, <3>1
      <4> QED BY <1>4, <1>5, <1>10, <3>0, <4>1, <4>2
    <3>2. CASE Active
      <4> DEFINE v == NumberAt(original, p) + place
                 w == WithNumber(code, p, v)
      <4>1. code' = w BY <2>2, <2>3, <3>2 DEF Written
      <4>2. p \in Nat /\ v \in Int /\ p + WideBytes <= Len(code) BY <1>4, <3>0
      <4> HIDE DEF v, p, n
      <4>3. /\ w \in Seq(Octets) /\ Len(w) = Len(code)
            /\ \A i \in 1 .. Len(code) :
                 w[i] = IF i \in p + 1 .. p + WideBytes THEN Digits(v)[i - p] ELSE code[i]
        BY <3>0, <4>2, WithNumberFacts
      <4> HIDE DEF w
      <4>4. Near(original, a) BY <2>5, <3>2
      <4>5. ASSUME NEW i \in 1 .. n
            PROVE  code'[i] = IF i <= place THEN code[i] ELSE Image(original, a)[i]
        <5>1. w[i] = IF i \in p + 1 .. p + WideBytes THEN Digits(v)[i - p] ELSE code[i]
          BY <3>0, <4>3
        <5>2. Image(original, a)[i] = IF i \in p + 1 .. p + WideBytes
                                      THEN Digits(v)[i - p] ELSE original[i]
          BY <1>3, <1>10, <4>4 DEF v
        <5>3. CASE i <= place
          <6>1. i \notin p + 1 .. p + WideBytes BY <1>4, <5>3
          <6> QED BY <4>1, <5>1, <5>3, <6>1
        <5>4. CASE ~(i <= place)
          <6>1. code[i] = original[i] BY <1>4, <1>5, <5>4
          <6> QED BY <4>1, <5>1, <5>2, <5>4, <6>1
        <5> QED BY <5>3, <5>4
      <4> QED BY <4>1, <4>3, <4>5
    <3> QED BY <3>1, <3>2
  <2> QED BY <1>2, <1>3, <2>2, <2>6, <2>8, <2>9
<1> QED BY <1>11, <1>12
\* The second pass walks the same way over what the first has left, and leaves the data:
\* an address is the displacement and the place, so their difference and the target it
\* stands for have the bytes they had.
LEMMA SecondPassStep ==
  ASSUME FilterTypeOK, undoing, SkipJump \/ SkipByte \/ Translate,
         NEW a, a = Position(Len(marks.undo)),
         OpcodeOf(code, place) = OpcodeOf(original, place),
         \A i \in 1 .. Len(original) :
           place < i /\ i <= After(original, a).place => code[i] = Image(original, a)[i]
  PROVE  /\ a \in PassPoint /\ Inside(original, place)
         /\ [place |-> place', last |-> lastPlace', usages |-> usages',
             count |-> Len(marks'.undo)] = After(original, a)
         /\ marks'.undo = IF Near(original, a) THEN Append(marks.undo, place) ELSE marks.undo
         /\ marks'.do = marks.do /\ marks' \in [do : Seq(Nat), undo : Seq(Nat)]
         /\ UNCHANGED <<original, undoing, filterPc>>
         /\ code' \in Seq(Octets) /\ Len(code') = Len(code)
         /\ \A i \in 1 .. Len(original) :
              code'[i] = IF place < i /\ i <= place' THEN original[i] ELSE code[i]
<1>0. WideBytes \in Nat \ {0} /\ HalfBytes \in 1 .. WideBytes BY FilterAssumption
<1>1. Scanning BY DEF SkipJump, SkipByte, Translate
<1>2. Inside(original, place) /\ filterPc = "scan" BY <1>1, ScopeIsInside DEF Scanning
<1>3. a \in PassPoint /\ a.place = place /\ a.last = lastPlace /\ a.usages = usages
      /\ a.count = Len(marks.undo)
  BY DEF Position, PassPoint, FilterTypeOK
<1> DEFINE n == Len(original)
           p == Displaced(original, a)
           b == After(original, a)
           im == Image(original, a)
<1>4. /\ place \in Nat \ {0} /\ place + 3 <= n /\ place + 1 + WideBytes <= n /\ n \in Nat
      /\ p \in place .. place + 3 /\ p + WideBytes <= n
      /\ Translates(original, a) => p > place
      /\ NumberAt(original, p) \in Int
      /\ Digits(NumberAt(original, p)) = [i \in 1 .. WideBytes |-> original[p + i]]
  <2>1. original \in Seq(Octets) /\ n \in Nat BY DEF FilterTypeOK
  <2>2. /\ a.place \in Nat \ {0} /\ a.place + 3 <= n /\ a.place + 1 + WideBytes <= n
        /\ p \in a.place .. a.place + 3 /\ p + WideBytes <= n
        /\ Translates(original, a) => p > a.place
        /\ NumberAt(original, p) \in Int
        /\ Digits(NumberAt(original, p)) = [i \in 1 .. WideBytes |-> original[p + i]]
    BY <1>2, <1>3, <2>1, DisplacedFacts
  <2> HIDE DEF n, p
  <2> QED BY <1>3, <2>1, <2>2
<1>5. original \in Seq(Octets) /\ code \in Seq(Octets) /\ Len(code) = n BY DEF FilterTypeOK
<1>6. /\ place < b.place /\ b.place <= n /\ b.place \in Nat
      /\ im \in Seq(Octets) /\ Len(im) = n
      /\ \A i \in 1 .. n :
           im[i] = IF Near(original, a) /\ i \in p + 1 .. p + WideBytes
                   THEN Digits(NumberAt(original, p) + a.place)[i - p] ELSE original[i]
      /\ Translates(original, a) => b.place = p + WideBytes
      /\ ~Translates(original, a) => im = original
  <2>1. b \in PassPoint => b.place \in Nat
    <3> HIDE DEF b
    <3> QED BY DEF PassPoint
  <2> HIDE DEF n, p, im
  <2> QED BY <1>2, <1>3, <1>5, <2>1, AfterFacts DEF n, p, im
<1>7. /\ Opcode = OpcodeOf(original, place)
      /\ Opcode[1] \in 0 .. 3
      /\ Translates(original, a) <=> Opcode[1] > 0
      /\ p = place + Opcode[1]
      /\ Near(original, a) <=> Translates(original, a) /\ Active
  <2>1. OpcodeOf(original, place)[1] \in 0 .. 3 BY <1>4, OpcodeFacts
  <2> QED BY <1>3, <2>1 DEF Opcode, Translates, Displaced, Near, Active
<1>8. CASE SkipJump \/ SkipByte
  <2>1. /\ ~Translates(original, a) /\ ~Near(original, a) /\ code' = code /\ marks' = marks
        /\ lastPlace' = lastPlace /\ usages' = usages /\ UNCHANGED <<original, undoing, filterPc>>
    <3>1. Opcode[1] = 0 BY <1>8 DEF SkipJump, SkipByte
    <3>2. ~Translates(original, a) /\ ~Near(original, a) BY <1>7, <3>1
    <3>3. /\ code' = code /\ marks' = marks /\ lastPlace' = lastPlace /\ usages' = usages
          /\ UNCHANGED <<original, undoing, filterPc>>
      BY <1>8 DEF SkipJump, SkipByte
    <3> QED BY <3>2, <3>3
  <2>2. \A i \in 1 .. n : place < i /\ i <= b.place => code[i] = original[i]
    BY <1>6, <2>1
  <2>3. ByteAt(code, place) = ByteAt(original, place)
    <3>1. place + 1 \in 1 .. n /\ place < place + 1 /\ place + 1 <= b.place BY <1>4, <1>6
    <3> HIDE DEF n, b
    <3>2. code[place + 1] = original[place + 1] BY <2>2, <3>1
    <3> QED BY <3>2 DEF ByteAt
  <2>4. place' = IF ByteAt(original, place) = Jump THEN place + 1 + WideBytes ELSE place + 1
    BY <2>3, <1>8 DEF SkipJump, SkipByte
  <2>5. b = [place |-> place', last |-> lastPlace', usages |-> usages', count |-> Len(marks'.undo)]
    BY <1>3, <2>1, <2>4 DEF After
  <2>6. b.place = place' BY <2>5
  <2>7. \A i \in 1 .. n : code'[i] = IF place < i /\ i <= place' THEN original[i] ELSE code[i]
    <3> HIDE DEF n, b
    <3> QED BY <2>1, <2>2, <2>6
  <2>8. code' \in Seq(Octets) /\ Len(code') = Len(code)
        /\ marks' \in [do : Seq(Nat), undo : Seq(Nat)]
    BY <2>1 DEF FilterTypeOK
  <2> QED BY <1>2, <1>3, <2>1, <2>5, <2>7, <2>8
<1>9. CASE Translate
  <2>1. Translates(original, a) /\ p > place /\ b.place = p + WideBytes
    BY <1>4, <1>6, <1>7, <1>9 DEF Translate
  <2> DEFINE t == TargetOf(place + Relative(p))
             e == p + WideBytes - 1
             x == NumberAt(original, p)
             y == NumberAt(code, p)
  <2>2. /\ code' = Written(p)
        /\ lastPlace' = IF e - usages[t] <= IdWindow THEN e ELSE lastPlace
        /\ usages' = [usages EXCEPT ![t] = e] /\ place' = e + 1
        /\ marks' = IF ~Active THEN marks ELSE [marks EXCEPT !.undo = Append(@, place)]
        /\ UNCHANGED <<original, undoing, filterPc>>
    BY <1>7, <1>9 DEF Translate
  <2>3. Near(original, a) <=> Active BY <1>7, <2>1
  <2>4. \A i \in 1 .. WideBytes :
          code[p + i] = IF Active THEN Digits(x + place)[i] ELSE original[p + i]
    <3> HIDE DEF p, n, b, im
    <3>1. ASSUME NEW i \in 1 .. WideBytes
          PROVE  code[p + i] = IF Active THEN Digits(x + place)[i] ELSE original[p + i]
      <4>1. /\ p + i \in 1 .. n /\ place < p + i /\ p + i <= b.place
            /\ p + i \in p + 1 .. p + WideBytes /\ (p + i) - p = i
        BY <1>0, <1>4, <2>1
      <4>2. code[p + i] = im[p + i] BY <4>1 DEF n, b, im
      <4>3. im[p + i] = IF Near(original, a) /\ p + i \in p + 1 .. p + WideBytes
                        THEN Digits(NumberAt(original, p) + a.place)[(p + i) - p]
                        ELSE original[p + i]
        BY <1>6, <4>1
      <4> QED BY <1>3, <2>3, <4>1, <4>2, <4>3
    <3> QED BY <3>1
  <2>5. x \in Int /\ y \in Int /\ Digits(y) = [i \in 1 .. WideBytes |-> code[p + i]]
    <3>1. \A i \in 1 .. WideBytes : code[p + i] \in Octets
      <4> HIDE DEF p, n
      <4>1. \A i \in 1 .. WideBytes : p + i \in 1 .. n BY <1>0, <1>4
      <4> QED BY <1>5, <4>1
    <3>2. p \in Int BY <1>4
    <3> HIDE DEF p
    <3> QED BY <1>4, <3>1, <3>2, ReadsDigits
  <2> DEFINE c == IF Active THEN place ELSE 0
  <2>6. Digits(y) = Digits(x + c) /\ c \in Int
    <3>1. Digits(x) = [i \in 1 .. WideBytes |-> original[p + i]] BY <1>4
    <3>2. x + c \in Int /\ c \in Int BY <1>4, <2>5
    <3>3. CASE Active
      <4> HIDE DEF p, x, y
      <4>1. Digits(x + place) \in [1 .. WideBytes -> Octets]
        <5>1. x + place \in Int BY <1>4, <2>5
        <5> QED BY <5>1, DigitsFacts
      <4>2. Digits(y) = [i \in 1 .. WideBytes |-> Digits(x + place)[i]] BY <2>4, <2>5, <3>3
      <4>3. Digits(y) = Digits(x + place) BY <4>1, <4>2
      <4> QED BY <3>2, <3>3, <4>3
    <3>4. CASE ~Active
      <4> HIDE DEF p, x, y
      <4>1. Digits(y) = Digits(x) BY <2>4, <2>5, <3>1, <3>4
      <4>2. x + c = x BY <2>5, <3>4
      <4> QED BY <3>2, <4>1, <4>2
    <3> QED BY <3>3, <3>4
  <2>7. Relative(p) = y - c BY DEF Relative
  <2>8. Digits(y - c) = Digits(x)
    <3> HIDE DEF x, y, c
    <3>1. x + c \in Int /\ -c \in Int /\ y + (-c) = y - c /\ (x + c) + (-c) = x BY <2>5, <2>6
    <3>2. Digits(y + (-c)) = Digits((x + c) + (-c)) BY <2>5, <2>6, <3>1, SameDigits
    <3> QED BY <3>1, <3>2
  <2>9. Digits(place + (y - c)) = Digits(place + x)
    <3> HIDE DEF x, y, c
    <3>1. y - c \in Int /\ (y - c) + place = place + (y - c) /\ x + place = place + x
      BY <1>4, <2>5, <2>6
    <3>2. Digits((y - c) + place) = Digits(x + place) BY <1>4, <2>5, <2>8, <3>1, SameDigits
    <3> QED BY <3>1, <3>2
  <2>10. t = TargetAt(original, a) /\ e = EndAt(original, a)
    <3>1. TargetOf(place + (y - c)) = TargetOf(place + x)
      <4> HIDE DEF x, y, c
      <4> QED BY <2>9 DEF TargetOf
    <3> QED BY <1>3, <2>7, <3>1 DEF TargetAt, EndAt
  <2>11. /\ marks'.undo = IF Near(original, a) THEN Append(marks.undo, place) ELSE marks.undo
         /\ marks'.do = marks.do /\ marks' \in [do : Seq(Nat), undo : Seq(Nat)]
    <3>1. marks \in [do : Seq(Nat), undo : Seq(Nat)] /\ place \in Nat BY <1>4 DEF FilterTypeOK
    <3>2. CASE ~Active BY <2>2, <2>3, <3>1, <3>2
    <3>3. CASE Active
      <4>1. marks' = [marks EXCEPT !.undo = Append(@, place)] BY <2>2, <3>3
      <4>2. Append(marks.undo, place) \in Seq(Nat) BY <3>1
      <4> QED BY <2>3, <3>1, <3>3, <4>1, <4>2
    <3> QED BY <3>2, <3>3
  <2>12. Len(marks'.undo) = IF Near(original, a) THEN a.count + 1 ELSE a.count
    <3>1. marks.undo \in Seq(Nat) /\ place \in Nat BY <1>4 DEF FilterTypeOK
    <3> QED BY <1>3, <2>11, <3>1
  <2>13. b = [place |-> place', last |-> lastPlace', usages |-> usages',
              count |-> Len(marks'.undo)]
    <3> HIDE DEF t, e, p
    <3> QED BY <1>3, <2>1, <2>2, <2>10, <2>12 DEF After
  <2>14. place' = b.place
    <3> HIDE DEF b
    <3> QED BY <2>13
  <2>15. /\ code' \in Seq(Octets) /\ Len(code') = Len(code)
         /\ \A i \in 1 .. n : code'[i] = IF place < i /\ i <= place' THEN original[i] ELSE code[i]
    <3>0. \A i \in 1 .. n : place < i /\ i <= b.place /\ i \notin p + 1 .. p + WideBytes =>
            code[i] = original[i]
      <4> HIDE DEF n, p
      <4> QED BY <1>6 DEF n
    <3>1. CASE ~Active
      <4>1. code' = code BY <2>2, <3>1 DEF Written
      <4>2. \A i \in 1 .. n : place < i /\ i <= b.place => code[i] = original[i]
        <5>1. ~Near(original, a) BY <2>3, <3>1
        <5> QED BY <1>6, <5>1
      <4> HIDE DEF b, n
      <4> QED BY <1>5, <2>14, <4>1, <4>2
    <3>2. CASE Active
      <4> DEFINE v == y - c
                 w == WithNumber(code, p, v)
      <4>1. code' = w BY <2>2, <2>7, <3>2 DEF Written
      <4>2. p \in Nat /\ v \in Int
        <5> HIDE DEF y, c
        <5> QED BY <1>4, <2>5, <2>6
      <4>3. Digits(v) = [i \in 1 .. WideBytes |-> original[p + i]] BY <1>4, <2>8
      <4> HIDE DEF v, p, n, b
      <4>a. p + WideBytes <= Len(code) /\ code \in Seq(Octets) BY <1>4, <1>5
      <4>4. /\ w \in Seq(Octets) /\ Len(w) = Len(code)
            /\ \A i \in 1 .. Len(code) :
                 w[i] = IF i \in p + 1 .. p + WideBytes THEN Digits(v)[i - p] ELSE code[i]
        BY <4>2, <4>a, WithNumberFacts
      <4> HIDE DEF w
      <4>5. ASSUME NEW i \in 1 .. n
            PROVE  code'[i] = IF place < i /\ i <= place' THEN original[i] ELSE code[i]
        <5>1. w[i] = IF i \in p + 1 .. p + WideBytes THEN Digits(v)[i - p] ELSE code[i]
          BY <1>5, <4>4
        <5>2. CASE i \in p + 1 .. p + WideBytes
          <6>1. i - p \in 1 .. WideBytes /\ p + (i - p) = i BY <1>4, <5>2, <1>0
          <6>2. Digits(v)[i - p] = original[i] BY <4>3, <6>1
          <6>3. place < i /\ i <= place' BY <1>0, <1>4, <2>1, <2>14, <5>2
          <6> QED BY <4>1, <5>1, <5>2, <6>2, <6>3
        <5>3. CASE i \notin p + 1 .. p + WideBytes
          <6>1. code'[i] = code[i] BY <4>1, <5>1, <5>3
          <6> QED BY <2>14, <3>0, <5>3, <6>1
        <5> QED BY <5>2, <5>3
      <4> QED BY <4>1, <4>4, <4>5
    <3> QED BY <3>1, <3>2
  <2> QED BY <1>2, <1>3, <2>2, <2>11, <2>13, <2>15
<1> QED BY <1>8, <1>9
-----------------------------------------------------------------------------
(***************************************************************************)
(* The invariant: there is a walk over the data, from its start to where   *)
(* the first pass is, or has ended; and the second pass is at one of its   *)
(* points.                                                                 *)
(***************************************************************************)
\* Behind a point the walk has left, the data is as its step leaves it, the next point is
\* one of the walk's, and a change has been noted.
IsStep(data, fin, do, points, stop, a) ==
  /\ Inside(data, a.place) /\ a.place < stop.place /\ After(data, a) \in points
  /\ \A i \in 1 .. Len(data) :
       a.place < i /\ i <= After(data, a).place => fin[i] = Image(data, a)[i]
  /\ Near(data, a) => a.count + 1 <= Len(do) /\ do[a.count + 1] = a.place

IsWalk(data, fin, do, points, stop) ==
  /\ fin \in Seq(Octets) /\ Len(fin) = Len(data)
  /\ points \subseteq PassPoint /\ PassBegin \in points /\ stop \in points
  /\ stop.count = Len(do)
  /\ \A i \in 1 .. Len(data) : i <= 1 \/ i > stop.place => fin[i] = data[i]
  /\ \A a \in points : a = stop \/ IsStep(data, fin, do, points, stop, a)

\* The second pass has walked as far as its place, has put the data back so far, and has
\* noted what the first had.
IsUndone(fin, points, stop) ==
  /\ IsWalk(original, fin, marks.do, points, stop) /\ ~Inside(original, stop.place)
  /\ Position(Len(marks.undo)) \in points
  /\ \A i \in 1 .. Len(original) : code[i] = IF i <= place THEN original[i] ELSE fin[i]
  /\ Len(marks.undo) <= Len(marks.do)
  /\ \A i \in 1 .. Len(marks.undo) : marks.undo[i] = marks.do[i]

FilterInv ==
  /\ FilterTypeOK
  /\ filterPc = "done" => undoing /\ ~Inside(original, place)
  /\ ~undoing => /\ marks.undo = <<>>
                 /\ \E points : IsWalk(original, code, marks.do, points, Position(Len(marks.do)))
  /\ undoing => \E fin, points, stop : IsUndone(fin, points, stop)

\* A step of the first pass adds a point to the walk.
LEMMA WalkGrows ==
  ASSUME NEW data \in Seq(Octets), NEW fin, NEW do \in Seq(Nat), NEW points, NEW stop,
         IsWalk(data, fin, do, points, stop), Inside(data, stop.place),
         NEW fin2 \in Seq(Octets), Len(fin2) = Len(data),
         \A i \in 1 .. Len(data) :
           fin2[i] = IF i <= stop.place THEN fin[i] ELSE Image(data, stop)[i],
         NEW do2, do2 = IF Near(data, stop) THEN Append(do, stop.place) ELSE do
  PROVE  IsWalk(data, fin2, do2, points \cup {After(data, stop)}, After(data, stop))
<1>0. WideBytes \in Nat \ {0} BY FilterAssumption
<1> DEFINE b == After(data, stop)
           more == points \cup {b}
           n == Len(data)
           p == Displaced(data, stop)
<1>1. stop \in PassPoint /\ stop.place \in Nat \ {0} /\ stop.count = Len(do)
  BY DEF IsWalk, PassPoint
<1>2. n \in Nat OBVIOUS
<1>3. /\ b \in PassPoint /\ stop.place < b.place /\ b.place <= n
      /\ b.count = IF Near(data, stop) THEN stop.count + 1 ELSE stop.count
      /\ \A i \in 1 .. n :
           Image(data, stop)[i] =
             IF Near(data, stop) /\ i \in p + 1 .. p + WideBytes
             THEN Digits(NumberAt(data, p) + stop.place)[i - p] ELSE data[i]
      /\ Translates(data, stop) => b.place = p + WideBytes
      /\ ~Translates(data, stop) => Image(data, stop) = data
  BY <1>1, AfterFacts
<1>4. b.place \in Nat \ {0}
  <2> HIDE DEF b
  <2> QED BY <1>3 DEF PassPoint
<1>5. /\ Len(do2) = (IF Near(data, stop) THEN Len(do) + 1 ELSE Len(do)) /\ Len(do) \in Nat
      /\ \A i \in 1 .. Len(do) : do2[i] = do[i]
      /\ Near(data, stop) => do2[Len(do) + 1] = stop.place
  <2>1. CASE Near(data, stop)
    <3>1. do2 = Append(do, stop.place) /\ stop.place \in Nat BY <1>1, <2>1
    <3> HIDE DEF n, b, more, p
    <3> QED BY <2>1, <3>1
  <2>2. CASE ~Near(data, stop) BY <2>2
  <2> QED BY <2>1, <2>2
<1>6. b.count = Len(do2) BY <1>1, <1>3, <1>5
<1>7. ASSUME NEW i \in 1 .. n, i <= 1 \/ i > b.place PROVE fin2[i] = data[i]
  <2>1. CASE i <= 1
    <3>1. fin[i] = data[i] /\ i <= stop.place BY <1>1, <2>1 DEF IsWalk
    <3> QED BY <3>1
  <2>2. CASE i > b.place
    <3>1. fin2[i] = Image(data, stop)[i]
      <4>1. ~(i <= stop.place) BY <1>1, <1>3, <1>4, <2>2
      <4> QED BY <4>1
    <3>2. CASE Translates(data, stop)
      <4>1. i \notin p + 1 .. p + WideBytes BY <1>3, <1>4, <2>2, <3>2
      <4> QED BY <1>3, <3>1, <4>1
    <3>3. CASE ~Translates(data, stop) BY <1>3, <3>1, <3>3
    <3> QED BY <3>2, <3>3
  <2> QED BY <1>7, <2>1, <2>2
<1>8. ASSUME NEW a \in points, a # stop PROVE IsStep(data, fin2, do2, more, b, a)
  <2>1. IsStep(data, fin, do, points, stop, a) BY <1>8 DEF IsWalk
  <2> DEFINE c == After(data, a)
  <2>2. Inside(data, a.place) /\ a.place < stop.place /\ c \in points BY <2>1 DEF IsStep
  <2>3. c \in PassPoint /\ (c = stop \/ c.place < stop.place) BY <2>2 DEF IsWalk, IsStep
  <2>4. a \in PassPoint BY DEF IsWalk
  <2> HIDE DEF c
  <2>5. c.place \in Nat /\ a.place \in Nat /\ c.place <= stop.place /\ a.count \in Nat
    BY <1>1, <2>3, <2>4 DEF PassPoint
  <2>6. a.place < b.place
    <3> HIDE DEF b
    <3> QED BY <1>1, <1>3, <1>4, <2>2, <2>5
  <2>7. ASSUME NEW i \in 1 .. n, a.place < i, i <= c.place PROVE fin2[i] = Image(data, a)[i]
    <3>1. i <= stop.place BY <1>1, <2>5, <2>7
    <3>2. fin2[i] = fin[i] BY <3>1
    <3>3. fin[i] = Image(data, a)[i] BY <2>1, <2>7 DEF IsStep, c
    <3> QED BY <3>2, <3>3
  <2>8. ASSUME Near(data, a) PROVE a.count + 1 <= Len(do2) /\ do2[a.count + 1] = a.place
    <3>1. a.count + 1 <= Len(do) /\ do[a.count + 1] = a.place BY <2>1, <2>8 DEF IsStep
    <3>2. a.count + 1 \in 1 .. Len(do) BY <1>5, <2>5, <3>1
    <3> HIDE DEF n, b, more, p
    <3> QED BY <1>5, <3>1, <3>2
  <2> HIDE DEF b
  <2> QED BY <2>2, <2>6, <2>7, <2>8 DEF IsStep, c
<1>9. IsStep(data, fin2, do2, more, b, stop)
  <2>1. ASSUME NEW i \in 1 .. n, stop.place < i, i <= b.place PROVE fin2[i] = Image(data, stop)[i]
    <3>1. ~(i <= stop.place) BY <1>1, <2>1
    <3> QED BY <3>1
  <2>2. Near(data, stop) => stop.count + 1 <= Len(do2) /\ do2[stop.count + 1] = stop.place
    <3> HIDE DEF n, b, more, p
    <3> QED BY <1>1, <1>5
  <2>3. b \in more OBVIOUS
  <2> QED BY <1>3, <2>1, <2>2, <2>3 DEF IsStep
<1>10. \A a \in more : a = b \/ IsStep(data, fin2, do2, more, b, a)
  <2> HIDE DEF b
  <2> QED BY <1>8, <1>9
<1>11. more \subseteq PassPoint /\ PassBegin \in more /\ b \in more BY <1>3 DEF IsWalk
<1> HIDE DEF b, more
<1>12. IsWalk(data, fin2, do2, more, b) BY <1>6, <1>7, <1>10, <1>11 DEF IsWalk
<1> QED BY <1>12 DEF b, more

\* The walk leaves the bytes of the data but for the displacements.
LEMMA WalkKeeps ==
  ASSUME NEW data \in Seq(Octets), NEW fin, NEW do, NEW points, NEW stop,
         IsWalk(data, fin, do, points, stop), NEW a \in points, a # stop
  PROVE  /\ a \in PassPoint /\ Inside(data, a.place) /\ a.place + 3 <= Len(data)
         /\ After(data, a) \in points
         /\ fin[a.place + 1] = data[a.place + 1]
         /\ \A i \in 1 .. Len(data) :
              /\ a.place < i /\ i <= After(data, a).place
              /\ ~Translates(data, a) \/ i <= Displaced(data, a)
              => fin[i] = data[i]
<1>0. WideBytes \in Nat \ {0} BY FilterAssumption
<1> DEFINE b == After(data, a)
           p == Displaced(data, a)
           n == Len(data)
<1>1. a \in PassPoint /\ IsStep(data, fin, do, points, stop, a) BY DEF IsWalk
<1>2. Inside(data, a.place) /\ b \in points BY <1>1 DEF IsStep
<1>3. /\ a.place \in Nat \ {0} /\ n \in Nat /\ a.place + 3 <= n /\ p \in a.place .. a.place + 3
      /\ Translates(data, a) => p > a.place
  BY <1>1, <1>2, DisplacedFacts
<1>4. /\ a.place < b.place
      /\ \A i \in 1 .. n :
           Image(data, a)[i] =
             IF Near(data, a) /\ i \in p + 1 .. p + WideBytes
             THEN Digits(NumberAt(data, p) + a.place)[i - p] ELSE data[i]
      /\ ~Translates(data, a) => Image(data, a) = data
  BY <1>1, <1>2, AfterFacts
<1>5. b.place \in Nat
  <2>1. b \in PassPoint BY <1>1, <1>2, AfterFacts
  <2> HIDE DEF b
  <2> QED BY <2>1 DEF PassPoint
<1>6. ASSUME NEW i \in 1 .. n, a.place < i, i <= b.place,
             ~Translates(data, a) \/ i <= p
      PROVE  fin[i] = data[i]
  <2>1. fin[i] = Image(data, a)[i] BY <1>1, <1>6 DEF IsStep
  <2>2. CASE ~Translates(data, a) BY <1>4, <2>1, <2>2
  <2>3. CASE i <= p
    <3>0. p \in Int /\ i \in Int BY <1>3
    <3> HIDE DEF p
    <3>1. i \notin p + 1 .. p + WideBytes BY <3>0, <1>0, <2>3
    <3> QED BY <1>4, <2>1, <3>1
  <2> QED BY <1>6, <2>2, <2>3
<1>7. fin[a.place + 1] = data[a.place + 1]
  <2> DEFINE q == a.place
             r == b.place
  <2>1. /\ q \in Nat \ {0} /\ n \in Nat /\ q + 3 <= n /\ p \in Int /\ r \in Nat /\ q < r
        /\ Translates(data, a) => p > q
    BY <1>3, <1>4, <1>5
  <2> HIDE DEF b, p, n, q, r
  <2>2. q + 1 \in 1 .. n /\ q < q + 1 /\ q + 1 <= r /\ (~Translates(data, a) \/ q + 1 <= p)
    BY <2>1
  <2> QED BY <1>6, <2>2 DEF q, r
<1>8. \A i \in 1 .. n :
        a.place < i /\ i <= b.place /\ (~Translates(data, a) \/ i <= p) => fin[i] = data[i]
  <2> HIDE DEF b, p, n
  <2> QED BY <1>6
<1>9. a.place + 3 <= n BY <1>3
<1> QED BY <1>1, <1>2, <1>7, <1>8, <1>9

\* What the walk leaves has the opcodes of the data at its points.
LEMMA OpcodesOnWalk ==
  ASSUME NEW data \in Seq(Octets), NEW fin, NEW do, NEW points, NEW stop,
         IsWalk(data, fin, do, points, stop), NEW a \in points, a # stop
  PROVE  OpcodeOf(fin, a.place) = OpcodeOf(data, a.place)
<1>0. WideBytes \in Nat \ {0} BY FilterAssumption
<1> DEFINE q == a.place
           p == Displaced(data, a)
           b == After(data, a)
           n == Len(data)
<1>1. /\ a \in PassPoint /\ Inside(data, q) /\ q + 3 <= n /\ b \in points
      /\ fin[q + 1] = data[q + 1]
      /\ \A i \in 1 .. n :
           q < i /\ i <= b.place /\ (~Translates(data, a) \/ i <= p) => fin[i] = data[i]
  BY WalkKeeps
<1>2. q \in Nat \ {0} /\ n \in Nat /\ p = q + OpcodeOf(data, q)[1] BY <1>1 DEF PassPoint, Displaced
<1>3. OpcodeOf(data, q)[1] \in 0 .. 3 BY <1>2, OpcodeFacts
<1>4. /\ Translates(data, a) => b.place = p + WideBytes
      /\ Translates(data, a) <=> OpcodeOf(data, q)[1] > 0
  BY <1>1, AfterFacts DEF Translates
<1>5. \A j \in 1 .. OpcodeOf(data, q)[1] : fin[q + j] = data[q + j]
  <2> DEFINE m == OpcodeOf(data, q)[1]
  <2> HIDE DEF b, m, p, n
  <2>1. ASSUME NEW j \in 1 .. m PROVE fin[q + j] = data[q + j]
    <3>1. m \in 0 .. 3 /\ p = q + m /\ b.place = p + WideBytes BY <1>2, <1>3, <1>4 DEF m
    <3> HIDE DEF q
    <3>2. q + j \in 1 .. n /\ q < q + j /\ q + j <= b.place /\ q + j <= p
      BY <1>0, <1>1, <1>2, <3>1
    <3> QED BY <1>1, <3>2
  <2> QED BY <2>1 DEF m
<1>6. ASSUME OpcodeOf(data, q)[1] = 0, ByteAt(data, q) # Jump
      PROVE  fin[q + 2] = data[q + 2] /\ (fin[q + 3] = data[q + 3] \/ data[q + 2] \in Openers)
  <2>1. b.place = q + 1 BY <1>4, <1>6 DEF After
  <2>2. ASSUME NEW i \in 1 .. n, i > stop.place PROVE fin[i] = data[i] BY <2>2 DEF IsWalk
  <2>3. q + 2 \in 1 .. n /\ q + 3 \in 1 .. n BY <1>1, <1>2
  <2>4. CASE b = stop
    <3>1. q + 2 > stop.place /\ q + 3 > stop.place BY <1>2, <2>1, <2>4
    <3> HIDE DEF n, b, q
    <3> QED BY <2>2, <2>3, <3>1
  <2>5. CASE b # stop
    <3> DEFINE c == After(data, b)
    <3>1. /\ b \in PassPoint /\ Inside(data, b.place) /\ c \in points
          /\ fin[b.place + 1] = data[b.place + 1]
          /\ \A i \in 1 .. n :
               b.place < i /\ i <= c.place /\ (~Translates(data, b) \/ i <= Displaced(data, b))
                 => fin[i] = data[i]
      <4> HIDE DEF b
      <4> QED BY <1>1, <2>5, WalkKeeps
    <3>2. fin[q + 2] = data[q + 2]
      <4>1. b.place + 1 = q + 2 BY <1>2, <2>1
      <4> HIDE DEF b
      <4> QED BY <3>1, <4>1
    <3>3. CASE OpcodeOf(data, b.place)[1] > 0
      <4>1. b.place \in Nat /\ b.place + 1 = q + 2 BY <1>2, <2>1
      <4> HIDE DEF b
      <4>2. ByteAt(data, b.place) \in Openers BY <3>3, <4>1, OpcodeFacts
      <4>3. data[q + 2] \in Openers BY <4>1, <4>2 DEF ByteAt
      <4> QED BY <3>2, <4>3
    <3>4. CASE ~(OpcodeOf(data, b.place)[1] > 0)
      <4>1. ~Translates(data, b) BY <3>4 DEF Translates
      <4>2. c.place = IF ByteAt(data, b.place) = Jump THEN b.place + 1 + WideBytes
                                                      ELSE b.place + 1
        <5> HIDE DEF b
        <5> QED BY <4>1 DEF After
      <4>3. CASE ByteAt(data, b.place) = Jump
        <5>1. c.place = q + 2 + WideBytes BY <1>2, <2>1, <4>2, <4>3
        <5> HIDE DEF c
        <5>2. b.place < q + 3 /\ q + 3 <= c.place BY <1>0, <1>2, <2>1, <5>1
        <5> HIDE DEF b, n
        <5>3. fin[q + 3] = data[q + 3] BY <2>3, <3>1, <4>1, <5>2
        <5> QED BY <3>2, <5>3
      <4>4. CASE ByteAt(data, b.place) # Jump
        <5>1. c.place = q + 2 BY <1>2, <2>1, <4>2, <4>4
        <5>2. CASE c = stop
          <6>1. q + 3 > stop.place BY <1>2, <5>1, <5>2
          <6> HIDE DEF n, b, q, c
          <6> QED BY <2>2, <2>3, <3>2, <6>1
        <5>3. CASE c # stop
          <6>1. fin[c.place + 1] = data[c.place + 1]
            <7> HIDE DEF b, c
            <7> QED BY <3>1, <5>3, WalkKeeps
          <6>2. c.place + 1 = q + 3 BY <1>2, <5>1
          <6> HIDE DEF c, b
          <6> QED BY <3>2, <6>1, <6>2
        <5> QED BY <5>2, <5>3
      <4> QED BY <4>3, <4>4
    <3> QED BY <3>3, <3>4
  <2> QED BY <2>4, <2>5
<1> HIDE DEF q, b, p, n
<1>7. OpcodeOf(fin, q) = OpcodeOf(data, q)
  <2>1. q \in Nat BY <1>2
  <2> QED BY <1>1, <1>5, <1>6, <2>1, OpcodeKept
<1> QED BY <1>7 DEF q
-----------------------------------------------------------------------------
(***************************************************************************)
(* The invariant holds, and the second pass ends where the walk does.      *)
(***************************************************************************)
\* At the beginning of either pass nothing is remembered.
LEMMA StartFacts == PassBegin \in PassPoint /\ PassBegin.place = 1 /\ PassBegin.count = 0
<1>1. /\ PassStart.place = 1 /\ PassStart.last = -MaxTranslation - 1
      /\ PassStart.usages = [t \in Targets |-> -IdWindow - 1]
  BY DEF PassStart
<1>2. -MaxTranslation - 1 \in Int /\ -IdWindow - 1 \in Int BY FilterAssumption
<1>3. PassStart.usages \in [Targets -> Int] BY <1>1, <1>2
<1> QED BY <1>1, <1>2, <1>3 DEF PassBegin, PassPoint

\* The walk begins where the first pass does.
LEMMA InitFilterInv == FilterInit => FilterInv
<1> SUFFICES ASSUME FilterInit PROVE FilterInv OBVIOUS
<1>1. /\ original \in Seq(Octets) /\ code = original /\ undoing = FALSE /\ filterPc = "scan"
      /\ place = PassStart.place /\ lastPlace = PassStart.last /\ usages = PassStart.usages
      /\ marks = [do |-> <<>>, undo |-> <<>>]
  BY FilterAssumption DEF FilterInit, Octets
<1>2. Position(0) = PassBegin BY <1>1 DEF Position, PassBegin
<1>3. PassBegin \in PassPoint /\ PassBegin.place = 1 /\ PassBegin.count = 0 BY StartFacts
<1>4. place \in Nat \ {0} /\ lastPlace \in Int /\ usages \in [Targets -> Int]
  BY <1>1, <1>3 DEF PassBegin, PassPoint
<1>5. FilterTypeOK
  <2>1. <<>> \in Seq(Nat) OBVIOUS
  <2> QED BY <1>1, <1>4, <2>1 DEF FilterTypeOK
<1>6. IsWalk(original, code, marks.do, {PassBegin}, PassBegin)
  BY <1>1, <1>3 DEF IsWalk
<1>7. marks.undo = <<>> /\ Len(marks.do) = 0 BY <1>1
<1> QED BY <1>1, <1>2, <1>5, <1>6, <1>7 DEF FilterInv

\* A pass keeps the types.
LEMMA PassKeepsTypes ==
  ASSUME FilterTypeOK, NEW b \in PassPoint, NEW count,
         [place |-> place', last |-> lastPlace', usages |-> usages', count |-> count] = b,
         marks' \in [do : Seq(Nat), undo : Seq(Nat)],
         UNCHANGED <<original, undoing, filterPc>>,
         code' \in Seq(Octets), Len(code') = Len(code)
  PROVE  FilterTypeOK'
<1>1. place' = b.place /\ lastPlace' = b.last /\ usages' = b.usages OBVIOUS
<1>2. place' \in Nat \ {0} /\ lastPlace' \in Int /\ usages' \in [Targets -> Int]
  BY <1>1 DEF PassPoint
<1> QED BY <1>2 DEF FilterTypeOK

\* A step of the first pass.
LEMMA FirstPassKeepsInv ==
  ASSUME FilterInv, ~undoing, SkipJump \/ SkipByte \/ Translate
  PROVE  FilterInv'
<1>1. FilterTypeOK /\ marks.undo = <<>> BY DEF FilterInv
<1>2. PICK points : IsWalk(original, code, marks.do, points, Position(Len(marks.do)))
  BY DEF FilterInv
<1> DEFINE a == Position(Len(marks.do))
           b == After(original, a)
<1>3. a.place = place BY DEF Position
<1>4. \A i \in 1 .. Len(original) : i > place => code[i] = original[i]
  <2> HIDE DEF a
  <2> QED BY <1>2, <1>3 DEF IsWalk, a
<1>5. /\ a \in PassPoint /\ Inside(original, place)
      /\ [place |-> place', last |-> lastPlace', usages |-> usages',
          count |-> Len(marks'.do)] = b
      /\ marks'.do = IF Near(original, a) THEN Append(marks.do, place) ELSE marks.do
      /\ marks'.undo = marks.undo /\ marks' \in [do : Seq(Nat), undo : Seq(Nat)]
      /\ UNCHANGED <<original, undoing, filterPc>>
      /\ code' \in Seq(Octets) /\ Len(code') = Len(code)
      /\ \A i \in 1 .. Len(original) :
           code'[i] = IF i <= place THEN code[i] ELSE Image(original, a)[i]
  BY <1>1, <1>4, FirstPassStep
<1>6. original \in Seq(Octets) /\ marks.do \in Seq(Nat) /\ Len(code') = Len(original)
  BY <1>1, <1>5 DEF FilterTypeOK
<1>7. IsWalk(original, code', marks'.do, points \cup {b}, b)
  <2>1. code' \in Seq(Octets) /\ Inside(original, a.place) BY <1>3, <1>5
  <2>2. \A i \in 1 .. Len(original) :
          code'[i] = IF i <= a.place THEN code[i] ELSE Image(original, a)[i]
    BY <1>3, <1>5
  <2>3. marks'.do = IF Near(original, a) THEN Append(marks.do, a.place) ELSE marks.do
    BY <1>3, <1>5
  <2>4. IsWalk(original, code, marks.do, points, a) BY <1>2
  <2> HIDE DEF a
  <2> QED BY <1>6, <2>1, <2>2, <2>3, <2>4, WalkGrows
<1>8. b \in PassPoint BY <1>3, <1>5, <1>6, AfterFacts
<1> HIDE DEF a, b
<1>9. FilterTypeOK' BY <1>1, <1>5, <1>8, PassKeepsTypes
<1>10. Position(Len(marks.do))' = b BY <1>5 DEF Position
<1>11. (\E p : IsWalk(original, code, marks.do, p, Position(Len(marks.do))))'
  <2>1. original' = original BY <1>5
  <2>2. IsWalk(original', code', marks'.do, points \cup {b}, Position(Len(marks.do))')
    BY <1>7, <1>10, <2>1
  <2> QED BY <2>2 DEF IsWalk
<1>12. filterPc' = "scan" /\ ~undoing' /\ (marks.undo)' = <<>>
  BY <1>1, <1>5 DEF SkipJump, SkipByte, Translate, Scanning
<1> QED BY <1>9, <1>11, <1>12 DEF FilterInv

\* A step of the second pass.
LEMMA SecondPassKeepsInv ==
  ASSUME FilterInv, undoing, SkipJump \/ SkipByte \/ Translate
  PROVE  FilterInv'
<1>1. FilterTypeOK BY DEF FilterInv
<1>2. PICK fin, points, stop : IsUndone(fin, points, stop) BY DEF FilterInv
<1> DEFINE a == Position(Len(marks.undo))
           b == After(original, a)
           n == Len(original)
<1>3. a.place = place /\ a.count = Len(marks.undo) BY DEF Position
<1>4. /\ IsWalk(original, fin, marks.do, points, stop) /\ ~Inside(original, stop.place)
      /\ a \in points
      /\ \A i \in 1 .. n : code[i] = IF i <= place THEN original[i] ELSE fin[i]
      /\ Len(marks.undo) <= Len(marks.do)
      /\ \A i \in 1 .. Len(marks.undo) : marks.undo[i] = marks.do[i]
  BY <1>2 DEF IsUndone
<1>5. Inside(original, place) BY <1>1, ScopeIsInside DEF SkipJump, SkipByte, Translate, Scanning
<1>6. a # stop BY <1>3, <1>4, <1>5
<1>7. IsStep(original, fin, marks.do, points, stop, a)
  <2> HIDE DEF a
  <2> QED BY <1>4, <1>6 DEF IsWalk
<1>8. /\ b \in points
      /\ \A i \in 1 .. n : a.place < i /\ i <= b.place => fin[i] = Image(original, a)[i]
      /\ Near(original, a) => a.count + 1 <= Len(marks.do) /\ marks.do[a.count + 1] = a.place
  <2> HIDE DEF a
  <2> QED BY <1>7 DEF IsStep
<1>9. /\ original \in Seq(Octets) /\ code \in Seq(Octets) /\ Len(code) = n /\ n \in Nat
      /\ marks.do \in Seq(Nat) /\ marks.undo \in Seq(Nat) /\ place \in Nat \ {0}
  BY <1>1 DEF FilterTypeOK
<1>10. a \in PassPoint /\ place + 3 <= n /\ OpcodeOf(fin, a.place) = OpcodeOf(original, a.place)
  <2> HIDE DEF a
  <2>1. OpcodeOf(fin, a.place) = OpcodeOf(original, a.place) BY <1>4, <1>6, <1>9, OpcodesOnWalk
  <2>2. a \in PassPoint BY <1>4 DEF IsWalk
  <2>3. a.place + 3 <= Len(original) BY <1>4, <1>6, <1>9, WalkKeeps
  <2> QED BY <1>3, <2>1, <2>2, <2>3
<1>11. OpcodeOf(code, place) = OpcodeOf(original, place)
  <2>1. OpcodeOf(fin, place) = OpcodeOf(original, place) BY <1>3, <1>10
  <2>2. /\ place + 1 + 1 = place + 2 /\ place + 2 + 1 = place + 3
        /\ \A i \in {place + 1, place + 2, place + 3} : i \in 1 .. n /\ ~(i <= place)
    BY <1>9, <1>10
  <2>3. \A i \in {place + 1, place + 2, place + 3} : code[i] = fin[i]
    <3> HIDE DEF a, b, n
    <3> QED BY <1>4, <2>2
  <2>4. /\ ByteAt(code, place) = ByteAt(fin, place)
        /\ ByteAt(code, place + 1) = ByteAt(fin, place + 1)
        /\ ByteAt(code, place + 2) = ByteAt(fin, place + 2)
    BY <2>2, <2>3 DEF ByteAt
  <2> QED BY <2>1, <2>4 DEF OpcodeOf
<1>12. \A i \in 1 .. n : place < i /\ i <= b.place => code[i] = Image(original, a)[i]
  <2> HIDE DEF a, b
  <2>1. ASSUME NEW i \in 1 .. n, place < i, i <= b.place PROVE code[i] = Image(original, a)[i]
    <3>1. ~(i <= place) BY <1>9, <2>1
    <3>2. code[i] = fin[i] BY <1>4, <3>1
    <3> QED BY <1>3, <1>8, <2>1, <3>2
  <2> QED BY <2>1
<1>13. /\ [place |-> place', last |-> lastPlace', usages |-> usages',
           count |-> Len(marks'.undo)] = b
       /\ marks'.undo = IF Near(original, a) THEN Append(marks.undo, place) ELSE marks.undo
       /\ marks'.do = marks.do /\ marks' \in [do : Seq(Nat), undo : Seq(Nat)]
       /\ UNCHANGED <<original, undoing, filterPc>>
       /\ code' \in Seq(Octets) /\ Len(code') = Len(code)
       /\ \A i \in 1 .. n :
            code'[i] = IF place < i /\ i <= place' THEN original[i] ELSE code[i]
  BY <1>1, <1>11, <1>12, SecondPassStep
<1>14. b \in PassPoint /\ place < b.place BY <1>3, <1>5, <1>9, <1>10, AfterFacts
<1> HIDE DEF a, b
<1>15. FilterTypeOK' BY <1>1, <1>13, <1>14, PassKeepsTypes
<1>16. place' = b.place /\ place < place' /\ place' \in Nat
  <2>1. place' = b.place BY <1>13
  <2>2. b.place \in Nat BY <1>14 DEF PassPoint
  <2> QED BY <1>14, <2>1, <2>2
<1>17. ASSUME NEW i \in 1 .. n PROVE code'[i] = IF i <= place' THEN original[i] ELSE fin[i]
  <2>1. CASE i <= place
    <3>1. ~(place < i) /\ i <= place' BY <1>9, <1>16, <2>1
    <3> QED BY <1>4, <1>13, <2>1, <3>1
  <2>2. CASE place < i /\ i <= place' BY <1>13, <2>2
  <2>3. CASE ~(i <= place')
    <3>1. ~(i <= place) BY <1>9, <1>16, <2>3
    <3> QED BY <1>4, <1>13, <2>3, <3>1
  <2> QED BY <1>9, <1>16, <2>1, <2>2, <2>3
<1>18. /\ Len(marks'.undo) <= Len(marks.do)
       /\ \A i \in 1 .. Len(marks'.undo) : marks'.undo[i] = marks.do[i]
  <2>1. CASE Near(original, a)
    <3>1. marks'.undo = Append(marks.undo, place) BY <1>13, <2>1
    <3>2. Len(marks.undo) + 1 <= Len(marks.do) /\ marks.do[Len(marks.undo) + 1] = place
      BY <1>3, <1>8, <2>1
    <3> DEFINE u == marks.undo
               w == marks'.undo
    <3>3. /\ u \in Seq(Nat) /\ w = Append(u, place) /\ place \in Nat
          /\ \A i \in 1 .. Len(u) : u[i] = marks.do[i]
          /\ Len(u) + 1 <= Len(marks.do) /\ marks.do[Len(u) + 1] = place
      BY <1>4, <1>9, <3>1, <3>2
    <3> HIDE DEF u, w
    <3>4. Len(w) = Len(u) + 1 /\ Len(u) \in Nat BY <3>3
    <3>5. ASSUME NEW i \in 1 .. Len(w) PROVE w[i] = marks.do[i]
      <4>1. CASE i = Len(u) + 1 BY <3>3, <4>1
      <4>2. CASE i # Len(u) + 1
        <5>1. i \in 1 .. Len(u) BY <3>4, <4>2
        <5> QED BY <3>3, <5>1
      <4> QED BY <4>1, <4>2
    <3> QED BY <3>3, <3>4, <3>5 DEF w
  <2>2. CASE ~Near(original, a)
    <3>1. marks'.undo = marks.undo BY <1>13, <2>2
    <3> QED BY <1>4, <3>1
  <2> QED BY <2>1, <2>2
<1>19. Position(Len(marks.undo))' = b BY <1>13 DEF Position
<1>20. IsUndone(fin, points, stop)'
  <2>1. original' = original /\ (marks.do)' = marks.do BY <1>13
  <2>2. IsWalk(original, fin, marks.do, points, stop)' /\ ~Inside(original, stop.place)'
    <3>1. IsWalk(original', fin, marks'.do, points, stop) /\ ~Inside(original', stop.place)
      BY <1>4, <2>1
    <3> QED BY <3>1 DEF IsWalk, Inside
  <2>3. Position(Len(marks.undo))' \in points BY <1>8, <1>19
  <2> QED BY <1>17, <1>18, <2>1, <2>2, <2>3 DEF IsUndone
<1>21. filterPc' = "scan" /\ undoing'
  BY <1>13 DEF SkipJump, SkipByte, Translate, Scanning
<1> QED BY <1>15, <1>20, <1>21 DEF FilterInv

\* The end of a pass.
LEMMA EndPassKeepsInv ==
  ASSUME FilterInv, EndPass
  PROVE  FilterInv'
<1>1. FilterTypeOK BY DEF FilterInv
<1>2. ~Inside(original, place) /\ filterPc = "scan"
  BY <1>1, ScopeIsInside DEF EndPass, Scanning
<1>3. UNCHANGED <<code, original, marks>> BY DEF EndPass
<1>4. CASE undoing
  <2>1. filterPc' = "done" /\ UNCHANGED <<undoing, place, lastPlace, usages>> BY <1>4 DEF EndPass
  <2>2. FilterTypeOK' BY <1>1, <1>3, <2>1 DEF FilterTypeOK
  <2>3. PICK fin, points, stop : IsUndone(fin, points, stop) BY <1>4 DEF FilterInv
  <2>4. IsUndone(fin, points, stop)'
    BY <1>3, <2>1, <2>3 DEF IsUndone, IsWalk, IsStep, Position, Inside
  <2>5. ~Inside(original, place)' BY <1>2, <1>3, <2>1 DEF Inside
  <2> QED BY <1>4, <2>1, <2>2, <2>4, <2>5 DEF FilterInv
<1>5. CASE ~undoing
  <2>1. /\ undoing' = TRUE /\ filterPc' = filterPc
        /\ place' = PassStart.place /\ lastPlace' = PassStart.last /\ usages' = PassStart.usages
    BY <1>5 DEF EndPass
  <2>2. PassBegin \in PassPoint /\ PassBegin.place = 1 /\ PassBegin.count = 0 BY StartFacts
  <2>3. Position(0)' = PassBegin BY <2>1 DEF Position, PassBegin
  <2>4. place' = 1 /\ lastPlace' \in Int /\ usages' \in [Targets -> Int]
    BY <2>1, <2>2 DEF PassBegin, PassPoint
  <2>5. FilterTypeOK' BY <1>1, <1>3, <2>1, <2>4 DEF FilterTypeOK
  <2>6. marks.undo = <<>> BY <1>5 DEF FilterInv
  <2>7. PICK points : IsWalk(original, code, marks.do, points, Position(Len(marks.do)))
    BY <1>5 DEF FilterInv
  <2>8. PICK fin, stop : fin = code /\ stop = Position(Len(marks.do)) OBVIOUS
  <2>9. IsWalk(original, fin, marks.do, points, stop) /\ stop.place = place
    BY <2>7, <2>8 DEF Position
  <2>10. original' = original /\ code' = fin /\ marks' = marks BY <1>3, <2>8
  <2>11. IsUndone(fin, points, stop)'
    <3>1. IsWalk(original', fin, marks'.do, points, stop) /\ ~Inside(original', stop.place)
      BY <1>2, <2>9, <2>10
    <3>2. Len(marks'.undo) = 0 /\ marks.do \in Seq(Nat) BY <1>1, <2>6, <2>10 DEF FilterTypeOK
    <3>3. [place |-> place', last |-> lastPlace', usages |-> usages', count |-> Len(marks'.undo)]
            \in points
      BY <2>3, <2>9, <3>2 DEF IsWalk, Position
    <3>4. \A i \in 1 .. Len(original) : fin[i] = IF i <= 1 THEN original[i] ELSE fin[i]
      BY <2>9 DEF IsWalk
    <3>5. /\ Len(marks'.undo) <= Len(marks'.do)
          /\ \A i \in 1 .. Len(marks'.undo) : marks'.undo[i] = marks'.do[i]
      BY <3>2, <2>10
    <3>6. IsWalk(original, fin, marks.do, points, stop)' /\ ~Inside(original, stop.place)'
      BY <3>1 DEF IsWalk, Inside
    <3>7. Position(Len(marks.undo))' \in points BY <3>3 DEF Position
    <3>8. (\A i \in 1 .. Len(original) : code[i] = IF i <= place THEN original[i] ELSE fin[i])'
      BY <3>4, <2>4, <2>10
    <3>9. (/\ Len(marks.undo) <= Len(marks.do)
           /\ \A i \in 1 .. Len(marks.undo) : marks.undo[i] = marks.do[i])'
      BY <3>5
    <3> QED BY <3>6, <3>7, <3>8, <3>9 DEF IsUndone
  <2>12. undoing' = TRUE /\ filterPc' = "scan" BY <1>2, <2>1
  <2> QED BY <2>5, <2>11, <2>12 DEF FilterInv
<1> QED BY <1>4, <1>5

\* Every step keeps the invariant.
LEMMA NextFilterInv == FilterInv /\ [FilterNext]_filterVars => FilterInv'
<1> SUFFICES ASSUME FilterInv, [FilterNext]_filterVars PROVE FilterInv' OBVIOUS
<1>1. CASE SkipJump \/ SkipByte \/ Translate
  <2>1. undoing \in BOOLEAN BY DEF FilterInv, FilterTypeOK
  <2> QED BY <1>1, <2>1, FirstPassKeepsInv, SecondPassKeepsInv
<1>2. CASE EndPass BY <1>2, EndPassKeepsInv
<1>3. CASE UNCHANGED filterVars
  <2>1. /\ code' = code /\ original' = original /\ undoing' = undoing /\ place' = place
        /\ lastPlace' = lastPlace /\ usages' = usages /\ marks' = marks /\ filterPc' = filterPc
    BY <1>3 DEF filterVars
  <2>2. FilterTypeOK' BY <2>1 DEF FilterInv, FilterTypeOK
  <2>3. (filterPc = "done" => undoing /\ ~Inside(original, place))'
    BY <2>1 DEF FilterInv, Inside
  <2>4. (~undoing => /\ marks.undo = <<>>
                     /\ \E p : IsWalk(original, code, marks.do, p, Position(Len(marks.do))))'
    BY <2>1 DEF FilterInv, IsWalk, Position
  <2>5. ASSUME NEW fin, NEW points, NEW stop, IsUndone(fin, points, stop)
        PROVE  IsUndone(fin, points, stop)'
    BY <2>1, <2>5 DEF IsUndone, IsWalk, IsStep, Position, Inside
  <2>6. (undoing => \E fin, points, stop : IsUndone(fin, points, stop))'
    BY <2>1, <2>5 DEF FilterInv
  <2> QED BY <2>2, <2>3, <2>4, <2>6 DEF FilterInv
<1> QED BY <1>1, <1>2, <1>3 DEF FilterNext

\* FilterInv: there is a walk over the data that the first pass has taken and the second
\* takes again, whatever the first has changed on it (x86_filter_impl).
THEOREM FilterInvAlways == FilterSpec => []FilterInv
<1> QED BY InitFilterInv, NextFilterInv, PTL DEF FilterSpec

\* The second pass changes back what the first changed and nothing else, in any data, with
\* bytes and displacements of any size (x86_filter_impl).
THEOREM FilterAlwaysUndoes == FilterSpec => []FilterUndoes
<1>1. FilterInv => FilterUndoes
  <2> SUFFICES ASSUME FilterInv, filterPc = "done" PROVE code = original /\ marks.undo = marks.do
    BY DEF FilterUndoes
  <2>1. FilterTypeOK /\ undoing /\ ~Inside(original, place) BY DEF FilterInv
  <2>2. PICK fin, points, stop : IsUndone(fin, points, stop) BY <2>1 DEF FilterInv
  <2> DEFINE a == Position(Len(marks.undo))
  <2>3. a.place = place /\ a.count = Len(marks.undo) BY DEF Position
  <2> HIDE DEF a
  <2>4. /\ IsWalk(original, fin, marks.do, points, stop) /\ a \in points
        /\ \A i \in 1 .. Len(original) : code[i] = IF i <= place THEN original[i] ELSE fin[i]
        /\ \A i \in 1 .. Len(marks.undo) : marks.undo[i] = marks.do[i]
    BY <2>2 DEF IsUndone, a
  <2>5. a = stop BY <2>1, <2>3, <2>4 DEF IsWalk, IsStep
  <2>6. /\ stop.place = place /\ Len(marks.undo) = Len(marks.do)
        /\ \A i \in 1 .. Len(original) : i > place => fin[i] = original[i]
    BY <2>3, <2>4, <2>5 DEF IsWalk
  <2>7. /\ original \in Seq(Octets) /\ code \in Seq(Octets) /\ Len(code) = Len(original)
        /\ marks.do \in Seq(Nat) /\ marks.undo \in Seq(Nat) /\ place \in Nat
    BY <2>1 DEF FilterTypeOK
  <2>8. \A i \in 1 .. Len(original) : code[i] = original[i]
    <3>1. ASSUME NEW i \in 1 .. Len(original) PROVE code[i] = original[i]
      <4>1. i <= place \/ i > place BY <2>7
      <4> QED BY <4>1, <2>4, <2>6
    <3> QED BY <3>1
  <2>9. code = original BY <2>7, <2>8, SeqEqual
  <2>10. marks.undo = marks.do BY <2>4, <2>6, <2>7, SeqEqual
  <2> QED BY <2>9, <2>10
<1> QED BY <1>1, FilterInvAlways, PTL
================================================================================
