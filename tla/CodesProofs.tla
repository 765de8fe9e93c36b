------------------------------ MODULE CodesProofs ------------------------------
(***************************************************************************)
(* What is proved of the codes and containers: bsdiff, the cache of base   *)
(* manifests, the envelopes of deltas, the tables at the head of a stream, *)
(* matches as symbols and bits, and the bit stream of deltas.              *)
(***************************************************************************)
EXTENDS BsDiff, BaseCache, DeltaEnvelope, CompositeFormat, MatchSymbols, BitStream,
        FiniteSetTheorems, SequenceTheorems, TLAPS

-----------------------------------------------------------------------------
(***************************************************************************)
(* Smallest and largest members.                                           *)
(***************************************************************************)
\* Every nonempty set of indices has a smallest element: of the sets of the members
\* up to one, the least stops at it.
LEMMA SmallestNumber ==
  ASSUME NEW n \in Nat, NEW S \in SUBSET (0 .. n), S # {}
  PROVE  \E m \in S : \A k \in S : m <= k
<1> DEFINE UpTo(k) == {j \in S : j <= k}
           T == {UpTo(k) : k \in S}
<1>1. IsFiniteSet(0 .. n) BY FS_Interval
<1>2. IsFiniteSet(S) BY <1>1, FS_Subset
<1>3. T \subseteq FiniteSubsetsOf(S) BY <1>2, FS_Subset DEF FiniteSubsetsOf
<1>4. T # {} OBVIOUS
<1>5. PICK x \in T : \A y \in T : ~ (<<y, x>> \in StrictSubsetOrdering(S))
  <2> HIDE DEF T
  <2> QED BY <1>3, <1>4, WFMin, FS_StrictSubsetOrderingWellFounded
<1>6. PICK m \in S : x = UpTo(m) OBVIOUS
<1>7. ASSUME NEW k \in S, k < m PROVE FALSE
  <2>1. k \in Int /\ m \in Int /\ \A j \in S : j \in Int OBVIOUS
  <2>2. UpTo(k) \subseteq x
    <3>1. ASSUME NEW j \in S, j <= k PROVE j <= m BY <3>1, <1>7, <2>1
    <3> QED BY <3>1, <1>6
  <2>3. m \in x /\ m \notin UpTo(k) BY <1>6, <1>7, <2>1
  <2>4. UpTo(k) \in T OBVIOUS
  <2>5. <<UpTo(k), x>> \in StrictSubsetOrdering(S)
    BY <2>2, <2>3, <1>6 DEF StrictSubsetOrdering
  <2> QED BY <1>5, <2>4, <2>5
<1> QED BY <1>7

-----------------------------------------------------------------------------
(***************************************************************************)
(* Types, and where the scan is.                                           *)
(***************************************************************************)
Bytes == 0 .. Byte - 1
BufferFits(s) == s \in Seq(Bytes) /\ \A m \in 0 .. Len(s) : Fits(m)

Creating == {"block", "search", "probe", "found"}

BsTypeOK ==
  /\ BufferFits(old) /\ BufferFits(new)
  /\ rank \in [0 .. Len(old) - 1 -> Nat] /\ sortWidth \in Nat \ {0}
  /\ suffixes \in Seq(0 .. Len(old) - 1)
  /\ scan \in Nat /\ lo \in Int /\ hi \in Int /\ found \in [pos : Nat, len : Nat]
  /\ lastScan \in Nat /\ lastPos \in Nat /\ lastOffset \in Int
  /\ patch \in Seq(Bytes) /\ patchPos \in Nat /\ oldPos \in Int /\ rebuilt \in Seq(Bytes)
  /\ bsPc \in Creating \cup {"sort", "written", "whole", "cut", "failed", "refused"}

\* The scan is ahead of what is in the patch, which ends at a byte the last match has.
ScanInv ==
  /\ bsPc = "sort" => scan = 0 /\ lastScan = 0 /\ lastPos = 0 /\ patch = <<>>
  /\ bsPc \in Creating \cup {"sort"} =>
       lastScan < Len(new) /\ lastPos <= Len(old) /\ lastScan <= scan /\ scan <= Len(new)
  /\ bsPc \in {"search", "probe", "found"} => lastScan < scan
  /\ bsPc \in {"probe", "found"} => scan < Len(new)
  /\ bsPc \in Creating /\ patch # <<>> => Agrees(lastScan, lastPos)

\* What the search has found is a match.
MatchInv ==
  bsPc \in {"probe", "found"} /\ found.len > 0 =>
    InSource(found.pos) /\ found.len = MatchLen(found.pos, scan)

\* A match goes on to the first byte that does not agree.
LEMMA MatchLenFacts ==
  ASSUME Len(new) \in Nat, NEW j \in 0 .. Len(new), NEW p \in Int
  PROVE  /\ MatchLen(p, j) \in 0 .. Len(new) - j
         /\ \A i \in 0 .. MatchLen(p, j) - 1 : Agrees(j + i, p + i)
         /\ MatchLen(p, j) < Len(new) - j => ~Agrees(j + MatchLen(p, j), p + MatchLen(p, j))
<1> DEFINE L == Len(new) - j
           S == {n \in 0 .. L : n = L \/ ~Agrees(j + n, p + n)}
           IsLen(n) == /\ \A i \in 0 .. n - 1 : Agrees(j + i, p + i)
                       /\ n < L => ~Agrees(j + n, p + n)
<1>1. L \in Nat /\ L \in S OBVIOUS
<1>2. PICK n \in S : \A k \in S : n <= k
  <2>1. S \in SUBSET (0 .. L) /\ S # {} BY <1>1
  <2> HIDE DEF S, L
  <2> QED BY <1>1, <2>1, SmallestNumber
<1>3. n \in 0 .. L /\ IsLen(n)
  <2>1. n \in 0 .. L /\ (n = L \/ ~Agrees(j + n, p + n)) OBVIOUS
  <2>2. ASSUME NEW i \in 0 .. n - 1 PROVE Agrees(j + i, p + i)
    <3>1. i \in 0 .. L /\ ~(n <= i) BY <1>1, <2>1
    <3>2. i \notin S BY <1>2, <3>1
    <3> QED BY <3>1, <3>2
  <2> QED BY <1>1, <2>1, <2>2
<1>4. MatchLen(p, j) = CHOOSE k \in 0 .. L : IsLen(k) BY DEF MatchLen
<1>5. MatchLen(p, j) \in 0 .. L /\ IsLen(MatchLen(p, j))
  <2> HIDE DEF IsLen, L
  <2> QED BY <1>3, <1>4
<1> QED BY <1>5

\* The number of agreeing bytes among the first: none of none, and one more with a
\* byte that agrees.
LEMMA ScoreFacts ==
  ASSUME NEW n \in Nat, NEW agreeing \in SUBSET (1 .. n), NEW i \in 0 .. n
  PROVE  /\ Score(i, agreeing) \in Nat
         /\ Score(0, agreeing) = 0
         /\ i > 0 => Score(i, agreeing) = Score(i - 1, agreeing) + (IF i \in agreeing THEN 1 ELSE 0)
<1> DEFINE Up(j) == {k \in agreeing : k <= j}
<1>0. \A k \in agreeing : k \in 1 .. n OBVIOUS
<1>1. \A j \in 0 .. n : IsFiniteSet(Up(j))
  <2>1. IsFiniteSet(1 .. n) BY FS_Interval
  <2> QED BY <2>1, FS_Subset
<1>2. Score(i, agreeing) \in Nat BY <1>1, FS_CardinalityType DEF Score
<1>3. Score(0, agreeing) = 0
  <2>1. Up(0) = {}
    <3>1. ASSUME NEW k \in agreeing, k <= 0 PROVE FALSE BY <1>0, <3>1
    <3> QED BY <3>1
  <2> QED BY <2>1, FS_EmptySet DEF Score
<1>4. ASSUME i > 0
      PROVE  Score(i, agreeing) = Score(i - 1, agreeing) + (IF i \in agreeing THEN 1 ELSE 0)
  <2>1. i - 1 \in 0 .. n BY <1>4
  <2>2. CASE i \in agreeing
    <3>1. Up(i) = Up(i - 1) \cup {i} /\ i \notin Up(i - 1)
      <4>1. \A k \in agreeing : k <= i <=> k <= i - 1 \/ k = i BY <1>0
      <4>2. ~(i <= i - 1) OBVIOUS
      <4> QED BY <2>2, <4>1, <4>2
    <3> HIDE DEF Up
    <3>2. Cardinality(Up(i)) = Cardinality(Up(i - 1)) + 1 BY <1>1, <2>1, <3>1, FS_AddElement
    <3> QED BY <2>2, <3>2 DEF Score, Up
  <2>3. CASE i \notin agreeing
    <3>1. Up(i) = Up(i - 1)
      <4>1. \A k \in agreeing : k <= i <=> k <= i - 1 BY <1>0, <2>3
      <4> QED BY <4>1
    <3>2. Cardinality(Up(i - 1)) \in Nat BY <1>1, <2>1, FS_CardinalityType
    <3> QED BY <2>3, <3>1, <3>2 DEF Score
  <2> QED BY <2>2, <2>3
<1> QED BY <1>2, <1>3, <1>4

\* An extension that is not empty ends at a byte that agrees; and if the first byte
\* agrees, it is not empty.
LEMMA ExtensionEnds ==
  ASSUME NEW n \in Nat, NEW agreeing \in SUBSET (1 .. n), NEW e \in 0 .. n,
         IsExtension(e, n, agreeing)
  PROVE  /\ e > 0 => e \in agreeing
         /\ n > 0 /\ 1 \in agreeing => e > 0
<1>1. Score(e, agreeing) \in Nat /\ Score(0, agreeing) = 0
      /\ (e > 0 => Score(e, agreeing) = Score(e - 1, agreeing) + (IF e \in agreeing THEN 1 ELSE 0))
  BY ScoreFacts
<1>2. ASSUME e > 0, e \notin agreeing PROVE FALSE
  <2>1. Score(e, agreeing) = Score(e - 1, agreeing) /\ Majority(e, agreeing)
    <3>1. e - 1 \in 0 .. n BY <1>2
    <3>2. Score(e - 1, agreeing) \in Nat BY <3>1, ScoreFacts
    <3> QED BY <1>1, <1>2, <3>2 DEF IsExtension
  <2>2. CASE e = 1 BY <1>1, <2>1, <2>2 DEF Majority
  <2>3. CASE e > 1
    <3>1. Majority(e - 1, agreeing) BY <1>1, <2>1 DEF Majority
    <3>2. e - 1 \in 1 .. n BY <2>3
    <3>3. e <= e - 1 BY <2>1, <3>1, <3>2 DEF IsExtension
    <3> QED BY <3>3
  <2> QED BY <1>2, <2>2, <2>3
<1>3. ASSUME n > 0, 1 \in agreeing, e = 0 PROVE FALSE
  <2>1. Score(1, agreeing) = 1
    <3>1. 1 \in 0 .. n BY <1>3
    <3>2. 1 > 0 => Score(1, agreeing) = Score(1 - 1, agreeing) + (IF 1 \in agreeing THEN 1 ELSE 0)
      BY <3>1, ScoreFacts
    <3>3. Score(1 - 1, agreeing) = Score(0, agreeing) OBVIOUS
    <3> QED BY <1>1, <1>3, <3>2, <3>3
  <2>2. Majority(1, agreeing) /\ 1 \in 1 .. n BY <1>3, <2>1 DEF Majority
  <2>3. Score(1, agreeing) <= Score(e, agreeing) BY <2>2 DEF IsExtension
  <2> QED BY <1>1, <1>3, <2>1, <2>3
<1> QED BY <1>2, <1>3
-----------------------------------------------------------------------------
(***************************************************************************)
(* Numbers.                                                                *)
(***************************************************************************)
\* Quotient and remainder of a number.
LEMMA DividingByByte ==
  ASSUME NEW a \in Nat
  PROVE  /\ a = Byte * (a \div Byte) + (a % Byte)
         /\ (a \div Byte) \in Nat
         /\ (a % Byte) \in Bytes
<1>1. Byte \in Nat \ {0} BY BsAssumption
<1> QED BY <1>1 DEF Bytes

\* The places of a magnitude: each is the one before without its lowest byte.
LEMMA PlacesFacts ==
  ASSUME NEW m \in Nat
  PROVE  /\ Places(m) \in [1 .. NumBytes -> Nat]
         /\ Places(m)[1] = m
         /\ \A i \in 2 .. NumBytes : Places(m)[i] = Places(m)[i - 1] \div Byte
<1>0. NumBytes \in Nat \ {0} BY BsAssumption
<1> DEFINE Shifts(f, n) == /\ f \in [1 .. n -> Nat] /\ f[1] = m
                           /\ \A i \in 2 .. n : f[i] = f[i - 1] \div Byte
           S == {n \in 1 .. NumBytes : ~ \E f : Shifts(f, n)}
<1>1. \E f : Shifts(f, NumBytes)
  <2>0. NumBytes \in 1 .. NumBytes BY <1>0
  <2>1. SUFFICES ASSUME S # {} PROVE FALSE BY <2>0
  <2>2. PICK n \in S : \A k \in S : n <= k
    <3>1. S \in SUBSET (0 .. NumBytes) OBVIOUS
    <3> HIDE DEF S
    <3> QED BY <1>0, <2>1, <3>1, SmallestNumber
  <2>3. n \in 1 .. NumBytes /\ ~ \E f : Shifts(f, n) BY <2>2
  <2>4. CASE n = 1
    <3>1. Shifts([i \in 1 .. 1 |-> m], 1) OBVIOUS
    <3> QED BY <2>3, <2>4, <3>1
  <2>5. CASE n # 1
    <3>1. n - 1 \in 1 .. NumBytes /\ ~(n <= n - 1) BY <2>3, <2>5, <1>0
    <3>2. PICK f : Shifts(f, n - 1) BY <2>2, <3>1
    <3> DEFINE g == [i \in 1 .. n |-> IF i = n THEN f[n - 1] \div Byte ELSE f[i]]
    <3>3. f[n - 1] \in Nat BY <3>1, <3>2
    <3>4. (f[n - 1] \div Byte) \in Nat BY <3>3, DividingByByte
    <3>5. g \in [1 .. n -> Nat]
      <4>1. ASSUME NEW i \in 1 .. n PROVE (IF i = n THEN f[n - 1] \div Byte ELSE f[i]) \in Nat
        <5>1. i = n \/ i \in 1 .. n - 1 BY <2>3
        <5> QED BY <5>1, <3>2, <3>4
      <4> QED BY <4>1
    <3>6. g[1] = m BY <2>3, <2>5, <3>2
    <3>7. ASSUME NEW i \in 2 .. n PROVE g[i] = g[i - 1] \div Byte
      <4>1. i - 1 \in 1 .. n /\ i - 1 # n /\ i \in 1 .. n BY <2>3
      <4>2. g[i - 1] = f[i - 1] BY <4>1
      <4>3. CASE i = n BY <4>1, <4>2, <4>3
      <4>4. CASE i # n
        <5>1. i \in 2 .. n - 1 BY <2>3, <4>4
        <5>2. f[i] = f[i - 1] \div Byte BY <3>2, <5>1
        <5> QED BY <4>1, <4>2, <4>4, <5>2
      <4> QED BY <4>3, <4>4
    <3>8. Shifts(g, n)
      <4> HIDE DEF g
      <4> QED BY <3>5, <3>6, <3>7
    <3> QED BY <2>3, <3>8
  <2> QED BY <2>4, <2>5
<1>2. PICK f : Shifts(f, NumBytes) BY <1>1
<1>3. f = [i \in 1 .. NumBytes |-> IF i = 1 THEN m ELSE f[i - 1] \div Byte]
  <2>1. ASSUME NEW i \in 1 .. NumBytes PROVE f[i] = IF i = 1 THEN m ELSE f[i - 1] \div Byte
    <3>1. i = 1 \/ i \in 2 .. NumBytes OBVIOUS
    <3> QED BY <3>1, <1>2
  <2> QED BY <1>2, <2>1
<1> DEFINE p == Places(m)
<1>4. p = [i \in 1 .. NumBytes |-> IF i = 1 THEN m ELSE p[i - 1] \div Byte]
  BY <1>3 DEF Places
<1>5. p[1] = m /\ \A i \in 2 .. NumBytes : p[i] = p[i - 1] \div Byte
  <2>1. ASSUME NEW i \in 2 .. NumBytes PROVE p[i] = p[i - 1] \div Byte
    <3>1. i \in 1 .. NumBytes /\ i # 1 OBVIOUS
    <3> HIDE DEF p
    <3> QED BY <1>4, <3>1
  <2>2. 1 \in 1 .. NumBytes BY <1>0
  <2> HIDE DEF p
  <2> QED BY <1>4, <2>1, <2>2
<1> DEFINE W == {i \in 1 .. NumBytes : p[i] \notin Nat}
<1> HIDE DEF p
<1>6. W = {}
  <2>1. SUFFICES ASSUME W # {} PROVE FALSE OBVIOUS
  <2>2. PICK i \in W : \A k \in W : i <= k
    <3>1. W \in SUBSET (0 .. NumBytes) OBVIOUS
    <3> HIDE DEF W
    <3> QED BY <1>0, <2>1, <3>1, SmallestNumber
  <2>3. i \in 1 .. NumBytes /\ p[i] \notin Nat BY <2>2
  <2>4. i # 1 BY <2>3, <1>5
  <2>5. i - 1 \in 1 .. NumBytes /\ i \in 2 .. NumBytes /\ ~(i <= i - 1) BY <1>0, <2>3, <2>4
  <2>6. p[i - 1] \in Nat BY <2>2, <2>5
  <2>7. (p[i - 1] \div Byte) \in Nat BY <2>6, DividingByByte
  <2> QED BY <1>5, <2>3, <2>5, <2>7
<1>7. p \in [1 .. NumBytes -> Nat]
  <2>1. DOMAIN p = 1 .. NumBytes /\ p = [i \in 1 .. NumBytes |-> p[i]] BY <1>4
  <2>2. \A i \in 1 .. NumBytes : p[i] \in Nat BY <1>6
  <2> QED BY <2>1, <2>2
<1> QED BY <1>5, <1>7 DEF p

\* A number is written in its bytes.
LEMMA NumberBytes ==
  ASSUME NEW v \in Int
  PROVE  /\ WriteNumber(v) \in [1 .. NumBytes -> Bytes]
         /\ WriteNumber(v) \in Seq(Bytes) /\ Len(WriteNumber(v)) = NumBytes
<1>0. NumBytes \in Nat \ {0} /\ SignBit \in Nat \ {0} /\ Byte = 2 * SignBit BY BsAssumption
<1>1. Magnitude(v) \in Nat BY DEF Magnitude
<1> DEFINE p == Places(Magnitude(v))
<1>2. p \in [1 .. NumBytes -> Nat] BY <1>1, PlacesFacts
<1> DEFINE top == IF v < 0 THEN SignBit ELSE 0
           b(i) == IF i < NumBytes THEN p[i] % Byte ELSE (p[i] % SignBit) + top
<1>3. WriteNumber(v) = [i \in 1 .. NumBytes |-> b(i)] BY DEF WriteNumber
<1>4. ASSUME NEW i \in 1 .. NumBytes PROVE b(i) \in Bytes
  <2> HIDE DEF p
  <2>1. p[i] \in Nat BY <1>2
  <2> DEFINE q == p[i]
  <2>2. (q % Byte) \in Bytes BY <2>1, DividingByByte
  <2>3. (q % SignBit) \in 0 .. SignBit - 1
    <3> HIDE DEF q
    <3>1. q \in Nat BY <2>1 DEF q
    <3> HIDE DEF SignBit
    <3> QED BY <1>0, <3>1
  <2>4. top \in {0, SignBit} OBVIOUS
  <2>5. (q % SignBit) + top \in Bytes
    <3> HIDE DEF SignBit, top
    <3> DEFINE r == q % SignBit
    <3>1. r \in 0 .. SignBit - 1 BY <2>3
    <3> HIDE DEF r
    <3>2. r + top \in Bytes BY <1>0, <2>4, <3>1 DEF Bytes
    <3> QED BY <3>2 DEF r
  <2> HIDE DEF top
  <2> QED BY <2>2, <2>5
<1>5. WriteNumber(v) \in [1 .. NumBytes -> Bytes]
  <2> HIDE DEF b
  <2> QED BY <1>3, <1>4
<1>6. WriteNumber(v) \in Seq(Bytes) /\ Len(WriteNumber(v)) = NumBytes
  <2> DEFINE w == WriteNumber(v)
  <2>1. w \in [1 .. NumBytes -> Bytes] BY <1>5
  <2> HIDE DEF w
  <2>2. w \in Seq(Bytes) BY <1>0, <2>1, IsASeq
  <2>3. Len(w) = NumBytes BY <1>0, <2>1, <2>2, LenProperties
  <2> QED BY <2>2, <2>3 DEF w
<1> QED BY <1>5, <1>6

\* A number that fits is read as it was written.
LEMMA ReadsTheNumber ==
  ASSUME NEW v \in Int, Fits(Magnitude(v))
  PROVE  ReadNumber(WriteNumber(v)) = v
<1>0. NumBytes \in Nat \ {0} /\ SignBit \in Nat \ {0} /\ Byte = 2 * SignBit BY BsAssumption
<1>1. Magnitude(v) \in Nat BY DEF Magnitude
<1> DEFINE p == Places(Magnitude(v))
           s == WriteNumber(v)
           top == IF v < 0 THEN SignBit ELSE 0
<1>2. /\ p \in [1 .. NumBytes -> Nat] /\ p[1] = Magnitude(v)
      /\ \A i \in 2 .. NumBytes : p[i] = p[i - 1] \div Byte
  BY <1>1, PlacesFacts
<1>3. s = [i \in 1 .. NumBytes |->
             IF i < NumBytes THEN p[i] % Byte ELSE (p[i] % SignBit) + top]
  BY DEF WriteNumber
<1>4. p[NumBytes] \in 0 .. SignBit - 1
  <2>1. p[NumBytes] \in Nat /\ p[NumBytes] < SignBit BY <1>0, <1>2 DEF Fits
  <2> HIDE DEF p, SignBit
  <2> QED BY <1>0, <2>1
<1>5. s[NumBytes] = p[NumBytes] + top /\ (s[NumBytes] % SignBit) = p[NumBytes]
      /\ (s[NumBytes] >= SignBit <=> v < 0)
  <2> DEFINE t == p[NumBytes]
  <2>0. t \in 0 .. SignBit - 1 BY <1>4
  <2>1. (t % SignBit) = t /\ ((t + SignBit) % SignBit) = t
    <3> HIDE DEF t, SignBit
    <3>1. t = SignBit * 0 + t /\ t + SignBit = SignBit * 1 + t BY <1>0, <2>0
    <3> QED BY <1>0, <2>0, <3>1
  <2>2. s[NumBytes] = (t % SignBit) + top
    <3>1. NumBytes \in 1 .. NumBytes /\ ~(NumBytes < NumBytes) BY <1>0
    <3> HIDE DEF p, s, top, SignBit
    <3> QED BY <1>3, <3>1
  <2>3. s[NumBytes] = t + top BY <2>1, <2>2
  <2>4. top \in {0, SignBit} /\ (top = SignBit <=> v < 0) BY <1>0
  <2> HIDE DEF t, s, top, SignBit
  <2>5. s[NumBytes] >= SignBit <=> v < 0
    <3>1. CASE top = 0 BY <1>0, <2>0, <2>3, <2>4, <3>1
    <3>2. CASE top = SignBit BY <1>0, <2>0, <2>3, <2>4, <3>2
    <3> QED BY <2>4, <3>1, <3>2
  <2>6. (s[NumBytes] % SignBit) = t
    <3>1. CASE top = 0 BY <2>0, <2>1, <2>3, <3>1
    <3>2. CASE top = SignBit BY <2>0, <2>1, <2>3, <3>2
    <3> QED BY <2>4, <3>1, <3>2
  <2> QED BY <2>3, <2>5, <2>6 DEF t
<1>6. ASSUME NEW i \in 1 .. NumBytes, i # NumBytes
      PROVE  p[i] = s[i] + Byte * p[i + 1]
  <2>1. i + 1 \in 2 .. NumBytes /\ (i + 1) - 1 = i /\ i < NumBytes BY <1>0, <1>6
  <2>2. p[i + 1] = p[i] \div Byte /\ p[i] \in Nat
    <3> HIDE DEF p
    <3> QED BY <1>2, <2>1
  <2>3. s[i] = p[i] % Byte
    <3> HIDE DEF p, s, top, SignBit
    <3> QED BY <1>3, <2>1
  <2> DEFINE x == p[i]
  <2>4. x = Byte * (x \div Byte) + (x % Byte) /\ (x \div Byte) \in Nat /\ (x % Byte) \in Bytes
    BY <2>2, DividingByByte
  <2> HIDE DEF p, s
  <2>5. p[i + 1] \in Nat /\ s[i] \in Nat BY <2>2, <2>3, <2>4 DEF Bytes
  <2>6. x = Byte * p[i + 1] + s[i] BY <2>2, <2>3, <2>4
  <2> HIDE DEF x
  <2>7. Byte * p[i + 1] \in Nat BY <1>0, <2>5
  <2> DEFINE y == Byte * p[i + 1]
  <2> HIDE DEF y
  <2>8. y + s[i] = s[i] + y BY <2>5, <2>7 DEF y
  <2> QED BY <2>6, <2>8 DEF x, y
<1> DEFINE Reads(g) == g = [i \in 1 .. NumBytes |->
                              IF i = NumBytes THEN s[i] % SignBit ELSE s[i] + Byte * g[i + 1]]
           value == CHOOSE g : Reads(g)
<1>7. Reads(p)
  <2> HIDE DEF p, s, SignBit
  <2> QED BY <1>2, <1>5, <1>6
<1>8. Reads(value)
  <2> HIDE DEF Reads, p
  <2> QED BY <1>7
<1>9. value[1] = p[1]
  <2> DEFINE W == {k \in 0 .. NumBytes - 1 : value[NumBytes - k] # p[NumBytes - k]}
  <2>1. W = {}
    <3>1. SUFFICES ASSUME W # {} PROVE FALSE OBVIOUS
    <3>2. PICK k \in W : \A j \in W : k <= j
      <4>1. W \in SUBSET (0 .. NumBytes) BY <1>0
      <4> HIDE DEF W
      <4> QED BY <1>0, <3>1, <4>1, SmallestNumber
    <3>3. k \in 0 .. NumBytes - 1 /\ value[NumBytes - k] # p[NumBytes - k] BY <3>2
    <3> HIDE DEF value, p, s, SignBit
    <3>4. k # 0
      <4>1. NumBytes \in 1 .. NumBytes /\ NumBytes - 0 = NumBytes BY <1>0
      <4>2. value[NumBytes] = s[NumBytes] % SignBit BY <1>8, <4>1
      <4> QED BY <1>5, <3>3, <4>1, <4>2
    <3> DEFINE i == NumBytes - k
    <3>5. i \in 1 .. NumBytes /\ i # NumBytes /\ i + 1 = NumBytes - (k - 1)
          /\ k - 1 \in 0 .. NumBytes - 1 /\ ~(k <= k - 1)
      BY <1>0, <3>3, <3>4
    <3>6. value[i + 1] = p[i + 1] BY <3>2, <3>5
    <3> HIDE DEF i
    <3>7. value[i] = s[i] + Byte * value[i + 1] BY <1>8, <3>5
    <3>8. p[i] = s[i] + Byte * p[i + 1] BY <1>6, <3>5
    <3> QED BY <3>3, <3>6, <3>7, <3>8 DEF i
  <2>2. NumBytes - 1 \in 0 .. NumBytes - 1 /\ NumBytes - (NumBytes - 1) = 1 BY <1>0
  <2>3. NumBytes - 1 \notin W BY <2>1
  <2> HIDE DEF value, p
  <2> QED BY <2>2, <2>3
<1>10. ReadNumber(s) = IF s[NumBytes] >= SignBit THEN -value[1] ELSE value[1]
  BY DEF ReadNumber
<1>11. value[1] = Magnitude(v)
  <2> HIDE DEF value, p
  <2> QED BY <1>2, <1>9
<1>12. ReadNumber(s) = IF v < 0 THEN -Magnitude(v) ELSE Magnitude(v)
  <2> HIDE DEF value, p, s, SignBit
  <2> QED BY <1>5, <1>10, <1>11
<1> QED BY <1>12 DEF Magnitude

-----------------------------------------------------------------------------
(***************************************************************************)
(* The order of the suffixes.  A suffix goes on behind its end with        *)
(* symbols below every byte; ranks compare the first sortWidth symbols.    *)
(***************************************************************************)
Sym(p) == IF InSource(p) THEN At(old, p) ELSE -1

SameText(p, q, k) == \A i \in 0 .. k - 1 : Sym(p + i) = Sym(q + i)
LessAt(p, q, d)   == SameText(p, q, d) /\ Sym(p + d) < Sym(q + d)
TextLess(p, q, k) == \E d \in 0 .. k - 1 : LessAt(p, q, d)
SuffixLess(p, q)  == \E d \in Nat : LessAt(p, q, d)

Ranked ==
  \A p, q \in 0 .. Len(old) - 1 :
    /\ rank[p] < rank[q] <=> TextLess(p, q, sortWidth)
    /\ rank[p] = rank[q] <=> SameText(p, q, sortWidth)

\* The suffixes are all there, in ascending order.
Ordered ==
  /\ suffixes \in [1 .. Len(old) -> 0 .. Len(old) - 1]
  /\ \A p \in 0 .. Len(old) - 1 : \E i \in 1 .. Len(old) : suffixes[i] = p
  /\ \A i, j \in 1 .. Len(old) : i < j => SuffixLess(suffixes[i], suffixes[j])

SortInv ==
  /\ bsPc = "sort" => Ranked
  /\ bsPc \in Creating => Ordered

\* A symbol is a byte, or below all of them behind the end.
LEMMA SymFacts ==
  ASSUME old \in Seq(Bytes), NEW p \in Int
  PROVE  /\ Sym(p) \in Int
         /\ InSource(p) => Sym(p) = At(old, p) /\ Sym(p) \in Bytes /\ Sym(p) >= 0
         /\ ~InSource(p) => Sym(p) = -1
<1>1. Len(old) \in Nat /\ \A i \in 1 .. Len(old) : old[i] \in Bytes BY LenProperties
<1>2. ASSUME InSource(p) PROVE At(old, p) \in Bytes
  <2>1. p + 1 \in 1 .. Len(old) BY <1>1, <1>2 DEF InSource
  <2> QED BY <1>1, <2>1 DEF At
<1>3. \A b \in Bytes : b \in Int /\ b >= 0 BY BsAssumption DEF Bytes
<1> QED BY <1>2, <1>3 DEF Sym

\* Twice the width compares by the first half, and by the second where that is the same.
LEMMA DoubledWidth ==
  ASSUME NEW p \in Int, NEW q \in Int, NEW k \in Nat \ {0}
  PROVE  /\ SameText(p, q, 2 * k) <=> SameText(p, q, k) /\ SameText(p + k, q + k, k)
         /\ TextLess(p, q, 2 * k) <=>
              TextLess(p, q, k) \/ (SameText(p, q, k) /\ TextLess(p + k, q + k, k))
<1> DEFINE Eq(i) == Sym(p + i) = Sym(q + i)
           Lt(i) == Sym(p + i) < Sym(q + i)
<1>1. \A d : SameText(p, q, d) <=> \A i \in 0 .. d - 1 : Eq(i) BY DEF SameText
<1>2. ASSUME NEW d \in Nat
      PROVE  /\ SameText(p + k, q + k, d) <=> \A i \in k .. k + d - 1 : Eq(i)
             /\ LessAt(p + k, q + k, d) <=> (\A i \in k .. k + d - 1 : Eq(i)) /\ Lt(k + d)
  <2>1. \A i \in Int : (p + k) + i = p + (k + i) /\ (q + k) + i = q + (k + i) OBVIOUS
  <2>2. SameText(p + k, q + k, d) <=> \A i \in 0 .. d - 1 : Eq(k + i) BY <2>1 DEF SameText
  <2>3. (\A i \in 0 .. d - 1 : Eq(k + i)) <=> \A i \in k .. k + d - 1 : Eq(i)
    <3>1. \A i \in k .. k + d - 1 : i - k \in 0 .. d - 1 /\ k + (i - k) = i OBVIOUS
    <3>2. \A i \in 0 .. d - 1 : k + i \in k .. k + d - 1 OBVIOUS
    <3> HIDE DEF Eq
    <3> QED BY <3>1, <3>2
  <2>4. LessAt(p + k, q + k, d) <=> SameText(p + k, q + k, d) /\ Lt(k + d)
    <3>1. d \in Int OBVIOUS
    <3> QED BY <2>1 DEF LessAt
  <2> QED BY <2>2, <2>3, <2>4
<1>3. \A d : LessAt(p, q, d) <=> SameText(p, q, d) /\ Lt(d) BY DEF LessAt
<1> HIDE DEF Eq, Lt
<1>4. SameText(p, q, 2 * k) <=> SameText(p, q, k) /\ SameText(p + k, q + k, k)
  <2>1. k + k - 1 = 2 * k - 1 /\ k \in Nat OBVIOUS
  <2>2. \A i \in Int : i \in 0 .. 2 * k - 1 <=> i \in 0 .. k - 1 \/ i \in k .. k + k - 1 OBVIOUS
  <2> QED BY <1>1, <1>2, <2>1, <2>2
<1>5. ASSUME TextLess(p, q, 2 * k), ~TextLess(p, q, k)
      PROVE  SameText(p, q, k) /\ TextLess(p + k, q + k, k)
  <2>1. PICK d \in 0 .. 2 * k - 1 : LessAt(p, q, d) BY <1>5 DEF TextLess
  <2>2. ~(d \in 0 .. k - 1) BY <1>5, <2>1 DEF TextLess
  <2>3. d - k \in 0 .. k - 1 /\ d - k \in Nat /\ k + (d - k) = d BY <2>1, <2>2
  <2>4. \A i \in 0 .. d - 1 : Eq(i) BY <1>1, <1>3, <2>1
  <2>5. SameText(p, q, k)
    <3>1. \A i \in 0 .. k - 1 : i \in 0 .. d - 1 BY <2>3
    <3> QED BY <1>1, <2>4, <3>1
  <2>6. LessAt(p + k, q + k, d - k)
    <3>1. \A i \in k .. k + (d - k) - 1 : i \in 0 .. d - 1 BY <2>3
    <3> QED BY <1>2, <1>3, <2>1, <2>3, <2>4, <3>1
  <2> QED BY <2>3, <2>5, <2>6 DEF TextLess
<1>6. ASSUME TextLess(p, q, k) PROVE TextLess(p, q, 2 * k)
  <2>1. PICK d \in 0 .. k - 1 : LessAt(p, q, d) BY <1>6 DEF TextLess
  <2>2. d \in 0 .. 2 * k - 1 OBVIOUS
  <2> QED BY <2>1, <2>2 DEF TextLess
<1>7. ASSUME SameText(p, q, k), TextLess(p + k, q + k, k) PROVE TextLess(p, q, 2 * k)
  <2>1. PICK d \in 0 .. k - 1 : LessAt(p + k, q + k, d) BY <1>7 DEF TextLess
  <2>2. k + d \in 0 .. 2 * k - 1 /\ d \in Nat OBVIOUS
  <2>3. (\A i \in k .. k + d - 1 : Eq(i)) /\ Lt(k + d) BY <1>2, <2>1, <2>2
  <2>4. \A i \in 0 .. k + d - 1 : i \in 0 .. k - 1 \/ i \in k .. k + d - 1 OBVIOUS
  <2>5. SameText(p, q, k + d) BY <1>1, <1>7, <2>3, <2>4
  <2>6. LessAt(p, q, k + d) BY <1>3, <2>3, <2>5
  <2> QED BY <2>2, <2>6 DEF TextLess
<1> QED BY <1>4, <1>5, <1>6, <1>7

\* Suffixes are the same as far as they are long only if they are one.
LEMMA SuffixesDiffer ==
  ASSUME old \in Seq(Bytes), NEW p \in 0 .. Len(old) - 1, NEW q \in 0 .. Len(old) - 1, p < q
  PROVE  Sym(p + (Len(old) - q)) # Sym(q + (Len(old) - q)) /\ Len(old) - q \in 1 .. Len(old) - 1
<1>1. Len(old) \in Nat BY LenProperties
<1> DEFINE d == Len(old) - q
<1>2. d \in 1 .. Len(old) - 1 /\ p + d \in 0 .. Len(old) - 1 /\ q + d = Len(old) BY <1>1
<1>3. InSource(p + d) /\ ~InSource(q + d) BY <1>1, <1>2 DEF InSource
<1>4. Sym(p + d) >= 0 /\ Sym(q + d) = -1
  <2>1. p + d \in Int /\ q + d \in Int BY <1>2
  <2> HIDE DEF d
  <2> QED BY <1>3, <2>1, SymFacts
<1>5. Sym(p + d) \in Int
  <2>1. p + d \in Int BY <1>2
  <2> HIDE DEF d
  <2> QED BY <2>1, SymFacts
<1> QED BY <1>2, <1>4, <1>5

\* What a rank of a second half says, though it may lie behind the end.
LEMMA SecondHalves ==
  ASSUME BsTypeOK, Ranked, NEW x \in Nat, NEW y \in Nat
  PROVE  /\ RankAt(x) \in Int
         /\ RankAt(x) < RankAt(y) <=> TextLess(x, y, sortWidth)
         /\ RankAt(x) = RankAt(y) <=> SameText(x, y, sortWidth)
<1>0. /\ old \in Seq(Bytes) /\ Len(old) \in Nat /\ sortWidth \in Nat \ {0}
      /\ rank \in [0 .. Len(old) - 1 -> Nat]
  BY LenProperties DEF BsTypeOK, BufferFits
<1>1. \A z \in Nat : /\ z \in 0 .. Len(old) - 1 => RankAt(z) = rank[z] /\ RankAt(z) \in Nat
                     /\ z \notin 0 .. Len(old) - 1 => RankAt(z) = -1
  BY <1>0 DEF RankAt
<1>2. \A z \in Nat : /\ z \in 0 .. Len(old) - 1 => Sym(z) \in Int /\ Sym(z) >= 0
                     /\ z \notin 0 .. Len(old) - 1 =>
                          \A i \in Nat : Sym(z + i) = -1
  <2>1. ASSUME NEW z \in Nat, z \in 0 .. Len(old) - 1 PROVE Sym(z) \in Int /\ Sym(z) >= 0
    <3>1. InSource(z) BY <2>1 DEF InSource
    <3> QED BY <1>0, <3>1, SymFacts
  <2>2. ASSUME NEW z \in Nat, z \notin 0 .. Len(old) - 1, NEW i \in Nat PROVE Sym(z + i) = -1
    <3>1. ~InSource(z + i) /\ z + i \in Int BY <1>0, <2>2 DEF InSource
    <3> QED BY <1>0, <3>1, SymFacts
  <2> QED BY <2>1, <2>2
<1>3. 0 \in 0 .. sortWidth - 1 /\ x + 0 = x /\ y + 0 = y BY <1>0
<1>4. CASE x \in 0 .. Len(old) - 1 /\ y \in 0 .. Len(old) - 1
  <2>1. RankAt(x) = rank[x] /\ RankAt(y) = rank[y] /\ RankAt(x) \in Int BY <1>1, <1>4
  <2>2. /\ rank[x] < rank[y] <=> TextLess(x, y, sortWidth)
        /\ rank[x] = rank[y] <=> SameText(x, y, sortWidth)
    BY <1>4 DEF Ranked
  <2> QED BY <2>1, <2>2
<1>5. CASE x \notin 0 .. Len(old) - 1 /\ y \in 0 .. Len(old) - 1
  <2>1. RankAt(x) = -1 /\ RankAt(y) \in Nat BY <1>1, <1>5
  <2>2. Sym(x + 0) = -1 /\ Sym(y) >= 0 /\ Sym(y) \in Int BY <1>2, <1>5
  <2>3. LessAt(x, y, 0) /\ Sym(x + 0) # Sym(y + 0) BY <1>3, <2>2 DEF LessAt, SameText
  <2> QED BY <1>3, <2>1, <2>3 DEF TextLess, SameText
<1>6. CASE x \in 0 .. Len(old) - 1 /\ y \notin 0 .. Len(old) - 1
  <2>1. RankAt(y) = -1 /\ RankAt(x) \in Nat BY <1>1, <1>6
  <2>2. Sym(y + 0) = -1 /\ Sym(x) >= 0 /\ Sym(x) \in Int BY <1>2, <1>6
  <2>3. Sym(x + 0) # Sym(y + 0) /\ ~(Sym(x + 0) < Sym(y + 0)) BY <1>3, <2>2
  <2>4. ASSUME NEW d \in 0 .. sortWidth - 1 PROVE ~LessAt(x, y, d)
    <3>1. CASE d = 0 BY <2>3, <3>1 DEF LessAt
    <3>2. CASE d # 0
      <4>1. 0 \in 0 .. d - 1 BY <3>2
      <4> QED BY <2>3, <4>1 DEF LessAt, SameText
    <3> QED BY <3>1, <3>2
  <2> QED BY <1>3, <2>1, <2>3, <2>4 DEF TextLess, SameText
<1>7. CASE x \notin 0 .. Len(old) - 1 /\ y \notin 0 .. Len(old) - 1
  <2>1. RankAt(x) = -1 /\ RankAt(y) = -1 BY <1>1, <1>7
  <2>2. \A i \in 0 .. sortWidth - 1 : Sym(x + i) = -1 /\ Sym(y + i) = -1
    <3>1. \A i \in 0 .. sortWidth - 1 : i \in Nat OBVIOUS
    <3> QED BY <1>2, <1>7, <3>1
  <2> QED BY <2>1, <2>2 DEF TextLess, SameText, LessAt
<1> QED BY <1>4, <1>5, <1>6, <1>7

\* Of finite sets, one within another and not the same has fewer members.
LEMMA FewerMembers ==
  ASSUME NEW T, IsFiniteSet(T), NEW S \in SUBSET T, NEW x \in T, x \notin S
  PROVE  Cardinality(S) < Cardinality(T) /\ Cardinality(S) \in Nat /\ Cardinality(T) \in Nat
BY FS_Subset, FS_CardinalityType

\* A round of the sort ranks by twice the width.
LEMMA RoundDoubles ==
  ASSUME BsTypeOK, Ranked, SortRound
  PROVE  Ranked' /\ rank' \in [0 .. Len(old) - 1 -> Nat] /\ sortWidth' \in Nat \ {0}
<1> DEFINE D == 0 .. Len(old) - 1
           pairs == {PairOf(p) : p \in D}
           B(p) == {a \in pairs : PairBelow(a, PairOf(p))}
<1>1. /\ old \in Seq(Bytes) /\ Len(old) \in Nat /\ sortWidth \in Nat \ {0}
      /\ rank \in [D -> Nat] /\ old' = old
  BY LenProperties DEF BsTypeOK, BufferFits, SortRound
<1>2. rank' = [p \in D |-> Cardinality(B(p))] /\ sortWidth' = 2 * sortWidth
  BY <1>1 DEF SortRound
<1>3. ASSUME NEW p \in D
      PROVE  /\ PairOf(p)[1] = rank[p] /\ PairOf(p)[2] = RankAt(p + sortWidth)
             /\ rank[p] \in Int /\ RankAt(p + sortWidth) \in Int
             /\ PairOf(p) \in Int \X Int
  <2>1. p + sortWidth \in Nat BY <1>1
  <2>2. RankAt(p + sortWidth) \in Int BY <2>1, SecondHalves
  <2>3. rank[p] \in Int BY <1>1
  <2> QED BY <2>2, <2>3 DEF PairOf
<1>4. \A p, q \in D :
        /\ PairBelow(PairOf(p), PairOf(q)) <=> TextLess(p, q, 2 * sortWidth)
        /\ PairOf(p) = PairOf(q) <=> SameText(p, q, 2 * sortWidth)
  <2>1. SUFFICES ASSUME NEW p \in D, NEW q \in D
                 PROVE  /\ PairBelow(PairOf(p), PairOf(q)) <=> TextLess(p, q, 2 * sortWidth)
                        /\ PairOf(p) = PairOf(q) <=> SameText(p, q, 2 * sortWidth)
    OBVIOUS
  <2>2. p + sortWidth \in Nat /\ q + sortWidth \in Nat /\ p \in Int /\ q \in Int BY <1>1
  <2>3. /\ RankAt(p + sortWidth) < RankAt(q + sortWidth)
             <=> TextLess(p + sortWidth, q + sortWidth, sortWidth)
        /\ RankAt(p + sortWidth) = RankAt(q + sortWidth)
             <=> SameText(p + sortWidth, q + sortWidth, sortWidth)
    BY <2>2, SecondHalves
  <2>4. /\ rank[p] < rank[q] <=> TextLess(p, q, sortWidth)
        /\ rank[p] = rank[q] <=> SameText(p, q, sortWidth)
    BY DEF Ranked
  <2>5. /\ SameText(p, q, 2 * sortWidth) <=>
             SameText(p, q, sortWidth) /\ SameText(p + sortWidth, q + sortWidth, sortWidth)
        /\ TextLess(p, q, 2 * sortWidth) <=>
             \/ TextLess(p, q, sortWidth)
             \/ /\ SameText(p, q, sortWidth)
                /\ TextLess(p + sortWidth, q + sortWidth, sortWidth)
    BY <1>1, <2>2, DoubledWidth
  <2>6. PairBelow(PairOf(p), PairOf(q)) <=>
          \/ rank[p] < rank[q]
          \/ rank[p] = rank[q] /\ RankAt(p + sortWidth) < RankAt(q + sortWidth)
    BY <1>3 DEF PairBelow
  <2>7. PairOf(p) = PairOf(q) <=>
          rank[p] = rank[q] /\ RankAt(p + sortWidth) = RankAt(q + sortWidth)
    BY DEF PairOf
  <2> QED BY <2>3, <2>4, <2>5, <2>6, <2>7
<1>5. IsFiniteSet(pairs)
  <2> DEFINE f == [p \in D |-> PairOf(p)]
  <2>1. IsFiniteSet(D) BY <1>1, FS_Interval
  <2>2. f \in Surjection(D, pairs) BY DEF Surjection
  <2> HIDE DEF f, D, pairs
  <2> QED BY <2>1, <2>2, FS_Surjection
<1>6. \A p \in D : IsFiniteSet(B(p)) /\ Cardinality(B(p)) \in Nat
  <2>1. \A p \in D : B(p) \subseteq pairs OBVIOUS
  <2> HIDE DEF B, pairs
  <2> QED BY <1>5, <2>1, FS_Subset, FS_CardinalityType
<1>7. ASSUME NEW p \in D, NEW q \in D, PairBelow(PairOf(p), PairOf(q))
      PROVE  Cardinality(B(p)) < Cardinality(B(q))
  <2>1. \A r \in D : PairBelow(PairOf(r), PairOf(p)) => PairBelow(PairOf(r), PairOf(q))
    <3>1. SUFFICES ASSUME NEW r \in D, PairBelow(PairOf(r), PairOf(p))
                   PROVE  PairBelow(PairOf(r), PairOf(q))
      OBVIOUS
    <3>2. PairOf(r) \in Int \X Int /\ PairOf(p) \in Int \X Int /\ PairOf(q) \in Int \X Int
      BY <1>3
    <3> DEFINE a == PairOf(r)
               b == PairOf(p)
               c == PairOf(q)
    <3>3. a[1] \in Int /\ a[2] \in Int /\ b[1] \in Int /\ b[2] \in Int /\ c[1] \in Int
          /\ c[2] \in Int
      BY <3>2
    <3>4. PairBelow(a, b) /\ PairBelow(b, c) BY <1>7, <3>1
    <3> HIDE DEF a, b, c
    <3>5. PairBelow(a, c) BY <3>3, <3>4 DEF PairBelow
    <3> QED BY <3>5 DEF a, c
  <2>2. B(p) \subseteq B(q) BY <2>1
  <2>3. PairOf(p) \in B(q) BY <1>7
  <2>4. PairOf(p) \notin B(p)
    <3>1. ~PairBelow(PairOf(p), PairOf(p)) BY <1>3 DEF PairBelow
    <3> QED BY <3>1
  <2>5. IsFiniteSet(B(q)) BY <1>6
  <2> HIDE DEF B
  <2> QED BY <2>2, <2>3, <2>4, <2>5, FewerMembers
<1>8. \A p, q \in D : \/ PairBelow(PairOf(p), PairOf(q)) \/ PairBelow(PairOf(q), PairOf(p))
                      \/ PairOf(p) = PairOf(q)
  <2>1. SUFFICES ASSUME NEW p \in D, NEW q \in D
                 PROVE  \/ PairBelow(PairOf(p), PairOf(q)) \/ PairBelow(PairOf(q), PairOf(p))
                        \/ PairOf(p) = PairOf(q)
    OBVIOUS
  <2>2. PairOf(p) = PairOf(q) <=>
          rank[p] = rank[q] /\ RankAt(p + sortWidth) = RankAt(q + sortWidth)
    BY DEF PairOf
  <2>3. /\ PairBelow(PairOf(p), PairOf(q)) <=>
             \/ rank[p] < rank[q]
             \/ rank[p] = rank[q] /\ RankAt(p + sortWidth) < RankAt(q + sortWidth)
        /\ PairBelow(PairOf(q), PairOf(p)) <=>
             \/ rank[q] < rank[p]
             \/ rank[q] = rank[p] /\ RankAt(q + sortWidth) < RankAt(p + sortWidth)
    BY <1>3 DEF PairBelow
  <2> QED BY <1>3, <2>2, <2>3
<1>9. \A p, q \in D : /\ Cardinality(B(p)) < Cardinality(B(q)) <=> PairBelow(PairOf(p), PairOf(q))
                      /\ Cardinality(B(p)) = Cardinality(B(q)) <=> PairOf(p) = PairOf(q)
  <2>1. \A p, q \in D : PairOf(p) = PairOf(q) => B(p) = B(q) OBVIOUS
  <2>2. \A p \in D : ~PairBelow(PairOf(p), PairOf(p)) BY <1>3 DEF PairBelow
  <2> HIDE DEF B, D
  <2>3. SUFFICES ASSUME NEW p \in D, NEW q \in D
                 PROVE  /\ Cardinality(B(p)) < Cardinality(B(q)) <=> PairBelow(PairOf(p), PairOf(q))
                        /\ Cardinality(B(p)) = Cardinality(B(q)) <=> PairOf(p) = PairOf(q)
    OBVIOUS
  <2>4. Cardinality(B(p)) \in Nat /\ Cardinality(B(q)) \in Nat BY <1>6
  <2>5. CASE PairBelow(PairOf(p), PairOf(q)) BY <1>7, <2>2, <2>4, <2>5
  <2>6. CASE PairBelow(PairOf(q), PairOf(p))
    <3>1. Cardinality(B(q)) < Cardinality(B(p)) BY <1>7, <2>6
    <3>2. PairOf(p) # PairOf(q) BY <2>2, <2>6
    <3>3. ~PairBelow(PairOf(p), PairOf(q)) BY <1>7, <2>4, <3>1
    <3> QED BY <2>4, <3>1, <3>2, <3>3
  <2>7. CASE PairOf(p) = PairOf(q)
    <3>1. B(p) = B(q) /\ ~PairBelow(PairOf(p), PairOf(q)) BY <2>1, <2>2, <2>7
    <3> QED BY <2>4, <2>7, <3>1
  <2> QED BY <1>8, <2>5, <2>6, <2>7
<1>10. rank' \in [D -> Nat] /\ \A p \in D : rank'[p] = Cardinality(B(p))
  <2> HIDE DEF B, D
  <2> QED BY <1>2, <1>6
<1>11. \A p, q \in D : /\ rank'[p] < rank'[q] <=> TextLess(p, q, 2 * sortWidth)
                       /\ rank'[p] = rank'[q] <=> SameText(p, q, 2 * sortWidth)
  <2> HIDE DEF B, D
  <2> QED BY <1>4, <1>9, <1>10
<1>12. \A p, q : /\ TextLess(p, q, sortWidth)' <=> TextLess(p, q, 2 * sortWidth)
                 /\ SameText(p, q, sortWidth)' <=> SameText(p, q, 2 * sortWidth)
  BY <1>1, <1>2 DEF TextLess, SameText, LessAt, Sym, InSource
<1>13. Ranked'
  <2>1. D = (0 .. Len(old) - 1)' BY <1>1
  <2> HIDE DEF D
  <2> QED BY <1>11, <1>12, <2>1, Zenon DEF Ranked
<1> QED BY <1>1, <1>2, <1>10, <1>13

\* The first bytes are ranks of width one.
LEMMA FirstRanks ==
  ASSUME BsInit
  PROVE  Ranked /\ rank \in [0 .. Len(old) - 1 -> Nat]
<1>1. old \in Seq(Bytes) /\ Len(old) \in Nat /\ sortWidth = 1
      /\ rank = [p \in 0 .. Len(old) - 1 |-> At(old, p)]
  BY BsAssumption, LenProperties DEF BsInit, Bytes
<1>2. ASSUME NEW p \in 0 .. Len(old) - 1
      PROVE  rank[p] = Sym(p) /\ rank[p] \in Nat /\ Sym(p + 0) = Sym(p)
  <2>1. InSource(p) /\ p \in Int /\ p + 0 = p BY DEF InSource
  <2>2. Sym(p) = At(old, p) /\ Sym(p) \in Bytes BY <1>1, <2>1, SymFacts
  <2>3. \A b \in Bytes : b \in Nat BY BsAssumption DEF Bytes
  <2> QED BY <1>1, <2>1, <2>2, <2>3
<1>3. \A p, q \in 0 .. Len(old) - 1 : /\ TextLess(p, q, 1) <=> Sym(p + 0) < Sym(q + 0)
                                      /\ SameText(p, q, 1) <=> Sym(p + 0) = Sym(q + 0)
  <2>1. 0 .. 1 - 1 = {0} /\ 0 .. 0 - 1 = {} OBVIOUS
  <2> QED BY <2>1 DEF TextLess, SameText, LessAt
<1> QED BY <1>1, <1>2, <1>3 DEF Ranked

\* When the sort ends, all ranks differ, and a suffix has as many below it as its place.
LEMMA SortOrders ==
  ASSUME BsTypeOK, Ranked, EndSort
  PROVE  Ordered' /\ suffixes' \in Seq(0 .. Len(old) - 1)
<1> DEFINE n == Len(old)
           D == 0 .. n - 1
           Under(p) == {q \in DOMAIN rank : rank[q] < rank[p]}
           kth(i) == CHOOSE p \in DOMAIN rank : Cardinality(Under(p)) = i - 1
<1>1. /\ old \in Seq(Bytes) /\ n \in Nat /\ sortWidth \in Nat \ {0}
      /\ rank \in [D -> Nat] /\ DOMAIN rank = D /\ old' = old
  BY LenProperties DEF BsTypeOK, BufferFits, EndSort
<1>2. suffixes' = [i \in 1 .. n |-> kth(i)] /\ Sorted BY Zenon DEF EndSort
<1>3. \A p, q \in D : rank[p] = rank[q] => p = q
  <2>1. CASE sortWidth >= n
    <3>1. ASSUME NEW p \in D, NEW q \in D, p < q PROVE rank[p] # rank[q]
      <4>1. Sym(p + (n - q)) # Sym(q + (n - q)) /\ n - q \in 1 .. n - 1
        BY <1>1, <3>1, SuffixesDiffer
      <4>2. n - q \in 0 .. sortWidth - 1 BY <1>1, <2>1, <4>1
      <4>3. ~SameText(p, q, sortWidth)
        <5> HIDE DEF n
        <5> QED BY <4>1, <4>2 DEF SameText
      <4> QED BY <4>3 DEF Ranked
    <3>2. \A p, q \in D : p < q \/ q < p \/ p = q BY <1>1
    <3> HIDE DEF D
    <3> QED BY <3>1, <3>2
  <2>2. CASE \A p, q \in DOMAIN rank : rank[p] = rank[q] => p = q BY <1>1, <2>2
  <2> QED BY <1>2, <2>1, <2>2 DEF Sorted
<1>4. IsFiniteSet(D) /\ Cardinality(D) = n
  <2>1. 0 \in Int /\ n - 1 \in Int /\ n \in Nat BY <1>1
  <2> HIDE DEF n
  <2> QED BY <2>1, FS_Interval
<1>5. \A p \in D : IsFiniteSet(Under(p)) /\ Cardinality(Under(p)) \in D
  <2>1. SUFFICES ASSUME NEW p \in D
                 PROVE  IsFiniteSet(Under(p)) /\ Cardinality(Under(p)) \in D
    OBVIOUS
  <2>2. p \notin Under(p) /\ Under(p) \in SUBSET D BY <1>1
  <2>3. IsFiniteSet(Under(p)) BY <1>4, <2>2, FS_Subset
  <2>4. Cardinality(Under(p)) < Cardinality(D) /\ Cardinality(Under(p)) \in Nat
    <3> HIDE DEF Under, D
    <3> QED BY <1>4, <2>2, FewerMembers
  <2> QED BY <1>1, <1>4, <2>3, <2>4
<1>6. ASSUME NEW p \in D, NEW q \in D, rank[p] < rank[q]
      PROVE  Cardinality(Under(p)) < Cardinality(Under(q))
  <2>1. Under(p) \in SUBSET Under(q)
    <3>1. \A r \in DOMAIN rank : rank[r] < rank[p] => rank[r] < rank[q] BY <1>1, <1>6
    <3> QED BY <3>1
  <2>2. p \in Under(q) /\ p \notin Under(p) BY <1>1, <1>6
  <2> HIDE DEF Under, D
  <2> QED BY <1>5, <2>1, <2>2, FewerMembers
<1>7. \A p, q \in D : p # q => rank[p] < rank[q] \/ rank[q] < rank[p]
  <2>1. \A p \in D : rank[p] \in Nat BY <1>1
  <2> HIDE DEF D
  <2> QED BY <1>3, <2>1
<1>8. \A i \in 1 .. n : \E p \in D : Cardinality(Under(p)) = i - 1
  <2> DEFINE f == [p \in D |-> Cardinality(Under(p))]
  <2>1. f \in Injection(D, D)
    <3>1. f \in [D -> D] BY <1>5
    <3>2. ASSUME NEW p \in D, NEW q \in D, p # q PROVE f[p] # f[q]
      <4>1. f[p] = Cardinality(Under(p)) /\ f[q] = Cardinality(Under(q)) OBVIOUS
      <4>2. f[p] \in Int /\ f[q] \in Int
        <5>1. \A c \in D : c \in Int BY <1>1
        <5> HIDE DEF D, f
        <5> QED BY <3>1, <5>1
      <4>3. f[p] < f[q] \/ f[q] < f[p]
        <5> HIDE DEF f, Under, D
        <5> QED BY <1>6, <1>7, <3>2, <4>1
      <4> HIDE DEF f
      <4> QED BY <4>2, <4>3
    <3> HIDE DEF f
    <3> QED BY <3>1, <3>2 DEF Injection, IsInjective
  <2>2. f \in Surjection(D, D)
    <3> HIDE DEF f, D
    <3> QED BY <1>4, <2>1, FS_Injection
  <2>3. \A i \in 1 .. n : i - 1 \in D BY <1>1
  <2>4. \A c \in D : \E p \in D : f[p] = c
    <3> HIDE DEF f, D
    <3> QED BY <2>2 DEF Surjection
  <2>5. \A p \in D : f[p] = Cardinality(Under(p)) OBVIOUS
  <2> HIDE DEF f, D, Under
  <2> QED BY <2>3, <2>4, <2>5
<1>9. \A i \in 1 .. n : kth(i) \in D /\ Cardinality(Under(kth(i))) = i - 1
  <2> HIDE DEF D, Under
  <2> QED BY <1>1, <1>8
<1> HIDE DEF kth
<1>10. suffixes' \in [1 .. n -> D] /\ \A i \in 1 .. n : suffixes'[i] = kth(i) BY <1>2, <1>9
<1>11. \A p \in D : \E i \in 1 .. n : suffixes'[i] = p
  <2>1. SUFFICES ASSUME NEW p \in D PROVE \E i \in 1 .. n : suffixes'[i] = p OBVIOUS
  <2> DEFINE i == Cardinality(Under(p)) + 1
  <2>2. i \in 1 .. n /\ i - 1 = Cardinality(Under(p)) BY <1>1, <1>5
  <2>3. kth(i) \in D /\ Cardinality(Under(kth(i))) = Cardinality(Under(p)) BY <1>9, <2>2
  <2>4. kth(i) = p
    <3>1. Cardinality(Under(p)) \in Int BY <1>1, <1>5
    <3> HIDE DEF i, D, Under
    <3> QED BY <1>6, <1>7, <2>3, <3>1
  <2> QED BY <1>10, <2>2, <2>4
<1>12. ASSUME NEW i \in 1 .. n, NEW j \in 1 .. n, i < j PROVE SuffixLess(kth(i), kth(j))
  <2>1. kth(i) \in D /\ kth(j) \in D /\ Cardinality(Under(kth(i))) < Cardinality(Under(kth(j)))
    <3>1. i - 1 < j - 1 BY <1>1, <1>12
    <3> HIDE DEF D, Under
    <3> QED BY <1>9, <3>1
  <2>2. rank[kth(i)] < rank[kth(j)]
    <3>0. \A c \in D : c \in Int BY <1>1
    <3>1. Cardinality(Under(kth(i))) \in Int /\ Cardinality(Under(kth(j))) \in Int
      <4> HIDE DEF D, Under
      <4> QED BY <1>5, <2>1, <3>0
    <3> HIDE DEF D, Under
    <3> QED BY <1>6, <1>7, <2>1, <3>1
  <2>3. TextLess(kth(i), kth(j), sortWidth) BY <2>1, <2>2 DEF Ranked
  <2>4. \A d \in 0 .. sortWidth - 1 : d \in Nat OBVIOUS
  <2> QED BY <2>3, <2>4 DEF TextLess, SuffixLess
<1>13. Ordered'
  <2> HIDE DEF D
  <2>1. D = (0 .. Len(old) - 1)' /\ n = Len(old)' BY <1>1 DEF D
  <2>2. \A i, j \in 1 .. n : i < j => SuffixLess(suffixes[i], suffixes[j])'
    <3>1. SUFFICES ASSUME NEW i \in 1 .. n, NEW j \in 1 .. n, i < j
                   PROVE  SuffixLess(suffixes[i], suffixes[j])'
      OBVIOUS
    <3>2. suffixes'[i] = kth(i) /\ suffixes'[j] = kth(j) BY <1>10
    <3>3. SuffixLess(kth(i), kth(j)) BY <1>12, <3>1
    <3> QED BY <1>1, <3>2, <3>3 DEF SuffixLess, SameText, LessAt, Sym, InSource
  <2> QED BY <1>10, <1>11, <2>1, <2>2, Zenon DEF Ordered
<1>14. suffixes' \in Seq(D)
  <2> DEFINE s == suffixes'
  <2>1. s \in [1 .. n -> D] BY <1>10
  <2> HIDE DEF s, D
  <2> QED BY <1>1, <2>1, IsASeq DEF s
<1> QED BY <1>13, <1>14

-----------------------------------------------------------------------------
(***************************************************************************)
(* The search.  A match ends where the symbols of the suffix and of the    *)
(* target differ, or both end.  Of three texts in order, the middle one    *)
(* agrees with either other at least as far as those agree.                *)
(***************************************************************************)
NewSym(j) == IF j \in 0 .. Len(new) - 1 THEN At(new, j) ELSE -1

\* How far a match goes, and what tells whether the suffix is below.
LEMMA MatchShape ==
  ASSUME old \in Seq(Bytes), new \in Seq(Bytes),
         NEW p \in 0 .. Len(old) - 1, NEW j \in 0 .. Len(new) - 1
  PROVE  /\ MatchLen(p, j) \in Nat /\ MatchLen(p, j) <= Len(new) - j
         /\ \A i \in Nat : Sym(p + i) \in Int /\ NewSym(j + i) \in Int
         /\ \A i \in 0 .. MatchLen(p, j) - 1 :
              Sym(p + i) = NewSym(j + i) /\ NewSym(j + i) >= 0
         /\ Sym(p + MatchLen(p, j)) = NewSym(j + MatchLen(p, j)) =>
              NewSym(j + MatchLen(p, j)) < 0
         /\ Below(p, j) <=> Sym(p + MatchLen(p, j)) < NewSym(j + MatchLen(p, j))
<1> DEFINE a == MatchLen(p, j)
<1>1. /\ Len(old) \in Nat /\ Len(new) \in Nat
      /\ \A k \in Int : k \in 0 .. Len(new) - 1 =>
           NewSym(k) = At(new, k) /\ NewSym(k) \in Int /\ NewSym(k) >= 0
      /\ \A k \in Int : k \notin 0 .. Len(new) - 1 => NewSym(k) = -1
  <2>1. Len(old) \in Nat /\ Len(new) \in Nat /\ \A k \in 1 .. Len(new) : new[k] \in Bytes
    BY LenProperties
  <2>2. \A b \in Bytes : b \in Int /\ b >= 0 BY BsAssumption DEF Bytes
  <2>3. ASSUME NEW k \in Int, k \in 0 .. Len(new) - 1
        PROVE  NewSym(k) = At(new, k) /\ NewSym(k) \in Int /\ NewSym(k) >= 0
    <3>1. k + 1 \in 1 .. Len(new) BY <2>1, <2>3
    <3> QED BY <2>1, <2>2, <2>3, <3>1 DEF NewSym, At
  <2> QED BY <2>1, <2>3 DEF NewSym
<1>2. /\ a \in 0 .. Len(new) - j
      /\ \A i \in 0 .. a - 1 : Agrees(j + i, p + i)
      /\ a < Len(new) - j => ~Agrees(j + a, p + a)
  <2>1. j \in 0 .. Len(new) /\ p \in Int BY <1>1
  <2> QED BY <1>1, <2>1, MatchLenFacts
<1> HIDE DEF a
<1>3. a \in Nat /\ a <= Len(new) - j BY <1>1, <1>2
<1>4. \A k \in Int : /\ InSource(k) => Sym(k) = At(old, k) /\ Sym(k) \in Int /\ Sym(k) >= 0
                     /\ ~InSource(k) => Sym(k) = -1
  BY SymFacts
<1>5. \A i \in Nat : Sym(p + i) \in Int /\ NewSym(j + i) \in Int
  <2>1. \A i \in Nat : p + i \in Int /\ j + i \in Int OBVIOUS
  <2> QED BY <1>1, <1>4, <2>1
<1>6. \A i \in Nat : i < Len(new) - j =>
        (Agrees(j + i, p + i) <=> Sym(p + i) = NewSym(j + i))
  <2>1. SUFFICES ASSUME NEW i \in Nat, i < Len(new) - j
                 PROVE  Agrees(j + i, p + i) <=> Sym(p + i) = NewSym(j + i)
    OBVIOUS
  <2>2. j + i \in 0 .. Len(new) - 1 /\ p + i \in Int BY <1>1, <2>1
  <2>3. NewSym(j + i) = At(new, j + i) /\ NewSym(j + i) \in Int /\ NewSym(j + i) >= 0
    BY <1>1, <2>2
  <2> QED BY <1>4, <2>2, <2>3 DEF Agrees
<1>7. ASSUME NEW i \in 0 .. a - 1
      PROVE  Sym(p + i) = NewSym(j + i) /\ NewSym(j + i) >= 0
  <2>1. i \in Nat /\ i < Len(new) - j /\ j + i \in 0 .. Len(new) - 1 BY <1>1, <1>3
  <2>2. Sym(p + i) = NewSym(j + i) BY <1>2, <1>6, <2>1
  <2> QED BY <1>1, <2>1, <2>2
<1>8. Sym(p + a) = NewSym(j + a) => NewSym(j + a) < 0
  <2>1. CASE a < Len(new) - j BY <1>2, <1>3, <1>6, <2>1
  <2>2. CASE a = Len(new) - j
    <3>1. j + a \notin 0 .. Len(new) - 1 /\ j + a \in Int BY <1>1, <1>3, <2>2
    <3> QED BY <1>1, <3>1
  <2> QED BY <1>2, <1>3, <2>1, <2>2
<1>9. p + a <= Len(old)
  <2>1. CASE a = 0 BY <2>1, <1>1
  <2>2. CASE a > 0
    <3>1. a - 1 \in 0 .. a - 1 /\ a - 1 \in Nat BY <1>3, <2>2
    <3>2. Agrees(j + (a - 1), p + (a - 1)) BY <1>2, <3>1
    <3>3. p + (a - 1) \in 0 .. Len(old) - 1 BY <3>2 DEF Agrees, InSource
    <3> QED BY <1>1, <1>3, <3>3
  <2> QED BY <1>3, <2>1, <2>2
<1>10. Below(p, j) <=> Sym(p + a) < NewSym(j + a)
  <2>1. Below(p, j) <=> IF p + a = Len(old) \/ j + a = Len(new)
                        THEN Len(old) - p < Len(new) - j ELSE At(old, p + a) < At(new, j + a)
    BY DEF Below, a
  <2>2. p + a \in Int /\ j + a \in Int /\ j + a <= Len(new) /\ j + a >= 0 /\ p + a >= 0
    BY <1>1, <1>3
  <2>3. /\ p + a = Len(old) => Sym(p + a) = -1
        /\ p + a # Len(old) => Sym(p + a) = At(old, p + a) /\ Sym(p + a) >= 0 /\ Sym(p + a) \in Int
    <3>1. InSource(p + a) <=> p + a # Len(old) BY <1>1, <1>9, <2>2 DEF InSource
    <3> QED BY <1>4, <2>2, <3>1
  <2>4. /\ j + a = Len(new) => NewSym(j + a) = -1
        /\ j + a # Len(new) => /\ NewSym(j + a) = At(new, j + a)
                               /\ NewSym(j + a) >= 0 /\ NewSym(j + a) \in Int
    <3>1. j + a \in 0 .. Len(new) - 1 <=> j + a # Len(new) BY <1>1, <2>2
    <3> QED BY <1>1, <2>2, <3>1
  <2>5. CASE p + a = Len(old) /\ j + a = Len(new)
    <3>1. ~(Len(old) - p < Len(new) - j) BY <1>1, <1>3, <2>5
    <3> QED BY <2>1, <2>3, <2>4, <2>5, <3>1
  <2>6. CASE p + a = Len(old) /\ j + a # Len(new)
    <3>1. Len(old) - p < Len(new) - j BY <1>1, <1>3, <2>2, <2>6
    <3> QED BY <2>1, <2>3, <2>4, <2>6, <3>1
  <2>7. CASE p + a # Len(old) /\ j + a = Len(new)
    <3>1. ~(Len(old) - p < Len(new) - j) BY <1>1, <1>3, <1>9, <2>7
    <3> QED BY <2>1, <2>3, <2>4, <2>7, <3>1
  <2>8. CASE p + a # Len(old) /\ j + a # Len(new) BY <2>1, <2>3, <2>4, <2>8
  <2> QED BY <2>5, <2>6, <2>7, <2>8
<1> QED BY <1>3, <1>5, <1>7, <1>8, <1>10 DEF a

\* A suffix below another that is below the target matches no more of it, and is below.
LEMMA MatchesRise ==
  ASSUME old \in Seq(Bytes), new \in Seq(Bytes),
         NEW p \in 0 .. Len(old) - 1, NEW q \in 0 .. Len(old) - 1, NEW j \in 0 .. Len(new) - 1,
         SuffixLess(p, q), Below(q, j)
  PROVE  Below(p, j) /\ MatchLen(p, j) <= MatchLen(q, j)
<1> DEFINE a == MatchLen(p, j)
           b == MatchLen(q, j)
           P == [i \in Nat |-> Sym(p + i)]
           Q == [i \in Nat |-> Sym(q + i)]
           T == [i \in Nat |-> NewSym(j + i)]
<1>0. /\ \A i \in Nat : P[i] = Sym(p + i) /\ Q[i] = Sym(q + i) /\ T[i] = NewSym(j + i)
      /\ \A k, i : i \in 0 .. k - 1 => i \in Nat
  OBVIOUS
<1> HIDE DEF P, Q, T
<1>1. /\ a \in Nat /\ (\A i \in Nat : P[i] \in Int /\ T[i] \in Int)
      /\ (\A i \in 0 .. a - 1 : P[i] = T[i] /\ T[i] >= 0)
      /\ (P[a] = T[a] => T[a] < 0)
      /\ (P[a] < T[a] => Below(p, j))
  <2>1. a \in Nat BY MatchShape
  <2>2. P[a] = Sym(p + a) /\ T[a] = NewSym(j + a) BY <1>0, <2>1
  <2>3. P[a] < T[a] => Below(p, j) BY <2>2, MatchShape
  <2>4. P[a] = T[a] => T[a] < 0 BY <2>2, MatchShape
  <2>5. \A i \in 0 .. a - 1 : P[i] = T[i] /\ T[i] >= 0 BY <1>0, MatchShape
  <2>6. \A i \in Nat : P[i] \in Int /\ T[i] \in Int BY <1>0, MatchShape
  <2> QED BY <2>1, <2>3, <2>4, <2>5, <2>6
<1>2. /\ b \in Nat /\ (\A i \in Nat : Q[i] \in Int)
      /\ (\A i \in 0 .. b - 1 : Q[i] = T[i] /\ T[i] >= 0)
      /\ Q[b] < T[b]
  BY <1>0, MatchShape
<1>3. PICK d \in Nat : (\A i \in 0 .. d - 1 : P[i] = Q[i]) /\ P[d] < Q[d]
  BY <1>0 DEF SuffixLess, LessAt, SameText
<1> HIDE DEF a, b
<1> DEFINE m == IF d < b THEN d ELSE b
<1>4. m \in Nat /\ m <= b /\ m <= d /\ (m = d \/ m = b) BY <1>2
<1> HIDE DEF m
<1>5. P[m] < T[m]
  <2>1. CASE m = d /\ d < b
    <3>1. d \in 0 .. b - 1 BY <1>2, <2>1
    <3>2. Q[d] = T[d] BY <1>2, <3>1
    <3> QED BY <1>3, <2>1, <3>2
  <2>2. CASE m = b /\ m = d
    <3>1. P[d] \in Int /\ Q[d] \in Int /\ T[d] \in Int BY <1>1, <1>2
    <3> QED BY <1>2, <1>3, <2>2, <3>1
  <2>3. CASE m = b /\ b < d
    <3>1. b \in 0 .. d - 1 BY <1>2, <2>3
    <3> QED BY <1>2, <1>3, <2>3, <3>1
  <2> QED BY <1>2, <1>4, <2>1, <2>2, <2>3
<1>6. \A i \in 0 .. m - 1 : P[i] = T[i] /\ T[i] >= 0
  <2>1. \A i \in 0 .. m - 1 : i \in 0 .. d - 1 /\ i \in 0 .. b - 1 BY <1>2, <1>4
  <2> QED BY <1>2, <1>3, <2>1
<1>7. a = m
  <2>1. CASE a < m
    <3>1. a \in 0 .. m - 1 BY <1>1, <1>4, <2>1
    <3>2. P[a] = T[a] /\ T[a] >= 0 /\ T[a] \in Int BY <1>1, <1>6, <3>1
    <3> QED BY <1>1, <3>2
  <2>2. CASE a > m
    <3>1. m \in 0 .. a - 1 BY <1>1, <1>4, <2>2
    <3>2. P[m] = T[m] /\ T[m] \in Int BY <1>1, <1>4, <3>1
    <3> QED BY <1>5, <3>2
  <2> QED BY <1>1, <1>4, <2>1, <2>2
<1> QED BY <1>1, <1>4, <1>5, <1>7 DEF a, b

\* One above another that is not below the target matches no more of it.
LEMMA MatchesFall ==
  ASSUME old \in Seq(Bytes), new \in Seq(Bytes),
         NEW p \in 0 .. Len(old) - 1, NEW q \in 0 .. Len(old) - 1, NEW j \in 0 .. Len(new) - 1,
         SuffixLess(p, q), ~Below(p, j)
  PROVE  MatchLen(q, j) <= MatchLen(p, j)
<1> DEFINE a == MatchLen(p, j)
           b == MatchLen(q, j)
           P == [i \in Nat |-> Sym(p + i)]
           Q == [i \in Nat |-> Sym(q + i)]
           T == [i \in Nat |-> NewSym(j + i)]
<1>0. /\ \A i \in Nat : P[i] = Sym(p + i) /\ Q[i] = Sym(q + i) /\ T[i] = NewSym(j + i)
      /\ \A k, i : i \in 0 .. k - 1 => i \in Nat
  OBVIOUS
<1> HIDE DEF P, Q, T
<1>1. /\ a \in Nat /\ (\A i \in Nat : P[i] \in Int /\ T[i] \in Int)
      /\ (\A i \in 0 .. a - 1 : P[i] = T[i] /\ T[i] >= 0)
      /\ (P[a] = T[a] => T[a] < 0)
      /\ ~(P[a] < T[a])
  BY <1>0, MatchShape
<1>2. /\ b \in Nat /\ (\A i \in Nat : Q[i] \in Int)
      /\ (\A i \in 0 .. b - 1 : Q[i] = T[i] /\ T[i] >= 0)
  BY <1>0, MatchShape
<1>3. PICK d \in Nat : (\A i \in 0 .. d - 1 : P[i] = Q[i]) /\ P[d] < Q[d]
  BY <1>0 DEF SuffixLess, LessAt, SameText
<1>4. SUFFICES ASSUME a < b PROVE FALSE
  <2> HIDE DEF a, b
  <2> QED BY <1>1, <1>2 DEF a, b
<1> HIDE DEF a, b
<1>5. a \in 0 .. b - 1 BY <1>1, <1>2, <1>4
<1>6. Q[a] = T[a] /\ T[a] >= 0 /\ P[a] \in Int /\ Q[a] \in Int /\ T[a] \in Int BY <1>1, <1>2, <1>5
<1>7. P[a] > T[a] BY <1>1, <1>6
<1>8. CASE d < a
  <2>1. d \in 0 .. a - 1 /\ d \in 0 .. b - 1 BY <1>1, <1>2, <1>4, <1>8
  <2>2. P[d] = T[d] /\ Q[d] = T[d] /\ T[d] \in Int BY <1>1, <1>2, <2>1
  <2> QED BY <1>3, <2>2
<1>9. CASE d = a BY <1>3, <1>6, <1>7, <1>9
<1>10. CASE d > a
  <2>1. a \in 0 .. d - 1 BY <1>1, <1>10
  <2>2. P[a] = Q[a] BY <1>3, <2>1
  <2> QED BY <1>6, <1>7, <2>2
<1> QED BY <1>1, <1>8, <1>9, <1>10

-----------------------------------------------------------------------------
(***************************************************************************)
(* The inductive invariant.  The search has the matches it has yet to meet *)
(* between two suffixes.  Behind the bytes written there is a trace: the   *)
(* points between blocks, with how much of the patch and of the target     *)
(* lies before each and where it is in the source.  The patcher goes from  *)
(* one of them to the next, in a patch that may end before the trace does. *)
(***************************************************************************)
SearchInv ==
  bsPc = "probe" =>
    /\ lo \in Nat /\ hi \in Nat /\ lo <= hi /\ hi <= Len(old) - 1
    /\ lo > 0 => Below(suffixes[lo], scan)
    /\ hi < Len(old) - 1 => ~Below(suffixes[hi + 1], scan)

Points == [place : Nat, made : Nat, from : Int]

StartPoint == [place |-> 0, made |-> 0, from |-> 0]

\* In the bytes written, a block leads from one point to the other.
IsBlock(a, b, written) ==
  \E add, insert \in Nat, seek \in Int :
    /\ b.place = a.place + 3 * NumBytes + add + insert /\ b.place <= Len(written)
    /\ b.made = a.made + add + insert /\ b.made <= Len(new)
    /\ b.from = a.from + seek + add
    /\ ReadNumber(Slice(written, a.place, NumBytes)) = add
    /\ ReadNumber(Slice(written, a.place + NumBytes, NumBytes)) = insert
    /\ ReadNumber(Slice(written, a.place + 2 * NumBytes, NumBytes)) = seek
    /\ \A i \in 1 .. add :
         written[a.place + 3 * NumBytes + i] = (new[a.made + i] - SourceByte(a.from + i - 1)) % Byte
    /\ \A i \in 1 .. insert :
         written[a.place + 3 * NumBytes + add + i] = new[a.made + add + i]

IsTrace(written, points, end) ==
  /\ points \subseteq Points /\ StartPoint \in points /\ end \in points
  /\ end.place = Len(written)
  /\ \A a \in points : a = end \/ (a.made < Len(new) /\ \E b \in points : IsBlock(a, b, written))

Here == [place |-> Len(patch), made |-> lastScan, from |-> lastPos]
PatcherAt == [place |-> patchPos, made |-> Len(rebuilt), from |-> oldPos]

\* What has come of the bytes written.
IsDelivered(written, points, end) ==
  /\ written \in Seq(Bytes) /\ IsTrace(written, points, end) /\ end.made = Len(new)
  /\ Len(patch) <= Len(written) /\ \A i \in 1 .. Len(patch) : patch[i] = written[i]
  /\ bsPc \in {"written", "whole"} => Len(patch) = Len(written)
  /\ bsPc \in {"cut", "refused"} => Len(patch) < Len(written)
  /\ PatcherAt \in points /\ patchPos <= Len(patch)

Delivering == {"written", "whole", "cut", "refused"}

TraceInv ==
  /\ bsPc \in Creating \cup {"sort"} => \E points : IsTrace(patch, points, Here)
  /\ bsPc \in Delivering => \E written, points, end : IsDelivered(written, points, end)
  /\ bsPc \in Creating \cup {"sort", "written"} => patchPos = 0 /\ oldPos = 0 /\ rebuilt = <<>>

BsInv ==
  /\ BsTypeOK /\ ScanInv /\ SortInv /\ SearchInv /\ MatchInv /\ TraceInv
  /\ PatchRebuilds /\ FindsTheLongest

-----------------------------------------------------------------------------
(***************************************************************************)
(* Bytes and blocks.                                                       *)
(***************************************************************************)
\* What is in the texts does not change with what is done to them.
LEMMA SameTexts ==
  ASSUME UNCHANGED <<old, new>>
  PROVE  /\ \A p : (InSource(p)' <=> InSource(p)) /\ SourceByte(p)' = SourceByte(p)
         /\ \A p, j : /\ Agrees(j, p)' <=> Agrees(j, p)
                      /\ MatchLen(p, j)' = MatchLen(p, j)
                      /\ Below(p, j)' <=> Below(p, j)
         /\ \A p, q : SuffixLess(p, q)' <=> SuffixLess(p, q)
         /\ \A a, b, w : IsBlock(a, b, w)' <=> IsBlock(a, b, w)
         /\ \A w, points, end : IsTrace(w, points, end)' <=> IsTrace(w, points, end)
<1>1. \A p : (InSource(p)' <=> InSource(p)) /\ SourceByte(p)' = SourceByte(p)
  BY DEF SourceByte, InSource, At
<1>2. \A p, j : Agrees(j, p)' <=> Agrees(j, p) BY DEF Agrees, InSource, At
<1>3. \A p, j : MatchLen(p, j)' = MatchLen(p, j) BY DEF MatchLen, Agrees, InSource, At
<1>4. \A p, j : Below(p, j)' <=> Below(p, j) BY <1>3 DEF Below, At
<1>5. \A p, q : SuffixLess(p, q)' <=> SuffixLess(p, q)
  BY DEF SuffixLess, LessAt, SameText, Sym, InSource, At
<1>6. \A a, b, w : IsBlock(a, b, w)' <=> IsBlock(a, b, w)
  BY DEF IsBlock, SourceByte, InSource, At
<1>7. \A w, points, end : IsTrace(w, points, end)' <=> IsTrace(w, points, end)
  BY <1>6 DEF IsTrace
<1> QED BY <1>1, <1>2, <1>3, <1>4, <1>5, <1>6, <1>7

\* A number below Byte is the only one in its class.
LEMMA ByteRemainder ==
  ASSUME NEW x \in Int, NEW r \in Bytes, x = r \/ x = r - Byte \/ x = r + Byte
  PROVE  x % Byte = r
<1>1. Byte \in Nat \ {0} BY BsAssumption
<1>2. r \in Nat /\ r < Byte BY <1>1 DEF Bytes
<1> DEFINE q == x \div Byte
           m == x % Byte
<1>3. x = Byte * q + m /\ q \in Int /\ m \in 0 .. Byte - 1 BY <1>1
<1> HIDE DEF q, m
<1>4. ASSUME NEW k \in Int, NEW d \in Int, Byte * k = d, -Byte < d, d < Byte PROVE d = 0
  <2>1. CASE k >= 1
    <3>1. Byte * k = Byte * (k - 1) + Byte /\ Byte * (k - 1) >= 0 BY <1>1, <2>1
    <3> QED BY <1>1, <1>4, <3>1
  <2>2. CASE k <= -1
    <3>1. Byte * k = Byte * (k + 1) - Byte /\ Byte * (k + 1) <= 0 BY <1>1, <2>2
    <3> QED BY <1>1, <1>4, <3>1
  <2>3. CASE k = 0 BY <1>1, <1>4, <2>3
  <2> QED BY <2>1, <2>2, <2>3
<1>5. CASE x = r
  <2>1. Byte * q = r - m BY <1>3, <1>5, <1>2, <1>1
  <2>2. r - m = 0 BY <1>1, <1>2, <1>3, <1>4, <2>1
  <2> QED BY <2>2, <1>2, <1>3 DEF m
<1>6. CASE x = r - Byte
  <2>1. Byte * (q + 1) = r - m
    <3>1. Byte * (q + 1) = Byte * q + Byte BY <1>1, <1>3
    <3> QED BY <3>1, <1>1, <1>2, <1>3, <1>6
  <2>2. r - m = 0
    <3>1. q + 1 \in Int /\ r - m \in Int /\ -Byte < r - m /\ r - m < Byte BY <1>1, <1>2, <1>3
    <3> QED BY <1>4, <2>1, <3>1
  <2> QED BY <2>2, <1>2, <1>3 DEF m
<1>7. CASE x = r + Byte
  <2>1. Byte * (q - 1) = r - m
    <3>1. Byte * (q - 1) = Byte * q - Byte BY <1>1, <1>3
    <3> QED BY <3>1, <1>1, <1>2, <1>3, <1>7
  <2>2. r - m = 0
    <3>1. q - 1 \in Int /\ r - m \in Int /\ -Byte < r - m /\ r - m < Byte BY <1>1, <1>2, <1>3
    <3> QED BY <1>4, <2>1, <3>1
  <2> QED BY <2>2, <1>2, <1>3 DEF m
<1> QED BY <1>5, <1>6, <1>7

\* The difference of two bytes is a byte, which added to the one makes the other.
LEMMA ByteDifference ==
  ASSUME NEW a \in Bytes, NEW b \in Bytes
  PROVE  (a - b) % Byte \in Bytes /\ (((a - b) % Byte) + b) % Byte = a
<1>1. Byte \in Nat \ {0} BY BsAssumption
<1>2. a \in Nat /\ a < Byte /\ b \in Nat /\ b < Byte BY <1>1 DEF Bytes
<1>3. CASE a >= b
  <2>1. a - b \in Bytes /\ a - b \in Int BY <1>1, <1>2, <1>3 DEF Bytes
  <2>2. (a - b) % Byte = a - b BY <2>1, ByteRemainder
  <2>3. (a - b) + b = a /\ a \in Int BY <1>2
  <2>4. a % Byte = a BY <1>2, ByteRemainder
  <2> QED BY <2>1, <2>2, <2>3, <2>4
<1>4. CASE a < b
  <2>1. a - b + Byte \in Bytes /\ a - b \in Int /\ a - b = (a - b + Byte) - Byte
    BY <1>1, <1>2, <1>4 DEF Bytes
  <2>2. (a - b) % Byte = a - b + Byte BY <2>1, ByteRemainder
  <2>3. (a - b + Byte) + b = a + Byte /\ a + Byte \in Int BY <1>1, <1>2
  <2>4. (a + Byte) % Byte = a BY <2>3, ByteRemainder
  <2> QED BY <2>1, <2>2, <2>3, <2>4
<1> QED BY <1>2, <1>3, <1>4

\* Two sequences of bytes, one behind the other.
IsJoin(u, s, k, t, l) ==
  /\ u \in Seq(Bytes) /\ Len(u) = k + l
  /\ \A i \in 1 .. k : u[i] = s[i]
  /\ \A i \in 1 .. l : u[k + i] = t[i]

\* So it is with what \o makes.
LEMMA JoinedBytes ==
  ASSUME NEW s \in Seq(Bytes), NEW t \in Seq(Bytes), NEW k, NEW l, k = Len(s), l = Len(t)
  PROVE  IsJoin(s \o t, s, k, t, l)
<1>1. /\ s \o t \in Seq(Bytes) /\ Len(s \o t) = Len(s) + Len(t)
      /\ \A i \in 1 .. Len(s) : (s \o t)[i] = s[i]
      /\ \A i \in 1 .. Len(t) : (s \o t)[Len(s) + i] = t[i]
  OBVIOUS
<1> QED BY Zenon, <1>1 DEF IsJoin

\* A block behind the bytes written leaves them as they are; its numbers and bytes are at
\* their places.
EndsInBlock(Q, P, add, insert, seek) ==
  /\ Q \in Seq(Bytes)
  /\ Len(Q) = Len(P) + 3 * NumBytes + Len(add) + Len(insert)
  /\ \A i \in 1 .. Len(P) : Q[i] = P[i]
  /\ Slice(Q, Len(P), NumBytes) = WriteNumber(Len(add))
  /\ Slice(Q, Len(P) + NumBytes, NumBytes) = WriteNumber(Len(insert))
  /\ Slice(Q, Len(P) + 2 * NumBytes, NumBytes) = WriteNumber(seek)
  /\ \A i \in 1 .. Len(add) : Q[Len(P) + 3 * NumBytes + i] = add[i]
  /\ \A i \in 1 .. Len(insert) : Q[Len(P) + 3 * NumBytes + Len(add) + i] = insert[i]

\* So it is with the sequence the two make.
LEMMA BlockInPlace ==
  ASSUME NEW P \in Seq(Bytes), NEW add \in Seq(Bytes), NEW insert \in Seq(Bytes),
         NEW seek \in Int, NEW Q, Q = P \o Block(add, insert, seek)
  PROVE  EndsInBlock(Q, P, add, insert, seek)
<1>0. NumBytes \in Nat \ {0} /\ Len(P) \in Nat /\ Len(add) \in Nat /\ Len(insert) \in Nat
  BY BsAssumption, LenProperties
<1> DEFINE w1 == WriteNumber(Len(add))
           w2 == WriteNumber(Len(insert))
           w3 == WriteNumber(seek)
           n == NumBytes
<1>1. /\ w1 \in Seq(Bytes) /\ Len(w1) = n /\ w1 \in [1 .. n -> Bytes]
      /\ w2 \in Seq(Bytes) /\ Len(w2) = n /\ w2 \in [1 .. n -> Bytes]
      /\ w3 \in Seq(Bytes) /\ Len(w3) = n /\ w3 \in [1 .. n -> Bytes]
  BY <1>0, NumberBytes
<1>2. Q = P \o ((((w1 \o w2) \o w3) \o add) \o insert) BY DEF Block
<1> HIDE DEF w1, w2, w3
<1> DEFINE a == Len(add)
           b == Len(insert)
           two == n + n
           three == two + n
           four == three + a
           five == four + b
<1>4. n \in Nat /\ two \in Nat /\ three \in Nat /\ four \in Nat /\ five \in Nat
      /\ a \in Nat /\ b \in Nat
      /\ two = n + n /\ three = two + n /\ four = three + a /\ five = four + b
      /\ 2 * n = two /\ 3 * n = three
  BY <1>0
<1>5. /\ w1 \in Seq(Bytes) /\ Len(w1) = n /\ w2 \in Seq(Bytes) /\ Len(w2) = n
      /\ w3 \in Seq(Bytes) /\ Len(w3) = n /\ Len(add) = a /\ Len(insert) = b
  BY <1>1
<1> HIDE DEF n, a, b, two, three, four, five
<1> DEFINE A2 == w1 \o w2
           A3 == A2 \o w3
           A4 == A3 \o add
           A5 == A4 \o insert
<1>6. IsJoin(A2, w1, n, w2, n) /\ A2 \in Seq(Bytes) /\ Len(A2) = two
  <2>1. IsJoin(A2, w1, n, w2, n) BY <1>5, JoinedBytes
  <2> QED BY <1>4, <2>1 DEF IsJoin
<1> HIDE DEF A2
<1>7. IsJoin(A3, A2, two, w3, n) /\ A3 \in Seq(Bytes) /\ Len(A3) = three
  <2>1. IsJoin(A3, A2, two, w3, n) BY <1>5, <1>6, JoinedBytes
  <2> QED BY <1>4, <2>1 DEF IsJoin
<1> HIDE DEF A3
<1>8. IsJoin(A4, A3, three, add, a) /\ A4 \in Seq(Bytes) /\ Len(A4) = four
  <2>1. IsJoin(A4, A3, three, add, a) BY <1>5, <1>7, JoinedBytes
  <2> QED BY <1>4, <2>1 DEF IsJoin
<1> HIDE DEF A4
<1>9. IsJoin(A5, A4, four, insert, b) /\ A5 \in Seq(Bytes) /\ Len(A5) = five
  <2>1. IsJoin(A5, A4, four, insert, b) BY <1>5, <1>8, JoinedBytes
  <2> QED BY <1>4, <2>1 DEF IsJoin
<1>10. Q = P \o A5 BY <1>2 DEF A2, A3, A4
<1> HIDE DEF A5
<1> DEFINE m == Len(P)
<1>11. m \in Nat BY <1>0
<1>12. IsJoin(Q, P, m, A5, five) BY <1>9, <1>10, JoinedBytes
<1> HIDE DEF m
<1>13. ASSUME NEW i \in 1 .. n
       PROVE  Q[m + i] = w1[i] /\ Q[(m + n) + i] = w2[i] /\ Q[(m + 2 * n) + i] = w3[i]
  <2>1. i \in 1 .. two /\ i \in 1 .. three /\ i \in 1 .. four /\ i \in 1 .. five BY <1>4
  <2>2. n + i \in 1 .. two /\ n + i \in 1 .. three /\ n + i \in 1 .. four /\ n + i \in 1 .. five
    BY <1>4
  <2>3. two + i \in 1 .. three /\ two + i \in 1 .. four /\ two + i \in 1 .. five BY <1>4
  <2>4. (m + n) + i = m + (n + i) /\ (m + 2 * n) + i = m + (two + i) BY <1>4, <1>11
  <2>5. \A x \in 1 .. four : x \in 1 .. five => Q[m + x] = A4[x] BY <1>9, <1>12 DEF IsJoin
  <2>6. \A x \in 1 .. three : x \in 1 .. four => A4[x] = A3[x] BY <1>8 DEF IsJoin
  <2>7. \A x \in 1 .. two : x \in 1 .. three => A3[x] = A2[x] BY <1>7 DEF IsJoin
  <2>8. A2[i] = w1[i] /\ A2[n + i] = w2[i] /\ A3[two + i] = w3[i] BY <1>6, <1>7 DEF IsJoin
  <2>9. Q[m + i] = w1[i] BY <2>1, <2>5, <2>6, <2>7, <2>8
  <2>10. Q[m + (n + i)] = w2[i] BY <2>2, <2>5, <2>6, <2>7, <2>8
  <2>11. Q[m + (two + i)] = w3[i] BY <2>3, <2>5, <2>6, <2>8
  <2> QED BY Zenon, <2>4, <2>9, <2>10, <2>11
<1>14. Slice(Q, m, n) = w1 /\ Slice(Q, m + n, n) = w2 /\ Slice(Q, m + 2 * n, n) = w3
  <2>1. w1 \in [1 .. n -> Bytes] /\ w2 \in [1 .. n -> Bytes] /\ w3 \in [1 .. n -> Bytes]
    BY <1>1 DEF n
  <2> QED BY <1>13, <2>1 DEF Slice
<1>15. ASSUME NEW i \in 1 .. a PROVE Q[m + 3 * n + i] = add[i]
  <2>1. three + i \in 1 .. four /\ three + i \in 1 .. five /\ m + 3 * n + i = m + (three + i)
    BY <1>4, <1>11
  <2>2. Q[m + (three + i)] = A5[three + i] BY <1>12, <2>1 DEF IsJoin
  <2>3. A5[three + i] = A4[three + i] BY <1>9, <2>1 DEF IsJoin
  <2>4. A4[three + i] = add[i] BY <1>8 DEF IsJoin
  <2> QED BY <2>1, <2>2, <2>3, <2>4
<1>16. ASSUME NEW i \in 1 .. b PROVE Q[m + 3 * n + a + i] = insert[i]
  <2>1. four + i \in 1 .. five /\ m + 3 * n + a + i = m + (four + i) BY <1>4, <1>11
  <2>2. Q[m + (four + i)] = A5[four + i] BY <1>12, <2>1 DEF IsJoin
  <2>3. A5[four + i] = insert[i] BY <1>9 DEF IsJoin
  <2> QED BY <2>1, <2>2, <2>3
<1>17. Q \in Seq(Bytes) /\ \A i \in 1 .. m : Q[i] = P[i] BY <1>12 DEF IsJoin
<1>18. Len(Q) = m + 3 * n + a + b
  <2>1. Len(Q) = m + five BY <1>12 DEF IsJoin
  <2> QED BY <1>4, <1>11, <2>1
<1> QED BY Zenon, <1>14, <1>15, <1>16, <1>17, <1>18 DEF w1, w2, w3, m, n, a, b, EndsInBlock

\* More bytes behind the ones written leave their blocks as they are.
LEMMA KeepsBlocks ==
  ASSUME NEW P \in Seq(Bytes), NEW Q \in Seq(Bytes), Len(P) <= Len(Q),
         \A i \in 1 .. Len(P) : Q[i] = P[i],
         NEW a \in Points, NEW b \in Points, IsBlock(a, b, P)
  PROVE  IsBlock(a, b, Q)
<1>1. PICK add \in Nat, insert \in Nat, seek \in Int :
        /\ b.place = a.place + 3 * NumBytes + add + insert /\ b.place <= Len(P)
        /\ b.made = a.made + add + insert /\ b.made <= Len(new)
        /\ b.from = a.from + seek + add
        /\ ReadNumber(Slice(P, a.place, NumBytes)) = add
        /\ ReadNumber(Slice(P, a.place + NumBytes, NumBytes)) = insert
        /\ ReadNumber(Slice(P, a.place + 2 * NumBytes, NumBytes)) = seek
        /\ \A i \in 1 .. add :
             P[a.place + 3 * NumBytes + i] = (new[a.made + i] - SourceByte(a.from + i - 1)) % Byte
        /\ \A i \in 1 .. insert : P[a.place + 3 * NumBytes + add + i] = new[a.made + add + i]
  BY DEF IsBlock
<1> DEFINE ap == a.place
           bp == b.place
           n == NumBytes
<1>2. n \in Nat \ {0} /\ ap \in Nat /\ bp \in Nat /\ Len(P) \in Nat /\ Len(Q) \in Nat
  <2>1. NumBytes \in Nat \ {0} /\ Len(P) \in Nat /\ Len(Q) \in Nat BY BsAssumption, LenProperties
  <2> QED BY <2>1 DEF Points
<1>3. bp = ap + 3 * n + add + insert /\ bp <= Len(P) /\ Len(P) <= Len(Q) BY <1>1
<1> HIDE DEF ap, bp, n
<1>4. \A i \in 1 .. n : /\ ap + i \in 1 .. Len(P)
                        /\ (ap + n) + i \in 1 .. Len(P)
                        /\ (ap + 2 * n) + i \in 1 .. Len(P)
  <2> DEFINE p == Len(P)
  <2>1. p \in Nat /\ ap + 3 * n <= p
    <3>1. p \in Nat /\ bp <= p /\ bp = ap + 3 * n + add + insert BY <1>2, <1>3
    <3> HIDE DEF p
    <3> QED BY <1>2, <3>1
  <2> HIDE DEF p
  <2>2. ASSUME NEW i \in 1 .. n PROVE ap + i \in 1 .. p BY <1>2, <2>1, <2>2
  <2>3. ASSUME NEW i \in 1 .. n PROVE (ap + n) + i \in 1 .. p BY <1>2, <2>1, <2>3
  <2>4. ASSUME NEW i \in 1 .. n PROVE (ap + 2 * n) + i \in 1 .. p BY <1>2, <2>1, <2>4
  <2> QED BY <2>2, <2>3, <2>4 DEF p
<1>5. /\ Slice(Q, ap, n) = Slice(P, ap, n)
      /\ Slice(Q, ap + n, n) = Slice(P, ap + n, n)
      /\ Slice(Q, ap + 2 * n, n) = Slice(P, ap + 2 * n, n)
  BY <1>4 DEF Slice
<1>6. \A i \in 1 .. add : ap + 3 * n + i \in 1 .. Len(P) BY <1>2, <1>3
<1>7. \A i \in 1 .. insert : ap + 3 * n + add + i \in 1 .. Len(P) BY <1>2, <1>3
<1>8. bp <= Len(Q) BY <1>2, <1>3
<1>9. /\ \A i \in 1 .. add : Q[ap + 3 * n + i] = P[ap + 3 * n + i]
      /\ \A i \in 1 .. insert : Q[ap + 3 * n + add + i] = P[ap + 3 * n + add + i]
  BY <1>6, <1>7
<1> USE DEF ap, bp, n
<1>10. /\ b.place = a.place + 3 * NumBytes + add + insert /\ b.place <= Len(Q)
       /\ b.made = a.made + add + insert /\ b.made <= Len(new)
       /\ b.from = a.from + seek + add
       /\ ReadNumber(Slice(Q, a.place, NumBytes)) = add
       /\ ReadNumber(Slice(Q, a.place + NumBytes, NumBytes)) = insert
       /\ ReadNumber(Slice(Q, a.place + 2 * NumBytes, NumBytes)) = seek
  BY <1>1, <1>5, <1>8
<1>11. /\ \A i \in 1 .. add :
             Q[a.place + 3 * NumBytes + i] = (new[a.made + i] - SourceByte(a.from + i - 1)) % Byte
       /\ \A i \in 1 .. insert : Q[a.place + 3 * NumBytes + add + i] = new[a.made + add + i]
  <2>1. \A i \in 1 .. add : P[a.place + 3 * NumBytes + i]
                              = (new[a.made + i] - SourceByte(a.from + i - 1)) % Byte
    BY <1>1
  <2>2. \A i \in 1 .. insert : P[a.place + 3 * NumBytes + add + i] = new[a.made + add + i]
    BY <1>1
  <2> QED BY Zenon, <1>9, <2>1, <2>2
<1> QED BY Zenon, <1>10, <1>11 DEF IsBlock

-----------------------------------------------------------------------------
(***************************************************************************)
(* The sort and the search keep the invariant.                             *)
(***************************************************************************)
\* The invariant holds when the creator starts.
LEMMA InitBsInv == BsInit => BsInv
<1> SUFFICES ASSUME BsInit PROVE BsInv OBVIOUS
<1>1. BufferFits(old) /\ BufferFits(new) BY BsAssumption DEF BsInit, BufferFits, Bytes
<1>2. Len(old) \in Nat /\ Len(new) \in Nat BY <1>1, LenProperties DEF BufferFits
<1>3. Ranked /\ rank \in [0 .. Len(old) - 1 -> Nat] BY FirstRanks
<1>4. /\ suffixes = <<>> /\ patch = <<>> /\ rebuilt = <<>> /\ sortWidth = 1
      /\ scan = 0 /\ lo = 0 /\ hi = 0 /\ found = NothingFound
      /\ lastScan = 0 /\ lastPos = 0 /\ lastOffset = 0 /\ patchPos = 0 /\ oldPos = 0
      /\ bsPc = IF new = <<>> THEN "written" ELSE "sort"
  BY DEF BsInit
<1>5. BsTypeOK
  <2>1. found \in [pos : Nat, len : Nat] BY <1>4 DEF NothingFound
  <2> QED BY <1>1, <1>3, <1>4, <2>1 DEF BsTypeOK, Creating
<1>6. new # <<>> => Len(new) > 0 BY <1>1, <1>2 DEF BufferFits
<1>7. ScanInv BY <1>2, <1>4, <1>6 DEF ScanInv, Creating
<1>8. SortInv BY <1>3, <1>4 DEF SortInv, Creating
<1>9. SearchInv /\ MatchInv /\ FindsTheLongest
  BY <1>4 DEF SearchInv, MatchInv, FindsTheLongest
<1>10. PatchRebuilds BY <1>2, <1>4 DEF PatchRebuilds
<1>11. TraceInv
  <2>1. Here = StartPoint /\ PatcherAt = StartPoint /\ StartPoint \in Points
    BY <1>4 DEF Here, PatcherAt, StartPoint, Points
  <2>2. IsTrace(patch, {StartPoint}, StartPoint)
    BY <1>4, <2>1 DEF IsTrace, StartPoint
  <2>3. CASE new = <<>>
    <3>1. StartPoint.made = Len(new) BY <2>3 DEF StartPoint
    <3>2. IsDelivered(patch, {StartPoint}, StartPoint)
      BY <1>4, <2>1, <2>2, <2>3, <3>1 DEF IsDelivered
    <3>3. bsPc = "written" BY <1>4, <2>3
    <3> QED BY <1>4, <3>2, <3>3 DEF TraceInv, Creating
  <2>4. CASE new # <<>>
    <3>1. bsPc = "sort" BY <1>4, <2>4
    <3> QED BY <1>4, <2>1, <2>2, <3>1 DEF TraceInv, Creating, Delivering
  <2> QED BY <2>3, <2>4
<1> QED BY <1>5, <1>7, <1>8, <1>9, <1>10, <1>11 DEF BsInv

\* While the creator sorts and searches, what it has written stays as it is.
LEMMA NothingWritten ==
  ASSUME BsInv, UNCHANGED <<old, new, lastScan, lastPos, patch, patchVars>>,
         bsPc \in Creating \cup {"sort"}, bsPc' \in Creating \cup {"sort"}
  PROVE  TraceInv' /\ PatchRebuilds'
<1>1. /\ (patchPos = 0 /\ oldPos = 0 /\ rebuilt = <<>>)' /\ Here' = Here
      /\ patch' = patch /\ old' = old /\ new' = new
  <2>1. patchPos = 0 /\ oldPos = 0 /\ rebuilt = <<>> BY DEF BsInv, TraceInv
  <2> QED BY <2>1 DEF patchVars, Here
<1>2. PICK points : IsTrace(patch, points, Here) BY DEF BsInv, TraceInv
<1>3. \A w, ps, e : IsTrace(w, ps, e)' <=> IsTrace(w, ps, e) BY <1>1, SameTexts
<1>4. PICK h0, w0 : h0 = Here /\ w0 = patch OBVIOUS
<1>5. IsTrace(w0, points, h0)' BY <1>2, <1>3, <1>4
<1>6. Here' = h0 /\ patch' = w0 BY <1>1, <1>4
<1>7. (\E ps : IsTrace(patch, ps, Here))' BY <1>5, <1>6
<1>8. bsPc' \notin Delivering BY DEF Creating, Delivering
<1>9. PatchRebuilds'
  <2>1. Len(new) \in Nat BY LenProperties DEF BsInv, BsTypeOK, BufferFits
  <2> QED BY <1>1, <2>1 DEF PatchRebuilds, Creating
<1> QED BY <1>1, <1>7, <1>8, <1>9 DEF TraceInv

\* The order of the suffixes stays with them.
LEMMA OrderStays ==
  ASSUME Ordered, UNCHANGED <<old, new, suffixes>>
  PROVE  Ordered'
<1>1. \A p, q : SuffixLess(p, q)' <=> SuffixLess(p, q) BY SameTexts
<1> QED BY <1>1 DEF Ordered

\* A round of the sort ranks by twice as many bytes.
LEMMA SortRoundStep == ASSUME BsInv, SortRound PROVE BsInv'
<1>0. BsTypeOK /\ ScanInv /\ SortInv /\ PatchRebuilds /\ bsPc = "sort" BY DEF BsInv, SortRound
<1>1. Ranked' /\ rank' \in [0 .. Len(old) - 1 -> Nat] /\ sortWidth' \in Nat \ {0}
  BY <1>0, RoundDoubles DEF SortInv
<1>2. /\ UNCHANGED <<old, new, suffixes, scan, lo, hi, found, lastScan, lastPos, lastOffset>>
      /\ UNCHANGED <<patch, bsPc, patchPos, oldPos, rebuilt>> /\ UNCHANGED patchVars
  BY DEF SortRound, searchVars, lastVars, patchVars
<1>3. BsTypeOK' BY <1>0, <1>1, <1>2 DEF BsTypeOK, BufferFits
<1>4. ScanInv' BY <1>0, <1>2 DEF ScanInv, Creating
<1>5. SortInv' BY <1>0, <1>1, <1>2 DEF SortInv, Creating
<1>6. TraceInv' /\ PatchRebuilds' BY <1>0, <1>2, NothingWritten
<1>7. SearchInv' /\ MatchInv' /\ FindsTheLongest'
  BY <1>0, <1>2 DEF SearchInv, MatchInv, FindsTheLongest
<1> QED BY <1>3, <1>4, <1>5, <1>6, <1>7 DEF BsInv

\* The sort ends with the suffixes in order.
LEMMA EndSortStep == ASSUME BsInv, EndSort PROVE BsInv'
<1>0. BsTypeOK /\ ScanInv /\ SortInv /\ bsPc = "sort" /\ bsPc' = "block" BY DEF BsInv, EndSort
<1>1. Ordered' /\ suffixes' \in Seq(0 .. Len(old) - 1) BY <1>0, SortOrders DEF SortInv
<1>2. /\ UNCHANGED <<old, new, rank, sortWidth, scan, lo, hi, found>>
      /\ UNCHANGED <<lastScan, lastPos, lastOffset, patch, patchPos, oldPos, rebuilt>>
      /\ UNCHANGED patchVars
  BY DEF EndSort, searchVars, lastVars, patchVars
<1>3. BsTypeOK' BY <1>0, <1>1, <1>2 DEF BsTypeOK, BufferFits, Creating
<1>4. ScanInv' BY <1>0, <1>2 DEF ScanInv, Creating
<1>5. SortInv' BY <1>0, <1>1 DEF SortInv
<1>6. TraceInv' /\ PatchRebuilds' BY <1>0, <1>2, NothingWritten DEF Creating
<1>7. SearchInv' /\ MatchInv' /\ FindsTheLongest'
  BY <1>0 DEF SearchInv, MatchInv, FindsTheLongest
<1> QED BY <1>3, <1>4, <1>5, <1>6, <1>7 DEF BsInv

\* A pass of the outer loop begins one byte on.
LEMMA NextBlockStep == ASSUME BsInv, NextBlock PROVE BsInv'
<1>0. /\ BsTypeOK /\ ScanInv /\ SortInv /\ bsPc = "block" /\ bsPc' = "search"
      /\ scan < Len(new) /\ scan' = scan + 1
  BY DEF BsInv, NextBlock
<1>2. /\ UNCHANGED <<old, new, rank, sortWidth, suffixes, lo, hi, found>>
      /\ UNCHANGED <<lastScan, lastPos, lastOffset, patch, patchPos, oldPos, rebuilt>>
      /\ UNCHANGED patchVars
  BY DEF NextBlock, sortVars, searchVars, lastVars, patchVars
<1>a. Len(new) \in Nat /\ scan \in Nat /\ lastScan \in Nat
  BY <1>0, LenProperties DEF BsTypeOK, BufferFits
<1>3. BsTypeOK' BY <1>0, <1>2 DEF BsTypeOK, BufferFits, Creating
<1>4. ScanInv'
  <2>2. lastScan < Len(new) /\ lastPos <= Len(old) /\ lastScan <= scan
    BY <1>0 DEF ScanInv, Creating
  <2>3. patch # <<>> => Agrees(lastScan, lastPos) BY <1>0 DEF ScanInv, Creating
  <2>4. (patch # <<>> => Agrees(lastScan, lastPos))'
    BY <1>2, <2>3 DEF Agrees, InSource, At
  <2>5. lastScan < scan' /\ scan' <= Len(new) BY <1>0, <1>a, <2>2
  <2>6. (lastScan < Len(new) /\ lastPos <= Len(old) /\ lastScan < scan /\ scan <= Len(new))'
    BY <1>2, <2>2, <2>5
  <2> QED BY <1>0, <1>a, <1>2, <2>4, <2>6 DEF ScanInv
<1>5. SortInv'
  <2>1. Ordered BY <1>0 DEF SortInv, Creating
  <2>2. Ordered' BY <1>2, <2>1, OrderStays
  <2> QED BY <1>0, <2>2 DEF SortInv
<1>6. TraceInv' /\ PatchRebuilds' BY <1>0, <1>2, NothingWritten DEF Creating
<1>7. SearchInv' /\ MatchInv' /\ FindsTheLongest'
  BY <1>0 DEF SearchInv, MatchInv, FindsTheLongest
<1> QED BY <1>3, <1>4, <1>5, <1>6, <1>7 DEF BsInv

\* A match that is not worth a block leaves the scan to go on.
LEMMA SearchOnStep == ASSUME BsInv, SearchOn PROVE BsInv'
<1>0. /\ BsTypeOK /\ ScanInv /\ SortInv /\ bsPc = "found" /\ bsPc' = "search"
      /\ scan' = scan + 1
  BY DEF BsInv, SearchOn
<1>2. /\ UNCHANGED <<old, new, rank, sortWidth, suffixes, lo, hi, found>>
      /\ UNCHANGED <<lastScan, lastPos, lastOffset, patch, patchPos, oldPos, rebuilt>>
      /\ UNCHANGED patchVars
  BY DEF SearchOn, sortVars, searchVars, lastVars, patchVars
<1>a. Len(new) \in Nat /\ scan \in Nat /\ lastScan \in Nat
  BY <1>0, LenProperties DEF BsTypeOK, BufferFits
<1>3. BsTypeOK' BY <1>0, <1>2 DEF BsTypeOK, BufferFits, Creating
<1>4. ScanInv'
  <2>2. lastScan < Len(new) /\ lastPos <= Len(old) /\ lastScan <= scan /\ scan < Len(new)
    BY <1>0 DEF ScanInv, Creating
  <2>3. patch # <<>> => Agrees(lastScan, lastPos) BY <1>0 DEF ScanInv, Creating
  <2>4. (patch # <<>> => Agrees(lastScan, lastPos))'
    BY <1>2, <2>3 DEF Agrees, InSource, At
  <2>5. lastScan < scan' /\ scan' <= Len(new) BY <1>0, <1>a, <2>2
  <2>6. (lastScan < Len(new) /\ lastPos <= Len(old) /\ lastScan < scan /\ scan <= Len(new))'
    BY <1>2, <2>2, <2>5
  <2> QED BY <1>0, <1>a, <1>2, <2>4, <2>6 DEF ScanInv
<1>5. SortInv'
  <2>1. Ordered BY <1>0 DEF SortInv, Creating
  <2>2. Ordered' BY <1>2, <2>1, OrderStays
  <2> QED BY <1>0, <2>2 DEF SortInv
<1>6. TraceInv' /\ PatchRebuilds' BY <1>0, <1>2, NothingWritten DEF Creating
<1>7. SearchInv' /\ MatchInv' /\ FindsTheLongest'
  BY <1>0 DEF SearchInv, MatchInv, FindsTheLongest
<1> QED BY <1>3, <1>4, <1>5, <1>6, <1>7 DEF BsInv

\* During a search, what it does not touch.
LEMMA SearchKeeps ==
  ASSUME BsInv, UNCHANGED <<sortVars, scan, lastVars, patch, patchVars>>,
         bsPc \in {"search", "probe"}, bsPc' \in {"probe", "found"},
         bsPc = "search" => scan < Len(new)
  PROVE  ScanInv' /\ SortInv' /\ TraceInv' /\ PatchRebuilds' /\ Ordered /\ scan < Len(new)
<1>1. BsTypeOK /\ ScanInv /\ SortInv BY DEF BsInv
<1>2. /\ UNCHANGED <<old, new, suffixes, scan, lastScan, lastPos, patch>> /\ UNCHANGED patchVars
  BY DEF sortVars, lastVars
<1>3. TraceInv' /\ PatchRebuilds' BY <1>2, NothingWritten DEF Creating
<1>4. Ordered BY <1>1 DEF SortInv, Creating
<1>5. SortInv' BY <1>2, <1>4, OrderStays DEF SortInv
<1>6. /\ lastScan < Len(new) /\ lastPos <= Len(old) /\ lastScan <= scan /\ scan <= Len(new)
      /\ lastScan < scan /\ scan < Len(new)
  BY <1>1 DEF ScanInv, Creating
<1>7. patch # <<>> => Agrees(lastScan, lastPos) BY <1>1 DEF ScanInv, Creating
<1>8. (patch # <<>> => Agrees(lastScan, lastPos))'
  BY <1>2, <1>7 DEF Agrees, InSource, At
<1>9. bsPc' # "sort" OBVIOUS
<1>10. ScanInv' BY <1>2, <1>6, <1>8, <1>9 DEF ScanInv
<1> QED BY <1>3, <1>4, <1>5, <1>6, <1>10

\* A search begins between the first suffix and the last.
LEMMA BeginMatchStep == ASSUME BsInv, BeginMatch PROVE BsInv'
<1>0. /\ BsTypeOK /\ bsPc = "search" /\ scan < Len(new)
      /\ found' = NothingFound /\ lo' = 0 /\ hi' = Len(suffixes) - 1
      /\ bsPc' = IF suffixes = <<>> THEN "found" ELSE "probe"
  BY DEF BsInv, BeginMatch
<1>1. UNCHANGED <<sortVars, scan, lastVars, patch, patchVars>> BY DEF BeginMatch
<1>2. UNCHANGED <<old, new, rank, sortWidth, suffixes, scan, lastScan, lastPos, lastOffset>>
      /\ UNCHANGED <<patch, patchPos, oldPos, rebuilt>>
  BY <1>1 DEF sortVars, lastVars, patchVars
<1>3. bsPc' \in {"probe", "found"} BY <1>0
<1>4. ScanInv' /\ SortInv' /\ TraceInv' /\ PatchRebuilds' /\ Ordered
  BY <1>0, <1>1, <1>3, SearchKeeps
<1>5. suffixes \in [1 .. Len(old) -> 0 .. Len(old) - 1] /\ suffixes \in Seq(0 .. Len(old) - 1)
      /\ Len(old) \in Nat
  BY <1>0, <1>4, LenProperties DEF Ordered, BsTypeOK, BufferFits
<1>6. Len(suffixes) = Len(old) BY <1>5
<1>7. BsTypeOK' BY <1>0, <1>2, <1>3, <1>5, <1>6 DEF BsTypeOK, BufferFits, NothingFound, Creating
<1>8. SearchInv'
  <2>1. suffixes # <<>> => Len(old) > 0 BY <1>5, <1>6
  <2> QED BY <1>0, <1>2, <1>5, <1>6, <2>1 DEF SearchInv
<1>9. MatchInv' BY <1>0 DEF MatchInv, NothingFound
<1>10. FindsTheLongest'
  <2>1. bsPc' = "found" => Len(old) = 0 BY <1>0, <1>5, <1>6
  <2> QED BY <1>0, <1>2, <2>1 DEF FindsTheLongest, NothingFound
<1> QED BY <1>4, <1>7, <1>8, <1>9, <1>10 DEF BsInv

\* The better of two matches is a match, no shorter than either.
LEMMA BetterFacts ==
  ASSUME Len(new) \in Nat, scan \in Nat, scan < Len(new), NEW p \in 0 .. Len(old) - 1,
         NEW best \in [pos : Nat, len : Nat],
         best.len > 0 => InSource(best.pos) /\ best.len = MatchLen(best.pos, scan)
  PROVE  LET b == Better(best, p)
         IN  /\ b \in [pos : Nat, len : Nat] /\ b.len >= best.len /\ b.len >= MatchLen(p, scan)
             /\ b.len > 0 => InSource(b.pos) /\ b.len = MatchLen(b.pos, scan)
<1>1. MatchLen(p, scan) \in Nat
  <2>1. scan \in 0 .. Len(new) /\ p \in Int OBVIOUS
  <2>2. MatchLen(p, scan) \in 0 .. Len(new) - scan BY <2>1, MatchLenFacts
  <2> QED BY <2>2
<1>2. CASE MatchLen(p, scan) > best.len
  <2>1. Better(best, p) = [pos |-> p, len |-> MatchLen(p, scan)] BY <1>2 DEF Better
  <2>2. InSource(p) /\ p \in Nat /\ best.len \in Nat BY DEF InSource
  <2> QED BY <1>1, <1>2, <2>1, <2>2
<1>3. CASE ~(MatchLen(p, scan) > best.len)
  <2>1. Better(best, p) = best BY <1>3 DEF Better
  <2>2. best.len \in Nat OBVIOUS
  <2> QED BY <1>1, <1>3, <2>1, <2>2
<1> QED BY <1>2, <1>3

\* A suffix below the target's bytes moves the lower end, one that is not the upper.
LEMMA ProbeStep == ASSUME BsInv, Probe PROVE BsInv'
<1>0. /\ BsTypeOK /\ SearchInv /\ MatchInv /\ bsPc = "probe" /\ bsPc' = "probe" /\ lo < hi
      /\ found' = Better(found, At(suffixes, Middle))
      /\ IF Below(At(suffixes, Middle), scan) THEN lo' = Middle + 1 /\ hi' = hi
                                              ELSE lo' = lo /\ hi' = Middle
  BY DEF BsInv, Probe
<1>1. UNCHANGED <<sortVars, scan, lastVars, patch, patchVars>> BY DEF Probe
<1>2. UNCHANGED <<old, new, rank, sortWidth, suffixes, scan, lastScan, lastPos, lastOffset>>
      /\ UNCHANGED <<patch, patchPos, oldPos, rebuilt>>
  BY <1>1 DEF sortVars, lastVars, patchVars
<1>3. ScanInv' /\ SortInv' /\ TraceInv' /\ PatchRebuilds' /\ Ordered /\ scan < Len(new)
  BY <1>0, <1>1, SearchKeeps
<1>4. /\ suffixes \in [1 .. Len(old) -> 0 .. Len(old) - 1] /\ Len(old) \in Nat /\ Len(new) \in Nat
      /\ scan \in Nat /\ found \in [pos : Nat, len : Nat]
  BY <1>0, <1>3, LenProperties DEF Ordered, BsTypeOK, BufferFits
<1>5. /\ lo \in Nat /\ hi \in Nat /\ lo <= hi /\ hi <= Len(old) - 1
      /\ lo > 0 => Below(suffixes[lo], scan)
      /\ hi < Len(old) - 1 => ~Below(suffixes[hi + 1], scan)
  BY <1>0 DEF SearchInv
<1>6. /\ Middle \in Nat /\ lo <= Middle /\ Middle < hi
      /\ Middle + 1 \in 1 .. Len(old) /\ Middle + 1 \in Nat
  BY <1>0, <1>4, <1>5 DEF Middle
<1> DEFINE p == suffixes[Middle + 1]
<1>7. p \in 0 .. Len(old) - 1 /\ At(suffixes, Middle) = p BY <1>4, <1>6 DEF At
<1> HIDE DEF p
<1>8. /\ found' \in [pos : Nat, len : Nat]
      /\ found'.len > 0 => InSource(found'.pos) /\ found'.len = MatchLen(found'.pos, scan)
  <2>1. found.len > 0 => InSource(found.pos) /\ found.len = MatchLen(found.pos, scan)
    BY <1>0 DEF MatchInv
  <2> QED BY <1>0, <1>3, <1>4, <1>7, <2>1, BetterFacts
<1>9. BsTypeOK'
  <2>1. lo' \in Int /\ hi' \in Int BY <1>0, <1>5, <1>6
  <2> QED BY <1>0, <1>2, <1>8, <2>1 DEF BsTypeOK, BufferFits
<1>10. SearchInv'
  <2>2. CASE Below(p, scan)
    <3>1. lo' = Middle + 1 /\ hi' = hi BY <1>0, <1>7, <2>2
    <3>3. (hi < Len(old) - 1 => ~Below(suffixes[hi + 1], scan))'
      BY <1>2, <1>5, <3>1 DEF Below, MatchLen, Agrees, InSource, At
    <3>4. lo' \in Nat /\ hi' \in Nat /\ lo' <= hi' /\ hi' <= Len(old') - 1
      BY <1>2, <1>5, <1>6, <3>1
    <3>5. Below(suffixes[lo], scan)'
      BY <1>2, <2>2, <3>1 DEF p, Below, MatchLen, Agrees, InSource, At
    <3> QED BY <3>3, <3>4, <3>5 DEF SearchInv
  <2>3. CASE ~Below(p, scan)
    <3>1. lo' = lo /\ hi' = Middle BY <1>0, <1>7, <2>3
    <3>2. ~Below(suffixes[hi + 1], scan)'
      BY <1>2, <2>3, <3>1 DEF p, Below, MatchLen, Agrees, InSource, At
    <3>3. (lo > 0 => Below(suffixes[lo], scan))'
      BY <1>2, <1>5, <3>1 DEF Below, MatchLen, Agrees, InSource, At
    <3>4. lo' \in Nat /\ hi' \in Nat /\ lo' <= hi' /\ hi' <= Len(old') - 1
      BY <1>2, <1>4, <1>5, <1>6, <3>1
    <3> QED BY <3>2, <3>3, <3>4 DEF SearchInv
  <2> QED BY <2>2, <2>3
<1>11. MatchInv'
  <2>1. (found.len > 0 => InSource(found.pos) /\ found.len = MatchLen(found.pos, scan))'
    BY <1>2, <1>8 DEF MatchLen, Agrees, InSource, At
  <2> QED BY <2>1 DEF MatchInv
<1>12. FindsTheLongest' BY <1>0 DEF FindsTheLongest
<1> QED BY <1>3, <1>9, <1>10, <1>11, <1>12 DEF BsInv

\* Between them the last two suffixes have the longest match: the ones before the first of
\* them match no more than it, the ones behind the second no more than that.
LEMMA SearchEndsAtTheLongest ==
  ASSUME BsInv, bsPc = "probe", lo >= hi, Ordered, scan < Len(new),
         NEW q \in 0 .. Len(old) - 1
  PROVE  \/ MatchLen(q, scan) <= MatchLen(At(suffixes, lo), scan)
         \/ MatchLen(q, scan) <= MatchLen(At(suffixes, IF lo = 0 THEN 0 ELSE lo - 1), scan)
<1>1. /\ old \in Seq(Bytes) /\ new \in Seq(Bytes) /\ Len(old) \in Nat /\ Len(new) \in Nat
      /\ scan \in 0 .. Len(new) - 1
  BY LenProperties DEF BsInv, BsTypeOK, BufferFits
<1>2. /\ lo \in Nat /\ hi = lo /\ lo <= Len(old) - 1
      /\ lo > 0 => Below(suffixes[lo], scan)
      /\ lo < Len(old) - 1 => ~Below(suffixes[lo + 1], scan)
  BY DEF BsInv, SearchInv
<1>3. suffixes \in [1 .. Len(old) -> 0 .. Len(old) - 1] BY DEF Ordered
<1>4. PICK i \in 1 .. Len(old) : suffixes[i] = q BY DEF Ordered
<1>5. At(suffixes, lo) = suffixes[lo + 1] /\ lo + 1 \in 1 .. Len(old) BY <1>1, <1>2 DEF At
<1>9. MatchLen(q, scan) \in Int
  <2>1. q \in Int /\ scan \in 0 .. Len(new) BY <1>1
  <2>2. MatchLen(q, scan) \in 0 .. Len(new) - scan BY <1>1, <2>1, MatchLenFacts
  <2> QED BY <2>2
<1>6. CASE i = lo + 1
  <2>1. MatchLen(q, scan) \in Int BY <1>9
  <2> QED BY <1>4, <1>5, <1>6, <2>1
<1>7. CASE i <= lo
  <2>1. lo > 0 /\ lo \in 1 .. Len(old) /\ At(suffixes, lo - 1) = suffixes[lo]
    BY <1>1, <1>2, <1>7 DEF At
  <2>2. CASE i = lo
    <3>1. MatchLen(q, scan) \in Int BY <1>9
    <3> QED BY <1>4, <2>1, <2>2, <3>1
  <2>3. CASE i < lo
    <3>1. SuffixLess(q, suffixes[lo]) BY <1>4, <2>1, <2>3 DEF Ordered
    <3>2. suffixes[lo] \in 0 .. Len(old) - 1 BY <1>3, <2>1
    <3>3. MatchLen(q, scan) <= MatchLen(suffixes[lo], scan)
      BY <1>1, <1>2, <2>1, <3>1, <3>2, MatchesRise
    <3> QED BY <2>1, <3>3
  <2> QED BY <1>2, <1>7, <2>2, <2>3
<1>8. CASE i > lo + 1
  <2>1. lo < Len(old) - 1 BY <1>1, <1>2, <1>8
  <2>2. SuffixLess(suffixes[lo + 1], q) BY <1>4, <1>5, <1>8 DEF Ordered
  <2>3. suffixes[lo + 1] \in 0 .. Len(old) - 1 BY <1>3, <1>5
  <2>4. MatchLen(q, scan) <= MatchLen(suffixes[lo + 1], scan)
    BY <1>1, <1>2, <2>1, <2>2, <2>3, MatchesFall
  <2> QED BY <1>5, <2>4
<1> QED BY <1>2, <1>4, <1>6, <1>7, <1>8

\* The search ends with the longest match.
LEMMA EndMatchStep == ASSUME BsInv, EndMatch PROVE BsInv'
<1> DEFINE x == At(suffixes, lo)
           y == At(suffixes, IF lo = 0 THEN 0 ELSE lo - 1)
<1>0. /\ BsTypeOK /\ SearchInv /\ MatchInv /\ bsPc = "probe" /\ bsPc' = "found" /\ lo >= hi
      /\ found' = Better(Better(found, x), y) /\ lo' = lo /\ hi' = hi
  BY DEF BsInv, EndMatch
<1>1. UNCHANGED <<sortVars, scan, lastVars, patch, patchVars>> BY DEF EndMatch
<1>2. UNCHANGED <<old, new, rank, sortWidth, suffixes, scan, lastScan, lastPos, lastOffset>>
      /\ UNCHANGED <<patch, patchPos, oldPos, rebuilt>>
  BY <1>1 DEF sortVars, lastVars, patchVars
<1>3. ScanInv' /\ SortInv' /\ TraceInv' /\ PatchRebuilds' /\ Ordered /\ scan < Len(new)
  BY <1>0, <1>1, SearchKeeps
<1>4. /\ suffixes \in [1 .. Len(old) -> 0 .. Len(old) - 1] /\ Len(old) \in Nat /\ Len(new) \in Nat
      /\ scan \in Nat /\ found \in [pos : Nat, len : Nat]
  BY <1>0, <1>3, LenProperties DEF Ordered, BsTypeOK, BufferFits
<1>5. x \in 0 .. Len(old) - 1 /\ y \in 0 .. Len(old) - 1
  <2>1. lo \in Nat /\ lo <= hi /\ hi \in Nat /\ hi <= Len(old) - 1 BY <1>0 DEF SearchInv
  <2>2. lo + 1 \in 1 .. Len(old) /\ (lo # 0 => (lo - 1) + 1 \in 1 .. Len(old))
        /\ 0 + 1 \in 1 .. Len(old)
    BY <1>4, <2>1
  <2> QED BY <1>4, <2>2 DEF At
<1>6. \A q \in 0 .. Len(old) - 1 :
        MatchLen(q, scan) <= MatchLen(x, scan) \/ MatchLen(q, scan) <= MatchLen(y, scan)
  BY <1>0, <1>3, SearchEndsAtTheLongest
<1> HIDE DEF x, y
<1>7. found.len > 0 => InSource(found.pos) /\ found.len = MatchLen(found.pos, scan)
  BY <1>0 DEF MatchInv
<1> DEFINE b == Better(found, x)
<1>8. /\ b \in [pos : Nat, len : Nat] /\ b.len >= MatchLen(x, scan)
      /\ b.len > 0 => InSource(b.pos) /\ b.len = MatchLen(b.pos, scan)
  BY <1>3, <1>4, <1>5, <1>7, BetterFacts
<1> HIDE DEF b
<1>9. /\ found' \in [pos : Nat, len : Nat] /\ found'.len >= b.len /\ found'.len >= MatchLen(y, scan)
      /\ found'.len > 0 => InSource(found'.pos) /\ found'.len = MatchLen(found'.pos, scan)
  BY <1>0, <1>3, <1>4, <1>5, <1>8, BetterFacts DEF b
<1>10. BsTypeOK' BY <1>0, <1>2, <1>9 DEF BsTypeOK, BufferFits, Creating
<1>11. SearchInv' BY <1>0 DEF SearchInv
<1>12. (found.len > 0 => InSource(found.pos) /\ found.len = MatchLen(found.pos, scan))'
  BY <1>2, <1>9 DEF MatchLen, Agrees, InSource, At
<1>13. \A q \in 0 .. Len(old) - 1 : MatchLen(q, scan) <= found'.len
  <2>1. ASSUME NEW q \in 0 .. Len(old) - 1 PROVE MatchLen(q, scan) <= found'.len
    <3>1. \A z \in 0 .. Len(old) - 1 : MatchLen(z, scan) \in 0 .. Len(new) - scan
      <4>1. scan \in 0 .. Len(new) BY <1>3, <1>4
      <4>2. \A z \in 0 .. Len(old) - 1 : z \in Int OBVIOUS
      <4> QED BY <1>4, <4>1, <4>2, MatchLenFacts
    <3>2. \A z \in 0 .. Len(old) - 1 : MatchLen(z, scan) \in Int BY <3>1
    <3>3. b.len \in Int /\ found'.len \in Int BY <1>8, <1>9
    <3> QED BY <1>5, <1>6, <1>8, <1>9, <3>2, <3>3
  <2> QED BY <2>1
<1>14. (\A q \in 0 .. Len(old) - 1 : MatchLen(q, scan) <= found.len)'
  BY <1>2, <1>13 DEF MatchLen, Agrees, InSource, At
<1>15. MatchInv' /\ FindsTheLongest' BY <1>12, <1>14 DEF MatchInv, FindsTheLongest
<1> QED BY <1>3, <1>10, <1>11, <1>15 DEF BsInv

-----------------------------------------------------------------------------
(***************************************************************************)
(* The blocks written, and the patcher.                                    *)
(***************************************************************************)
\* The bytes of the source.
LEMMA SourceBytes ==
  ASSUME old \in Seq(Bytes), NEW p \in Int
  PROVE  SourceByte(p) \in Bytes
<1>1. 0 \in Bytes BY BsAssumption DEF Bytes
<1>2. ASSUME InSource(p) PROVE At(old, p) \in Bytes BY <1>2, SymFacts
<1> QED BY <1>1, <1>2 DEF SourceByte

\* The bytes added.
LEMMA AddedBytes ==
  ASSUME BsTypeOK, NEW n \in Nat, lastScan + n <= Len(new)
  PROVE  /\ Added(n) \in Seq(Bytes) /\ Len(Added(n)) = n
         /\ \A i \in 1 .. n :
              Added(n)[i] = (new[lastScan + i] - SourceByte(lastPos + i - 1)) % Byte
<1>1. /\ old \in Seq(Bytes) /\ new \in Seq(Bytes) /\ Len(new) \in Nat
      /\ lastScan \in Nat /\ lastPos \in Nat
  BY LenProperties DEF BsTypeOK, BufferFits
<1> DEFINE d(i) == (new[lastScan + i] - SourceByte(lastPos + i - 1)) % Byte
<1>2. \A i \in 1 .. n : (At(new, lastScan + i - 1) - SourceByte(lastPos + i - 1)) % Byte = d(i)
  <2>1. \A i \in 1 .. n : (lastScan + i - 1) + 1 = lastScan + i BY <1>1
  <2> QED BY <2>1 DEF At
<1>3. ASSUME NEW i \in 1 .. n PROVE d(i) \in Bytes
  <2>1. lastScan + i \in 1 .. Len(new) /\ lastPos + i - 1 \in Int BY <1>1
  <2>2. new[lastScan + i] \in Bytes BY <1>1, <2>1
  <2>3. SourceByte(lastPos + i - 1) \in Bytes BY <1>1, <2>1, SourceBytes
  <2> QED BY <2>2, <2>3, ByteDifference
<1>4. Added(n) = [i \in 1 .. n |-> d(i)] BY <1>2 DEF Added
<1> HIDE DEF d
<1>5. Added(n) \in Seq(Bytes) /\ Len(Added(n)) = n BY <1>3, <1>4, IsASeq
<1> QED BY <1>4, <1>5 DEF d

\* A block goes on with the trace of the ones before.
LEMMA BlockExtends ==
  ASSUME BsTypeOK, lastScan < Len(new), NEW points, IsTrace(patch, points, Here),
         NEW n \in Nat, NEW insert \in Seq(Bytes), NEW seek \in Int,
         lastScan + n + Len(insert) <= Len(new), Fits(Magnitude(seek)),
         \A i \in 1 .. Len(insert) : insert[i] = new[lastScan + n + i],
         NEW Q, Q = patch \o Block(Added(n), insert, seek),
         NEW end, end = [place |-> Len(Q), made |-> lastScan + n + Len(insert),
                         from |-> lastPos + seek + n]
  PROVE  Q \in Seq(Bytes) /\ end \in Points /\ IsTrace(Q, points \cup {end}, end)
<1> DEFINE k == Len(insert)
<1>1. /\ patch \in Seq(Bytes) /\ Len(patch) \in Nat /\ Len(new) \in Nat /\ k \in Nat
      /\ lastScan \in Nat /\ lastPos \in Nat /\ NumBytes \in Nat
      /\ \A m \in 0 .. Len(new) : Fits(m)
  BY BsAssumption, LenProperties DEF BsTypeOK, BufferFits
<1>2. n \in 0 .. Len(new) /\ k \in 0 .. Len(new) /\ lastScan + n <= Len(new) BY <1>1
<1>3. /\ Added(n) \in Seq(Bytes) /\ Len(Added(n)) = n
      /\ \A i \in 1 .. n :
           Added(n)[i] = (new[lastScan + i] - SourceByte(lastPos + i - 1)) % Byte
  BY <1>2, AddedBytes
<1>4. ReadNumber(WriteNumber(n)) = n /\ ReadNumber(WriteNumber(k)) = k
      /\ ReadNumber(WriteNumber(seek)) = seek
  <2>1. Magnitude(n) = n /\ Magnitude(k) = k BY <1>1 DEF Magnitude
  <2>2. Fits(Magnitude(n)) /\ Fits(Magnitude(k)) BY <1>1, <1>2, <2>1
  <2>3. n \in Int /\ k \in Int BY <1>1
  <2> QED BY <2>2, <2>3, ReadsTheNumber
<1>5. /\ Q \in Seq(Bytes)
      /\ Len(Q) = Len(patch) + 3 * NumBytes + n + k
      /\ \A i \in 1 .. Len(patch) : Q[i] = patch[i]
      /\ Slice(Q, Len(patch), NumBytes) = WriteNumber(n)
      /\ Slice(Q, Len(patch) + NumBytes, NumBytes) = WriteNumber(k)
      /\ Slice(Q, Len(patch) + 2 * NumBytes, NumBytes) = WriteNumber(seek)
      /\ \A i \in 1 .. n : Q[Len(patch) + 3 * NumBytes + i] = Added(n)[i]
      /\ \A i \in 1 .. k : Q[Len(patch) + 3 * NumBytes + n + i] = insert[i]
  <2> DEFINE add == Added(n)
  <2>1. add \in Seq(Bytes) /\ Len(add) = n /\ Q = patch \o Block(add, insert, seek) BY <1>3
  <2> HIDE DEF add
  <2>2. patch \in Seq(Bytes) BY <1>1
  <2>3. EndsInBlock(Q, patch, add, insert, seek) BY <2>1, <2>2, BlockInPlace
  <2> QED BY Zenon, <2>1, <2>3 DEF add, EndsInBlock
<1>6. Len(Q) \in Nat /\ Len(patch) <= Len(Q) BY <1>1, <1>5
<1> HIDE DEF k
<1>7. end \in Points /\ end.place = Len(Q) /\ end.made = lastScan + n + k
      /\ end.from = lastPos + seek + n
  <2>1. lastScan + n + k \in Nat /\ lastPos + seek + n \in Int BY <1>1
  <2> QED BY <1>6, <2>1 DEF Points, k
<1>8. Here.place = Len(patch) /\ Here.made = lastScan /\ Here.from = lastPos BY DEF Here
<1>9. IsBlock(Here, end, Q)
  <2>1. /\ end.place = Here.place + 3 * NumBytes + n + k /\ end.place <= Len(Q)
        /\ end.made = Here.made + n + k /\ end.made <= Len(new)
        /\ end.from = Here.from + seek + n
    BY <1>5, <1>6, <1>7, <1>8 DEF k
  <2>2. /\ ReadNumber(Slice(Q, Here.place, NumBytes)) = n
        /\ ReadNumber(Slice(Q, Here.place + NumBytes, NumBytes)) = k
        /\ ReadNumber(Slice(Q, Here.place + 2 * NumBytes, NumBytes)) = seek
    BY <1>4, <1>5, <1>8
  <2>3. \A i \in 1 .. n : Q[Here.place + 3 * NumBytes + i]
                            = (new[Here.made + i] - SourceByte(Here.from + i - 1)) % Byte
    BY Zenon, <1>3, <1>5, <1>8
  <2>4. \A i \in 1 .. k : Q[Here.place + 3 * NumBytes + n + i] = new[Here.made + n + i]
    BY Zenon, <1>5, <1>8 DEF k
  <2> QED BY <1>1, <2>1, <2>2, <2>3, <2>4 DEF IsBlock
<1>10. /\ points \subseteq Points /\ StartPoint \in points
       /\ \A a \in points :
            a = Here \/ (a.made < Len(new) /\ \E b \in points : IsBlock(a, b, patch))
  BY DEF IsTrace
<1>11. ASSUME NEW a \in points, a # Here
       PROVE  a.made < Len(new) /\ \E b \in points \cup {end} : IsBlock(a, b, Q)
  <2>1. PICK b \in points : IsBlock(a, b, patch) BY <1>10, <1>11
  <2>2. a \in Points /\ b \in Points BY <1>10
  <2>3. IsBlock(a, b, Q) BY <1>1, <1>5, <1>6, <2>1, <2>2, KeepsBlocks
  <2> QED BY <1>10, <1>11, <2>3
<1>12. IsTrace(Q, points \cup {end}, end)
  <2>1. \A a \in points \cup {end} :
          a = end \/ (a.made < Len(new) /\ \E b \in points \cup {end} : IsBlock(a, b, Q))
    <3>1. ASSUME NEW a \in points
          PROVE  a.made < Len(new) /\ \E b \in points \cup {end} : IsBlock(a, b, Q)
      BY <1>8, <1>9, <1>11
    <3> QED BY <3>1
  <2> QED BY <1>7, <1>10, <2>1 DEF IsTrace
<1> QED BY <1>5, <1>7, <1>12

\* A match that is worth a block has a byte.
LEMMA WorthIsFound ==
  ASSUME BsTypeOK, WorthABlock
  PROVE  found.len > 0
<1> DEFINE S == {i \in 0 .. found.len - 1 : Agrees(scan + i, scan + lastOffset + i)}
<1>1. found.len \in Nat BY DEF BsTypeOK
<1>2. IsFiniteSet(0 .. found.len - 1) BY <1>1, FS_Interval
<1>3. Cardinality(S) \in Nat BY <1>2, FS_Subset, FS_CardinalityType
<1>4. found.len > Cardinality(S) + MinMatch BY DEF WorthABlock, OldScore
<1>5. MinMatch \in Nat BY BsAssumption
<1> QED BY <1>1, <1>3, <1>4, <1>5

\* Where the extensions of a block end: the one before the match at a byte that agrees, or
\* in its place; the match at one that agrees, behind it.  If the first byte behind the last
\* block agrees, it is in the one before.
LEMMA BlockEnds ==
  ASSUME BsInv, bsPc = "found", WorthABlock,
         NEW forward \in 0 .. scan - lastScan,
         IsExtension(forward, scan - lastScan, AgreeForward),
         NEW backward \in 0 .. BackwardLimit(forward),
         IsExtension(backward, BackwardLimit(forward), AgreeBackward(forward))
  PROVE  /\ forward \in Nat /\ backward \in Nat
         /\ lastScan + forward <= scan - backward
         /\ scan + found.len <= Len(new)
         /\ lastPos + forward <= Len(old)
         /\ Agrees(scan - backward, found.pos - backward) /\ found.pos - backward \in Nat
         /\ found.pos - backward < Len(old) /\ found.len > 0
         /\ patch # <<>> => forward > 0
<1>1. /\ Len(old) \in Nat /\ Len(new) \in Nat /\ scan \in Nat /\ lastScan \in Nat
      /\ lastPos \in Nat /\ found.pos \in Nat /\ found.len \in Nat
  <2>1. old \in Seq(Bytes) /\ new \in Seq(Bytes) /\ found \in [pos : Nat, len : Nat]
        /\ scan \in Nat /\ lastScan \in Nat /\ lastPos \in Nat
    BY DEF BsInv, BsTypeOK, BufferFits
  <2> QED BY <2>1, LenProperties
<1>2. lastScan < scan /\ scan < Len(new) /\ lastPos <= Len(old)
      /\ (patch # <<>> => Agrees(lastScan, lastPos))
  BY DEF BsInv, ScanInv, Creating
<1>3. found.len > 0 BY WorthIsFound DEF BsInv
<1>4. InSource(found.pos) /\ found.len = MatchLen(found.pos, scan)
  BY <1>3 DEF BsInv, MatchInv
<1>5. /\ MatchLen(found.pos, scan) \in 0 .. Len(new) - scan
      /\ \A i \in 0 .. MatchLen(found.pos, scan) - 1 : Agrees(scan + i, found.pos + i)
  <2>1. scan \in 0 .. Len(new) /\ found.pos \in Int BY <1>1, <1>2
  <2> QED BY <1>1, <2>1, MatchLenFacts
<1>6. scan + found.len <= Len(new) BY <1>1, <1>4, <1>5
<1>7. Agrees(scan, found.pos)
  <2>1. 0 \in 0 .. found.len - 1 /\ scan + 0 = scan /\ found.pos + 0 = found.pos BY <1>1, <1>3
  <2> QED BY <1>4, <1>5, <2>1
<1> DEFINE n == scan - lastScan
<1>8. n \in Nat /\ n > 0 /\ forward \in 0 .. n /\ forward \in Nat
      /\ AgreeForward \in SUBSET (1 .. n)
  BY <1>1, <1>2 DEF AgreeForward
<1>9. (forward > 0 => forward \in AgreeForward) /\ (1 \in AgreeForward => forward > 0)
  <2> HIDE DEF n
  <2>1. IsExtension(forward, n, AgreeForward) BY DEF n
  <2> QED BY <1>8, <2>1, ExtensionEnds
<1>10. lastPos + forward <= Len(old)
  <2>1. CASE forward > 0
    <3>1. Agrees(lastScan + forward - 1, lastPos + forward - 1) BY <1>9, <2>1 DEF AgreeForward
    <3> QED BY <1>1, <1>8, <3>1 DEF Agrees, InSource
  <2> QED BY <1>1, <1>2, <1>8, <2>1
<1>11. patch # <<>> => forward > 0
  <2>1. ASSUME patch # <<>> PROVE 1 \in AgreeForward
    <3>1. lastScan + 1 - 1 = lastScan /\ lastPos + 1 - 1 = lastPos /\ 1 \in 1 .. scan - lastScan
      BY <1>1, <1>8
    <3> QED BY <1>2, <2>1, <3>1 DEF AgreeForward
  <2> QED BY <1>9, <2>1
<1> DEFINE limit == BackwardLimit(forward)
<1>12. limit \in Nat /\ limit = scan - (lastScan + forward) BY <1>1, <1>8 DEF BackwardLimit
<1>13. backward \in 0 .. limit /\ AgreeBackward(forward) \in SUBSET (1 .. limit)
  BY DEF AgreeBackward
<1>14. backward > 0 => backward \in AgreeBackward(forward)
  <2>1. IsExtension(backward, limit, AgreeBackward(forward)) OBVIOUS
  <2> HIDE DEF limit
  <2> QED BY <1>12, <1>13, <2>1, ExtensionEnds
<1>15. backward \in Nat /\ lastScan + forward <= scan - backward
  <2> HIDE DEF limit
  <2> QED BY <1>1, <1>8, <1>12, <1>13
<1>16. Agrees(scan - backward, found.pos - backward)
  <2>1. CASE backward > 0 BY <1>14, <2>1 DEF AgreeBackward
  <2>2. CASE backward = 0
    <3>1. scan - 0 = scan /\ found.pos - 0 = found.pos BY <1>1
    <3> QED BY <1>7, <2>2, <3>1
  <2> QED BY <1>15, <2>1, <2>2
<1>17. found.pos - backward \in Nat /\ found.pos - backward < Len(old)
  BY <1>1, <1>15, <1>16 DEF Agrees, InSource
<1> QED BY <1>3, <1>6, <1>8, <1>10, <1>11, <1>15, <1>16, <1>17

\* A block goes on with the trace, and takes the patch on.
LEMMA WriteBlockStep ==
  ASSUME BsInv, WriteBlock
  PROVE  BsInv' /\ (patch # <<>> => lastScan' > lastScan)
<1>0. BsTypeOK /\ ScanInv /\ SortInv /\ bsPc = "found" /\ bsPc' = "block" /\ WorthABlock
      /\ UNCHANGED <<sortVars, searchVars, patchVars>>
  BY DEF BsInv, WriteBlock
<1>1. UNCHANGED <<old, new, rank, sortWidth, suffixes, lo, hi, found, patchPos, oldPos, rebuilt>>
  BY <1>0 DEF sortVars, searchVars, patchVars
<1>2. PICK forward \in 0 .. scan - lastScan :
        /\ IsExtension(forward, scan - lastScan, AgreeForward)
        /\ \E backward \in 0 .. BackwardLimit(forward) :
             /\ IsExtension(backward, BackwardLimit(forward), AgreeBackward(forward))
             /\ EmitBlock(forward, backward)
  BY DEF WriteBlock
<1>3. PICK backward \in 0 .. BackwardLimit(forward) :
        /\ IsExtension(backward, BackwardLimit(forward), AgreeBackward(forward))
        /\ EmitBlock(forward, backward)
  BY <1>2
<1>4. /\ forward \in Nat /\ backward \in Nat
      /\ lastScan + forward <= scan - backward
      /\ scan + found.len <= Len(new)
      /\ lastPos + forward <= Len(old)
      /\ Agrees(scan - backward, found.pos - backward) /\ found.pos - backward \in Nat
      /\ found.pos - backward < Len(old) /\ found.len > 0
      /\ patch # <<>> => forward > 0
  BY <1>0, <1>2, <1>3, BlockEnds
<1>5. /\ old \in Seq(Bytes) /\ new \in Seq(Bytes) /\ Len(old) \in Nat /\ Len(new) \in Nat
      /\ scan \in Nat /\ lastScan \in Nat /\ lastPos \in Nat
      /\ found.pos \in Nat /\ found.len \in Nat /\ patch \in Seq(Bytes)
      /\ \A m \in 0 .. Len(old) : Fits(m)
  <2>1. /\ old \in Seq(Bytes) /\ new \in Seq(Bytes) /\ found \in [pos : Nat, len : Nat]
        /\ scan \in Nat /\ lastScan \in Nat /\ lastPos \in Nat /\ patch \in Seq(Bytes)
        /\ \A m \in 0 .. Len(old) : Fits(m)
    BY <1>0 DEF BsTypeOK, BufferFits
  <2> QED BY <2>1, LenProperties
<1>6. lastScan < Len(new) BY <1>0 DEF ScanInv, Creating
<1> DEFINE k == scan - backward - (lastScan + forward)
           insert == Slice(new, lastScan + forward, k)
           pos == found.pos - backward
           seek == pos - (lastPos + forward)
<1>7. /\ patch' = patch \o Block(Added(forward), insert, seek)
      /\ lastScan' = scan - backward /\ lastPos' = pos
      /\ lastOffset' = found.pos - scan
      /\ scan' = scan - backward + found.len
  BY <1>3 DEF EmitBlock
<1>8. k \in Nat /\ lastScan + forward + k = scan - backward BY <1>4, <1>5
<1>9. insert \in Seq(Bytes) /\ Len(insert) = k
      /\ \A i \in 1 .. k : insert[i] = new[lastScan + forward + i]
  <2>1. insert = [i \in 1 .. k |-> new[lastScan + forward + i]] BY DEF Slice
  <2>2. \A i \in 1 .. k : new[lastScan + forward + i] \in Bytes
    <3>1. \A i \in 1 .. k : lastScan + forward + i \in 1 .. Len(new) BY <1>4, <1>5, <1>8
    <3>2. \A j \in 1 .. Len(new) : new[j] \in Bytes BY <1>5
    <3> QED BY Zenon, <3>1, <3>2
  <2> HIDE DEF k, insert
  <2>3. insert \in Seq(Bytes) /\ Len(insert) = k BY <1>8, <2>1, <2>2, IsASeq
  <2> QED BY <2>1, <2>3
<1>10. seek \in Int /\ Fits(Magnitude(seek))
  <2>1. pos \in Nat /\ pos < Len(old) /\ lastPos + forward \in Nat /\ lastPos + forward <= Len(old)
    BY <1>4, <1>5
  <2> HIDE DEF pos
  <2>2. seek \in Int /\ -Len(old) <= seek /\ seek <= Len(old) BY <1>5, <2>1
  <2> HIDE DEF seek
  <2>3. Magnitude(seek) \in 0 .. Len(old) BY <1>5, <2>2 DEF Magnitude
  <2> QED BY <1>5, <2>2, <2>3
<1>11. PICK points : IsTrace(patch, points, Here) BY <1>0 DEF BsInv, TraceInv, Creating
<1>12. PICK Q : Q = patch' OBVIOUS
<1> DEFINE e == [place |-> Len(Q), made |-> lastScan + forward + Len(insert),
                 from |-> lastPos + seek + forward]
<1>13. PICK end : end = e OBVIOUS
<1>14. Q \in Seq(Bytes) /\ end \in Points /\ IsTrace(Q, points \cup {end}, end)
  <2>1. lastScan + forward + Len(insert) <= Len(new)
    <3>1. scan - backward <= Len(new) BY <1>4, <1>5
    <3> QED BY <1>8, <1>9, <3>1
  <2>2. Q = patch \o Block(Added(forward), insert, seek) BY <1>7, <1>12
  <2>3. \A i \in 1 .. Len(insert) : insert[i] = new[lastScan + forward + i] BY <1>9
  <2> HIDE DEF k, insert, seek
  <2>4. insert \in Seq(Bytes) /\ forward \in Nat BY <1>4, <1>9
  <2> QED BY Zenon, <1>0, <1>6, <1>10, <1>11, <1>13, <2>1, <2>2, <2>3, <2>4, BlockExtends
<1>15. Here' = end
  <2>1. lastScan + forward + Len(insert) = scan - backward BY <1>8, <1>9
  <2>2. lastPos + seek + forward = pos
    <3>1. pos \in Nat BY <1>4
    <3> HIDE DEF pos
    <3> QED BY <1>4, <1>5, <3>1
  <2> QED BY <1>7, <1>12, <1>13, <2>1, <2>2 DEF Here
<1>16. TraceInv'
  <2>1. IsTrace(Q, points \cup {end}, end)' BY <1>1, <1>14, SameTexts
  <2>2. (\E ps : IsTrace(patch, ps, Here))' BY <1>12, <1>15, <2>1
  <2>3. patchPos = 0 /\ oldPos = 0 /\ rebuilt = <<>> BY <1>0 DEF BsInv, TraceInv, Creating
  <2> QED BY <1>0, <1>1, <2>2, <2>3 DEF TraceInv, Delivering
<1>17. /\ scan' \in Nat /\ lastScan' \in Nat /\ lastPos' \in Nat /\ lastOffset' \in Int
       /\ lastScan' < Len(new) /\ lastPos' <= Len(old) /\ lastScan' <= scan' /\ scan' <= Len(new)
  <2> DEFINE f == found.len
             g == found.pos
  <2>1. /\ f \in Nat /\ g \in Nat /\ f > 0 /\ scan + f <= Len(new) /\ g - backward \in Nat
        /\ g - backward < Len(old) /\ backward \in Nat /\ lastScan + forward <= scan - backward
        /\ forward \in Nat
    BY <1>4, <1>5
  <2>2. scan \in Nat /\ lastScan \in Nat /\ Len(old) \in Nat /\ Len(new) \in Nat BY <1>5
  <2>3. lastScan' = scan - backward /\ lastPos' = g - backward /\ lastOffset' = g - scan
        /\ scan' = scan - backward + f
    BY <1>7
  <2> HIDE DEF f, g
  <2> QED BY <2>1, <2>2, <2>3
<1>18. BsTypeOK'
  <2>1. patch' \in Seq(Bytes) BY <1>12, <1>14
  <2> QED BY <1>0, <1>1, <1>17, <2>1 DEF BsTypeOK, BufferFits, Creating
<1>19. ScanInv'
  <2>1. Agrees(lastScan, lastPos)' BY <1>1, <1>4, <1>7 DEF Agrees, InSource, At
  <2>2. (lastScan < Len(new) /\ lastPos <= Len(old) /\ lastScan <= scan /\ scan <= Len(new))'
    BY <1>1, <1>17
  <2> QED BY <1>0, <2>1, <2>2 DEF ScanInv
<1>20. SortInv'
  <2>1. Ordered BY <1>0 DEF SortInv, Creating
  <2> QED BY <1>0, <1>1, <2>1, OrderStays DEF SortInv
<1>21. SearchInv' /\ MatchInv' /\ FindsTheLongest'
  BY <1>0 DEF SearchInv, MatchInv, FindsTheLongest
<1>22. PatchRebuilds'
  <2>1. rebuilt' = <<>> BY <1>0, <1>1 DEF BsInv, TraceInv, Creating
  <2> QED BY <1>0, <1>1, <1>5, <2>1 DEF PatchRebuilds
<1>23. patch # <<>> => lastScan' > lastScan BY <1>4, <1>5, <1>7
<1> QED BY <1>16, <1>18, <1>19, <1>20, <1>21, <1>22, <1>23 DEF BsInv

\* The last block makes the trace one of the whole target.
LEMMA WriteTailStep == ASSUME BsInv, WriteTail PROVE BsInv'
<1>0. /\ BsTypeOK /\ ScanInv /\ bsPc \in {"block", "search"} /\ bsPc' = "written"
      /\ patch' = IF lastScan < Len(new)
                  THEN patch \o Block(Added(Len(new) - lastScan), <<>>, 0) ELSE patch
  BY DEF BsInv, WriteTail
<1>1. /\ UNCHANGED <<old, new, rank, sortWidth, suffixes, scan, lo, hi, found>>
      /\ UNCHANGED <<lastScan, lastPos, lastOffset, patchPos, oldPos, rebuilt>>
  BY DEF WriteTail, sortVars, searchVars, lastVars, patchVars
<1>2. /\ Len(new) \in Nat /\ Len(old) \in Nat /\ lastScan \in Nat /\ patch \in Seq(Bytes)
      /\ \A m \in 0 .. Len(new) : Fits(m)
  BY <1>0, LenProperties DEF BsTypeOK, BufferFits
<1>3. lastScan < Len(new) BY <1>0 DEF ScanInv, Creating
<1> DEFINE n == Len(new) - lastScan
           none == <<>>
<1>4. n \in Nat /\ lastScan + n + 0 = Len(new) BY <1>2, <1>3
<1>5. none \in Seq(Bytes) /\ Len(none) = 0 OBVIOUS
<1>6. Fits(Magnitude(0)) BY <1>2 DEF Magnitude
<1>7. PICK points : IsTrace(patch, points, Here) BY <1>0 DEF BsInv, TraceInv, Creating
<1>8. PICK Q : Q = patch' OBVIOUS
<1>9. PICK end : end = [place |-> Len(Q), made |-> lastScan + n + Len(none),
                        from |-> lastPos + 0 + n]
  OBVIOUS
<1>10. Q \in Seq(Bytes) /\ end \in Points /\ IsTrace(Q, points \cup {end}, end)
  <2>1. Q = patch \o Block(Added(n), none, 0) BY <1>0, <1>3, <1>8
  <2>2. lastScan + n + Len(none) <= Len(new) BY <1>2, <1>4, <1>5
  <2>3. \A i \in 1 .. Len(none) : none[i] = new[lastScan + n + i] BY <1>5
  <2> HIDE DEF n, none
  <2>4. 0 \in Int OBVIOUS
  <2> QED BY <1>0, <1>3, <1>4, <1>5, <1>6, <1>7, <1>9, <2>1, <2>2, <2>3, <2>4, BlockExtends
<1>11. end.made = Len(new) BY <1>4, <1>5, <1>9
<1>12. patchPos = 0 /\ oldPos = 0 /\ rebuilt = <<>> BY <1>0 DEF BsInv, TraceInv, Creating
<1>13. PICK ps : ps = points \cup {end} OBVIOUS
<1>14. IsDelivered(Q, ps, end)'
  <2>1. IsTrace(Q, ps, end)' BY <1>1, <1>10, <1>13, SameTexts
  <2>2. PatcherAt' = StartPoint BY <1>1, <1>12 DEF PatcherAt, StartPoint
  <2>3. StartPoint \in ps BY <1>7, <1>13 DEF IsTrace
  <2>4. /\ Q \in Seq(Bytes) /\ end.made = Len(new') /\ patch' = Q /\ Len(Q) \in Nat /\ patchPos' = 0
        /\ bsPc' = "written"
    BY <1>0, <1>1, <1>8, <1>10, <1>11, <1>12, LenProperties
  <2>5. (PatcherAt \in ps)' BY <2>2, <2>3
  <2>6. (patchPos <= Len(patch))' BY <2>4
  <2>7. (Len(patch) <= Len(Q) /\ \A i \in 1 .. Len(patch) : patch[i] = Q[i])' BY <2>4
  <2> QED BY <2>1, <2>4, <2>5, <2>6, <2>7 DEF IsDelivered
<1>15. TraceInv' BY <1>0, <1>1, <1>12, <1>14 DEF TraceInv, Creating
<1>16. BsTypeOK'
  <2>1. patch' \in Seq(Bytes) BY <1>8, <1>10
  <2> QED BY <1>0, <1>1, <2>1 DEF BsTypeOK, BufferFits
<1>17. ScanInv' /\ SortInv' /\ SearchInv' /\ MatchInv' /\ FindsTheLongest'
  BY <1>0 DEF ScanInv, SortInv, SearchInv, MatchInv, FindsTheLongest, Creating
<1>18. PatchRebuilds' BY <1>0, <1>1, <1>2, <1>12 DEF PatchRebuilds
<1> QED BY <1>15, <1>16, <1>17, <1>18 DEF BsInv

\* Behind the creator, only what the patcher does counts.
LEMMA CreatorIsDone ==
  ASSUME BsTypeOK, UNCHANGED <<sortVars, scan, searchVars, lastVars>>,
         patch' \in Seq(Bytes), patchPos' \in Nat, oldPos' \in Int, rebuilt' \in Seq(Bytes),
         bsPc' \in {"whole", "cut", "failed", "refused"}
  PROVE  BsTypeOK' /\ ScanInv' /\ SortInv' /\ SearchInv' /\ MatchInv' /\ FindsTheLongest'
<1>1. UNCHANGED <<old, new, rank, sortWidth, suffixes, scan, lo, hi, found>>
      /\ UNCHANGED <<lastScan, lastPos, lastOffset>>
  BY DEF sortVars, searchVars, lastVars
<1>2. BsTypeOK' BY <1>1 DEF BsTypeOK, BufferFits
<1>3. ScanInv' /\ SortInv' /\ SearchInv' /\ MatchInv' /\ FindsTheLongest'
  BY DEF ScanInv, SortInv, SearchInv, MatchInv, FindsTheLongest, Creating
<1> QED BY <1>2, <1>3

\* What is delivered is the trace, or the part of it before the cut.
LEMMA DeliverStep == ASSUME BsInv, Deliver PROVE BsInv'
<1>0. /\ BsTypeOK /\ bsPc = "written"
      /\ UNCHANGED <<sortVars, scan, searchVars, lastVars, patchVars>>
  BY DEF BsInv, Deliver
<1>1. UNCHANGED <<old, new, patchPos, oldPos, rebuilt>> BY <1>0 DEF sortVars, patchVars
<1>2. PICK n \in 0 .. Len(patch) :
        patch' = Slice(patch, 0, n) /\ bsPc' = IF n = Len(patch) THEN "whole" ELSE "cut"
  BY DEF Deliver
<1>3. /\ patch \in Seq(Bytes) /\ Len(patch) \in Nat /\ Len(new) \in Nat /\ n \in Nat
      /\ \A j \in 1 .. Len(patch) : patch[j] \in Bytes
  BY <1>0, LenProperties DEF BsTypeOK, BufferFits
<1>4. patch' \in Seq(Bytes) /\ Len(patch') = n /\ \A i \in 1 .. n : patch'[i] = patch[i]
  <2>1. patch' = [i \in 1 .. n |-> patch[0 + i]] BY <1>2 DEF Slice
  <2>2. \A i \in 1 .. n : 0 + i = i /\ i \in 1 .. Len(patch) BY <1>3
  <2>3. patch' = [i \in 1 .. n |-> patch[i]] BY <2>1, <2>2
  <2>4. \A i \in 1 .. n : patch[i] \in Bytes BY <1>3, <2>2
  <2>5. patch' \in Seq(Bytes) /\ Len(patch') = n BY <1>3, <2>3, <2>4, IsASeq
  <2> QED BY <2>3, <2>5
<1>5. PICK written, points, end : IsDelivered(written, points, end)
  BY <1>0 DEF BsInv, TraceInv, Delivering
<1>6. patchPos = 0 /\ oldPos = 0 /\ rebuilt = <<>> BY <1>0 DEF BsInv, TraceInv
<1>7. /\ written \in Seq(Bytes) /\ IsTrace(written, points, end) /\ end.made = Len(new)
      /\ Len(patch) = Len(written) /\ \A i \in 1 .. Len(patch) : patch[i] = written[i]
      /\ PatcherAt \in points
  BY <1>0, <1>5 DEF IsDelivered
<1>8. IsDelivered(written, points, end)'
  <2>1. IsTrace(written, points, end)' BY <1>1, <1>7, SameTexts
  <2>2. (PatcherAt \in points)' BY <1>1, <1>6, <1>7 DEF PatcherAt
  <2>3. (Len(patch) <= Len(written) /\ \A i \in 1 .. Len(patch) : patch[i] = written[i])'
    <3>1. \A i \in 1 .. n : i \in 1 .. Len(patch) BY <1>3
    <3> QED BY <1>3, <1>4, <1>7, <3>1
  <2>4. (/\ bsPc \in {"written", "whole"} => Len(patch) = Len(written)
         /\ bsPc \in {"cut", "refused"} => Len(patch) < Len(written))'
    BY <1>2, <1>3, <1>4, <1>7
  <2>5. (patchPos <= Len(patch))' BY <1>1, <1>3, <1>4, <1>6
  <2>6. (end.made = Len(new))' BY <1>1, <1>7
  <2> QED BY <1>7, <2>1, <2>2, <2>3, <2>4, <2>5, <2>6 DEF IsDelivered
<1>9. TraceInv' BY <1>2, <1>8 DEF TraceInv, Creating
<1>10. bsPc' \in {"whole", "cut", "failed", "refused"} BY <1>2
<1>11. BsTypeOK' /\ ScanInv' /\ SortInv' /\ SearchInv' /\ MatchInv' /\ FindsTheLongest'
  <2>1. patchPos' \in Nat /\ oldPos' \in Int /\ rebuilt' \in Seq(Bytes)
    BY <1>0, <1>1 DEF BsTypeOK
  <2> QED BY <1>0, <1>4, <1>10, <2>1, CreatorIsDone
<1>12. PatchRebuilds'
  <2>1. bsPc' = "cut" => Len(new) > 0
    <3>1. SUFFICES ASSUME bsPc' = "cut" PROVE Len(new) > 0 OBVIOUS
    <3>2. Len(written) > 0 BY <1>2, <1>3, <1>7, <3>1
    <3>3. end.place = Len(written) BY <1>7 DEF IsTrace
    <3>4. PatcherAt.place = 0 /\ PatcherAt.made = 0 BY <1>6 DEF PatcherAt
    <3>5. PatcherAt # end BY <3>2, <3>3, <3>4
    <3>6. PatcherAt.made < Len(new) BY <1>7, <3>5 DEF IsTrace
    <3> QED BY <3>4, <3>6
  <2> QED BY <1>1, <1>2, <1>3, <1>6, <2>1 DEF PatchRebuilds
<1> QED BY <1>9, <1>11, <1>12 DEF BsInv

\* While the target is not full, the patcher is before a block, whose numbers and bytes are in
\* the patch if it goes that far.
LeadsTo(b, add, insert, seek) ==
  /\ b \in Points /\ b.place = BlockBody + add + insert
  /\ b.made = Len(rebuilt) + add + insert /\ b.made <= Len(new)
  /\ b.from = oldPos + seek + add
  /\ BlockBody <= Len(patch) => AddLen = add /\ InsertLen = insert /\ SeekDist = seek
  /\ b.place <= Len(patch) =>
       /\ \A i \in 1 .. add :
            patch[BlockBody + i] = (new[Len(rebuilt) + i] - SourceByte(oldPos + i - 1)) % Byte
       /\ \A i \in 1 .. insert : patch[BlockBody + add + i] = new[Len(rebuilt) + add + i]

\* The block leads to another point of the trace.
LEMMA BeforeABlock ==
  ASSUME BsTypeOK, NEW written, NEW points, NEW end, IsDelivered(written, points, end),
         Len(rebuilt) < Len(new)
  PROVE  \E b \in points, add, insert \in Nat, seek \in Int :
           LeadsTo(b, add, insert, seek) /\ b.place <= Len(written)
<1>1. /\ written \in Seq(Bytes) /\ IsTrace(written, points, end) /\ end.made = Len(new)
      /\ Len(patch) <= Len(written) /\ PatcherAt \in points
  BY DEF IsDelivered
<1>2. \A i \in 1 .. Len(patch) : patch[i] = written[i] BY DEF IsDelivered
<1>3. PatcherAt.place = patchPos /\ PatcherAt.made = Len(rebuilt) /\ PatcherAt.from = oldPos
  BY DEF PatcherAt
<1>4. /\ Len(rebuilt) \in Nat /\ Len(new) \in Nat /\ Len(patch) \in Nat /\ patchPos \in Nat
      /\ NumBytes \in Nat
  BY BsAssumption, LenProperties DEF BsTypeOK, BufferFits
<1>5. PatcherAt # end BY <1>1, <1>3, <1>4
<1>6. PICK b \in points : IsBlock(PatcherAt, b, written) BY <1>1, <1>5 DEF IsTrace
<1>7. PICK add \in Nat, insert \in Nat, seek \in Int :
        /\ b.place = patchPos + 3 * NumBytes + add + insert /\ b.place <= Len(written)
        /\ b.made = Len(rebuilt) + add + insert /\ b.made <= Len(new)
        /\ b.from = oldPos + seek + add
        /\ ReadNumber(Slice(written, patchPos, NumBytes)) = add
        /\ ReadNumber(Slice(written, patchPos + NumBytes, NumBytes)) = insert
        /\ ReadNumber(Slice(written, patchPos + 2 * NumBytes, NumBytes)) = seek
        /\ \A i \in 1 .. add :
             written[patchPos + 3 * NumBytes + i]
               = (new[Len(rebuilt) + i] - SourceByte(oldPos + i - 1)) % Byte
        /\ \A i \in 1 .. insert :
             written[patchPos + 3 * NumBytes + add + i] = new[Len(rebuilt) + add + i]
  BY <1>3, <1>6 DEF IsBlock
<1>8. ASSUME BlockBody <= Len(patch) PROVE AddLen = add /\ InsertLen = insert /\ SeekDist = seek
  <2> DEFINE n == NumBytes
             from == patchPos
  <2>1. n \in Nat /\ from \in Nat /\ from + 3 * n <= Len(patch) /\ Len(patch) \in Nat
    BY <1>4, <1>8 DEF BlockBody
  <2> HIDE DEF n, from
  <2>2. \A i \in 1 .. n : /\ from + i \in 1 .. Len(patch)
                          /\ (from + n) + i \in 1 .. Len(patch)
                          /\ (from + 2 * n) + i \in 1 .. Len(patch)
    BY <2>1
  <2>3. /\ Slice(patch, from, n) = Slice(written, from, n)
        /\ Slice(patch, from + n, n) = Slice(written, from + n, n)
        /\ Slice(patch, from + 2 * n, n) = Slice(written, from + 2 * n, n)
    BY <1>2, <2>2 DEF Slice
  <2>4. from + 0 * n = from /\ from + 1 * n = from + n BY <2>1
  <2>5. Control(0) = add BY <1>7, <2>3, <2>4 DEF Control, n, from
  <2>6. Control(1) = insert BY <1>7, <2>3, <2>4 DEF Control, n, from
  <2>7. Control(2) = seek BY <1>7, <2>3 DEF Control, n, from
  <2> QED BY <2>5, <2>6, <2>7 DEF AddLen, InsertLen, SeekDist
<1> DEFINE body == patchPos + 3 * NumBytes
<1>9. body \in Nat /\ body = BlockBody BY <1>4 DEF BlockBody
<1>10. /\ \A i \in 1 .. add :
            written[body + i] = (new[Len(rebuilt) + i] - SourceByte(oldPos + i - 1)) % Byte
       /\ \A i \in 1 .. insert : written[body + add + i] = new[Len(rebuilt) + add + i]
       /\ b.place = body + add + insert
  BY <1>7
<1> HIDE DEF body
<1>11. ASSUME b.place <= Len(patch)
       PROVE  /\ \A i \in 1 .. add :
                   patch[body + i] = (new[Len(rebuilt) + i] - SourceByte(oldPos + i - 1)) % Byte
              /\ \A i \in 1 .. insert : patch[body + add + i] = new[Len(rebuilt) + add + i]
  <2>1. body + add + insert <= Len(patch) BY <1>10, <1>11
  <2>2. \A i \in 1 .. add : body + i \in 1 .. Len(patch) BY <1>4, <1>9, <2>1
  <2>3. \A i \in 1 .. insert : body + add + i \in 1 .. Len(patch) BY <1>4, <1>9, <2>1
  <2> QED BY Zenon, <1>2, <1>10, <2>2, <2>3
<1>12. b \in Points BY <1>1 DEF IsTrace
<1>13. /\ b.place <= Len(written) /\ b.made = Len(rebuilt) + add + insert /\ b.made <= Len(new)
       /\ b.from = oldPos + seek + add
  BY <1>7
<1>14. LeadsTo(b, add, insert, seek)
  BY <1>8, <1>9, <1>10, <1>11, <1>12, <1>13 DEF LeadsTo
<1> QED BY <1>13, <1>14

\* A block takes the patcher to the next point of the trace.
LEMMA PatchBlockStep == ASSUME BsInv, PatchBlock PROVE BsInv'
<1>0. /\ BsTypeOK /\ bsPc \in {"whole", "cut"} /\ bsPc' = bsPc /\ Len(rebuilt) < Len(new)
      /\ BlockBody <= Len(patch) /\ BlockBody + AddLen + InsertLen <= Len(patch)
      /\ UNCHANGED <<sortVars, scan, searchVars, lastVars, patch>>
  BY DEF BsInv, PatchBlock, BlockApplies
<1>1. UNCHANGED <<old, new, patch>> BY <1>0 DEF sortVars
<1>2. PICK written, points, end : IsDelivered(written, points, end)
  BY <1>0 DEF BsInv, TraceInv, Delivering
<1>a. PICK b \in points, add \in Nat, insert \in Nat, seek \in Int :
        LeadsTo(b, add, insert, seek) /\ b.place <= Len(written)
  BY <1>0, <1>2, BeforeABlock
<1>3. /\ b \in Points /\ b.place = BlockBody + add + insert /\ b.place <= Len(written)
      /\ b.made = Len(rebuilt) + add + insert /\ b.made <= Len(new)
      /\ b.from = oldPos + seek + add
      /\ BlockBody <= Len(patch) => AddLen = add /\ InsertLen = insert /\ SeekDist = seek
      /\ b.place <= Len(patch) =>
           /\ \A i \in 1 .. add :
                patch[BlockBody + i] = (new[Len(rebuilt) + i] - SourceByte(oldPos + i - 1)) % Byte
           /\ \A i \in 1 .. insert : patch[BlockBody + add + i] = new[Len(rebuilt) + add + i]
  BY <1>a DEF LeadsTo
<1>4. AddLen = add /\ InsertLen = insert /\ SeekDist = seek /\ b.place <= Len(patch)
  BY <1>0, <1>3
<1> DEFINE body == BlockBody
           m == Len(rebuilt)
<1>5. /\ old \in Seq(Bytes) /\ new \in Seq(Bytes) /\ rebuilt \in Seq(Bytes) /\ m \in Nat
      /\ Len(new) \in Nat /\ body \in Nat /\ oldPos \in Int /\ m + add + insert <= Len(new)
      /\ \A j \in 1 .. Len(new) : new[j] \in Bytes
  <2>1. /\ old \in Seq(Bytes) /\ new \in Seq(Bytes) /\ rebuilt \in Seq(Bytes) /\ oldPos \in Int
        /\ patchPos \in Nat
    BY <1>0 DEF BsTypeOK, BufferFits
  <2>2. body \in Nat BY <2>1, BsAssumption DEF BlockBody
  <2>3. m + add + insert <= Len(new) BY <1>3
  <2> QED BY <2>1, <2>2, <2>3, LenProperties
<1> DEFINE s == [i \in 1 .. add |-> (patch[body + i] + SourceByte(oldPos + i - 1)) % Byte]
           t == Slice(patch, body + add, insert)
<1>6. rebuilt' = (rebuilt \o s) \o t /\ patchPos' = body + add + insert
      /\ oldPos' = oldPos + seek + add
  BY <1>4 DEF PatchBlock
<1>7. /\ \A i \in 1 .. add :
           patch[body + i] = (new[m + i] - SourceByte(oldPos + i - 1)) % Byte
      /\ \A i \in 1 .. insert : patch[body + add + i] = new[m + add + i]
  BY <1>3, <1>4
<1> HIDE DEF m, body
<1>8. s \in Seq(Bytes) /\ Len(s) = add /\ \A i \in 1 .. add : s[i] = new[m + i]
  <2>1. ASSUME NEW i \in 1 .. add
        PROVE  (patch[body + i] + SourceByte(oldPos + i - 1)) % Byte = new[m + i]
               /\ new[m + i] \in Bytes
    <3>1. m + i \in 1 .. Len(new) /\ oldPos + i - 1 \in Int BY <1>5
    <3>2. new[m + i] \in Bytes /\ SourceByte(oldPos + i - 1) \in Bytes BY <1>5, <3>1, SourceBytes
    <3> QED BY <1>7, <3>2, ByteDifference
  <2>2. s = [i \in 1 .. add |-> new[m + i]] BY <2>1
  <2> HIDE DEF s
  <2>3. s \in Seq(Bytes) /\ Len(s) = add BY <2>1, <2>2, IsASeq
  <2> QED BY <2>2, <2>3
<1>9. t \in Seq(Bytes) /\ Len(t) = insert /\ \A i \in 1 .. insert : t[i] = new[m + add + i]
  <2>1. ASSUME NEW i \in 1 .. insert PROVE new[m + add + i] \in Bytes
    <3>1. m + add + i \in 1 .. Len(new) BY <1>5
    <3> QED BY <1>5, <3>1
  <2>2. t = [i \in 1 .. insert |-> new[m + add + i]] BY <1>7 DEF Slice
  <2> HIDE DEF t
  <2>3. t \in Seq(Bytes) /\ Len(t) = insert BY <2>1, <2>2, IsASeq
  <2> QED BY <2>2, <2>3
<1> HIDE DEF s, t
<1>10. /\ rebuilt \o s \in Seq(Bytes) /\ Len(rebuilt \o s) = m + add
       /\ \A i \in 1 .. m : (rebuilt \o s)[i] = rebuilt[i]
       /\ \A i \in 1 .. add : (rebuilt \o s)[m + i] = s[i]
  <2>1. IsJoin(rebuilt \o s, rebuilt, m, s, add) BY <1>5, <1>8, JoinedBytes DEF m
  <2> QED BY <2>1 DEF IsJoin
<1> DEFINE u == rebuilt \o s
<1>11. u \in Seq(Bytes) /\ Len(u) = m + add /\ rebuilt' = u \o t BY <1>6, <1>10
<1> HIDE DEF u
<1>12. /\ rebuilt' \in Seq(Bytes) /\ Len(rebuilt') = (m + add) + insert
       /\ \A i \in 1 .. m + add : rebuilt'[i] = u[i]
       /\ \A i \in 1 .. insert : rebuilt'[(m + add) + i] = t[i]
  <2>1. IsJoin(u \o t, u, m + add, t, insert) BY <1>9, <1>11, JoinedBytes
  <2> QED BY <1>11, <2>1 DEF IsJoin
<1>13. \A i \in 1 .. m : rebuilt[i] = new[i]
  BY DEF BsInv, PatchRebuilds, m
<1>14. \A i \in 1 .. Len(rebuilt') : rebuilt'[i] = new[i]
  <2>1. ASSUME NEW i \in 1 .. m + add + insert PROVE rebuilt'[i] = new[i]
    <3>1. CASE i <= m
      <4>1. i \in 1 .. m /\ i \in 1 .. m + add BY <1>5, <3>1
      <4> QED BY <1>10, <1>12, <1>13, <4>1 DEF u
    <3>2. CASE i > m /\ i <= m + add
      <4>1. PICK j \in 1 .. add : i = m + j
        <5>1. i - m \in 1 .. add /\ i = m + (i - m) BY <1>5, <3>2
        <5> QED BY <5>1
      <4>2. i \in 1 .. m + add BY <1>5, <3>2
      <4> QED BY <1>8, <1>10, <1>12, <4>1, <4>2 DEF u
    <3>3. CASE i > m + add
      <4>1. PICK j \in 1 .. insert : i = (m + add) + j
        <5>1. i - (m + add) \in 1 .. insert /\ i = (m + add) + (i - (m + add)) BY <1>5, <3>3
        <5> QED BY <5>1
      <4> QED BY <1>9, <1>12, <4>1
    <3> QED BY <1>5, <3>1, <3>2, <3>3
  <2> QED BY <1>12, <2>1
<1>15. PatcherAt' = b
  <2>1. PatcherAt' = [place |-> patchPos', made |-> Len(rebuilt'), from |-> oldPos']
    BY DEF PatcherAt
  <2>2. b.place = patchPos' /\ b.made = Len(rebuilt') /\ b.from = oldPos'
    BY <1>3, <1>6, <1>12 DEF m, body
  <2>3. b = [place |-> b.place, made |-> b.made, from |-> b.from] BY <1>3 DEF Points
  <2> QED BY <2>1, <2>2, <2>3
<1>16. IsDelivered(written, points, end)'
  <2>1. /\ written \in Seq(Bytes) /\ IsTrace(written, points, end) /\ end.made = Len(new)
        /\ Len(patch) <= Len(written)
    BY <1>2 DEF IsDelivered
  <2>2. \A i \in 1 .. Len(patch) : patch[i] = written[i] BY <1>2 DEF IsDelivered
  <2>3. /\ bsPc \in {"written", "whole"} => Len(patch) = Len(written)
        /\ bsPc \in {"cut", "refused"} => Len(patch) < Len(written)
    BY <1>2 DEF IsDelivered
  <2>4. IsTrace(written, points, end)' BY <1>1, <2>1, SameTexts
  <2>5. (PatcherAt \in points)' BY <1>15
  <2>6. (patchPos <= Len(patch))' BY <1>1, <1>3, <1>4, <1>6 DEF body
  <2>7. (/\ bsPc \in {"written", "whole"} => Len(patch) = Len(written)
         /\ bsPc \in {"cut", "refused"} => Len(patch) < Len(written))'
    BY <1>0, <1>1, <2>3
  <2>8. (Len(patch) <= Len(written) /\ \A i \in 1 .. Len(patch) : patch[i] = written[i])'
    BY <1>1, <2>1, <2>2
  <2>9. (end.made = Len(new))' BY <1>1, <2>1
  <2> QED BY <2>1, <2>4, <2>5, <2>6, <2>7, <2>8, <2>9 DEF IsDelivered
<1>17. TraceInv' BY <1>0, <1>16 DEF TraceInv, Creating
<1>18. BsTypeOK' /\ ScanInv' /\ SortInv' /\ SearchInv' /\ MatchInv' /\ FindsTheLongest'
  <2>1. patchPos' \in Nat /\ oldPos' \in Int /\ patch' \in Seq(Bytes)
    BY <1>0, <1>1, <1>5, <1>6 DEF BsTypeOK
  <2> QED BY <1>0, <1>12, <2>1, CreatorIsDone
<1>19. PatchRebuilds'
  <2>1. Len(rebuilt') <= Len(new) BY <1>5, <1>12
  <2>2. bsPc' = "cut" => Len(rebuilt') < Len(new)
    <3>1. SUFFICES ASSUME bsPc = "cut" PROVE Len(rebuilt') < Len(new) BY <1>0
    <3>2. Len(patch) < Len(written) /\ end.place = Len(written)
      BY <1>2, <3>1 DEF IsDelivered, IsTrace
    <3>3. written \in Seq(Bytes) /\ Len(written) \in Nat /\ Len(patch) \in Nat /\ b.place \in Nat
      <4>1. written \in Seq(Bytes) /\ patch \in Seq(Bytes) BY <1>0, <1>2 DEF IsDelivered, BsTypeOK
      <4> QED BY <1>3, <4>1, LenProperties DEF Points
    <3>4. b # end BY <1>4, <3>2, <3>3
    <3>5. b.made < Len(new) BY <1>2, <3>4 DEF IsDelivered, IsTrace
    <3>6. b.made = Len(rebuilt') BY <1>15 DEF PatcherAt
    <3> QED BY <3>5, <3>6
  <2> QED BY <1>0, <1>1, <1>14, <2>1, <2>2 DEF PatchRebuilds
<1> QED BY <1>17, <1>18, <1>19 DEF BsInv

\* Only a patch that was cut is refused.
LEMMA RefuseStep == ASSUME BsInv, Refuse PROVE BsInv'
<1>0. /\ BsTypeOK /\ bsPc \in {"whole", "cut"} /\ Len(rebuilt) < Len(new) /\ ~BlockApplies
      /\ bsPc' = IF bsPc = "whole" THEN "failed" ELSE "refused"
      /\ UNCHANGED <<sortVars, scan, searchVars, lastVars, patch, patchVars>>
  BY DEF BsInv, Refuse
<1>1. UNCHANGED <<old, new, patch, patchPos, oldPos, rebuilt>> BY <1>0 DEF sortVars, patchVars
<1>2. PICK written, points, end : IsDelivered(written, points, end)
  BY <1>0 DEF BsInv, TraceInv, Delivering
<1>3. ASSUME bsPc = "whole" PROVE FALSE
  <2>a. PICK b \in points, add \in Nat, insert \in Nat, seek \in Int :
          LeadsTo(b, add, insert, seek) /\ b.place <= Len(written)
    BY <1>0, <1>2, BeforeABlock
  <2>1. /\ b.place = BlockBody + add + insert /\ b.place <= Len(written)
        /\ b.made = Len(rebuilt) + add + insert /\ b.made <= Len(new)
        /\ BlockBody <= Len(patch) => AddLen = add /\ InsertLen = insert /\ SeekDist = seek
    BY <2>a DEF LeadsTo
  <2>2. Len(patch) = Len(written) BY <1>2, <1>3 DEF IsDelivered
  <2>3. BlockBody \in Nat /\ Len(patch) \in Nat /\ Len(rebuilt) \in Nat /\ Len(new) \in Nat
    BY <1>0, BsAssumption, LenProperties DEF BsTypeOK, BufferFits, BlockBody
  <2>4. BlockBody + add + insert <= Len(patch) /\ Len(rebuilt) + add + insert <= Len(new)
    BY <2>1, <2>2
  <2>5. BlockBody <= Len(patch) BY <2>3, <2>4
  <2>6. AddLen = add /\ InsertLen = insert BY <2>1, <2>5
  <2> QED BY <1>0, <2>4, <2>5, <2>6 DEF BlockApplies
<1>4. bsPc = "cut" /\ bsPc' = "refused" BY <1>0, <1>3
<1>5. IsDelivered(written, points, end)'
  <2>1. /\ written \in Seq(Bytes) /\ IsTrace(written, points, end) /\ end.made = Len(new)
        /\ Len(patch) < Len(written) /\ PatcherAt \in points /\ patchPos <= Len(patch)
    BY <1>2, <1>4 DEF IsDelivered
  <2>2. \A i \in 1 .. Len(patch) : patch[i] = written[i] BY <1>2 DEF IsDelivered
  <2>3. IsTrace(written, points, end)' BY <1>1, <2>1, SameTexts
  <2>4. (PatcherAt \in points)' BY <1>1, <2>1 DEF PatcherAt
  <2>5. Len(patch) <= Len(written) BY <1>2 DEF IsDelivered
  <2>6. (Len(patch) <= Len(written) /\ \A i \in 1 .. Len(patch) : patch[i] = written[i])'
    BY <1>1, <2>2, <2>5
  <2>7. (end.made = Len(new) /\ Len(patch) < Len(written) /\ patchPos <= Len(patch))'
    BY <1>1, <2>1
  <2> QED BY <1>4, <2>1, <2>3, <2>4, <2>6, <2>7 DEF IsDelivered
<1>6. TraceInv' BY <1>4, <1>5 DEF TraceInv, Creating
<1>7. BsTypeOK' /\ ScanInv' /\ SortInv' /\ SearchInv' /\ MatchInv' /\ FindsTheLongest'
  <2>1. patchPos' \in Nat /\ oldPos' \in Int /\ patch' \in Seq(Bytes) /\ rebuilt' \in Seq(Bytes)
    BY <1>0, <1>1 DEF BsTypeOK
  <2> QED BY <1>0, <1>4, <2>1, CreatorIsDone
<1>8. PatchRebuilds' BY <1>0, <1>1, <1>4 DEF BsInv, PatchRebuilds
<1> QED BY <1>6, <1>7, <1>8 DEF BsInv

-----------------------------------------------------------------------------
(***************************************************************************)
(* The theorems.                                                           *)
(***************************************************************************)
\* Every step keeps the invariant, and the ones that write a block advance.
LEMMA NextBsInv == BsInv /\ [BsNext]_bsVars => BsInv' /\ [ScanAdvances]_bsVars
<1> SUFFICES ASSUME BsInv, [BsNext]_bsVars PROVE BsInv' /\ [ScanAdvances]_bsVars OBVIOUS
<1>1. CASE SortRound BY <1>1, SortRoundStep DEF SortRound, ScanAdvances
<1>2. CASE EndSort BY <1>2, EndSortStep DEF EndSort, ScanAdvances
<1>3. CASE BeginMatch BY <1>3, BeginMatchStep DEF BeginMatch, ScanAdvances
<1>4. CASE Probe BY <1>4, ProbeStep DEF Probe, ScanAdvances
<1>5. CASE EndMatch BY <1>5, EndMatchStep DEF EndMatch, ScanAdvances
<1>6. CASE NextBlock BY <1>6, NextBlockStep DEF NextBlock, ScanAdvances
<1>7. CASE SearchOn BY <1>7, SearchOnStep DEF SearchOn, ScanAdvances
<1>8. CASE WriteBlock BY <1>8, WriteBlockStep DEF ScanAdvances
<1>9. CASE WriteTail BY <1>9, WriteTailStep DEF WriteTail, ScanAdvances
<1>10. CASE Deliver BY <1>10, DeliverStep DEF Deliver, ScanAdvances
<1>11. CASE PatchBlock BY <1>11, PatchBlockStep DEF PatchBlock, ScanAdvances
<1>12. CASE Refuse BY <1>12, RefuseStep DEF Refuse, ScanAdvances
<1>13. CASE UNCHANGED bsVars
  <2>1. /\ UNCHANGED <<old, new, rank, sortWidth, suffixes, scan, lo, hi, found>>
        /\ UNCHANGED <<lastScan, lastPos, lastOffset, patch, bsPc, patchPos, oldPos, rebuilt>>
    BY <1>13 DEF bsVars, sortVars, searchVars, lastVars, patchVars
  <2>2. (BsTypeOK /\ ScanInv)'
    BY <2>1 DEF BsInv, BsTypeOK, BufferFits, ScanInv, Agrees, InSource, At
  <2>3. SortInv'
    <3>1. (bsPc = "sort" => Ranked)'
      <4>1. UNCHANGED <<old, rank, sortWidth>> BY <2>1
      <4>2. Ranked <=> Ranked' BY <4>1 DEF Ranked, TextLess, LessAt, SameText, Sym, InSource, At
      <4> QED BY <2>1, <4>2 DEF BsInv, SortInv
    <3>2. (bsPc \in Creating => Ordered)' BY <2>1, OrderStays DEF BsInv, SortInv
    <3> QED BY <3>1, <3>2 DEF SortInv
  <2>4. (SearchInv /\ MatchInv)'
    BY <2>1 DEF BsInv, SearchInv, MatchInv, Below, MatchLen, Agrees, InSource, At
  <2>5. (PatchRebuilds /\ FindsTheLongest)'
    <3>1. PatchRebuilds' BY <2>1 DEF BsInv, PatchRebuilds
    <3>2. FindsTheLongest <=> FindsTheLongest'
      BY <2>1 DEF FindsTheLongest, MatchLen, Agrees, InSource, At
    <3> QED BY <3>1, <3>2 DEF BsInv
  <2>6. TraceInv'
    <3>1. ASSUME bsPc \in Creating \cup {"sort"} PROVE TraceInv'
      BY <2>1, <3>1, NothingWritten DEF patchVars
    <3>2. ASSUME bsPc \in Delivering
          PROVE (\E written, points, end : IsDelivered(written, points, end))'
      <4>1. PICK written, points, end : IsDelivered(written, points, end)
        BY <3>2 DEF BsInv, TraceInv
      <4>2. IsTrace(written, points, end)' BY <2>1, <4>1, SameTexts DEF IsDelivered
      <4>3. IsDelivered(written, points, end)' BY <2>1, <4>1, <4>2 DEF IsDelivered, PatcherAt
      <4> QED BY <4>3
    <3> QED BY <2>1, <3>1, <3>2 DEF BsInv, TraceInv
  <2> QED BY <1>13, <2>2, <2>3, <2>4, <2>5, <2>6 DEF BsInv
<1> QED
  BY <1>1, <1>2, <1>3, <1>4, <1>5, <1>6, <1>7, <1>8, <1>9, <1>10, <1>11, <1>12, <1>13 DEF BsNext

\* The inductive invariant, for all sources and targets and any width of bytes and numbers.
THEOREM BsInvAlways == BsSpec => []BsInv
<1>1. BsInv /\ [BsNext]_bsVars => BsInv' BY NextBsInv
<1> QED BY <1>1, InitBsInv, PTL DEF BsSpec

\* A bsdiff patch is made of the longest matches there are, a whole one is applied and
\* rebuilds its target, and one that was cut short is refused (bscreate, find_match, bspatch).
THEOREM DiffAlwaysRebuilds == BsSpec => []DiffRebuilds
<1>1. BsInv => DiffRebuilds BY DEF BsInv, DiffRebuilds
<1> QED BY <1>1, BsInvAlways, PTL

\* Every block but the first takes the patch on (bscreate).
THEOREM BlocksAlwaysAdvance == BsSpec => BlocksAdvance
<1>1. BsInv /\ [BsNext]_bsVars => [ScanAdvances]_bsVars BY NextBsInv
<1> QED BY <1>1, BsInvAlways, PTL DEF BsSpec, BlocksAdvance
-----------------------------------------------------------------------------
(***************************************************************************)
(* The proof that manifests get their base, whatever processes and builds  *)
(* there are and however often they run.  What a process holds follows     *)
(* from where it is, and a file of the cache that is there in part is      *)
(* being written or was cut.                                               *)
(***************************************************************************)
CacheTypeOK ==
  /\ cachePc \in [Procs -> {"idle", "list", "read", "locate", "extract", "create", "fill",
                            "decode", "refused"}]
  /\ cacheFile \in [Builds -> {"absent", "part", "whole"}]
  /\ system \in Builds \cup {NoBuild}
  /\ dll \in [Procs -> Builds \cup {NoBuild}]
  /\ source \in [Procs -> {"none", "base", "dll", "cache", "no cache"}]
  /\ manifest \in [Procs -> Builds \cup {NoBuild}]
  /\ listed \in [Procs -> SUBSET Builds]
  /\ baseUsed \in [Procs -> [build : Builds \cup {NoBuild}, whole : BOOLEAN]]

\* A base that is neither named nor in the cache is the system's.
FromSystem(p) ==
  source[p] \in {"cache", "no cache"} /\ listed[p] = {} /\ dll[p] = system

\* What is extracted is of a file that was named, or of the system's.
Extracting(p) == dll[p] \in Builds /\ (source[p] = "dll" \/ FromSystem(p))

Extracted(p) == Extracting(p) /\ baseUsed[p] = [build |-> dll[p], whole |-> TRUE]

\* Read from the cache: whole, or of a build whose write was cut or under way.
FromCache(p) ==
  /\ source[p] = "cache" /\ Cardinality(listed[p]) = 1
  /\ baseUsed[p].build \in listed[p]
  /\ baseUsed[p].whole \/ baseUsed[p].build \in cut \/ p \in torn

Holds(p) ==
  /\ cachePc[p] = "list" => source[p] = "cache" /\ listed[p] = {}
  /\ cachePc[p] = "read" => /\ source[p] = "cache" /\ Cardinality(listed[p]) = 1
                            /\ \A b \in listed[p] : cacheFile[b] # "absent"
  /\ cachePc[p] = "locate" => source[p] \in {"cache", "no cache"} /\ listed[p] = {}
  /\ cachePc[p] = "extract" => Extracting(p)
  /\ cachePc[p] \in {"create", "fill"} => Extracted(p)
  /\ cachePc[p] = "decode" =>
       (source[p] = "base" /\ baseUsed[p].whole) \/ Extracted(p) \/ FromCache(p)

PartsAccountedFor == \A b \in Builds : cacheFile[b] = "part" => Writing(b) \/ b \in cut

CacheInv == CacheTypeOK /\ (\A p \in Procs : Holds(p)) /\ PartsAccountedFor

CacheStep(p) ==
  \/ RunCommand(p) \/ ListCache(p) \/ ReadCached(p) \/ Locate(p) \/ Extract(p)
  \/ CreateFile(p) \/ CannotCreate(p) \/ FillFile(p) \/ CannotFill(p)
  \/ Decode(p) \/ Killed(p)

\* It holds before the first command.
LEMMA InitCacheInv == CacheInit => CacheInv
BY DEF CacheInit, CacheInv, CacheTypeOK, Holds, PartsAccountedFor, NoBase

\* What a command starts with.
LEMMA CommandsChosen ==
  ASSUME NEW p \in Procs, RunCommand(p)
  PROVE  \E b \in Builds, how \in {"base", "dll", "cache", "no cache"}, of \in Builds :
           /\ manifest' = [manifest EXCEPT ![p] = b]
           /\ source' = [source EXCEPT ![p] = how]
           /\ dll' = [dll EXCEPT ![p] = IF how = "dll" THEN of ELSE NoBuild]
           /\ baseUsed' = [baseUsed EXCEPT ![p] =
                IF how = "base" THEN [build |-> of, whole |-> TRUE] ELSE NoBase]
           /\ cachePc' = [cachePc EXCEPT ![p] =
                CASE how = "base" -> "decode" [] how = "dll" -> "extract"
                  [] how = "cache" -> "list"  [] how = "no cache" -> "locate"]
BY Zenon DEF RunCommand, Goes

\* A step of a process keeps the types.
LEMMA CacheTyped == ASSUME CacheInv, NEW p \in Procs, CacheStep(p) PROVE CacheTypeOK'
<1> USE DEF CacheInv, CacheTypeOK, Goes
<1>1. CASE RunCommand(p)
  <2>1. PICK b \in Builds, how \in {"base", "dll", "cache", "no cache"}, of \in Builds :
       /\ manifest' = [manifest EXCEPT ![p] = b]
       /\ source' = [source EXCEPT ![p] = how]
       /\ dll' = [dll EXCEPT ![p] = IF how = "dll" THEN of ELSE NoBuild]
       /\ baseUsed' = [baseUsed EXCEPT ![p] =
            IF how = "base" THEN [build |-> of, whole |-> TRUE] ELSE NoBase]
       /\ cachePc' = [cachePc EXCEPT ![p] =
            CASE how = "base" -> "decode" [] how = "dll" -> "extract"
              [] how = "cache" -> "list"  [] how = "no cache" -> "locate"]
    BY <1>1, CommandsChosen
  <2>2. listed' = [listed EXCEPT ![p] = {}] /\ UNCHANGED <<system, cacheFile>>
    BY <1>1 DEF RunCommand
  <2>3. PICK to \in {"decode", "extract", "list", "locate"} : cachePc' = [cachePc EXCEPT ![p] = to]
    BY <2>1
  <2>4. PICK used \in [build : Builds \cup {NoBuild}, whole : BOOLEAN] :
          baseUsed' = [baseUsed EXCEPT ![p] = used]
    BY <2>1 DEF NoBase
  <2>5. dll' \in [Procs -> Builds \cup {NoBuild}] BY <2>1
  <2>6. source' \in [Procs -> {"none", "base", "dll", "cache", "no cache"}] BY <2>1
  <2>7. manifest' \in [Procs -> Builds \cup {NoBuild}] BY <2>1
  <2> QED BY <2>2, <2>3, <2>4, <2>5, <2>6, <2>7
<1>2. CASE ListCache(p)
  <2>1. PICK to \in {"read", "locate", "refused"} : cachePc' = [cachePc EXCEPT ![p] = to]
    BY <1>2 DEF ListCache
  <2>2. Cached \subseteq Builds BY DEF Cached
  <2> QED BY <1>2, <2>1, <2>2 DEF ListCache
<1>3. CASE ReadCached(p)
  <2>1. PICK b \in listed[p] :
          baseUsed' = [baseUsed EXCEPT ![p] = [build |-> b, whole |-> cacheFile[b] = "whole"]]
    BY <1>3 DEF ReadCached
  <2>2. b \in Builds /\ (cacheFile[b] = "whole") \in BOOLEAN OBVIOUS
  <2>3. PICK used \in [build : Builds \cup {NoBuild}, whole : BOOLEAN] :
          used = [build |-> b, whole |-> cacheFile[b] = "whole"]
    BY <2>2, Zenon
  <2>4. baseUsed' = [baseUsed EXCEPT ![p] = used] BY <2>1, <2>3, Zenon
  <2> QED BY <1>3, <2>4 DEF ReadCached
<1>4. CASE Locate(p) BY <1>4 DEF Locate
<1>5. CASE Extract(p) BY <1>5 DEF Extract
<1>6. CASE CreateFile(p) BY <1>6 DEF CreateFile
<1>7. CASE CannotCreate(p) BY <1>7 DEF CannotCreate
<1>8. CASE FillFile(p) BY <1>8 DEF FillFile
<1>9. CASE CannotFill(p) BY <1>9 DEF CannotFill
<1>10. CASE Decode(p) BY <1>10 DEF Decode
<1>11. CASE Killed(p) BY <1>11 DEF Killed
<1> QED BY <1>1, <1>2, <1>3, <1>4, <1>5, <1>6, <1>7, <1>8, <1>9, <1>10, <1>11 DEF CacheStep

\* What the others may do to a process: cut its build's file, and fill it.
Beside(r) ==
  /\ cachePc'[r] = cachePc[r] /\ source'[r] = source[r] /\ dll'[r] = dll[r]
  /\ manifest'[r] = manifest[r] /\ listed'[r] = listed[r] /\ baseUsed'[r] = baseUsed[r]
  /\ system' = system
  /\ cut \subseteq cut'
  /\ r \in torn => r \in torn'
  /\ \A b \in Builds : cacheFile[b] # "absent" => cacheFile'[b] # "absent"

\* A step of one process leaves the others where they are.
LEMMA StepsBeside ==
  ASSUME CacheInv, NEW p \in Procs, CacheStep(p), NEW r \in Procs, r # p
  PROVE  Beside(r)
<1> USE DEF CacheInv, CacheTypeOK, Goes, Beside
<1>1. CASE RunCommand(p) BY <1>1 DEF RunCommand
<1>2. CASE ListCache(p) BY <1>2 DEF ListCache
<1>3. CASE ReadCached(p) BY <1>3 DEF ReadCached
<1>4. CASE Locate(p) BY <1>4 DEF Locate
<1>5. CASE Extract(p) BY <1>5 DEF Extract
<1>6. CASE CreateFile(p) BY <1>6 DEF CreateFile
<1>7. CASE CannotCreate(p) BY <1>7 DEF CannotCreate
<1>8. CASE FillFile(p) BY <1>8 DEF FillFile
<1>9. CASE CannotFill(p) BY <1>9 DEF CannotFill
<1>10. CASE Decode(p) BY <1>10 DEF Decode
<1>11. CASE Killed(p) BY <1>11 DEF Killed
<1> QED BY <1>1, <1>2, <1>3, <1>4, <1>5, <1>6, <1>7, <1>8, <1>9, <1>10, <1>11 DEF CacheStep

\* What a process holds is not disturbed by the others.
LEMMA HoldsBeside ==
  ASSUME CacheTypeOK, NEW r \in Procs, Holds(r), Beside(r)
  PROVE  Holds(r)'
<1>1. listed[r] \subseteq Builds BY DEF CacheTypeOK
<1> QED BY <1>1 DEF Holds, Beside, FromCache, Extracted, Extracting, FromSystem

\* What the process holds that took the step.
LEMMA StepHolds == ASSUME CacheInv, NEW p \in Procs, CacheStep(p) PROVE Holds(p)'
<1> USE DEF CacheInv, CacheTypeOK, Goes
<1>0. Holds(p) OBVIOUS
<1>1. CASE RunCommand(p)
  <2>1. PICK b \in Builds, how \in {"base", "dll", "cache", "no cache"}, of \in Builds :
       /\ manifest' = [manifest EXCEPT ![p] = b]
       /\ source' = [source EXCEPT ![p] = how]
       /\ dll' = [dll EXCEPT ![p] = IF how = "dll" THEN of ELSE NoBuild]
       /\ baseUsed' = [baseUsed EXCEPT ![p] =
            IF how = "base" THEN [build |-> of, whole |-> TRUE] ELSE NoBase]
       /\ cachePc' = [cachePc EXCEPT ![p] =
            CASE how = "base" -> "decode" [] how = "dll" -> "extract"
              [] how = "cache" -> "list"  [] how = "no cache" -> "locate"]
    BY <1>1, CommandsChosen
  <2>2. listed'[p] = {} BY <1>1 DEF RunCommand
  <2>3. CASE how = "base"
    <3>1. cachePc'[p] = "decode" /\ source'[p] = "base" /\ baseUsed'[p].whole BY <2>1, <2>3
    <3> QED BY <3>1 DEF Holds
  <2>4. CASE how = "dll"
    <3>1. cachePc'[p] = "extract" /\ source'[p] = "dll" /\ dll'[p] \in Builds BY <2>1, <2>4
    <3> QED BY <3>1 DEF Holds, Extracting
  <2>5. CASE how = "cache"
    <3>1. cachePc'[p] = "list" /\ source'[p] = "cache" BY <2>1, <2>5
    <3> QED BY <2>2, <3>1 DEF Holds
  <2>6. CASE how = "no cache"
    <3>1. cachePc'[p] = "locate" /\ source'[p] = "no cache" BY <2>1, <2>6
    <3> QED BY <2>2, <3>1 DEF Holds
  <2> QED BY <2>3, <2>4, <2>5, <2>6
<1>2. CASE ListCache(p)
  <2>1. source'[p] = "cache" /\ listed'[p] = Cached /\ cacheFile' = cacheFile
    BY <1>0, <1>2 DEF ListCache, Holds
  <2>2. cachePc'[p] = IF Cardinality(Cached) = 1 THEN "read"
                      ELSE IF Cached = {} THEN "locate" ELSE "refused"
    BY <1>2 DEF ListCache
  <2>3. \A b \in Cached : cacheFile[b] # "absent" BY DEF Cached
  <2> QED BY <2>1, <2>2, <2>3 DEF Holds
<1>3. CASE ReadCached(p)
  <2>1. PICK b \in listed[p] :
          /\ baseUsed' = [baseUsed EXCEPT ![p] = [build |-> b, whole |-> cacheFile[b] = "whole"]]
          /\ torn' = IF Writing(b) THEN torn \cup {p} ELSE torn
    BY <1>3 DEF ReadCached
  <2>2. /\ source'[p] = "cache" /\ Cardinality(listed'[p]) = 1 /\ listed'[p] = listed[p]
        /\ cachePc'[p] = "decode" /\ cut' = cut
        /\ cacheFile[b] # "absent" /\ b \in Builds
    BY <1>0, <1>3 DEF ReadCached, Holds
  <2>3. baseUsed'[p].build = b /\ (baseUsed'[p].whole \/ cacheFile[b] # "whole") BY <2>1
  <2>4. cacheFile[b] # "whole" => Writing(b) \/ b \in cut
    BY <2>2 DEF PartsAccountedFor
  <2>5. baseUsed'[p].whole \/ b \in cut' \/ p \in torn' BY <2>1, <2>2, <2>3, <2>4
  <2>6. FromCache(p)' BY <2>2, <2>3, <2>5 DEF FromCache
  <2> QED BY <2>2, <2>6 DEF Holds
<1>4. CASE Locate(p) BY <1>0, <1>4 DEF Locate, Holds, Extracting, FromSystem
<1>5. CASE Extract(p)
  <2>1. Extracted(p)' BY <1>0, <1>5 DEF Extract, Holds, Extracted, Extracting, FromSystem
  <2>2. cachePc'[p] \in {"decode", "create"} BY <1>5 DEF Extract
  <2> QED BY <2>1, <2>2 DEF Holds
<1>6. CASE CreateFile(p) \/ CannotCreate(p) \/ FillFile(p) \/ CannotFill(p)
  <2>1. Extracted(p)'
    BY <1>0, <1>6 DEF CreateFile, CannotCreate, FillFile, CannotFill, Holds, Extracted,
                      Extracting, FromSystem
  <2>2. cachePc'[p] \in {"decode", "fill"}
    BY <1>6 DEF CreateFile, CannotCreate, FillFile, CannotFill
  <2> QED BY <2>1, <2>2 DEF Holds
<1>7. CASE Decode(p) \/ Killed(p)
  <2>1. cachePc'[p] = "idle" BY <1>7 DEF Decode, Killed
  <2> QED BY <2>1 DEF Holds
<1> QED BY <1>1, <1>2, <1>3, <1>4, <1>5, <1>6, <1>7 DEF CacheStep

\* A file is left in part by none but a process that was cut.
LEMMA StepAccounts == ASSUME CacheInv, NEW p \in Procs, CacheStep(p) PROVE PartsAccountedFor'
<1> USE DEF CacheInv, CacheTypeOK, Goes
<1> SUFFICES ASSUME NEW b \in Builds, cacheFile'[b] = "part", b \notin cut'
             PROVE  Writing(b)'
  BY DEF PartsAccountedFor
<1>1. CASE CreateFile(p) /\ dll[p] = b
  <2>1. cachePc'[p] = "fill" /\ dll'[p] = b BY <1>1 DEF CreateFile
  <2> QED BY <2>1 DEF Writing
<1>2. CASE ~(CreateFile(p) /\ dll[p] = b)
  <2>1. cacheFile[b] = "part"
    BY <1>2 DEF CacheStep, RunCommand, ListCache, ReadCached, Locate, Extract, CreateFile,
                CannotCreate, FillFile, CannotFill, Decode, Killed
  <2>2. cut \subseteq cut'
    BY DEF CacheStep, RunCommand, ListCache, ReadCached, Locate, Extract, CreateFile,
           CannotCreate, FillFile, CannotFill, Decode, Killed
  <2>3. PICK q \in Procs : cachePc[q] = "fill" /\ dll[q] = b
    BY <2>1, <2>2 DEF PartsAccountedFor, Writing
  <2>4. CASE q # p
    <3>1. cachePc'[q] = "fill" /\ dll'[q] = b BY <2>3, <2>4, StepsBeside DEF Beside
    <3> QED BY <3>1 DEF Writing
  <2>5. CASE q = p
    <3>1. FillFile(p) \/ CannotFill(p) \/ Killed(p)
      BY <2>3, <2>5 DEF CacheStep, RunCommand, ListCache, ReadCached, Locate, Extract,
                        CreateFile, CannotCreate, Decode
    <3> QED BY <2>3, <2>5, <3>1 DEF FillFile, CannotFill, Killed
  <2> QED BY <2>4, <2>5
<1> QED BY <1>1, <1>2

\* Every step keeps the invariant.
LEMMA NextCacheInv == CacheInv /\ [CacheNext]_cacheVars => CacheInv'
<1> SUFFICES ASSUME CacheInv, [CacheNext]_cacheVars PROVE CacheInv' OBVIOUS
<1>1. CASE UNCHANGED cacheVars
  <2>1. CacheTypeOK' BY <1>1 DEF cacheVars, CacheInv, CacheTypeOK
  <2>2. ASSUME NEW r \in Procs PROVE Holds(r)'
    <3>1. Holds(r) BY DEF CacheInv
    <3> QED BY <1>1, <3>1 DEF cacheVars, Holds, FromCache, Extracted, Extracting, FromSystem
  <2>3. PartsAccountedFor' BY <1>1 DEF cacheVars, CacheInv, PartsAccountedFor, Writing
  <2> QED BY <2>1, <2>2, <2>3 DEF CacheInv
<1>2. CASE CacheNext
  <2>1. PICK p \in Procs : CacheStep(p) BY <1>2 DEF CacheNext, CacheStep
  <2>2. CacheTypeOK' BY <2>1, CacheTyped
  <2>3. ASSUME NEW r \in Procs PROVE Holds(r)'
    <3>1. CASE r = p BY <2>1, <3>1, StepHolds
    <3>2. CASE r # p BY <2>1, <3>2, StepsBeside, HoldsBeside DEF CacheInv
    <3> QED BY <3>1, <3>2
  <2>4. PartsAccountedFor' BY <2>1, StepAccounts
  <2> QED BY <2>2, <2>3, <2>4 DEF CacheInv
<1> QED BY <1>1, <1>2

\* Whatever processes share the cache and wherever they are killed, a manifest is decoded
\* with the whole base of its build, or the user's choice, another base in the cache or a
\* write that was cut or under way excuses it (resolve_base, extract_and_cache).
THEOREM ManifestsAlwaysGetTheirBase == CacheSpec => []ManifestsGetTheirBase
<1>1. CacheInv => ManifestsGetTheirBase
  <2> SUFFICES ASSUME CacheInv, NEW p \in Procs, cachePc[p] = "decode"
               PROVE  /\ \/ baseUsed[p] = [build |-> manifest[p], whole |-> TRUE]
                         \/ Excused(p)
                      /\ source[p] # "cache" \/ listed[p] = {} => baseUsed[p].whole
                      /\ source[p] = "cache" => Cardinality(listed[p]) < 2
    BY DEF ManifestsGetTheirBase
  <2>1. Holds(p) BY DEF CacheInv
  <2>2. CASE source[p] = "base" /\ baseUsed[p].whole BY <2>2 DEF Excused
  <2>3. CASE Extracted(p)
    <3>1. baseUsed[p].whole BY <2>3 DEF Extracted
    <3>2. Cardinality({}) = 0 BY FS_EmptySet
    <3>3. CASE source[p] = "dll" BY <3>1, <3>3 DEF Excused
    <3>4. CASE FromSystem(p)
      <4>1. source[p] = "cache" => Cardinality(listed[p]) < 2 BY <3>2, <3>4 DEF FromSystem
      <4>2. system = manifest[p] => baseUsed[p] = [build |-> manifest[p], whole |-> TRUE]
        BY <2>3, <3>4 DEF Extracted, FromSystem
      <4>3. system # manifest[p] => Excused(p) BY <3>4 DEF FromSystem, Excused
      <4> QED BY <3>1, <4>1, <4>2, <4>3
    <3> QED BY <2>3, <3>3, <3>4 DEF Extracted, Extracting
  <2>4. CASE FromCache(p)
    <3>1. listed[p] # {} /\ Cardinality(listed[p]) < 2 BY <2>4 DEF FromCache
    <3>2. baseUsed[p] \in [build : Builds \cup {NoBuild}, whole : BOOLEAN]
      BY DEF CacheInv, CacheTypeOK
    <3>3. ASSUME listed[p] = {manifest[p]}, manifest[p] \notin cut, p \notin torn
          PROVE  baseUsed[p] = [build |-> manifest[p], whole |-> TRUE]
      <4>1. baseUsed[p].build = manifest[p] /\ baseUsed[p].whole
        BY <2>4, <3>3 DEF FromCache
      <4>2. baseUsed[p].whole = TRUE BY <3>2, <4>1
      <4>3. baseUsed[p] = [build |-> baseUsed[p].build, whole |-> baseUsed[p].whole]
        BY <3>2, Zenon
      <4> QED BY <4>1, <4>2, <4>3, Zenon
    <3> QED BY <2>4, <3>1, <3>3 DEF FromCache, Excused
  <2> QED BY <2>1, <2>2, <2>3, <2>4 DEF Holds
<1> QED BY <1>1, InitCacheInv, NextCacheInv, PTL DEF CacheSpec
-----------------------------------------------------------------------------
(***************************************************************************)
(* Deltas in their envelopes.                                              *)
(***************************************************************************)
WrittenFields(d) == IF d.version = "PA19" THEN <<>> ELSE Pa30Fields(d)
WrittenWords(d)  == IF d.version = "PA19" THEN Pa19Words(d) ELSE <<>>

WrittenDelta(d, dcm) ==
  [dcm |-> dcm, magic |-> d.version, fields |-> WrittenFields(d), words |-> WrittenWords(d)]

\* The header as parse_header is to find it.
HeaderRead(d) ==
  [types |-> d.types, type |-> d.type, flags |-> d.flags, size |-> d.size, alg |-> d.alg,
   hash |-> d.hash,
   extra |-> IF d.version = "PA31"
             THEN [extra |-> [i \in 1 .. 3 |-> d.extra], hash |-> d.extraHash] ELSE <<>>]

HeaderLength(d) == IF d.version = "PA31" THEN 1 ELSE 6

EnvelopeInv ==
  /\ sent \in Deltas
  /\ envelopePc # "write" => file = WrittenDelta(sent, file.dcm)
  /\ envelopePc = "pa19" => sent.version = "PA19"
  /\ envelopePc \in {"skip", "header", "bodies", "preprocess"} => sent.version # "PA19"
  /\ envelopePc \in {"header", "bodies"} => skipped = HeaderLength(sent)
  /\ envelopePc = "bodies" => got = HeaderRead(sent)
  /\ envelopePc = "preprocess" =>
       /\ ~sent.reversal /\ sent.type # 1
       /\ got = [header |-> HeaderRead(sent), pre |-> sent.pre, patch |-> sent.patch]
  /\ EnvelopeArrives

IsList(s) == \E S : s \in Seq(S)

Follows(s, t) ==
  /\ IsList(s \o t) /\ Len(s \o t) = Len(s) + Len(t)
  /\ Len(s) \in Nat /\ Len(t) \in Nat
  /\ \A i \in 1 .. Len(s) : (s \o t)[i] = s[i]
  /\ \A i \in 1 .. Len(t) : (s \o t)[Len(s) + i] = t[i]

\* Behind a first list comes the second.
LEMMA ListsFollow ==
  ASSUME NEW s, NEW t, IsList(s), IsList(t) PROVE Follows(s, t)
<1>1. PICK A : s \in Seq(A) BY DEF IsList
<1>2. PICK B : t \in Seq(B) BY DEF IsList
<1> DEFINE S == A \cup B
<1>3. s \in Seq(S) /\ t \in Seq(S) BY <1>1, <1>2
<1> HIDE DEF S
<1>4. Len(s) \in Nat /\ Len(t) \in Nat BY <1>3, LenProperties
<1>5. /\ s \o t \in Seq(S) /\ Len(s \o t) = Len(s) + Len(t)
      /\ \A i \in 1 .. Len(s) + Len(t) :
           (s \o t)[i] = IF i <= Len(s) THEN s[i] ELSE t[i - Len(s)]
  BY <1>3, ConcatProperties
<1>6. ASSUME NEW i \in 1 .. Len(t) PROVE (s \o t)[Len(s) + i] = t[i]
  BY <1>4, <1>5
<1>7. IsList(s \o t) BY <1>5 DEF IsList
<1> QED BY <1>4, <1>5, <1>6, <1>7 DEF Follows

\* A field that is there or not.
LEMMA OptionalField ==
  ASSUME NEW P \in BOOLEAN, NEW x
  PROVE  LET s == IF P THEN <<x>> ELSE <<>>
         IN  IsList(s) /\ Len(s) = (IF P THEN 1 ELSE 0) /\ (P => s[1] = x)
<1>1. <<x>> \in Seq({x}) /\ <<>> \in Seq({x}) OBVIOUS
<1>2. IsList(<<x>>) /\ IsList(<<>>) BY <1>1 DEF IsList
<1> QED BY <1>2

\* The fields of a header stand in front of what follows.
HasHeader(fields, d) ==
  /\ IsList(fields) /\ Len(fields) \in Nat /\ Len(fields) >= 6
  /\ fields[1] = Field("i64", d.types) /\ fields[2] = Field("i64", d.type)
  /\ fields[3] = Field("i64", d.flags) /\ fields[4] = Field("i64", d.size)
  /\ fields[5] = Field("i64", d.alg)   /\ fields[6] = Field("buffer", d.hash)

LEMMA HeaderHasItsFields ==
  ASSUME NEW d PROVE HasHeader(HeaderFields(d), d) /\ Len(HeaderFields(d)) = 6
<1> DEFINE w == <<Field("i64", d.types), Field("i64", d.type), Field("i64", d.flags),
                  Field("i64", d.size), Field("i64", d.alg)>>
           h == <<Field("buffer", d.hash)>>
<1>1. Words(<<d.types, d.type, d.flags, d.size, d.alg>>) = w
  BY DEF Words
<1>2. IsList(w) /\ Len(w) = 5
  <2>1. w \in Seq({w[i] : i \in 1 .. 5}) OBVIOUS
  <2> QED BY <2>1 DEF IsList
<1>3. IsList(h) /\ Len(h) = 1
  <2>1. h \in Seq({Field("buffer", d.hash)}) OBVIOUS
  <2> QED BY <2>1 DEF IsList
<1>4. Follows(w, h)
  <2> HIDE DEF w, h
  <2> QED BY <1>2, <1>3, ListsFollow
<1>5. (w \o h)[5 + 1] = h[1] BY <1>2, <1>3, <1>4 DEF Follows
<1>6. \A i \in 1 .. 5 : (w \o h)[i] = w[i] BY <1>2, <1>4 DEF Follows
<1>7. HeaderFields(d) = w \o h BY <1>1 DEF HeaderFields
<1> QED BY <1>2, <1>3, <1>4, <1>5, <1>6, <1>7 DEF HasHeader, Follows

\* What stands in front of a list stays there.
LEMMA HeaderStays ==
  ASSUME NEW s, NEW t, NEW d, HasHeader(s, d), IsList(t)
  PROVE  HasHeader(s \o t, d)
BY ListsFollow DEF HasHeader, Follows

\* The four fields more of a PA31 header.
LEMMA Pa31HasItsFields ==
  ASSUME NEW d
  PROVE  LET fields == HeaderFields(d) \o Pa31Fields(d)
         IN  /\ HasHeader(fields, d) /\ Len(fields) = 10
             /\ fields[10] = Field("buffer", d.extraHash)
             /\ \A i \in 7 .. 9 : fields[i] = Field("i64", d.extra)
<1> DEFINE x == Field("i64", d.extra)
           w == <<x, x, x>>
           h == <<Field("buffer", d.extraHash)>>
           front == HeaderFields(d)
           behind == w \o h
<1>1. Words(<<d.extra, d.extra, d.extra>>) = w BY DEF Words
<1>2. IsList(w) /\ Len(w) = 3 /\ \A i \in 1 .. 3 : w[i] = x
  <2> HIDE DEF x
  <2>1. w \in Seq({x}) /\ Len(w) = 3 /\ \A i \in 1 .. 3 : w[i] = x OBVIOUS
  <2>2. \E S : w \in Seq(S) BY <2>1
  <2> QED BY <2>1, <2>2 DEF IsList
<1>3. IsList(h) /\ Len(h) = 1
  <2>1. h \in Seq({Field("buffer", d.extraHash)}) OBVIOUS
  <2> QED BY <2>1 DEF IsList
<1>4. Follows(w, h)
  <2>1. IsList(w) /\ IsList(h) BY <1>2, <1>3
  <2> HIDE DEF w, h
  <2> QED BY <2>1, ListsFollow
<1>5. behind[3 + 1] = h[1] BY <1>2, <1>3, <1>4 DEF Follows
<1>6. \A i \in 1 .. 3 : behind[i] = x BY <1>2, <1>4 DEF Follows
<1>7. Pa31Fields(d) = behind BY <1>1 DEF Pa31Fields
<1>8. IsList(behind) /\ Len(behind) = 4 BY <1>2, <1>3, <1>4 DEF Follows
<1>9. HasHeader(front, d) /\ Len(front) = 6 BY HeaderHasItsFields
<1>10. behind[4] = Field("buffer", d.extraHash) BY <1>5
<1> HIDE DEF x, w, h, behind, front
<1>11. IsList(front) BY <1>9 DEF HasHeader
<1>12. Follows(front, behind) BY <1>8, <1>11, ListsFollow
<1>13. HasHeader(front \o behind, d) BY <1>8, <1>9, HeaderStays
<1>14. Len(front \o behind) = 10 BY <1>8, <1>9, <1>12 DEF Follows
<1>15. (front \o behind)[6 + 4] = behind[4] BY <1>8, <1>9, <1>12 DEF Follows
<1>16. ASSUME NEW i \in 7 .. 9 PROVE (front \o behind)[i] = x
  <2>1. i - 6 \in 1 .. 3 /\ i - 6 \in 1 .. 4 /\ 6 + (i - 6) = i OBVIOUS
  <2>2. (front \o behind)[6 + (i - 6)] = behind[i - 6]
    BY <2>1, <1>8, <1>9, <1>12 DEF Follows
  <2> QED BY <2>1, <2>2, <1>6
<1> QED BY <1>7, <1>10, <1>13, <1>14, <1>15, <1>16 DEF x, front

\* One body or two.
LEMMA BodiesAre ==
  ASSUME NEW d
  PROVE  /\ IsList(Bodies(d))
         /\ d.reversal => Len(Bodies(d)) = 1 /\ Bodies(d)[1] = Field("buffer", d.patch)
         /\ ~d.reversal => /\ Len(Bodies(d)) = 2
                           /\ Bodies(d)[1] = Field("buffer", d.pre)
                           /\ Bodies(d)[2] = Field("buffer", d.patch)
<1> DEFINE p == Field("buffer", d.patch)
           q == Field("buffer", d.pre)
<1>1. Bodies(d) = IF d.reversal THEN <<p>> ELSE <<q, p>> BY DEF Bodies
<1> HIDE DEF p, q
<1>2. <<p>> \in Seq({q, p}) /\ <<q, p>> \in Seq({q, p}) OBVIOUS
<1>3. IsList(<<p>>) /\ IsList(<<q, p>>) BY <1>2 DEF IsList
<1>4. CASE d.reversal
  <2>1. Bodies(d) = <<p>> BY <1>1, <1>4
  <2> QED BY <2>1, <1>3, <1>4 DEF p
<1>5. CASE ~d.reversal
  <2>1. Bodies(d) = <<q, p>> BY <1>1, <1>5
  <2> QED BY <2>1, <1>3, <1>5 DEF p, q
<1> QED BY <1>4, <1>5

\* A PA30 stream: the header and, behind its six fields, the bodies.
LEMMA Pa30StreamIs ==
  ASSUME NEW d, d.version # "PA31"
  PROVE  /\ HasHeader(Pa30Fields(d), d) /\ Len(Pa30Fields(d)) = 6 + Len(Bodies(d))
         /\ \A i \in 1 .. Len(Bodies(d)) : Pa30Fields(d)[6 + i] = Bodies(d)[i]
<1> DEFINE front == HeaderFields(d)
           behind == Bodies(d)
<1>1. HasHeader(front, d) /\ Len(front) = 6 BY HeaderHasItsFields
<1>2. IsList(behind) BY BodiesAre
<1>3. Pa30Fields(d) = front \o behind BY DEF Pa30Fields
<1> HIDE DEF front, behind
<1>4. IsList(front) BY <1>1 DEF HasHeader
<1>5. Follows(front, behind) BY <1>2, <1>4, ListsFollow
<1>6. HasHeader(front \o behind, d) BY <1>1, <1>2, HeaderStays
<1>7. /\ Len(front \o behind) = 6 + Len(behind)
      /\ \A i \in 1 .. Len(behind) : (front \o behind)[6 + i] = behind[i]
  BY <1>1, <1>5 DEF Follows
<1> QED BY <1>3, <1>6, <1>7 DEF behind

\* A PA31 stream: the header in a buffer, and behind that the bodies.
LEMMA Pa31StreamIs ==
  ASSUME NEW d, d.version = "PA31"
  PROVE  /\ Pa30Fields(d)[1] = Field("buffer", HeaderFields(d) \o Pa31Fields(d))
         /\ Len(Pa30Fields(d)) = 1 + Len(Bodies(d))
         /\ \A i \in 1 .. Len(Bodies(d)) : Pa30Fields(d)[1 + i] = Bodies(d)[i]
         /\ Len(Bodies(d)) \in Nat
<1> DEFINE x == Field("buffer", HeaderFields(d) \o Pa31Fields(d))
           front == <<x>>
           behind == Bodies(d)
<1>1. IsList(front) /\ Len(front) = 1 /\ front[1] = x
  <2> HIDE DEF x
  <2>1. front \in Seq({x}) OBVIOUS
  <2> QED BY <2>1 DEF IsList
<1>2. IsList(behind) BY BodiesAre
<1>3. Pa30Fields(d) = front \o behind BY DEF Pa30Fields
<1> HIDE DEF x, front, behind
<1>5. Follows(front, behind) BY <1>1, <1>2, ListsFollow
<1>6. (front \o behind)[1] = x BY <1>1, <1>5 DEF Follows
<1>7. /\ Len(front \o behind) = 1 + Len(behind) /\ Len(behind) \in Nat
      /\ \A i \in 1 .. Len(behind) : (front \o behind)[1 + i] = behind[i]
  BY <1>1, <1>5 DEF Follows
<1> QED BY <1>3, <1>6, <1>7 DEF behind, x

\* A field that is of the kind asked for is read.
LEMMA TakesTheField ==
  ASSUME NEW fields, NEW spot, NEW kind, NEW value,
         spot \in 1 .. Len(fields), fields[spot] = Field(kind, value)
  PROVE  Take(fields, spot, kind) = value
BY DEF Take, Field

\* The header, wherever it stands, is read as it was written.
LEMMA ReadsHeaderFields ==
  ASSUME NEW fields, NEW d, HasHeader(fields, d)
  PROVE  /\ Take(fields, 1, "i64") = d.types /\ Take(fields, 2, "i64") = d.type
         /\ Take(fields, 3, "i64") = d.flags /\ Take(fields, 4, "i64") = d.size
         /\ Take(fields, 5, "i64") = d.alg   /\ Take(fields, 6, "buffer") = d.hash
<1>1. \A i \in 1 .. 6 : i \in 1 .. Len(fields) BY DEF HasHeader
<1> QED BY <1>1, TakesTheField DEF HasHeader

\* Both headers are read as they were written.
LEMMA ReadsBothHeaders ==
  ASSUME EnvelopeInv, envelopePc = "header"
  PROVE  /\ HasHeader(HeaderStream, sent)
         /\ file.magic = sent.version
         /\ sent.version = "PA31" =>
              Pa31Extra(HeaderStream) =
                [extra |-> [i \in 1 .. 3 |-> sent.extra], hash |-> sent.extraHash]
<1> DEFINE d == sent
<1>1. file.magic = d.version /\ file.fields = Pa30Fields(d)
  BY DEF EnvelopeInv, WrittenDelta, WrittenFields
<1>2. CASE d.version # "PA31"
  BY <1>1, <1>2, Pa30StreamIs DEF HeaderStream
<1>3. CASE d.version = "PA31"
  <2> DEFINE all == HeaderFields(d) \o Pa31Fields(d)
  <2>1. /\ HasHeader(all, d) /\ Len(all) = 10 /\ all[10] = Field("buffer", d.extraHash)
        /\ \A i \in 7 .. 9 : all[i] = Field("i64", d.extra)
    BY Pa31HasItsFields
  <2>2. /\ Pa30Fields(d)[1] = Field("buffer", all) /\ 1 \in 1 .. Len(Pa30Fields(d))
    <3>1. /\ Pa30Fields(d)[1] = Field("buffer", all)
          /\ Len(Pa30Fields(d)) = 1 + Len(Bodies(d)) /\ Len(Bodies(d)) \in Nat
      BY <1>3, Pa31StreamIs
    <3> QED BY <3>1
  <2> HIDE DEF all
  <2>3. Take(Pa30Fields(d), 1, "buffer") = all BY <2>2, TakesTheField
  <2>4. HeaderStream = all BY <1>1, <1>3, <2>3 DEF HeaderStream
  <2>5. Take(all, 10, "buffer") = d.extraHash
    <3>1. 10 \in 1 .. Len(all) BY <2>1
    <3> QED BY <3>1, <2>1, TakesTheField
  <2>6. ASSUME NEW i \in 1 .. 3 PROVE Take(all, 6 + i, "i64") = d.extra
    <3>1. 6 + i \in 1 .. Len(all) /\ 6 + i \in 7 .. 9 BY <2>1
    <3>2. all[6 + i] = Field("i64", d.extra) BY <3>1, <2>1
    <3> QED BY <3>1, <3>2, TakesTheField
  <2>7. Pa31Extra(all) = [extra |-> [i \in 1 .. 3 |-> d.extra], hash |-> d.extraHash]
    BY <2>5, <2>6 DEF Pa31Extra
  <2> QED BY <1>1, <2>1, <2>4, <2>7
<1> QED BY <1>2, <1>3

\* The bodies are read as they were written, from behind the header parse stepped over.
LEMMA ReadsBothBodies ==
  ASSUME EnvelopeInv, envelopePc = "bodies"
  PROVE  /\ sent.reversal => Take(file.fields, skipped + 1, "buffer") = sent.patch
         /\ ~sent.reversal => /\ Take(file.fields, skipped + 1, "buffer") = sent.pre
                              /\ Take(file.fields, skipped + 2, "buffer") = sent.patch
<1> DEFINE d == sent
           n == Len(Bodies(d))
<1>1. file.fields = Pa30Fields(d) /\ skipped = HeaderLength(d)
  BY DEF EnvelopeInv, WrittenDelta, WrittenFields
<1>2. /\ skipped \in Nat /\ n \in Nat /\ Len(Pa30Fields(d)) = skipped + n
      /\ \A i \in 1 .. n : Pa30Fields(d)[skipped + i] = Bodies(d)[i]
  <2>1. n \in Nat BY BodiesAre, LenProperties DEF IsList
  <2>2. CASE d.version = "PA31" BY <1>1, <2>1, <2>2, Pa31StreamIs DEF HeaderLength
  <2>3. CASE d.version # "PA31" BY <1>1, <2>1, <2>3, Pa30StreamIs DEF HeaderLength
  <2> QED BY <2>2, <2>3
<1>3. ASSUME NEW i \in 1 .. n, NEW value, Bodies(d)[i] = Field("buffer", value)
      PROVE  Take(Pa30Fields(d), skipped + i, "buffer") = value
  <2>1. skipped + i \in 1 .. Len(Pa30Fields(d)) BY <1>2
  <2>2. Pa30Fields(d)[skipped + i] = Field("buffer", value) BY <1>2, <1>3
  <2> QED BY <2>1, <2>2, TakesTheField
<1>4. CASE d.reversal
  <2>1. n = 1 /\ Bodies(d)[1] = Field("buffer", d.patch) BY <1>4, BodiesAre
  <2>2. 1 \in 1 .. n BY <2>1
  <2> HIDE DEF n
  <2> QED BY <1>1, <1>3, <1>4, <2>1, <2>2
<1>5. CASE ~d.reversal
  <2>1. n = 2 /\ Bodies(d)[1] = Field("buffer", d.pre) /\ Bodies(d)[2] = Field("buffer", d.patch)
    BY <1>5, BodiesAre
  <2>2. 1 \in 1 .. n /\ 2 \in 1 .. n BY <2>1
  <2> HIDE DEF n
  <2> QED BY <1>1, <1>3, <1>5, <2>1, <2>2
<1> QED BY <1>4, <1>5

\* The kinds of the fields of an image are those parse_pe_preprocess reads.
LEMMA ReadsThePreprocessFields ==
  ASSUME NEW p
  PROVE  LET fields == PreprocessFields(p)
         IN  /\ fields # <<>>
             /\ Take(fields, 1, PreprocessKinds[1]) = p.base
             /\ Take(fields, 2, PreprocessKinds[2]) = p.checksum
             /\ Take(fields, 3, PreprocessKinds[3]) = p.stamp
             /\ Take(fields, 4, PreprocessKinds[4]) = p.sections
             /\ Take(fields, 5, PreprocessKinds[5]) = p.metadata
             /\ Take(fields, 6, PreprocessKinds[6]) = p.moves
             /\ (IF Len(fields) > 6 THEN Take(fields, 7, "map") ELSE "empty")
                  = (IF p.map = "left out" THEN "empty" ELSE p.map)
<1> DEFINE f1 == Field("b64", p.base)
           f2 == Field("b32", p.checksum)
           f3 == Field("b32", p.stamp)
           f4 == Field("rift", p.sections)
           f5 == Field("record", p.metadata)
           f6 == Field("rift", p.moves)
           f7 == Field("map", p.map)
           w == <<f1, f2, f3, f4, f5, f6>>
           h == IF p.map = "left out" THEN <<>> ELSE <<f7>>
           all == w \o h
<1>1. PreprocessFields(p) = all BY DEF PreprocessFields
<1>2. /\ PreprocessKinds[1] = "b64" /\ PreprocessKinds[2] = "b32" /\ PreprocessKinds[3] = "b32"
      /\ PreprocessKinds[4] = "rift" /\ PreprocessKinds[5] = "record" /\ PreprocessKinds[6] = "rift"
  BY DEF PreprocessKinds
<1>3. IsList(w) /\ Len(w) = 6
  <2> HIDE DEF f1, f2, f3, f4, f5, f6
  <2>1. w \in Seq({f1, f2, f3, f4, f5, f6}) /\ Len(w) = 6 OBVIOUS
  <2>2. \E S : w \in Seq(S) BY <2>1
  <2> QED BY <2>1, <2>2 DEF IsList
<1>4. IsList(h) /\ Len(h) = (IF p.map = "left out" THEN 0 ELSE 1)
        /\ (p.map # "left out" => h[1] = f7)
  <2> HIDE DEF f7
  <2>1. h \in Seq({f7}) /\ Len(h) = (IF p.map = "left out" THEN 0 ELSE 1)
          /\ (p.map # "left out" => h[1] = f7)
    <3>1. CASE p.map = "left out"
      <4>1. h = <<>> BY <3>1
      <4>2. <<>> \in Seq({f7}) /\ Len(<<>>) = 0 OBVIOUS
      <4> HIDE DEF h
      <4>3. h \in Seq({f7}) /\ Len(h) = 0 BY <4>1, <4>2
      <4> QED BY <3>1, <4>3
    <3>2. CASE p.map # "left out"
      <4>1. h = <<f7>> BY <3>2
      <4>2. <<f7>> \in Seq({f7}) /\ Len(<<f7>>) = 1 OBVIOUS
      <4> QED BY <3>2, <4>1, <4>2
    <3> QED BY <3>1, <3>2
  <2>2. \E S : h \in Seq(S) BY <2>1
  <2> QED BY <2>1, <2>2 DEF IsList
<1>5. Follows(w, h)
  <2>1. IsList(w) /\ IsList(h) BY <1>3, <1>4
  <2> HIDE DEF w, h
  <2> QED BY <2>1, ListsFollow
<1>6. /\ Len(all) = 6 + Len(h) /\ \A i \in 1 .. 6 : all[i] = w[i] /\ i \in 1 .. Len(all)
      /\ Len(h) \in Nat
  <2> HIDE DEF w, h
  <2> QED BY <1>3, <1>5 DEF Follows
<1>7. /\ all[1] = f1 /\ all[2] = f2 /\ all[3] = f3 /\ all[4] = f4 /\ all[5] = f5 /\ all[6] = f6
  <2> HIDE DEF f1, f2, f3, f4, f5, f6, h
  <2> QED BY <1>6
<1>8. ASSUME p.map # "left out" PROVE 7 \in 1 .. Len(all) /\ all[7] = f7 /\ Len(all) > 6
  <2>1. Len(h) = 1 /\ h[1] = f7 BY <1>4, <1>8
  <2> HIDE DEF w, h
  <2>2. all[6 + 1] = h[1] BY <1>3, <1>5, <2>1 DEF Follows
  <2> QED BY <1>6, <2>1, <2>2
<1>9. ASSUME p.map = "left out" PROVE ~(Len(all) > 6)
  <2>1. Len(all) = 6 + Len(h) BY <1>6
  <2>2. Len(h) = 0 BY <1>4, <1>9
  <2> HIDE DEF all, h
  <2>3. Len(all) = 6 BY <2>1, <2>2
  <2> QED BY <2>3
<1>10. all # <<>>
  <2>1. Len(all) = 6 + Len(h) /\ Len(h) \in Nat BY <1>6
  <2> HIDE DEF all, h
  <2> QED BY <2>1
<1>11. p.map # "left out" => Take(all, 7, "map") = p.map
  <2> HIDE DEF all
  <2> QED BY <1>8, TakesTheField DEF f7
<1>12. /\ Take(all, 1, "b64") = p.base /\ Take(all, 2, "b32") = p.checksum
       /\ Take(all, 3, "b32") = p.stamp /\ Take(all, 4, "rift") = p.sections
       /\ Take(all, 5, "record") = p.metadata /\ Take(all, 6, "rift") = p.moves
  <2>1. \A i \in 1 .. 6 : i \in 1 .. Len(all) BY <1>6
  <2>2. 1 \in 1 .. 6 /\ 2 \in 1 .. 6 /\ 3 \in 1 .. 6 /\ 4 \in 1 .. 6 /\ 5 \in 1 .. 6 /\ 6 \in 1 .. 6
    OBVIOUS
  <2> HIDE DEF all
  <2> QED BY <1>7, <2>1, <2>2, TakesTheField DEF f1, f2, f3, f4, f5, f6
<1> HIDE DEF all
<1> QED BY <1>1, <1>2, <1>8, <1>9, <1>10, <1>11, <1>12

\* What a PA19 delta has where.
LEMMA Pa19WordsAre ==
  ASSUME NEW d \in Deltas, d.version = "PA19"
  PROVE  LET words == Pa19Words(d)
             count == Len(d.entries) \div 3
         IN  /\ Len(words) \in Nat /\ Len(words) >= 10
             /\ words[2] = d.flags
             /\ 4 \in d.flags => words[7] = d.window
             /\ 4 \in d.flags /\ 8 \in d.flags => words[8] = count
             /\ (8 \in d.flags => 4 \in d.flags) => DataAtWord(d.flags, count) = Len(words) - 3
<1> DEFINE a == <<"PA19", d.flags, d.size, 0, d.size, 0>>
           b == IF 4 \in d.flags THEN <<d.window>> ELSE <<>>
           n == Len(d.entries) \div 3
           c == IF 8 \in d.flags THEN <<n>> ELSE <<>>
           e == d.entries
           t == <<d.patch, d.patch, d.patch, d.patch>>
           ab == a \o b
           abc == ab \o c
           abce == abc \o e
           all == abce \o t
<1>1. Pa19Words(d) = all BY DEF Pa19Words
<1>2. e \in Seq(Int) /\ Len(e) % 3 = 0 /\ (8 \notin d.flags => e = <<>>)
  BY EnvelopeAssumption
<1>3. IsList(a) /\ Len(a) = 6 /\ a[2] = d.flags
  <2>1. a \in Seq({a[i] : i \in 1 .. 6}) OBVIOUS
  <2>2. \E S : a \in Seq(S) BY <2>1
  <2> QED BY <2>2 DEF IsList
<1>4. IsList(b) /\ Len(b) = (IF 4 \in d.flags THEN 1 ELSE 0) /\ (4 \in d.flags => b[1] = d.window)
  BY OptionalField
<1>5. IsList(c) /\ Len(c) = (IF 8 \in d.flags THEN 1 ELSE 0) /\ (8 \in d.flags => c[1] = n)
  <2> HIDE DEF n
  <2> QED BY OptionalField
<1>6. IsList(e) /\ Len(e) \in Nat
  <2>1. \E S : e \in Seq(S) BY <1>2
  <2> QED BY <1>2, <2>1, LenProperties DEF IsList
<1>7. IsList(t) /\ Len(t) = 4
  <2>1. t \in Seq({d.patch}) OBVIOUS
  <2>2. \E S : t \in Seq(S) BY <2>1
  <2> QED BY <2>2 DEF IsList
<1>8. Len(e) = 3 * n /\ n \in Nat
  <2>1. \A x \in Nat : (x % 3) = 0 => x = 3 * (x \div 3) /\ (x \div 3) \in Nat OBVIOUS
  <2>2. Len(e) \in Nat /\ (Len(e) % 3) = 0 BY <1>2, <1>6
  <2> HIDE DEF e
  <2> QED BY <2>1, <2>2 DEF e
<1>9. 8 \notin d.flags => n = 0
  <2>1. 8 \notin d.flags => Len(e) = 0 BY <1>2
  <2> HIDE DEF e, n
  <2> QED BY <2>1, <1>8
<1> HIDE DEF a, b, c, e, t, n
<1>10. Follows(a, b) BY <1>3, <1>4, ListsFollow
<1>11. Follows(ab, c)
  <2>1. IsList(ab) BY <1>10 DEF Follows
  <2> HIDE DEF ab
  <2> QED BY <2>1, <1>5, ListsFollow
<1>12. Follows(abc, e)
  <2>1. IsList(abc) BY <1>11 DEF Follows
  <2> HIDE DEF abc
  <2> QED BY <2>1, <1>6, ListsFollow
<1>13. Follows(abce, t)
  <2>1. IsList(abce) BY <1>12 DEF Follows
  <2> HIDE DEF abce
  <2> QED BY <2>1, <1>7, ListsFollow
<1> DEFINE B == IF 4 \in d.flags THEN 1 ELSE 0
           C == IF 8 \in d.flags THEN 1 ELSE 0
<1>14. B \in {0, 1} /\ C \in {0, 1} OBVIOUS
<1>15. Len(ab) = 6 + B BY <1>3, <1>4, <1>10 DEF Follows
<1>16. Len(abc) = 6 + B + C BY <1>5, <1>11, <1>15 DEF Follows
<1>17. Len(abce) = 6 + B + C + Len(e) BY <1>12, <1>16 DEF Follows
<1>18. Len(all) = 6 + B + C + Len(e) + 4 BY <1>7, <1>13, <1>17 DEF Follows
<1>19. ASSUME NEW i \in 1 .. 6 PROVE all[i] = a[i]
  <2>1. i \in 1 .. Len(ab) /\ i \in 1 .. Len(abc) /\ i \in 1 .. Len(abce)
    <3> HIDE DEF ab, abc, abce, B, C
    <3> QED BY <1>6, <1>14, <1>15, <1>16, <1>17
  <2>2. ab[i] = a[i] BY <1>3, <1>10 DEF Follows
  <2>3. abc[i] = ab[i] BY <2>1, <1>11 DEF Follows
  <2>4. abce[i] = abc[i] BY <2>1, <1>12 DEF Follows
  <2>5. all[i] = abce[i] BY <2>1, <1>13 DEF Follows
  <2> QED BY <2>2, <2>3, <2>4, <2>5
<1>20. ASSUME 4 \in d.flags PROVE all[7] = d.window
  <2>1. B = 1 BY <1>20
  <2>2. 7 \in 1 .. Len(ab) /\ 7 \in 1 .. Len(abc) /\ 7 \in 1 .. Len(abce)
    <3> HIDE DEF ab, abc, abce, B, C
    <3> QED BY <2>1, <1>6, <1>14, <1>15, <1>16, <1>17
  <2>3. ab[6 + 1] = b[1] BY <1>3, <1>4, <1>10, <1>20 DEF Follows
  <2>4. abc[7] = ab[7] BY <2>2, <1>11 DEF Follows
  <2>5. abce[7] = abc[7] BY <2>2, <1>12 DEF Follows
  <2>6. all[7] = abce[7] BY <2>2, <1>13 DEF Follows
  <2>7. b[1] = d.window BY <1>4, <1>20
  <2> HIDE DEF ab, abc, abce, all
  <2> QED BY <2>3, <2>4, <2>5, <2>6, <2>7
<1>21. ASSUME 4 \in d.flags, 8 \in d.flags PROVE all[8] = n
  <2>1. B = 1 /\ C = 1 BY <1>21
  <2>2. 8 \in 1 .. Len(abc) /\ 8 \in 1 .. Len(abce) /\ Len(ab) = 7
    <3> HIDE DEF ab, abc, abce, B, C
    <3> QED BY <2>1, <1>6, <1>14, <1>15, <1>16, <1>17
  <2>3. abc[7 + 1] = c[1]
    <3> HIDE DEF ab, abc
    <3>1. 1 \in 1 .. Len(c) BY <1>5, <1>21
    <3> QED BY <3>1, <2>2, <1>11 DEF Follows, abc
  <2>4. abce[8] = abc[8] BY <2>2, <1>12 DEF Follows
  <2>5. all[8] = abce[8] BY <2>2, <1>13 DEF Follows
  <2>6. c[1] = n BY <1>5, <1>21
  <2> HIDE DEF ab, abc, abce, all
  <2> QED BY <2>3, <2>4, <2>5, <2>6
<1>22. ASSUME 8 \in d.flags => 4 \in d.flags
       PROVE  DataAtWord(d.flags, n) = Len(all) - 3
  <2>1. DataAtWord(d.flags, n) = 7 + B + (IF 8 \in d.flags THEN 1 + 3 * n ELSE 0)
    BY DEF DataAtWord
  <2>2. CASE 8 \in d.flags
    <3>1. C = 1 BY <2>2
    <3>2. DataAtWord(d.flags, n) = 7 + B + 1 + 3 * n BY <2>1, <2>2, <1>8
    <3> HIDE DEF all, B, C
    <3> QED BY <3>1, <3>2, <1>8, <1>14, <1>18
  <2>3. CASE 8 \notin d.flags
    <3>1. C = 0 BY <2>3
    <3>2. DataAtWord(d.flags, n) = 7 + B BY <2>1, <2>3, <1>14
    <3>3. Len(e) = 0 BY <2>3, <1>8, <1>9
    <3> HIDE DEF all, B, C
    <3> QED BY <3>1, <3>2, <3>3, <1>14, <1>18
  <2> QED BY <2>2, <2>3
<1>23. Len(all) \in Nat /\ Len(all) >= 10
  <2> HIDE DEF all, B, C
  <2> QED BY <1>6, <1>14, <1>18
<1>24. all[2] = d.flags
  <2>1. 2 \in 1 .. 6 /\ a[2] = d.flags BY <1>3
  <2> HIDE DEF all
  <2> QED BY <2>1, <1>19
<1> HIDE DEF all
<1> QED BY <1>1, <1>20, <1>21, <1>22, <1>23, <1>24 DEF n, e

\* A delta that has not been opened yet, or is empty, has arrived nowhere.
LEMMA EnvelopeInitInv == EnvelopeInit => EnvelopeInv
BY DEF EnvelopeInit, EnvelopeInv, EnvelopeArrives

\* A delta without its four bytes in front.
LEMMA OpenedIs ==
  ASSUME NEW d, NEW dcm
  PROVE  [WrittenDelta(d, dcm) EXCEPT !.dcm = FALSE] = WrittenDelta(d, FALSE)
<1> DEFINE f == WrittenFields(d)
           w == WrittenWords(d)
           v == d.version
           no == FALSE
<1> HIDE DEF f, w, v, no
<1>1. [[dcm |-> dcm, magic |-> v, fields |-> f, words |-> w] EXCEPT !.dcm = no]
        = [dcm |-> no, magic |-> v, fields |-> f, words |-> w]
  OBVIOUS
<1> QED BY <1>1 DEF WrittenDelta, f, w, v, no

\* Writing, opening, and stepping over the header.
LEMMA OpeningKeepsInv ==
  EnvelopeInv /\ (WriteDelta \/ Open \/ SkipHeader) => EnvelopeInv'
<1> SUFFICES ASSUME EnvelopeInv, WriteDelta \/ Open \/ SkipHeader PROVE EnvelopeInv'
  OBVIOUS
<1> USE DEF EnvelopeInv
<1>1. CASE WriteDelta
  <2>1. file' = WrittenDelta(sent, sent.dcm)
    BY <1>1 DEF WriteDelta, WrittenDelta, WrittenFields, WrittenWords
  <2>2. file' = WrittenDelta(sent', file'.dcm) BY <1>1, <2>1 DEF WriteDelta, WrittenDelta
  <2>3. envelopePc' = "open" /\ sent' \in Deltas BY <1>1 DEF WriteDelta
  <2> QED BY <2>2, <2>3 DEF EnvelopeArrives
<1>2. CASE Open
  <2>1. file = WrittenDelta(sent, file.dcm) /\ envelopePc = "open" BY <1>2 DEF Open
  <2>2. file' = WrittenDelta(sent, FALSE)
    <3> DEFINE b == file.dcm
    <3>1. file = WrittenDelta(sent, b) BY <2>1
    <3> HIDE DEF b
    <3> HIDE DEF EnvelopeInv
    <3>2. [WrittenDelta(sent, b) EXCEPT !.dcm = FALSE] = WrittenDelta(sent, FALSE) BY OpenedIs
    <3> QED BY <1>2, <3>1, <3>2 DEF Open
  <2>3. file' = WrittenDelta(sent', file'.dcm) BY <1>2, <2>2 DEF Open, WrittenDelta
  <2>4. file.magic = sent.version BY <2>1 DEF WrittenDelta
  <2>5. /\ sent' = sent /\ sent' \in Deltas
        /\ envelopePc' = IF sent.version = "PA19" THEN "pa19" ELSE "skip"
    BY <1>2, <2>4 DEF Open
  <2> HIDE DEF EnvelopeInv
  <2> QED BY <2>3, <2>5 DEF EnvelopeInv, EnvelopeArrives
<1>3. CASE SkipHeader
  <2>1. file = WrittenDelta(sent, file.dcm) /\ envelopePc = "skip" /\ sent.version # "PA19"
    BY <1>3 DEF SkipHeader
  <2>2. file.magic = sent.version BY <2>1 DEF WrittenDelta
  <2>3. /\ sent' = sent /\ file' = file /\ sent' \in Deltas /\ envelopePc' = "header"
        /\ skipped' = HeaderLength(sent)
    BY <1>3, <2>2 DEF SkipHeader, HeaderLength
  <2> HIDE DEF EnvelopeInv
  <2> QED BY <2>1, <2>3 DEF EnvelopeInv, EnvelopeArrives
<1> QED BY <1>1, <1>2, <1>3

\* The header is read as it was written, and refused only for what must be refused.
LEMMA ParseHeaderKeepsInv == EnvelopeInv /\ ParseHeader => EnvelopeInv'
<1> SUFFICES ASSUME EnvelopeInv, ParseHeader PROVE EnvelopeInv'
  OBVIOUS
<1> DEFINE d == sent
           fields == HeaderStream
           extra == IF file.magic = "PA31" THEN Pa31Extra(fields) ELSE <<>>
           long == d.hash > MaxHashLen \/ (file.magic = "PA31" /\ extra.hash > MaxHashLen)
<1>1. envelopePc = "header" BY DEF ParseHeader
<1>2. HasHeader(fields, d) /\ file.magic = d.version
      /\ (d.version = "PA31" =>
            Pa31Extra(fields) = [extra |-> [i \in 1 .. 3 |-> d.extra], hash |-> d.extraHash])
  BY <1>1, ReadsBothHeaders
<1>3. /\ Take(fields, 1, "i64") = d.types /\ Take(fields, 2, "i64") = d.type
      /\ Take(fields, 3, "i64") = d.flags /\ Take(fields, 4, "i64") = d.size
      /\ Take(fields, 5, "i64") = d.alg   /\ Take(fields, 6, "buffer") = d.hash
  <2> HIDE DEF fields
  <2> QED BY <1>2, ReadsHeaderFields
<1>4. file = WrittenDelta(d, file.dcm) /\ d.version # "PA19" /\ d \in Deltas
        /\ skipped = HeaderLength(d)
  BY <1>1 DEF EnvelopeInv
<1>5. extra = HeaderRead(d).extra BY <1>2 DEF HeaderRead
<1>6. long <=> TooLong
  <2>1. CASE d.version = "PA31"
    <3>1. extra.hash = d.extraHash BY <1>2, <2>1
    <3> HIDE DEF extra
    <3> QED BY <1>2, <2>1, <3>1 DEF TooLong
  <2>2. CASE d.version # "PA31" BY <1>2, <2>2 DEF TooLong
  <2> QED BY <2>1, <2>2
<1>7. CASE long \/ d.size < 0
  <2>1. Refused
    <3> HIDE DEF extra
    <3> QED BY <1>3, <1>7 DEF ParseHeader, extra
  <2>2. envelopePc' = "refused" /\ sent' = d /\ file' = file BY <2>1 DEF Refused
  <2>3. TooLong \/ d.size < 0 BY <1>6, <1>7
  <2>4. (TooLong \/ sent.size < 0)' BY <2>2, <2>3 DEF TooLong
  <2> QED BY <1>4, <2>2, <2>4 DEF EnvelopeInv, EnvelopeArrives
<1>8. CASE ~(long \/ d.size < 0)
  <2>1. /\ got' = [types |-> d.types, type |-> d.type, flags |-> d.flags, size |-> d.size,
                   alg |-> d.alg, hash |-> d.hash, extra |-> extra]
        /\ envelopePc' = "bodies" /\ sent' = d /\ file' = file /\ skipped' = skipped
    <3> HIDE DEF extra
    <3> QED BY <1>3, <1>8 DEF ParseHeader, extra
  <2>2. got' = HeaderRead(d) BY <1>5, <2>1 DEF HeaderRead
  <2> QED BY <1>4, <2>1, <2>2 DEF EnvelopeInv, EnvelopeArrives
<1> QED BY <1>7, <1>8

\* The fields of a delta that are in its header.
LEMMA HeaderArrives ==
  ASSUME NEW d, NEW h, h = HeaderRead(d)
  PROVE  /\ [types |-> h.types, type |-> h.type, flags |-> h.flags, size |-> h.size,
             alg |-> h.alg, hash |-> h.hash]
              = [types |-> d.types, type |-> d.type, flags |-> d.flags, size |-> d.size,
                 alg |-> d.alg, hash |-> d.hash]
         /\ d.version = "PA31" =>
              h.extra = [extra |-> [i \in 1 .. 3 |-> d.extra], hash |-> d.extraHash]
BY DEF HeaderRead

\* The bodies are told apart by the types of the header.
LEMMA ReadBodiesKeepsInv == EnvelopeInv /\ ReadBodies => EnvelopeInv'
<1> SUFFICES ASSUME EnvelopeInv, ReadBodies PROVE EnvelopeInv'
  OBVIOUS
<1> DEFINE d == sent
           body(i) == Take(file.fields, skipped + i, "buffer")
<1>1. envelopePc = "bodies" BY DEF ReadBodies
<1>2. file = WrittenDelta(d, file.dcm) /\ d.version # "PA19" /\ d \in Deltas /\ got = HeaderRead(d)
  BY <1>1 DEF EnvelopeInv
<1>3. /\ d.reversal = (256 \in d.types)
      /\ ~d.reversal /\ d.type # 1 =>
           d.image = ImageFields(d.image) /\ d.pre = PreprocessFields(d.image)
  BY <1>2, EnvelopeAssumption
<1>4. /\ d.reversal => body(1) = d.patch
      /\ ~d.reversal => body(1) = d.pre /\ body(2) = d.patch
  BY <1>1, ReadsBothBodies
<1>5. IsReversal(got) <=> d.reversal BY <1>2, <1>3 DEF IsReversal, HeaderRead
<1>6. sent' = d /\ file' = file BY DEF ReadBodies
<1> HIDE DEF body
<1>7. CASE d.reversal
  <2>1. got' = [header |-> got, pre |-> <<>>, patch |-> d.patch] /\ envelopePc' = "done"
    BY <1>4, <1>5, <1>7 DEF ReadBodies, body
  <2>2. got'.header = HeaderRead(d) /\ got'.patch = d.patch BY <1>2, <2>1
  <2>3. Pa30Arrives' BY <1>6, <1>7, <2>2, HeaderArrives DEF Pa30Arrives
  <2> QED BY <1>2, <1>6, <2>1, <2>3 DEF EnvelopeInv, EnvelopeArrives
<1>8. CASE ~d.reversal
  <2>1. /\ got' = [header |-> got, pre |-> d.pre, patch |-> d.patch]
        /\ envelopePc' = IF got.type # 1 /\ d.pre # <<>> THEN "preprocess" ELSE "done"
    BY <1>4, <1>5, <1>8 DEF ReadBodies, body
  <2>2. got'.header = HeaderRead(d) /\ got'.patch = d.patch BY <1>2, <2>1
  <2>3. got.type = d.type BY <1>2 DEF HeaderRead
  <2>4. CASE d.type = 1
    <3>1. envelopePc' = "done" BY <2>1, <2>3, <2>4
    <3>2. Pa30Arrives' BY <1>6, <2>2, <2>4, HeaderArrives DEF Pa30Arrives
    <3> QED BY <1>2, <1>6, <3>1, <3>2 DEF EnvelopeInv, EnvelopeArrives
  <2>5. CASE d.type # 1
    <3>1. d.pre # <<>> BY <1>3, <1>8, <2>5, ReadsThePreprocessFields
    <3>2. envelopePc' = "preprocess" BY <2>1, <2>3, <2>5, <3>1
    <3> QED BY <1>2, <1>6, <1>8, <2>1, <2>5, <3>2 DEF EnvelopeInv, EnvelopeArrives
  <2> QED BY <2>4, <2>5
<1> QED BY <1>7, <1>8

\* A map that was left out is empty.
LEMMA ImageWithItsMap ==
  ASSUME NEW p, p = ImageFields(p)
  PROVE  [p EXCEPT !.map = IF @ = "left out" THEN "empty" ELSE @]
           = [base |-> p.base, checksum |-> p.checksum, stamp |-> p.stamp,
              sections |-> p.sections, metadata |-> p.metadata, moves |-> p.moves,
              map |-> IF p.map = "left out" THEN "empty" ELSE p.map]
<1>1. PICK b, c, t, s, x, m, v :
        p = [base |-> b, checksum |-> c, stamp |-> t, sections |-> s, metadata |-> x,
             moves |-> m, map |-> v]
  BY DEF ImageFields
<1>2. /\ p.base = b /\ p.checksum = c /\ p.stamp = t /\ p.sections = s /\ p.metadata = x
      /\ p.moves = m /\ p.map = v
  BY <1>1
<1> DEFINE left == IF v = "left out" THEN "empty" ELSE v
           r == [base |-> b, checksum |-> c, stamp |-> t, sections |-> s, metadata |-> x,
                 moves |-> m, map |-> v]
<1>3. [r EXCEPT !.map = left]
        = [base |-> b, checksum |-> c, stamp |-> t, sections |-> s, metadata |-> x,
           moves |-> m, map |-> left]
  <2> HIDE DEF left
  <2> QED OBVIOUS
<1>4. [p EXCEPT !.map = IF @ = "left out" THEN "empty" ELSE @] = [r EXCEPT !.map = left]
  BY <1>1, <1>2
<1> QED BY <1>2, <1>3, <1>4

\* The preprocess data of an image is read field by field.
LEMMA ReadPreprocessKeepsInv == EnvelopeInv /\ ReadPreprocess => EnvelopeInv'
<1> SUFFICES ASSUME EnvelopeInv, ReadPreprocess PROVE EnvelopeInv'
  OBVIOUS
<1> DEFINE d == sent
           fields == got.pre
           p == d.image
           read == [i \in 1 .. 6 |-> Take(fields, i, PreprocessKinds[i])]
           map == IF Len(fields) > 6 THEN Take(fields, 7, "map") ELSE "empty"
<1>1. envelopePc = "preprocess" /\ envelopePc' = "done" /\ sent' = d /\ file' = file
  BY DEF ReadPreprocess
<1>2. /\ file = WrittenDelta(d, file.dcm) /\ d.version # "PA19" /\ d \in Deltas
      /\ ~d.reversal /\ d.type # 1
      /\ got = [header |-> HeaderRead(d), pre |-> d.pre, patch |-> d.patch]
  BY <1>1 DEF EnvelopeInv
<1>3. p = ImageFields(p) /\ d.pre = PreprocessFields(p)
  BY <1>2, EnvelopeAssumption
<1>4. fields = PreprocessFields(p) BY <1>2, <1>3
<1>5. /\ Take(fields, 1, PreprocessKinds[1]) = p.base
      /\ Take(fields, 2, PreprocessKinds[2]) = p.checksum
      /\ Take(fields, 3, PreprocessKinds[3]) = p.stamp
      /\ Take(fields, 4, PreprocessKinds[4]) = p.sections
      /\ Take(fields, 5, PreprocessKinds[5]) = p.metadata
      /\ Take(fields, 6, PreprocessKinds[6]) = p.moves
      /\ map = (IF p.map = "left out" THEN "empty" ELSE p.map)
  BY <1>4, ReadsThePreprocessFields
<1>6. /\ read[1] = p.base /\ read[2] = p.checksum /\ read[3] = p.stamp
      /\ read[4] = p.sections /\ read[5] = p.metadata /\ read[6] = p.moves
  <2>1. \A i \in 1 .. 6 : read[i] = Take(fields, i, PreprocessKinds[i]) OBVIOUS
  <2>2. 1 \in 1 .. 6 /\ 2 \in 1 .. 6 /\ 3 \in 1 .. 6 /\ 4 \in 1 .. 6 /\ 5 \in 1 .. 6 /\ 6 \in 1 .. 6
    OBVIOUS
  <2> HIDE DEF read, fields, p, map
  <2> QED BY <1>5, <2>1, <2>2
<1>7. got' = [header |-> got.header, patch |-> got.patch,
              pre |-> [base |-> read[1], checksum |-> read[2], stamp |-> read[3],
                       sections |-> read[4], metadata |-> read[5], moves |-> read[6],
                       map |-> map]]
  BY DEF ReadPreprocess
<1> HIDE DEF read, map, fields
<1>8. /\ got'.header = HeaderRead(d) /\ got'.patch = d.patch
      /\ got'.pre = [base |-> p.base, checksum |-> p.checksum, stamp |-> p.stamp,
                     sections |-> p.sections, metadata |-> p.metadata, moves |-> p.moves,
                     map |-> IF p.map = "left out" THEN "empty" ELSE p.map]
  BY <1>2, <1>5, <1>6, <1>7
<1>9. [p EXCEPT !.map = IF @ = "left out" THEN "empty" ELSE @]
        = [base |-> p.base, checksum |-> p.checksum, stamp |-> p.stamp,
           sections |-> p.sections, metadata |-> p.metadata, moves |-> p.moves,
           map |-> IF p.map = "left out" THEN "empty" ELSE p.map]
  BY <1>3, ImageWithItsMap
<1>10. got'.pre = [p EXCEPT !.map = IF @ = "left out" THEN "empty" ELSE @] BY <1>8, <1>9
<1>11. Pa30Arrives'
  <2>1. sent' = d BY <1>1
  <2> DEFINE h == got'.header
  <2>2. h = HeaderRead(d) BY <1>8
  <2>3. /\ [types |-> h.types, type |-> h.type, flags |-> h.flags, size |-> h.size,
            alg |-> h.alg, hash |-> h.hash]
              = [types |-> d.types, type |-> d.type, flags |-> d.flags, size |-> d.size,
                 alg |-> d.alg, hash |-> d.hash]
        /\ d.version = "PA31" =>
             h.extra = [extra |-> [i \in 1 .. 3 |-> d.extra], hash |-> d.extraHash]
    BY <2>2, HeaderArrives
  <2>4. got'.patch = d.patch BY <1>8
  <2> QED BY <2>1, <2>3, <2>4, <1>10 DEF Pa30Arrives
<1> QED BY <1>1, <1>2, <1>11 DEF EnvelopeInv, EnvelopeArrives

\* A PA19 delta is refused only for its window or, without one, for its entries.
LEMMA ReadPa19KeepsInv == EnvelopeInv /\ ReadPa19 => EnvelopeInv'
<1> SUFFICES ASSUME EnvelopeInv, ReadPa19 PROVE EnvelopeInv'
  OBVIOUS
<1> DEFINE d == sent
           words == Pa19Words(d)
           entries == Len(d.entries) \div 3
           window == IF 4 \in d.flags THEN words[7] ELSE 17
           count == IF 8 \in d.flags THEN words[8] ELSE 0
           refuses == \/ Len(words) < (IF 8 \in d.flags THEN 9 ELSE IF 4 \in d.flags THEN 8 ELSE 7)
                      \/ window > 31
                      \/ DataAtWord(d.flags, count) > Len(words) + 1
           excused == 8 \in d.flags /\ 4 \notin d.flags
<1>1. envelopePc = "pa19" /\ sent' = d /\ file' = file BY DEF ReadPa19, Refused
<1>2. /\ file = WrittenDelta(d, file.dcm) /\ d.version = "PA19" /\ d \in Deltas
  BY <1>1 DEF EnvelopeInv
<1>3. file.words = words BY <1>2 DEF WrittenDelta, WrittenWords
<1>4. /\ Len(words) \in Nat /\ Len(words) >= 10
      /\ words[2] = d.flags
      /\ 4 \in d.flags => words[7] = d.window
      /\ 4 \in d.flags /\ 8 \in d.flags => words[8] = entries
      /\ (8 \in d.flags => 4 \in d.flags) => DataAtWord(d.flags, entries) = Len(words) - 3
  BY <1>2, Pa19WordsAre
<1> HIDE DEF words
<1>5. ~excused => DataAtWord(d.flags, count) = Len(words) - 3
  <2>1. CASE 8 \in d.flags /\ 4 \in d.flags
    <3>1. count = entries BY <1>4, <2>1
    <3> QED BY <1>4, <2>1, <3>1
  <2>2. CASE 8 \notin d.flags
    <3>1. DataAtWord(d.flags, count) = DataAtWord(d.flags, entries) BY <2>2 DEF DataAtWord
    <3> QED BY <1>4, <2>2, <3>1
  <2> QED BY <2>1, <2>2
<1>6. CASE refuses
  <2>1. Refused BY <1>3, <1>4, <1>6 DEF ReadPa19
  <2>2. excused \/ (4 \in d.flags /\ d.window > 31)
    <3>1. ASSUME ~excused PROVE ~(DataAtWord(d.flags, count) > Len(words) + 1)
      BY <1>4, <1>5, <3>1
    <3>2. ~(Len(words) < (IF 8 \in d.flags THEN 9 ELSE IF 4 \in d.flags THEN 8 ELSE 7))
      BY <1>4
    <3>3. ASSUME window > 31 PROVE 4 \in d.flags /\ d.window > 31
      BY <1>4, <3>3
    <3> HIDE DEF window, count
    <3> QED BY <1>6, <3>1, <3>2, <3>3
  <2> QED BY <1>1, <1>2, <2>1, <2>2 DEF Refused, EnvelopeInv, EnvelopeArrives
<1>7. CASE ~refuses
  <2>1. /\ got' = [header |-> [flags |-> d.flags, size |-> words[5], window |-> window],
                   data |-> DataAtWord(d.flags, count)]
        /\ envelopePc' = "done"
    BY <1>3, <1>4, <1>7 DEF ReadPa19
  <2>2. /\ got'.data = DataAtWord(d.flags, count) /\ got'.header.window = window
    <3> HIDE DEF window, count
    <3> QED BY <2>1
  <2>3. 4 \in d.flags => window = d.window BY <1>4
  <2>4. Pa19Arrives'
    <3>1. file'.words = words BY <1>1, <1>3
    <3> HIDE DEF window, count
    <3> QED BY <1>1, <1>5, <2>2, <2>3, <3>1 DEF Pa19Arrives
  <2> QED BY <1>1, <1>2, <2>1, <2>4 DEF EnvelopeInv, EnvelopeArrives
<1> QED BY <1>6, <1>7

\* Every step keeps what is known of the delta and of what was read of it.
LEMMA EnvelopeInvInductive == EnvelopeInv /\ [EnvelopeNext]_envelopeVars => EnvelopeInv'
<1>1. EnvelopeInv /\ UNCHANGED envelopeVars => EnvelopeInv'
  BY DEF envelopeVars, EnvelopeInv, EnvelopeArrives, Pa19Arrives, Pa30Arrives, TooLong
<1> QED
  BY <1>1, OpeningKeepsInv, ParseHeaderKeepsInv, ReadBodiesKeepsInv, ReadPreprocessKeepsInv,
     ReadPa19KeepsInv DEF EnvelopeNext

\* Whatever a writer says, in whichever of the three forms, is read as it was written,
\* and refused only for what a reader must refuse (parse, pa19::header::decode).
THEOREM EnvelopesAlwaysArrive ==
  EnvelopeInit /\ [][EnvelopeNext]_envelopeVars => []EnvelopeArrives
<1>1. EnvelopeInv => EnvelopeArrives BY DEF EnvelopeInv
<1> QED BY <1>1, EnvelopeInitInv, EnvelopeInvInductive, PTL

-----------------------------------------------------------------------------
(***************************************************************************)
(* The tables at the head of a stream.                                     *)
(***************************************************************************)
CodeSymbols ==
  [kind : {"length", "step", "previous", "same"}, number : Int, bits : Int, extra : Int]

\* How many lengths a symbol stands for.
Extent(sym) == IF IsRun(sym) THEN CountOf(sym) ELSE 1

\* What a symbol says of the lengths behind the first ones, and those before them.
Says(sym, list, before, first) ==
  /\ Extent(sym) \in Nat \ {0}
  /\ first + Extent(sym) <= Len(list)
  /\ IsRun(sym) => first + Extent(sym) < Len(list)
  /\ sym.kind = "length"   => sym.number = list[first + 1]
  /\ sym.kind = "step"     => sym.number = list[first + 1] - before[first + 1]
  /\ sym.kind = "previous" =>
       \A i \in first + 1 .. first + Extent(sym) : list[i] = before[i]
  /\ sym.kind = "same" =>
       /\ first > 0
       /\ \A i \in first + 1 .. first + Extent(sym) : list[i] = list[first]

\* Symbols that say one after the other what the lengths up to one are.
Spells(mark, syms, list, before, end) ==
  /\ mark \in [0 .. Len(syms) -> 0 .. end]
  /\ mark[0] = 0 /\ mark[Len(syms)] = end
  /\ \A k \in 1 .. Len(syms) :
       mark[k] = mark[k - 1] + Extent(syms[k]) /\ Says(syms[k], list, before, mark[k - 1])

Spelled(syms, list, before, end) == \E mark : Spells(mark, syms, list, before, end)

BeforeIn(segments, s) == IF s = 1 THEN Zeros(segments[1]) ELSE segments[s - 1]

LengthLists(n) == [1 .. n -> 0 .. MaxCodeLen]

\* A run is taken for as many lengths as it was written for.
LEMMA RunsCount ==
  ASSUME NEW count \in 4 .. 127, NEW kind \in {"previous", "same"}
  PROVE  /\ RunOf(kind, count) \in CodeSymbols
         /\ RunOf(kind, count).kind = kind
         /\ IsRun(RunOf(kind, count)) /\ Extent(RunOf(kind, count)) = count
<1> DEFINE Within(p) == Powers[p] <= count /\ count < Powers[p + 1]
           power == CHOOSE p \in 1 .. 6 : Within(p)
<1>1. \A p \in 1 .. 7 : Powers[p] \in Nat BY DEF Powers
<1>2. Powers[2] = 4 /\ Powers[3] = 8 /\ Powers[4] = 16 /\ Powers[5] = 32 /\ Powers[6] = 64
        /\ Powers[7] = 128 /\ Powers[1] = 2
  BY DEF Powers
<1>3. \E p \in 1 .. 6 : Within(p)
  <2>1. Within(2) \/ Within(3) \/ Within(4) \/ Within(5) \/ Within(6) BY <1>2
  <2> QED BY <2>1
<1>4. power \in 1 .. 6 /\ Within(power)
  <2> HIDE DEF Within
  <2> QED BY <1>3
<1>5. power # 1 BY <1>2, <1>4
<1> HIDE DEF power
<1>6. RunOf(kind, count) =
        [kind |-> kind, number |-> power + 1, bits |-> power, extra |-> count - Powers[power]]
  BY DEF RunOf, power
<1>7. RunOf(kind, count) \in CodeSymbols BY <1>1, <1>4, <1>6 DEF CodeSymbols
<1>8. CountOf(RunOf(kind, count)) = count
  <2>1. CountOf(RunOf(kind, count)) = Powers[power + 1 - 1] + (count - Powers[power])
    BY <1>4, <1>5, <1>6 DEF CountOf
  <2>2. power + 1 - 1 = power /\ Powers[power] \in Nat BY <1>1, <1>4
  <2> QED BY <2>1, <2>2
<1> QED BY <1>6, <1>7, <1>8 DEF IsRun, Extent

\* One symbol more spells as many lengths more.
LEMMA SpellsOneMore ==
  ASSUME NEW syms \in Seq(CodeSymbols), NEW list, NEW before, NEW end \in Nat,
         Spelled(syms, list, before, end),
         NEW sym \in CodeSymbols, Says(sym, list, before, end)
  PROVE  /\ Spelled(Append(syms, sym), list, before, end + Extent(sym))
         /\ Append(syms, sym) \in Seq(CodeSymbols)
<1> DEFINE n == Len(syms)
           all == Append(syms, sym)
           size == Extent(sym)
<1>1. PICK mark : Spells(mark, syms, list, before, end) BY DEF Spelled
<1>2. n \in Nat /\ all \in Seq(CodeSymbols) /\ Len(all) = n + 1
      /\ (\A k \in 1 .. n : all[k] = syms[k]) /\ all[n + 1] = sym
  BY LenProperties, AppendProperties
<1> DEFINE p == [k \in 0 .. n + 1 |-> IF k = n + 1 THEN end + size ELSE mark[k]]
<1>3. size \in Nat \ {0} BY DEF Says
<1> HIDE DEF n, all, size
<1>4. /\ mark \in [0 .. n -> 0 .. end] /\ mark[0] = 0 /\ mark[n] = end
      /\ \A k \in 1 .. n :
           mark[k] = mark[k - 1] + Extent(syms[k]) /\ Says(syms[k], list, before, mark[k - 1])
  BY <1>1 DEF Spells, n
<1>5. p \in [0 .. n + 1 -> 0 .. end + size]
  <2>1. ASSUME NEW k \in 0 .. n + 1
        PROVE  (IF k = n + 1 THEN end + size ELSE mark[k]) \in 0 .. end + size
    <3>1. CASE k = n + 1 BY <3>1, <1>3
    <3>2. CASE k # n + 1
      <4>1. k \in 0 .. n BY <3>2, <1>2
      <4>2. mark[k] \in 0 .. end BY <4>1, <1>4
      <4> QED BY <3>2, <4>2, <1>3
    <3> QED BY <3>1, <3>2
  <2> QED BY <2>1
<1>6. p[0] = 0 /\ p[n + 1] = end + size /\ p[n] = end BY <1>2, <1>4
<1>7. ASSUME NEW k \in 1 .. n + 1
      PROVE  p[k] = p[k - 1] + Extent(all[k]) /\ Says(all[k], list, before, p[k - 1])
  <2>1. CASE k = n + 1
    <3>1. all[k] = sym /\ k - 1 = n BY <1>2, <2>1
    <3>2. p[k] = end + size /\ p[k - 1] = end BY <1>6, <2>1, <3>1
    <3> QED BY <3>1, <3>2 DEF size
  <2>2. CASE k # n + 1
    <3>1. k \in 1 .. n /\ k - 1 \in 0 .. n + 1 /\ k - 1 # n + 1 /\ k \in 0 .. n + 1 BY <1>2, <2>2
    <3>2. p[k] = mark[k] /\ p[k - 1] = mark[k - 1] BY <2>2, <3>1
    <3>3. all[k] = syms[k] BY <1>2, <3>1
    <3> HIDE DEF p
    <3> QED BY <1>4, <3>1, <3>2, <3>3
  <2> QED BY <2>1, <2>2
<1> HIDE DEF p
<1>8. Spells(p, all, list, before, end + size) BY <1>2, <1>5, <1>6, <1>7 DEF Spells
<1> QED BY <1>2, <1>8 DEF Spelled, all, size

\* Nothing spells no lengths.
LEMMA SpellsNothing ==
  ASSUME NEW list, NEW before PROVE Spelled(<<>>, list, before, 0)
<1> DEFINE p == [k \in 0 .. 0 |-> 0]
<1>1. p \in [0 .. Len(<<>>) -> 0 .. 0] /\ p[0] = 0 /\ Len(<<>>) = 0 OBVIOUS
<1>2. Spells(p, <<>>, list, before, 0)
  <2> HIDE DEF p
  <2> QED BY <1>1 DEF Spells
<1> QED BY <1>2 DEF Spelled

\* Symbols are left exactly while lengths are, and the next one is where the last ended.
LEMMA NextSymbol ==
  ASSUME NEW syms \in Seq(CodeSymbols), NEW list, NEW before, NEW end \in Nat, NEW mark,
         Spells(mark, syms, list, before, end), NEW k \in 0 .. Len(syms)
  PROVE  /\ mark[k] \in 0 .. end
         /\ (mark[k] < end) <=> (k < Len(syms))
         /\ k < Len(syms) =>
              /\ k + 1 \in 1 .. Len(syms) /\ syms[k + 1] \in CodeSymbols
              /\ mark[k + 1] = mark[k] + Extent(syms[k + 1])
              /\ Says(syms[k + 1], list, before, mark[k])
<1>1. Len(syms) \in Nat BY LenProperties
<1>2. /\ mark \in [0 .. Len(syms) -> 0 .. end] /\ mark[Len(syms)] = end
      /\ \A i \in 1 .. Len(syms) :
           mark[i] = mark[i - 1] + Extent(syms[i]) /\ Says(syms[i], list, before, mark[i - 1])
  BY DEF Spells
<1>3. mark[k] \in 0 .. end BY <1>2
<1>4. CASE k = Len(syms) BY <1>1, <1>2, <1>3, <1>4
<1>5. CASE k < Len(syms)
  <2>1. k + 1 \in 1 .. Len(syms) /\ (k + 1) - 1 = k /\ k + 1 \in 0 .. Len(syms) BY <1>1, <1>5
  <2>2. mark[k + 1] = mark[k] + Extent(syms[k + 1]) /\ Says(syms[k + 1], list, before, mark[k])
    BY <1>2, <2>1
  <2>3. mark[k + 1] \in 0 .. end BY <1>2, <2>1
  <2>4. Extent(syms[k + 1]) \in Nat \ {0} BY <2>2 DEF Says
  <2>5. mark[k] < end BY <1>3, <2>2, <2>3, <2>4
  <2>6. syms[k + 1] \in CodeSymbols BY <2>1, ElementOfSeq
  <2> QED BY <1>3, <1>5, <2>1, <2>2, <2>5, <2>6
<1> QED BY <1>1, <1>4, <1>5

NumLengths(f)  == Len(f.segments[1])
NumSegments(f) == Len(f.segments)

SpelledTo(f, syms, s, end) == Spelled(syms, f.segments[s], BeforeIn(f.segments, s), end)

\* How far the writer is in a segment.
WrittenTo(s) == IF s < segment THEN NumLengths(format) ELSE IF s = segment THEN at ELSE 0

\* The reader has the lengths the symbols it has read spell.
ReadTo(mark) ==
  /\ Spells(mark, symbols[segment], format.segments[segment],
            BeforeIn(format.segments, segment), NumLengths(format))
  /\ at \in 0 .. Len(symbols[segment])
  /\ result.segments[segment] = [i \in 1 .. mark[at] |-> format.segments[segment][i]]

FormatInv ==
  /\ format \in Formats
  /\ formatPc \in {"write", "read", "done"}
  /\ symbols \in [1 .. NumSegments(format) -> Seq(CodeSymbols)]
  /\ formatPc = "write" =>
       /\ segment \in 1 .. NumSegments(format) /\ at \in 0 .. NumLengths(format)
       /\ \A s \in 1 .. NumSegments(format) : SpelledTo(format, symbols[s], s, WrittenTo(s))
  /\ formatPc # "write" =>
       /\ \A s \in 1 .. NumSegments(format) :
            SpelledTo(format, symbols[s], s, NumLengths(format))
       /\ header = <<NumSegments(format)>> \o Steps(format.boundaries)
       /\ segment \in 0 .. NumSegments(format)
       /\ segment = 0 => at = 0
       /\ segment > 0 =>
            /\ result = [boundaries |-> format.boundaries, segments |-> result.segments]
            /\ result.segments \in [1 .. segment -> Seq(0 .. MaxCodeLen)]
            /\ \A s \in 1 .. segment - 1 : result.segments[s] = format.segments[s]
            /\ \E mark : ReadTo(mark)
  /\ formatPc = "done" =>
       segment = NumSegments(format) /\ result = format /\ at = Len(symbols[segment])

\* A length is a byte, and a run no longer than 127.
LEMMA CodeBounds == MaxRun \in 1 .. 127 /\ MaxCodeLen \in 0 .. 255 /\ MaxCodeLen \in Nat
<1>1. MaxRun \in 1 .. 127 /\ MaxCodeLen \in 0 .. 255 BY FormatAssumption
<1> QED BY <1>1

\* The segments of a format.
LEMMA FormatFacts ==
  ASSUME NEW f \in Formats
  PROVE  /\ NumSegments(f) \in 1 .. MaxSegments /\ NumSegments(f) \in Nat \ {0}
         /\ NumLengths(f) \in Nat \ {0}
         /\ f.segments \in [1 .. NumSegments(f) -> LengthLists(NumLengths(f))]
         /\ \A s \in 1 .. NumSegments(f) :
              /\ f.segments[s] \in LengthLists(NumLengths(f)) /\ Len(f.segments[s]) = NumLengths(f)
              /\ BeforeIn(f.segments, s) \in LengthLists(NumLengths(f))
         /\ f.boundaries \in [1 .. NumSegments(f) -> Int]
         /\ f = [boundaries |-> f.boundaries, segments |-> f.segments]
<1>1. /\ NumSegments(f) \in 1 .. MaxSegments /\ MaxSegments \in Nat /\ MaxCodeLen \in 0 .. 255
      /\ f = [boundaries |-> f.boundaries, segments |-> f.segments]
      /\ f.boundaries \in [1 .. NumSegments(f) -> Int]
      /\ NumLengths(f) \in Nat \ {0}
      /\ f.segments \in [1 .. NumSegments(f) -> LengthLists(NumLengths(f))]
  BY FormatAssumption DEF NumSegments, NumLengths, LengthLists
<1>2. NumSegments(f) \in Nat \ {0} BY <1>1
<1>3. ASSUME NEW s \in 1 .. NumSegments(f)
      PROVE  f.segments[s] \in LengthLists(NumLengths(f)) /\ Len(f.segments[s]) = NumLengths(f)
  <2>1. f.segments[s] \in LengthLists(NumLengths(f)) BY <1>1
  <2> QED BY <2>1, <1>1 DEF LengthLists
<1>4. ASSUME NEW s \in 1 .. NumSegments(f)
      PROVE  BeforeIn(f.segments, s) \in LengthLists(NumLengths(f))
  <2>1. CASE s = 1
    <3>1. 1 \in 1 .. NumSegments(f) BY <1>2
    <3>2. f.segments[1] \in LengthLists(NumLengths(f)) BY <1>3, <3>1
    <3>3. Zeros(f.segments[1]) \in LengthLists(NumLengths(f))
      <4> DEFINE list == f.segments[1]
                 n == NumLengths(f)
      <4>1. list \in [1 .. n -> 0 .. MaxCodeLen] BY <3>2 DEF LengthLists
      <4>2. 0 \in 0 .. MaxCodeLen BY CodeBounds
      <4> HIDE DEF list, n
      <4>3. [i \in DOMAIN list |-> 0] \in [1 .. n -> 0 .. MaxCodeLen] BY <4>1, <4>2
      <4> QED BY <4>3 DEF Zeros, LengthLists, list, n
    <3> QED BY <2>1, <3>3 DEF BeforeIn
  <2>2. CASE s # 1
    <3>1. s - 1 \in 1 .. NumSegments(f) BY <1>2, <2>2
    <3> QED BY <1>3, <2>2, <3>1 DEF BeforeIn
  <2> QED BY <2>1, <2>2
<1> QED BY <1>1, <1>2, <1>3, <1>4

\* Nothing is written at first.
LEMMA InitFormatInv == FormatInit => FormatInv
<1> SUFFICES ASSUME FormatInit PROVE FormatInv OBVIOUS
<1>1. /\ format \in Formats /\ formatPc = "write" /\ segment = 1 /\ at = 0
      /\ symbols = [s \in DOMAIN format.segments |-> <<>>]
  BY DEF FormatInit
<1>2. /\ DOMAIN format.segments = 1 .. NumSegments(format) /\ NumSegments(format) \in Nat \ {0}
      /\ NumLengths(format) \in Nat \ {0}
  BY <1>1, FormatFacts
<1>3. symbols \in [1 .. NumSegments(format) -> Seq(CodeSymbols)] BY <1>1, <1>2
<1>4. ASSUME NEW s \in 1 .. NumSegments(format)
      PROVE  SpelledTo(format, symbols[s], s, WrittenTo(s))
  <2>1. symbols[s] = <<>> /\ WrittenTo(s) = 0 BY <1>1, <1>2 DEF WrittenTo
  <2> QED BY <2>1, SpellsNothing DEF SpelledTo
<1> QED BY <1>1, <1>2, <1>3, <1>4 DEF FormatInv

\* A run is one that fits.
LEMMA LongestRun ==
  ASSUME NEW limit \in Int, NEW fits \in SUBSET (0 .. Least(MaxRun, limit)),
         NEW run, run = IF fits = {} THEN 0 ELSE CHOOSE n \in fits : \A m \in fits : m <= n
  PROVE  run = 0 \/ run \in fits
<1>1. CASE fits = {} BY <1>1
<1>2. CASE fits # {}
  <2> DEFINE top == Least(MaxRun, limit)
             S == {k \in 0 .. top : top - k \in fits}
  <2>1. top \in Int BY CodeBounds DEF Least
  <2>2. PICK x \in fits : TRUE BY <1>2
  <2>3. x \in 0 .. top /\ top \in Nat BY <2>1, <2>2
  <2>3a. fits \in SUBSET (0 .. top) OBVIOUS
  <2> HIDE DEF top
  <2>4. top - x \in S /\ S \in SUBSET (0 .. top)
    <3>1. top - x \in 0 .. top /\ top - (top - x) = x BY <2>3
    <3> QED BY <2>2, <3>1
  <2>5. PICK least \in S : \A k \in S : least <= k
    <3> HIDE DEF S
    <3> QED BY <2>3, <2>4, SmallestNumber
  <2>6. top - least \in fits /\ least \in 0 .. top BY <2>5
  <2>7. ASSUME NEW y \in fits PROVE y <= top - least
    <3>1. y \in 0 .. top BY <2>3a
    <3>2. top - y \in 0 .. top /\ top - (top - y) = y BY <2>3, <3>1
    <3>3. top - y \in S BY <3>2
    <3>4. least <= top - y BY <2>5, <3>3
    <3> QED BY <2>3, <2>6, <3>1, <3>4
  <2>8. \E n \in fits : \A z \in fits : z <= n BY <2>6, <2>7
  <2> QED BY <1>2, <2>8
<1> QED BY <1>1, <1>2

\* What the writer needs to know of where it is.
LEMMA WriterIsAt ==
  ASSUME FormatInv, formatPc = "write"
  PROVE  /\ segment \in 1 .. NumSegments(format) /\ at \in 0 .. NumLengths(format)
         /\ Lengths \in LengthLists(NumLengths(format)) /\ Len(Lengths) = NumLengths(format)
         /\ NumLengths(format) \in Nat \ {0} /\ NumSegments(format) \in Nat \ {0}
         /\ Previous(format.segments) = BeforeIn(format.segments, segment)
         /\ BeforeIn(format.segments, segment) \in LengthLists(NumLengths(format))
<1>1. format \in Formats /\ segment \in 1 .. NumSegments(format) /\ at \in 0 .. NumLengths(format)
  BY DEF FormatInv
<1> QED BY <1>1, FormatFacts DEF Lengths, Previous, BeforeIn

\* A run of the lengths before is one.
LEMMA RunOfPreviousIsOne ==
  ASSUME FormatInv, formatPc = "write", RunOfPrevious >= 4
  PROVE  /\ RunOfPrevious \in 4 .. 127 /\ at + RunOfPrevious < Len(Lengths)
         /\ \A i \in at + 1 .. at + RunOfPrevious :
              Lengths[i] = BeforeIn(format.segments, segment)[i]
<1> DEFINE limit == RunEnd - at
           before == BeforeIn(format.segments, segment)
           fits == {n \in 0 .. Least(MaxRun, limit) :
                      \A i \in at + 1 .. at + n : Lengths[i] = before[i]}
           run == IF fits = {} THEN 0 ELSE CHOOSE n \in fits : \A m \in fits : m <= n
<1>1. /\ at \in Nat /\ Len(Lengths) \in Nat /\ limit = Len(Lengths) - 1 - at /\ limit \in Int
      /\ Previous(format.segments) = before
  BY WriterIsAt DEF RunEnd
<1>2. RunOfPrevious = IF at + 3 < Len(Lengths) THEN run ELSE 0
  BY <1>1 DEF RunOfPrevious, Run
<1>3. run = 0 \/ run \in fits
  <2>1. fits \in SUBSET (0 .. Least(MaxRun, limit)) OBVIOUS
  <2> HIDE DEF fits, limit
  <2> QED BY <1>1, <2>1, LongestRun
<1>4. RunOfPrevious = run /\ run \in fits
  <2> HIDE DEF run
  <2> QED BY <1>2, <1>3
<1> HIDE DEF run
<1>5. run \in 0 .. Least(MaxRun, limit)
      /\ \A i \in at + 1 .. at + run : Lengths[i] = before[i]
  BY <1>4
<1>6. run <= MaxRun /\ run <= limit /\ run \in Nat /\ MaxRun <= 127
  <2>1. run \in 0 .. Least(MaxRun, limit) /\ limit \in Int BY <1>1, <1>5
  <2> HIDE DEF limit
  <2> QED BY <2>1, CodeBounds DEF Least
<1>7. RunOfPrevious = run BY <1>4
<1>8. run >= 4 BY <1>7
<1>9. run \in 4 .. 127 /\ at + run < Len(Lengths)
  <2> HIDE DEF limit
  <2> QED BY <1>1, <1>6, <1>8, CodeBounds
<1> QED BY <1>5, <1>7, <1>9

\* A run of the last length written is one.
LEMMA RunOfSameIsOne ==
  ASSUME FormatInv, formatPc = "write", RunOfSame >= 4
  PROVE  /\ RunOfSame \in 4 .. 127 /\ at + RunOfSame < Len(Lengths) /\ at > 0
         /\ \A i \in at + 1 .. at + RunOfSame : Lengths[i] = Lengths[at]
<1> DEFINE limit == RunEnd - at
           fits == {n \in 0 .. Least(MaxRun, limit) :
                      \A i \in at + 1 .. at + n : Lengths[i] = Lengths[at]}
           run == IF fits = {} THEN 0 ELSE CHOOSE n \in fits : \A m \in fits : m <= n
<1>1. at \in Nat /\ Len(Lengths) \in Nat /\ limit = Len(Lengths) - 1 - at /\ limit \in Int
  BY WriterIsAt DEF RunEnd
<1>2. RunOfSame = IF at > 0 THEN run ELSE 0
  BY <1>1 DEF RunOfSame, Run
<1>3. run = 0 \/ run \in fits
  <2>1. fits \in SUBSET (0 .. Least(MaxRun, limit)) OBVIOUS
  <2> HIDE DEF fits, limit
  <2> QED BY <1>1, <2>1, LongestRun
<1>4. RunOfSame = run /\ run \in fits /\ at > 0
  <2> HIDE DEF run
  <2> QED BY <1>2, <1>3
<1> HIDE DEF run
<1>5. run \in 0 .. Least(MaxRun, limit)
      /\ \A i \in at + 1 .. at + run : Lengths[i] = Lengths[at]
  BY <1>4
<1>6. run <= MaxRun /\ run <= limit /\ run \in Nat /\ MaxRun <= 127
  <2>1. run \in 0 .. Least(MaxRun, limit) /\ limit \in Int BY <1>1, <1>5
  <2> HIDE DEF limit
  <2> QED BY <2>1, CodeBounds DEF Least
<1>7. RunOfSame = run /\ at > 0 BY <1>4
<1>8. run >= 4 BY <1>7
<1>9. run \in 4 .. 127 /\ at + run < Len(Lengths)
  <2> HIDE DEF limit
  <2> QED BY <1>1, <1>6, <1>8, CodeBounds
<1> QED BY <1>5, <1>7, <1>9

\* A symbol that says the next lengths may be written for them.
LEMMA WriteKeepsInv ==
  ASSUME FormatInv, formatPc = "write",
         NEW sym \in CodeSymbols, NEW count, Write(sym, count), count = Extent(sym),
         Says(sym, Lengths, BeforeIn(format.segments, segment), at)
  PROVE  FormatInv'
<1> DEFINE n == NumLengths(format)
           before == BeforeIn(format.segments, segment)
           syms == symbols[segment]
<1>1. /\ segment \in 1 .. NumSegments(format) /\ at \in 0 .. n /\ n \in Nat /\ Len(Lengths) = n
      /\ NumSegments(format) \in Nat
  BY WriterIsAt
<1>2. symbols \in [1 .. NumSegments(format) -> Seq(CodeSymbols)] /\ syms \in Seq(CodeSymbols)
  BY <1>1 DEF FormatInv
<1>3. Spelled(syms, Lengths, before, at)
  <2>1. SpelledTo(format, symbols[segment], segment, WrittenTo(segment)) BY <1>1 DEF FormatInv
  <2>2. WrittenTo(segment) = at BY <1>1 DEF WrittenTo
  <2> QED BY <2>1, <2>2 DEF SpelledTo, Lengths
<1>4. /\ Spelled(Append(syms, sym), Lengths, before, at + count)
      /\ Append(syms, sym) \in Seq(CodeSymbols)
  <2> HIDE DEF before, syms
  <2>1. Says(sym, Lengths, before, at) BY DEF before
  <2> QED BY <1>1, <1>2, <1>3, <2>1, SpellsOneMore
<1>5. count \in Nat \ {0} /\ at + count <= n BY <1>1 DEF Says
<1>6. /\ symbols' = [symbols EXCEPT ![segment] = Append(syms, sym)] /\ at' = at + count
      /\ format' = format /\ header' = header /\ formatPc' = formatPc /\ segment' = segment
  BY DEF Write
<1> DEFINE added == Append(syms, sym)
<1>7. added \in Seq(CodeSymbols) /\ Spelled(added, Lengths, before, at + count) BY <1>4
<1>8. symbols' = [symbols EXCEPT ![segment] = added] BY <1>6
<1> HIDE DEF added
<1>9. symbols' \in [1 .. NumSegments(format) -> Seq(CodeSymbols)] BY <1>2, <1>7, <1>8
<1>10. ASSUME NEW s \in 1 .. NumSegments(format)
       PROVE  SpelledTo(format, symbols'[s], s, WrittenTo(s)')
  <2>1. CASE s = segment
    <3>1. symbols'[s] = added BY <1>2, <1>8, <2>1
    <3>2. WrittenTo(s)' = at + count BY <1>1, <1>6, <2>1 DEF WrittenTo
    <3> QED BY <1>7, <2>1, <3>1, <3>2 DEF SpelledTo, Lengths
  <2>2. CASE s # segment
    <3>1. symbols'[s] = symbols[s] BY <1>2, <1>8, <2>2
    <3>2. WrittenTo(s)' = WrittenTo(s) BY <1>6, <2>2 DEF WrittenTo
    <3>3. SpelledTo(format, symbols[s], s, WrittenTo(s)) BY DEF FormatInv
    <3> QED BY <3>1, <3>2, <3>3
  <2> QED BY <2>1, <2>2
<1>11. format \in Formats BY DEF FormatInv
<1>12. at' \in 0 .. n BY <1>1, <1>5, <1>6
<1> QED BY <1>1, <1>6, <1>9, <1>10, <1>11, <1>12 DEF FormatInv

\* The writer writes the lengths it has before it.
LEMMA WriteLengthsKeepsInv == FormatInv /\ WriteLengths => FormatInv'
<1> SUFFICES ASSUME FormatInv, WriteLengths PROVE FormatInv' OBVIOUS
<1> DEFINE n == NumLengths(format)
           before == BeforeIn(format.segments, segment)
           diff == Lengths[at + 1] - before[at + 1]
<1>1. /\ formatPc = "write" /\ at < Len(Lengths)
      /\ Previous(format.segments) = before
      /\ at \in 0 .. n /\ n \in Nat /\ Len(Lengths) = n
      /\ Lengths \in LengthLists(n) /\ before \in LengthLists(n)
  BY WriterIsAt DEF WriteLengths
<1>2. at + 1 \in 1 .. n /\ Lengths[at + 1] \in Int /\ before[at + 1] \in Int
  <2>1. at + 1 \in 1 .. n BY <1>1
  <2>2. Lengths[at + 1] \in 0 .. MaxCodeLen /\ before[at + 1] \in 0 .. MaxCodeLen
    <3> HIDE DEF n, before
    <3> QED BY <1>1, <2>1 DEF LengthLists
  <2> QED BY <2>1, <2>2
<1>3. CASE RunOfPrevious >= 4
  <2> DEFINE sym == RunOf("previous", RunOfPrevious)
  <2>1. Write(sym, RunOfPrevious) BY <1>1, <1>3 DEF WriteLengths
  <2>2. /\ RunOfPrevious \in 4 .. 127 /\ at + RunOfPrevious < Len(Lengths)
        /\ \A i \in at + 1 .. at + RunOfPrevious : Lengths[i] = before[i]
    BY <1>1, <1>3, RunOfPreviousIsOne
  <2>3. sym \in CodeSymbols /\ sym.kind = "previous" /\ Extent(sym) = RunOfPrevious
    BY <2>2, RunsCount
  <2> HIDE DEF sym, before, n
  <2>4. Says(sym, Lengths, before, at) BY <1>1, <2>2, <2>3 DEF Says
  <2> QED BY <1>1, <2>1, <2>3, <2>4, WriteKeepsInv DEF before
<1>4. CASE ~ (RunOfPrevious >= 4) /\ RunOfSame >= 4
  <2> DEFINE sym == RunOf("same", RunOfSame)
  <2>1. Write(sym, RunOfSame) BY <1>1, <1>4 DEF WriteLengths
  <2>2. /\ RunOfSame \in 4 .. 127 /\ at + RunOfSame < Len(Lengths) /\ at > 0
        /\ \A i \in at + 1 .. at + RunOfSame : Lengths[i] = Lengths[at]
    BY <1>1, <1>4, RunOfSameIsOne
  <2>3. sym \in CodeSymbols /\ sym.kind = "same" /\ Extent(sym) = RunOfSame
    BY <2>2, RunsCount
  <2> HIDE DEF sym, before, n
  <2>4. Says(sym, Lengths, before, at) BY <1>1, <2>2, <2>3 DEF Says
  <2> QED BY <1>1, <2>1, <2>3, <2>4, WriteKeepsInv DEF before
<1>5. CASE ~ (RunOfPrevious >= 4) /\ ~ (RunOfSame >= 4) /\ diff \in -3 .. 3 \ {0}
  <2> DEFINE sym == Step(diff)
  <2>1. Write(sym, 1) BY <1>1, <1>5 DEF WriteLengths
  <2>2. sym \in CodeSymbols /\ sym.kind = "step" /\ ~ IsRun(sym) /\ sym.number = diff
    BY <1>2 DEF Step, CodeSymbols, IsRun
  <2>3. Extent(sym) = 1 BY <2>2 DEF Extent
  <2> HIDE DEF sym, before, n
  <2>4. Says(sym, Lengths, before, at) BY <1>1, <2>2, <2>3 DEF Says
  <2> QED BY <1>1, <2>1, <2>2, <2>3, <2>4, WriteKeepsInv DEF before
<1>6. CASE ~ (RunOfPrevious >= 4) /\ ~ (RunOfSame >= 4) /\ diff \notin -3 .. 3 \ {0}
  <2> DEFINE sym == Single(Lengths[at + 1])
  <2>1. Write(sym, 1) BY <1>1, <1>6 DEF WriteLengths
  <2>2. sym \in CodeSymbols /\ sym.kind = "length" /\ ~ IsRun(sym)
        /\ sym.number = Lengths[at + 1]
    BY <1>2 DEF Single, CodeSymbols, IsRun
  <2>3. Extent(sym) = 1 BY <2>2 DEF Extent
  <2> HIDE DEF sym, before, n
  <2>4. Says(sym, Lengths, before, at) BY <1>1, <2>2, <2>3 DEF Says
  <2> QED BY <1>1, <2>1, <2>2, <2>3, <2>4, WriteKeepsInv DEF before
<1> QED BY <1>3, <1>4, <1>5, <1>6

\* The next segment starts where nothing of it is written.
LEMMA WriteNextSegmentKeepsInv == FormatInv /\ WriteNextSegment => FormatInv'
<1> SUFFICES ASSUME FormatInv, WriteNextSegment PROVE FormatInv' OBVIOUS
<1>1. /\ formatPc = "write" /\ at = NumLengths(format) /\ segment < NumSegments(format)
      /\ segment' = segment + 1 /\ at' = 0
      /\ format' = format /\ symbols' = symbols /\ formatPc' = formatPc
  BY WriterIsAt DEF WriteNextSegment, NumSegments
<1>2. /\ segment \in 1 .. NumSegments(format) /\ NumLengths(format) \in Nat
      /\ NumSegments(format) \in Nat /\ format \in Formats
      /\ symbols \in [1 .. NumSegments(format) -> Seq(CodeSymbols)]
  BY <1>1, WriterIsAt DEF FormatInv
<1>3. ASSUME NEW s \in 1 .. NumSegments(format)
      PROVE  SpelledTo(format, symbols[s], s, WrittenTo(s)')
  <2>1. WrittenTo(s)' = WrittenTo(s) BY <1>1, <1>2 DEF WrittenTo
  <2>2. SpelledTo(format, symbols[s], s, WrittenTo(s)) BY <1>1 DEF FormatInv
  <2> QED BY <2>1, <2>2
<1> QED BY <1>1, <1>2, <1>3 DEF FormatInv

\* The steps between boundaries sum up to them.
LEMMA BoundariesOfSteps ==
  ASSUME NEW n \in Nat, NEW b \in [1 .. n -> Int]
  PROVE  /\ Steps(b) \in [1 .. n -> Int] /\ Steps(b) \in Seq(Int) /\ Len(Steps(b)) = n
         /\ Boundaries(Steps(b)) = b
<1> DEFINE st == Steps(b)
           f == [k \in 0 .. n |-> IF k = 0 THEN 0 ELSE b[k]]
           Recurs(g) == g = [k \in 0 .. n |-> IF k = 0 THEN 0 ELSE g[k - 1] + st[k]]
           Summed == CHOOSE g : Recurs(g)
<1>1. st = [k \in 1 .. n |-> b[k] - IF k = 1 THEN 0 ELSE b[k - 1]] BY DEF Steps
<1>2. st \in [1 .. n -> Int]
  <2>1. ASSUME NEW k \in 1 .. n PROVE (b[k] - IF k = 1 THEN 0 ELSE b[k - 1]) \in Int
    <3>1. CASE k = 1 BY <3>1
    <3>2. CASE k # 1
      <4>1. k - 1 \in 1 .. n BY <3>2
      <4> QED BY <3>2, <4>1
    <3> QED BY <3>1, <3>2
  <2> HIDE DEF st
  <2> QED BY <1>1, <2>1
<1>3. st \in Seq(Int) /\ Len(st) = n /\ DOMAIN st = 1 .. n
  <2> HIDE DEF st
  <2> QED BY <1>2
<1> HIDE DEF st
<1>4. Recurs(f)
  <2>1. ASSUME NEW k \in 0 .. n
        PROVE  f[k] = IF k = 0 THEN 0 ELSE f[k - 1] + st[k]
    <3>1. CASE k = 0 BY <3>1
    <3>2. CASE k = 1
      <4>1. k \in 1 .. n /\ k - 1 \in 0 .. n /\ k - 1 = 0 BY <3>2
      <4>2. f[k - 1] = 0 /\ f[k] = b[k] BY <3>2, <4>1
      <4>3. st[k] = b[k] - 0 /\ b[k] \in Int BY <1>1, <3>2, <4>1
      <4> HIDE DEF f
      <4> QED BY <3>2, <4>2, <4>3
    <3>3. CASE k # 0 /\ k # 1
      <4>1. k \in 1 .. n /\ k - 1 \in 1 .. n /\ k - 1 \in 0 .. n BY <3>3
      <4>2. f[k - 1] = b[k - 1] /\ f[k] = b[k] BY <3>3, <4>1
      <4>3. st[k] = b[k] - b[k - 1] /\ b[k] \in Int /\ b[k - 1] \in Int BY <1>1, <3>3, <4>1
      <4> HIDE DEF f
      <4> QED BY <3>3, <4>2, <4>3
    <3> QED BY <3>1, <3>2, <3>3
  <2> QED BY <2>1
<1>5. Recurs(Summed)
  <2> HIDE DEF Recurs, f
  <2> QED BY <1>4
<1>6. Boundaries(st) = [k \in 1 .. n |-> Summed[k]] BY <1>3 DEF Boundaries
<1> HIDE DEF Summed
<1>7. ASSUME NEW k \in 0 .. n PROVE Summed[k] = f[k]
  <2> DEFINE W == {j \in 0 .. n : Summed[j] # f[j]}
  <2>1. SUFFICES ASSUME W # {} PROVE FALSE OBVIOUS
  <2>2. PICK j \in W : \A i \in W : j <= i
    <3>1. W \in SUBSET (0 .. n) OBVIOUS
    <3> HIDE DEF W
    <3> QED BY <2>1, <3>1, SmallestNumber
  <2>3. j \in 0 .. n /\ Summed[j] # f[j] BY <2>2
  <2>4. \A i \in 0 .. n :
          /\ Summed[i] = IF i = 0 THEN 0 ELSE Summed[i - 1] + st[i]
          /\ f[i] = IF i = 0 THEN 0 ELSE f[i - 1] + st[i]
    <3> HIDE DEF f
    <3> QED BY <1>4, <1>5
  <2> HIDE DEF f
  <2>5. j # 0 BY <2>3, <2>4
  <2>6. j - 1 \in 0 .. n /\ ~(j <= j - 1) BY <2>3, <2>5
  <2>7. Summed[j - 1] = f[j - 1] BY <2>2, <2>6
  <2> QED BY <2>3, <2>4, <2>5, <2>7
<1>8. ASSUME NEW k \in 1 .. n PROVE Summed[k] = b[k]
  <2>1. k \in 0 .. n /\ k # 0 OBVIOUS
  <2> QED BY <1>7, <2>1
<1> QED BY <1>2, <1>3, <1>6, <1>8 DEF st

\* What is in front of the lengths, behind their number.
LEMMA HeaderOf ==
  ASSUME NEW n \in Int, NEW st \in Seq(Int)
  PROVE  (<<n>> \o st)[1] = n /\ Tail(<<n>> \o st) = st
<1>1. Len(st) \in Nat BY LenProperties
<1> QED BY <1>1

\* The header holds the number of segments and where they end.
LEMMA WriteHeaderKeepsInv == FormatInv /\ WriteHeader => FormatInv'
<1> SUFFICES ASSUME FormatInv, WriteHeader PROVE FormatInv' OBVIOUS
<1>1. /\ formatPc = "write" /\ at = NumLengths(format) /\ segment = NumSegments(format)
      /\ header' = <<NumSegments(format)>> \o Steps(format.boundaries)
      /\ formatPc' = "read" /\ segment' = 0 /\ at' = 0
      /\ format' = format /\ symbols' = symbols
  BY WriterIsAt DEF WriteHeader, NumSegments
<1>2. /\ NumSegments(format) \in Nat /\ format \in Formats
      /\ symbols \in [1 .. NumSegments(format) -> Seq(CodeSymbols)]
  BY <1>1, WriterIsAt DEF FormatInv
<1>3. ASSUME NEW s \in 1 .. NumSegments(format)
      PROVE  SpelledTo(format, symbols[s], s, NumLengths(format))
  <2>1. WrittenTo(s) = NumLengths(format) BY <1>1, <1>2 DEF WrittenTo
  <2>2. SpelledTo(format, symbols[s], s, WrittenTo(s)) BY <1>1 DEF FormatInv
  <2> QED BY <2>1, <2>2
<1> QED BY <1>1, <1>2, <1>3 DEF FormatInv

\* What the reader of a segment has before it, when none of it is read.
LEMMA ReaderStarts ==
  ASSUME FormatInv, formatPc # "write", NEW s \in 1 .. NumSegments(format)
  PROVE  \E mark : /\ Spells(mark, symbols[s], format.segments[s],
                             BeforeIn(format.segments, s), NumLengths(format))
                   /\ 0 \in 0 .. Len(symbols[s])
                   /\ <<>> = [i \in 1 .. mark[0] |-> format.segments[s][i]]
<1>1. SpelledTo(format, symbols[s], s, NumLengths(format)) /\ symbols[s] \in Seq(CodeSymbols)
  BY DEF FormatInv
<1>2. PICK mark : Spells(mark, symbols[s], format.segments[s],
                         BeforeIn(format.segments, s), NumLengths(format))
  BY <1>1 DEF SpelledTo, Spelled
<1>3. mark[0] = 0 BY <1>2 DEF Spells
<1>4. Len(symbols[s]) \in Nat BY <1>1, LenProperties
<1>5. <<>> = [i \in 1 .. mark[0] |-> format.segments[s][i]] BY <1>3
<1> QED BY <1>2, <1>4, <1>5

\* The reader knows the boundaries, and nothing of the first segment.
LEMMA ReadHeaderKeepsInv == FormatInv /\ ReadHeader => FormatInv'
<1> SUFFICES ASSUME FormatInv, ReadHeader PROVE FormatInv' OBVIOUS
<1> DEFINE N == NumSegments(format)
           b == format.boundaries
           st == Steps(b)
<1>1. /\ formatPc = "read" /\ segment = 0 /\ at = 0 /\ format \in Formats
      /\ symbols \in [1 .. N -> Seq(CodeSymbols)]
      /\ header = <<N>> \o st
      /\ \A s \in 1 .. N : SpelledTo(format, symbols[s], s, NumLengths(format))
  BY DEF ReadHeader, FormatInv
<1>2. N \in 1 .. MaxSegments /\ N \in Nat \ {0} /\ b \in [1 .. N -> Int]
  BY <1>1, FormatFacts
<1>3. st \in Seq(Int) /\ Boundaries(st) = b
  <2> HIDE DEF N, b
  <2> QED BY <1>2, BoundariesOfSteps
<1>4. header[1] = N /\ Tail(header) = st
  <2>1. N \in Int BY <1>2
  <2>2. st \in Seq(Int) BY <1>3
  <2>3. header = <<N>> \o st BY <1>1
  <2> HIDE DEF N, st
  <2>4. (<<N>> \o st)[1] = N /\ Tail(<<N>> \o st) = st BY <2>1, <2>2, HeaderOf
  <2> QED BY <2>3, <2>4
<1>5. /\ result' = [boundaries |-> b, segments |-> <<<<>>>>] /\ segment' = 1
      /\ formatPc' = formatPc /\ format' = format /\ header' = header /\ symbols' = symbols
      /\ at' = at
  BY <1>2, <1>3, <1>4 DEF ReadHeader
<1>6. result'.segments = <<<<>>>> /\ result'.boundaries = b BY <1>5
<1>7. result'.segments \in [1 .. 1 -> Seq(0 .. MaxCodeLen)] /\ result'.segments[1] = <<>>
  <2>1. <<<<>>>> = [s \in 1 .. 1 |-> <<>>] OBVIOUS
  <2>2. <<>> \in Seq(0 .. MaxCodeLen) OBVIOUS
  <2> QED BY <1>6, <2>1, <2>2
<1>8. 1 \in 1 .. N BY <1>2
<1>9. PICK mark : /\ Spells(mark, symbols[1], format.segments[1],
                            BeforeIn(format.segments, 1), NumLengths(format))
                  /\ 0 \in 0 .. Len(symbols[1])
                  /\ <<>> = [i \in 1 .. mark[0] |-> format.segments[1][i]]
  BY <1>1, <1>8, ReaderStarts
<1>10. ReadTo(mark)' BY <1>1, <1>5, <1>7, <1>9 DEF ReadTo
<1>11. (\E m : ReadTo(m))' BY <1>10
<1>12. result' = [boundaries |-> format'.boundaries, segments |-> result'.segments]
  BY <1>5, <1>6
<1>13. /\ format' \in Formats /\ formatPc' = "read" /\ segment' = 1 /\ segment' # 0
       /\ segment' \in 0 .. NumSegments(format')
       /\ symbols' \in [1 .. NumSegments(format') -> Seq(CodeSymbols)]
       /\ header' = <<NumSegments(format')>> \o Steps(format'.boundaries)
       /\ \A s \in 1 .. NumSegments(format') :
            SpelledTo(format', symbols'[s], s, NumLengths(format'))
  BY <1>1, <1>2, <1>5
<1>14. result'.segments \in [1 .. segment' -> Seq(0 .. MaxCodeLen)]
       /\ \A s \in 1 .. segment' - 1 : result'.segments[s] = format'.segments[s]
  BY <1>5, <1>7
<1> QED BY <1>11, <1>12, <1>13, <1>14 DEF FormatInv

\* Lengths read behind lengths read.
LEMMA ReadOn ==
  ASSUME NEW list, NEW m \in Nat, NEW k \in Nat
  PROVE  [i \in 1 .. m |-> list[i]] \o [i \in 1 .. k |-> list[m + i]]
           = [i \in 1 .. m + k |-> list[i]]
<1> DEFINE a == [i \in 1 .. m |-> list[i]]
           b == [i \in 1 .. k |-> list[m + i]]
           T == {list[i] : i \in 1 .. m + k}
<1>1. ASSUME NEW i \in 1 .. m PROVE list[i] \in T
  <2>1. i \in 1 .. m + k OBVIOUS
  <2> QED BY <2>1
<1>2. ASSUME NEW i \in 1 .. k PROVE list[m + i] \in T
  <2>1. m + i \in 1 .. m + k OBVIOUS
  <2> QED BY <2>1
<1> HIDE DEF T
<1>3. a \in [1 .. m -> T] /\ b \in [1 .. k -> T] BY <1>1, <1>2
<1>4. \A i \in 1 .. m : a[i] = list[i] OBVIOUS
<1>5. \A i \in 1 .. k : b[i] = list[m + i] OBVIOUS
<1> HIDE DEF a, b
<1>6. a \in Seq(T) /\ b \in Seq(T) /\ Len(a) = m /\ Len(b) = k BY <1>3
<1>7. a \o b \in Seq(T) /\ Len(a \o b) = m + k
      /\ \A i \in 1 .. m + k : (a \o b)[i] = IF i <= m THEN a[i] ELSE b[i - m]
  BY <1>6, ConcatProperties
<1>8. a \o b = [i \in 1 .. m + k |-> (a \o b)[i]]
  <2> DEFINE c == a \o b
  <2>1. c \in Seq(T) /\ Len(c) = m + k BY <1>7
  <2> HIDE DEF c
  <2>2. c \in [1 .. m + k -> T] BY <2>1, LenProperties
  <2>3. c = [i \in 1 .. m + k |-> c[i]] BY <2>2
  <2> QED BY <2>3 DEF c
<1>9. ASSUME NEW i \in 1 .. m + k PROVE (a \o b)[i] = list[i]
  <2>1. CASE i <= m
    <3>1. i \in 1 .. m BY <2>1
    <3> QED BY <1>4, <1>7, <2>1, <3>1
  <2>2. CASE ~(i <= m)
    <3>1. i - m \in 1 .. k /\ m + (i - m) = i BY <2>2
    <3>2. b[i - m] = list[m + (i - m)] BY <1>5, <3>1
    <3> QED BY <1>7, <2>2, <3>1, <3>2
  <2> QED BY <2>1, <2>2
<1>10. [i \in 1 .. m + k |-> (a \o b)[i]] = [i \in 1 .. m + k |-> list[i]] BY <1>9
<1> QED BY <1>8, <1>10 DEF a, b

\* The first lengths of a list are lengths.
LEMMA FirstLengths ==
  ASSUME NEW n \in Nat, NEW list \in LengthLists(n), NEW m \in 0 .. n
  PROVE  /\ [i \in 1 .. m |-> list[i]] \in Seq(0 .. MaxCodeLen)
         /\ Len([i \in 1 .. m |-> list[i]]) = m
<1>1. ASSUME NEW i \in 1 .. m PROVE list[i] \in 0 .. MaxCodeLen
  <2>1. i \in 1 .. n OBVIOUS
  <2> QED BY <2>1 DEF LengthLists
<1>2. [i \in 1 .. m |-> list[i]] \in [1 .. m -> 0 .. MaxCodeLen] BY <1>1
<1>3. m \in Nat OBVIOUS
<1> QED BY <1>2, <1>3

\* What the reader of lengths needs to know of where it is.
LEMMA ReaderIsAt ==
  ASSUME FormatInv, formatPc = "read", segment > 0, NEW mark, ReadTo(mark)
  PROVE  /\ segment \in 1 .. NumSegments(format) /\ NumSegments(format) \in Nat \ {0}
         /\ NumLengths(format) \in Nat \ {0}
         /\ Lengths \in LengthLists(NumLengths(format)) /\ Len(Lengths) = NumLengths(format)
         /\ Previous(result.segments) = BeforeIn(format.segments, segment)
         /\ BeforeIn(format.segments, segment) \in LengthLists(NumLengths(format))
         /\ symbols[segment] \in Seq(CodeSymbols) /\ at \in 0 .. Len(symbols[segment])
         /\ mark[at] \in 0 .. NumLengths(format)
         /\ result.segments[segment] = [i \in 1 .. mark[at] |-> Lengths[i]]
         /\ Len(result.segments[segment]) = mark[at]
         /\ result.segments[segment] \in Seq(0 .. MaxCodeLen)
         /\ (mark[at] < NumLengths(format)) <=> (at < Len(symbols[segment]))
         /\ at < Len(symbols[segment]) =>
              /\ at + 1 \in 1 .. Len(symbols[segment]) /\ symbols[segment][at + 1] \in CodeSymbols
              /\ mark[at + 1] = mark[at] + Extent(symbols[segment][at + 1])
              /\ Says(symbols[segment][at + 1], Lengths, BeforeIn(format.segments, segment),
                      mark[at])
<1> DEFINE N == NumSegments(format)
           n == NumLengths(format)
           before == BeforeIn(format.segments, segment)
           syms == symbols[segment]
<1>1. /\ format \in Formats /\ segment \in 0 .. N
      /\ symbols \in [1 .. N -> Seq(CodeSymbols)]
      /\ \A s \in 1 .. segment - 1 : result.segments[s] = format.segments[s]
  BY DEF FormatInv
<1>2. N \in Nat \ {0} /\ n \in Nat \ {0} /\ segment \in 1 .. N
  <2>1. N \in Nat \ {0} /\ n \in Nat \ {0} BY <1>1, FormatFacts
  <2> QED BY <1>1, <2>1
<1>3. Lengths \in LengthLists(n) /\ Len(Lengths) = n /\ before \in LengthLists(n)
  BY <1>1, <1>2, FormatFacts DEF Lengths
<1>4. syms \in Seq(CodeSymbols) BY <1>1, <1>2
<1>5. Previous(result.segments) = before
  <2>1. CASE segment = 1 BY <2>1 DEF Previous, BeforeIn
  <2>2. CASE segment # 1
    <3>1. segment - 1 \in 1 .. segment - 1 BY <1>2, <2>2
    <3>2. result.segments[segment - 1] = format.segments[segment - 1] BY <1>1, <3>1
    <3> QED BY <2>2, <3>2 DEF Previous, BeforeIn
  <2> QED BY <2>1, <2>2
<1>6. /\ Spells(mark, syms, Lengths, before, n) /\ at \in 0 .. Len(syms)
      /\ result.segments[segment] = [i \in 1 .. mark[at] |-> Lengths[i]]
  BY DEF ReadTo, Lengths
<1> HIDE DEF N, n, before, syms
<1>7. /\ mark[at] \in 0 .. n
      /\ (mark[at] < n) <=> (at < Len(syms))
      /\ at < Len(syms) =>
           /\ at + 1 \in 1 .. Len(syms) /\ syms[at + 1] \in CodeSymbols
           /\ mark[at + 1] = mark[at] + Extent(syms[at + 1])
           /\ Says(syms[at + 1], Lengths, before, mark[at])
  BY <1>2, <1>4, <1>6, NextSymbol
<1>8. /\ Len(result.segments[segment]) = mark[at]
      /\ result.segments[segment] \in Seq(0 .. MaxCodeLen)
  <2>1. n \in Nat BY <1>2
  <2> DEFINE m == mark[at]
  <2>2. m \in 0 .. n /\ result.segments[segment] = [i \in 1 .. m |-> Lengths[i]] BY <1>6, <1>7
  <2> HIDE DEF m
  <2>3. /\ [i \in 1 .. m |-> Lengths[i]] \in Seq(0 .. MaxCodeLen)
        /\ Len([i \in 1 .. m |-> Lengths[i]]) = m
    BY <1>3, <2>1, <2>2, FirstLengths
  <2> QED BY <2>2, <2>3 DEF m
<1>9. segment \in 1 .. N /\ N \in Nat \ {0} /\ n \in Nat \ {0} BY <1>2
<1> QED BY <1>3, <1>4, <1>5, <1>6, <1>7, <1>8, <1>9 DEF N, n, before, syms

\* The reader has read the first lengths of a list, and a symbol says what follows.
ReadSoFar(n, list, before, first, sym, read) ==
  /\ n \in Nat \ {0} /\ list \in LengthLists(n) /\ before \in LengthLists(n)
  /\ first \in 0 .. n - 1 /\ sym \in CodeSymbols /\ Says(sym, list, before, first)
  /\ Len(list) = n
  /\ Previous(result.segments) = before
  /\ read \in Seq(0 .. MaxCodeLen) /\ Len(read) = first
  /\ result.segments[segment] = read /\ read = [i \in 1 .. first |-> list[i]]

\* A symbol is read as the lengths it was written for.
LEMMA SymbolsAreRead ==
  ASSUME NEW n, NEW list, NEW before, NEW first, NEW sym, NEW read,
         ReadSoFar(n, list, before, first, sym, read)
  PROVE  LengthsOf(sym) = [i \in 1 .. Extent(sym) |-> list[first + i]]
<1>0. /\ n \in Nat \ {0} /\ list \in LengthLists(n) /\ before \in LengthLists(n)
      /\ first \in 0 .. n - 1 /\ sym \in CodeSymbols /\ Says(sym, list, before, first)
      /\ Len(list) = n
      /\ Previous(result.segments) = before
      /\ read \in Seq(0 .. MaxCodeLen) /\ Len(read) = first
      /\ result.segments[segment] = read /\ read = [i \in 1 .. first |-> list[i]]
  BY DEF ReadSoFar
<1> USE <1>0
<1>1. Len(read) = first OBVIOUS
<1>2. /\ Extent(sym) \in Nat \ {0} /\ first + Extent(sym) <= n
      /\ IsRun(sym) => first + Extent(sym) < n
  BY DEF Says
<1>3. first + 1 \in 1 .. n /\ list[first + 1] \in 0 .. MaxCodeLen
      /\ before[first + 1] \in 0 .. MaxCodeLen
  <2>1. first + 1 \in 1 .. n OBVIOUS
  <2> QED BY <2>1 DEF LengthLists
<1>4. result.segments[segment] = read OBVIOUS
<1>5. first \in Nat OBVIOUS
<1>6. CASE sym.kind = "length"
  <2>1. LengthsOf(sym) = <<sym.number>> BY <1>6 DEF LengthsOf
  <2>2. Extent(sym) = 1 BY <1>6 DEF Extent, IsRun
  <2>3. sym.number = list[first + 1] BY <1>6 DEF Says
  <2>4. [i \in 1 .. 1 |-> list[first + i]] = <<list[first + 1]>> OBVIOUS
  <2> QED BY <2>1, <2>2, <2>3, <2>4
<1>7. CASE sym.kind = "step"
  <2>1. LengthsOf(sym) = <<(before[first + 1] + sym.number) % 256>>
    BY <1>1, <1>4, <1>7 DEF LengthsOf
  <2>2. Extent(sym) = 1 BY <1>7 DEF Extent, IsRun
  <2>3. sym.number = list[first + 1] - before[first + 1] BY <1>7 DEF Says
  <2>4. before[first + 1] + sym.number = list[first + 1] BY <1>3, <2>3, CodeBounds
  <2> DEFINE value == list[first + 1]
  <2>5. value \in 0 .. MaxCodeLen BY <1>3
  <2> HIDE DEF value
  <2>6. (value % 256) = value BY <2>5, CodeBounds
  <2>7. [i \in 1 .. 1 |-> list[first + i]] = <<list[first + 1]>> OBVIOUS
  <2> QED BY <2>1, <2>2, <2>4, <2>6, <2>7 DEF value
<1>8. CASE sym.kind = "previous"
  <2> DEFINE k == Extent(sym)
  <2>1. IsRun(sym) /\ CountOf(sym) = k BY <1>8 DEF Extent, IsRun
  <2>2. LengthsOf(sym) = SubSeq(before, first + 1, first + k)
    <3>1. LengthsOf(sym) =
            SubSeq(Previous(result.segments), Len(result.segments[segment]) + 1,
                   Len(result.segments[segment]) + CountOf(sym))
      BY <1>8 DEF LengthsOf
    <3> HIDE DEF k
    <3> QED BY <1>1, <1>4, <2>1, <3>1
  <2>3. k \in Nat \ {0} /\ first + k <= n BY <1>2
  <2>4. \A i \in first + 1 .. first + k : list[i] = before[i] BY <1>8 DEF Says
  <2> HIDE DEF k
  <2>5. before \in [1 .. n -> 0 .. MaxCodeLen] BY DEF LengthLists
  <2>6. SubSeq(before, first + 1, first + k) = [i \in 1 .. k |-> before[first + i]]
    <3> DEFINE from == first + 1
               end == first + k
               part == SubSeq(before, from, end)
    <3>1. \A i \in from .. end : before[i] \in 0 .. MaxCodeLen
      <4>1. ASSUME NEW i \in first + 1 .. first + k PROVE i \in 1 .. n BY <2>3
      <4> QED BY <2>5, <4>1
    <3>2. from \in Int /\ end \in Int BY <2>3
    <3> HIDE DEF from, end
    <3>3. /\ part \in Seq(0 .. MaxCodeLen)
          /\ Len(part) = IF from <= end THEN end - from + 1 ELSE 0
          /\ \A i \in 1 .. end - from + 1 : part[i] = before[from + i - 1]
      BY <3>1, <3>2, SubSeqProperties
    <3> HIDE DEF part
    <3>4. end - from + 1 = k /\ from <= end BY <2>3 DEF from, end
    <3>5. Len(part) = k BY <3>3, <3>4
    <3>6. ASSUME NEW i \in 1 .. k PROVE part[i] = before[first + i]
      <4>1. from + i - 1 = first + i BY DEF from
      <4> QED BY <3>3, <3>4, <4>1
    <3>7. part = [i \in 1 .. k |-> part[i]] BY <3>3, <3>5
    <3> QED BY <3>6, <3>7 DEF part, from, end
  <2>7. ASSUME NEW i \in 1 .. k PROVE before[first + i] = list[first + i]
    <3>1. first + i \in first + 1 .. first + k BY <2>3
    <3> QED BY <2>4, <3>1
  <2> QED BY <2>2, <2>6, <2>7 DEF k
<1>9. CASE sym.kind = "same"
  <2> DEFINE k == Extent(sym)
  <2>1. IsRun(sym) /\ CountOf(sym) = k BY <1>9 DEF Extent, IsRun
  <2>2. /\ k \in Nat \ {0} /\ first > 0
        /\ \A i \in first + 1 .. first + k : list[i] = list[first]
    BY <1>2, <1>9 DEF Says
  <2>3. Last(read) = list[first]
    <3>1. first \in 1 .. first BY <1>5, <2>2
    <3>2. read[first] = list[first] BY <3>1
    <3> QED BY <1>1, <3>2 DEF Last
  <2> HIDE DEF k
  <2>4. LengthsOf(sym) = [i \in 1 .. k |-> list[first]]
    BY <1>4, <1>9, <2>1, <2>3 DEF LengthsOf
  <2>5. ASSUME NEW i \in 1 .. k PROVE list[first] = list[first + i]
    <3>1. first + i \in first + 1 .. first + k BY <2>2
    <3> QED BY <2>2, <3>1
  <2> QED BY <2>4, <2>5 DEF k
<1>10. sym.kind \in {"length", "step", "previous", "same"} BY DEF CodeSymbols
<1> QED BY <1>6, <1>7, <1>8, <1>9, <1>10

\* The reader of lengths has as many more as its symbol says.
LEMMA ReadLengthsKeepsInv == FormatInv /\ ReadLengths => FormatInv'
<1> SUFFICES ASSUME FormatInv, ReadLengths PROVE FormatInv' OBVIOUS
<1> DEFINE n == NumLengths(format)
           before == BeforeIn(format.segments, segment)
           sym == symbols[segment][at + 1]
           known == result.segments[segment]
<1>1. formatPc = "read" /\ segment > 0 /\ segment # 0 /\ Len(known) < Len(Lengths)
  BY DEF ReadLengths, FormatInv
<1>2. PICK mark : ReadTo(mark) BY <1>1 DEF FormatInv
<1>3. /\ segment \in 1 .. NumSegments(format) /\ NumSegments(format) \in Nat \ {0}
      /\ n \in Nat \ {0}
      /\ Lengths \in LengthLists(n) /\ Len(Lengths) = n
      /\ Previous(result.segments) = before /\ before \in LengthLists(n)
      /\ at \in 0 .. Len(symbols[segment])
      /\ mark[at] \in 0 .. n
      /\ known = [i \in 1 .. mark[at] |-> Lengths[i]]
      /\ Len(known) = mark[at] /\ known \in Seq(0 .. MaxCodeLen)
      /\ at + 1 \in 1 .. Len(symbols[segment]) /\ sym \in CodeSymbols
      /\ mark[at + 1] = mark[at] + Extent(sym)
      /\ Says(sym, Lengths, before, mark[at])
  <2> HIDE DEF n, known, before, sym
  <2>1. /\ segment \in 1 .. NumSegments(format) /\ NumSegments(format) \in Nat \ {0}
        /\ n \in Nat \ {0}
        /\ Lengths \in LengthLists(n) /\ Len(Lengths) = n
        /\ Previous(result.segments) = before /\ before \in LengthLists(n)
        /\ at \in 0 .. Len(symbols[segment])
        /\ mark[at] \in 0 .. n
        /\ known = [i \in 1 .. mark[at] |-> Lengths[i]]
        /\ Len(known) = mark[at] /\ known \in Seq(0 .. MaxCodeLen)
        /\ (mark[at] < n) <=> (at < Len(symbols[segment]))
    BY <1>1, <1>2, ReaderIsAt DEF n, before, known
  <2>2. at < Len(symbols[segment]) BY <1>1, <2>1
  <2>3. /\ at + 1 \in 1 .. Len(symbols[segment]) /\ sym \in CodeSymbols
        /\ mark[at + 1] = mark[at] + Extent(sym)
        /\ Says(sym, Lengths, before, mark[at])
    BY <1>1, <1>2, <2>2, ReaderIsAt DEF before, sym
  <2> QED BY <2>1, <2>3
<1> DEFINE first == mark[at]
           more == [i \in 1 .. Extent(sym) |-> Lengths[first + i]]
<1>4. first \in 0 .. n - 1 /\ first \in Nat BY <1>1, <1>3
<1>5. LengthsOf(sym) = more
  <2> HIDE DEF n, known, before, sym
  <2>1. /\ n \in Nat \ {0} /\ Lengths \in LengthLists(n) /\ before \in LengthLists(n)
        /\ sym \in CodeSymbols /\ Says(sym, Lengths, before, first) /\ Len(Lengths) = n
        /\ Previous(result.segments) = before
        /\ known \in Seq(0 .. MaxCodeLen) /\ Len(known) = first
        /\ known = [i \in 1 .. first |-> Lengths[i]]
    BY <1>3
  <2>2. result.segments[segment] = known BY DEF known
  <2> HIDE DEF first
  <2> DEFINE list == Lengths
  <2>3. /\ list \in LengthLists(n) /\ Says(sym, list, before, first) /\ Len(list) = n
        /\ known = [i \in 1 .. first |-> list[i]] /\ first \in 0 .. n - 1
    BY <1>4, <2>1
  <2> HIDE DEF list
  <2>4. /\ n \in Nat \ {0} /\ before \in LengthLists(n) /\ sym \in CodeSymbols
        /\ Previous(result.segments) = before
        /\ known \in Seq(0 .. MaxCodeLen) /\ Len(known) = first
    BY <2>1
  <2> HIDE DEF known
  <2>5. ReadSoFar(n, list, before, first, sym, known) BY <2>2, <2>3, <2>4 DEF ReadSoFar
  <2>6. LengthsOf(sym) = [i \in 1 .. Extent(sym) |-> list[first + i]]
    BY <2>5, SymbolsAreRead, SMT
  <2> QED BY <2>6 DEF list
<1>6. Extent(sym) \in Nat \ {0} /\ first + Extent(sym) <= n
  BY <1>3 DEF Says
<1>7. ~ \/ IsRun(sym) /\ Len(known) + CountOf(sym) > Len(Lengths)
        \/ sym.kind = "same" /\ Len(known) = 0
  <2>1. IsRun(sym) => Len(known) + CountOf(sym) <= Len(Lengths)
    BY <1>3, <1>6 DEF Extent
  <2>2. IsRun(sym) => CountOf(sym) \in Nat BY <1>6 DEF Extent
  <2>3. sym.kind = "same" => Len(known) > 0 BY <1>3 DEF Says
  <2>4. Len(known) \in Nat /\ Len(Lengths) \in Nat BY <1>3, <1>4
  <2> HIDE DEF known, sym
  <2> QED BY <2>1, <2>2, <2>3, <2>4
<1>8. /\ result' = [result EXCEPT !.segments[segment] = known \o LengthsOf(sym)]
      /\ at' = at + 1 /\ formatPc' = formatPc
      /\ format' = format /\ header' = header /\ symbols' = symbols /\ segment' = segment
  BY <1>7 DEF ReadLengths
<1>9. /\ result = [boundaries |-> format.boundaries, segments |-> result.segments]
      /\ result.segments \in [1 .. segment -> Seq(0 .. MaxCodeLen)]
      /\ \A s \in 1 .. segment - 1 : result.segments[s] = format.segments[s]
      /\ format \in Formats
      /\ symbols \in [1 .. NumSegments(format) -> Seq(CodeSymbols)]
      /\ header = <<NumSegments(format)>> \o Steps(format.boundaries)
      /\ \A s \in 1 .. NumSegments(format) :
           SpelledTo(format, symbols[s], s, NumLengths(format))
  BY <1>1 DEF FormatInv
<1> DEFINE now == [i \in 1 .. mark[at + 1] |-> Lengths[i]]
<1>10. known \o LengthsOf(sym) = now
  <2> HIDE DEF sym, n, before
  <2> DEFINE k == Extent(sym)
  <2>1. known = [i \in 1 .. first |-> Lengths[i]] /\ mark[at + 1] = first + k
        /\ LengthsOf(sym) = [i \in 1 .. k |-> Lengths[first + i]]
        /\ first \in Nat /\ k \in Nat
    BY <1>3, <1>4, <1>5, <1>6
  <2> HIDE DEF k, known, first
  <2>2. [i \in 1 .. first |-> Lengths[i]] \o [i \in 1 .. k |-> Lengths[first + i]]
          = [i \in 1 .. first + k |-> Lengths[i]]
    BY <2>1, ReadOn
  <2> QED BY <2>1, <2>2
<1>11. mark[at + 1] \in 0 .. n BY <1>3, <1>4, <1>6
<1>12. now \in Seq(0 .. MaxCodeLen)
  <2> DEFINE m == mark[at + 1]
  <2>1. m \in 0 .. n /\ n \in Nat /\ Lengths \in LengthLists(n) BY <1>3, <1>11
  <2> HIDE DEF m, n
  <2>2. [i \in 1 .. m |-> Lengths[i]] \in Seq(0 .. MaxCodeLen) BY <2>1, FirstLengths
  <2> QED BY <2>2 DEF m
<1> HIDE DEF now
<1>13. result' = [result EXCEPT !.segments[segment] = now] BY <1>8, <1>10
<1> DEFINE segs == [result.segments EXCEPT ![segment] = now]
<1>14. result' = [boundaries |-> format.boundaries, segments |-> segs]
  <2> DEFINE was == result.segments
             b == format.boundaries
  <2>1. result = [boundaries |-> b, segments |-> was] BY <1>9
  <2> HIDE DEF was, b
  <2>2. [result EXCEPT !.segments[segment] = now]
          = [boundaries |-> b, segments |-> [was EXCEPT ![segment] = now]]
    BY <2>1
  <2> QED BY <1>13, <2>2 DEF was, b
<1>15. /\ segs \in [1 .. segment -> Seq(0 .. MaxCodeLen)] /\ segs[segment] = now
       /\ \A s \in 1 .. segment - 1 : segs[s] = format.segments[s]
  <2>1. segment \in 1 .. segment /\ segment \notin 1 .. segment - 1 BY <1>3
  <2>2. segs \in [1 .. segment -> Seq(0 .. MaxCodeLen)] /\ segs[segment] = now
    BY <1>9, <1>12, <2>1
  <2>3. ASSUME NEW s \in 1 .. segment - 1 PROVE segs[s] = format.segments[s]
    <3>1. s \in 1 .. segment /\ s # segment BY <1>3
    <3> QED BY <1>9, <3>1
  <2> QED BY <2>2, <2>3
<1> HIDE DEF segs
<1>16. result'.segments = segs BY <1>14
<1>17. (\E m : ReadTo(m))'
  <2>1. at + 1 \in 0 .. Len(symbols[segment]) BY <1>3
  <2>2. ReadTo(mark)' BY <1>2, <1>8, <1>15, <1>16, <2>1 DEF ReadTo, now, Lengths
  <2> QED BY <2>2
<1>18. result' = [boundaries |-> format'.boundaries, segments |-> result'.segments]
  BY <1>8, <1>14, <1>16
<1>19. /\ format' \in Formats /\ formatPc' = "read" /\ segment' # 0
       /\ segment' \in 0 .. NumSegments(format')
       /\ symbols' \in [1 .. NumSegments(format') -> Seq(CodeSymbols)]
       /\ header' = <<NumSegments(format')>> \o Steps(format'.boundaries)
       /\ \A s \in 1 .. NumSegments(format') :
            SpelledTo(format', symbols'[s], s, NumLengths(format'))
  BY <1>1, <1>3, <1>8, <1>9
<1>20. result'.segments \in [1 .. segment' -> Seq(0 .. MaxCodeLen)]
       /\ \A s \in 1 .. segment' - 1 : result'.segments[s] = format'.segments[s]
  BY <1>8, <1>15, <1>16
<1> QED BY <1>17, <1>18, <1>19, <1>20 DEF FormatInv

\* The reader has read a segment as it was written.
LEMMA SegmentIsRead ==
  ASSUME FormatInv, formatPc = "read", segment > 0,
         Len(result.segments[segment]) = Len(Lengths)
  PROVE  /\ segment \in 1 .. NumSegments(format)
         /\ result.segments[segment] = Lengths
         /\ Lengths \in LengthLists(NumLengths(format))
         /\ at = Len(symbols[segment])
<1> DEFINE n == NumLengths(format)
<1>1. PICK mark : ReadTo(mark) BY DEF FormatInv
<1>2. /\ segment \in 1 .. NumSegments(format) /\ n \in Nat
      /\ Lengths \in LengthLists(n) /\ Len(Lengths) = n
      /\ at \in 0 .. Len(symbols[segment]) /\ symbols[segment] \in Seq(CodeSymbols)
      /\ result.segments[segment] = [i \in 1 .. mark[at] |-> Lengths[i]]
      /\ Len(result.segments[segment]) = mark[at]
      /\ (mark[at] < n) <=> (at < Len(symbols[segment]))
  BY <1>1, ReaderIsAt
<1>3. mark[at] = n BY <1>2
<1>4. at = Len(symbols[segment])
  <2>1. Len(symbols[segment]) \in Nat BY <1>2, LenProperties
  <2> QED BY <1>2, <1>3, <2>1
<1>5. Lengths = [i \in 1 .. n |-> Lengths[i]]
  <2> HIDE DEF n
  <2> QED BY <1>2 DEF LengthLists
<1> QED BY <1>2, <1>3, <1>4, <1>5

\* The reader goes on to the next segment, or has the format.
LEMMA ReadNextSegmentKeepsInv == FormatInv /\ ReadNextSegment => FormatInv'
<1> SUFFICES ASSUME FormatInv, ReadNextSegment PROVE FormatInv' OBVIOUS
<1> DEFINE N == NumSegments(format)
           n == NumLengths(format)
           read == result.segments[segment]
<1>1. formatPc = "read" /\ segment > 0 /\ segment # 0 /\ Len(read) = Len(Lengths)
  BY DEF ReadNextSegment, FormatInv
<1>2. /\ segment \in 1 .. N /\ read = Lengths /\ Lengths \in LengthLists(n)
      /\ at = Len(symbols[segment])
  BY <1>1, SegmentIsRead
<1>3. /\ result = [boundaries |-> format.boundaries, segments |-> result.segments]
      /\ result.segments \in [1 .. segment -> Seq(0 .. MaxCodeLen)]
      /\ \A s \in 1 .. segment - 1 : result.segments[s] = format.segments[s]
      /\ format \in Formats
      /\ symbols \in [1 .. N -> Seq(CodeSymbols)]
      /\ header = <<N>> \o Steps(format.boundaries)
      /\ \A s \in 1 .. N : SpelledTo(format, symbols[s], s, n)
      /\ \E mark : ReadTo(mark)
  BY <1>1 DEF FormatInv
<1>4. /\ N \in Nat \ {0} /\ format.boundaries \in [1 .. N -> Int]
      /\ format = [boundaries |-> format.boundaries, segments |-> format.segments]
      /\ format.segments \in [1 .. N -> LengthLists(n)]
  BY <1>3, FormatFacts
<1>5. header[1] = N
  <2> DEFINE b == format.boundaries
  <2> HIDE DEF N, b
  <2>1. Steps(b) \in Seq(Int) BY <1>4, BoundariesOfSteps DEF b
  <2> QED BY <1>3, <1>4, <2>1, HeaderOf DEF b
<1>6. ~ \E i \in DOMAIN read : read[i] > MaxCodeLen
  <2>1. ASSUME NEW i \in DOMAIN read PROVE ~(read[i] > MaxCodeLen)
    <3>1. read[i] \in 0 .. MaxCodeLen
      <4> HIDE DEF read, n
      <4> QED BY <1>2 DEF LengthLists
    <3> HIDE DEF read
    <3> QED BY <3>1, CodeBounds
  <2> QED BY <2>1
<1>7. \A s \in 1 .. segment : result.segments[s] = format.segments[s]
  <2>1. ASSUME NEW s \in 1 .. segment PROVE result.segments[s] = format.segments[s]
    <3>1. s = segment \/ s \in 1 .. segment - 1 BY <1>2
    <3> QED BY <1>2, <1>3, <3>1 DEF Lengths
  <2> QED BY <2>1
<1>8. format' = format /\ header' = header /\ symbols' = symbols BY DEF ReadNextSegment
<1>9. CASE segment < N
  <2> DEFINE segs == Append(result.segments, <<>>)
  <2>1. /\ segment' = segment + 1 /\ at' = 0 /\ formatPc' = formatPc
        /\ result' = [result EXCEPT !.segments = segs]
    BY <1>5, <1>6, <1>9 DEF ReadNextSegment
  <2>2. result.segments \in Seq(Seq(0 .. MaxCodeLen)) /\ Len(result.segments) = segment
    <3>1. segment \in Nat BY <1>2
    <3> QED BY <1>3, <3>1
  <2>3. <<>> \in Seq(0 .. MaxCodeLen) OBVIOUS
  <2>4. /\ segs \in Seq(Seq(0 .. MaxCodeLen)) /\ Len(segs) = segment + 1
        /\ \A s \in 1 .. segment : segs[s] = result.segments[s]
        /\ segs[segment + 1] = <<>>
    BY <2>2, <2>3, AppendProperties
  <2> HIDE DEF segs
  <2>5. result' = [boundaries |-> format.boundaries, segments |-> segs] BY <1>3, <2>1
  <2>6. result'.segments = segs BY <2>5
  <2>7. segs \in [1 .. segment + 1 -> Seq(0 .. MaxCodeLen)] BY <2>4, LenProperties
  <2>8. segment + 1 \in 1 .. N
    <3>1. segment \in 1 .. N /\ N \in Nat BY <1>2, <1>4
    <3> HIDE DEF N
    <3> QED BY <1>9, <3>1
  <2> DEFINE next == segment + 1
  <2>9. next \in 1 .. N BY <2>8
  <2> HIDE DEF next
  <2>10. PICK mark : /\ Spells(mark, symbols[next], format.segments[next],
                              BeforeIn(format.segments, next), NumLengths(format))
                    /\ 0 \in 0 .. Len(symbols[next])
                    /\ <<>> = [i \in 1 .. mark[0] |-> format.segments[next][i]]
    BY <1>1, <2>9, ReaderStarts
  <2>11. segment' = next /\ segs[next] = <<>> BY <2>1, <2>4 DEF next
  <2>12. ReadTo(mark)' BY <1>8, <2>1, <2>6, <2>10, <2>11 DEF ReadTo
  <2>13. (\E m : ReadTo(m))' BY <2>12
  <2>14. result' = [boundaries |-> format'.boundaries, segments |-> result'.segments]
    BY <1>8, <2>5, <2>6
  <2>15. /\ format' \in Formats /\ formatPc' = "read" /\ segment' # 0
         /\ segment' \in 0 .. NumSegments(format')
         /\ symbols' \in [1 .. NumSegments(format') -> Seq(CodeSymbols)]
         /\ header' = <<NumSegments(format')>> \o Steps(format'.boundaries)
         /\ \A s \in 1 .. NumSegments(format') :
              SpelledTo(format', symbols'[s], s, NumLengths(format'))
    BY <1>1, <1>2, <1>3, <1>8, <2>1, <2>8
  <2>16. result'.segments \in [1 .. segment' -> Seq(0 .. MaxCodeLen)] BY <2>1, <2>6, <2>7
  <2>17. \A s \in 1 .. segment' - 1 : result'.segments[s] = format'.segments[s]
    <3>1. segment' - 1 = segment BY <1>2, <2>1
    <3> QED BY <1>7, <1>8, <2>4, <2>6, <3>1
  <2> QED BY <2>13, <2>14, <2>15, <2>16, <2>17 DEF FormatInv
<1>10. CASE ~(segment < N)
  <2>1. formatPc' = "done" /\ result' = result /\ segment' = segment /\ at' = at
    BY <1>5, <1>6, <1>10 DEF ReadNextSegment
  <2>2. segment = N BY <1>2, <1>4, <1>10
  <2>3. result.segments = format.segments
    <3> DEFINE a == result.segments
               b == format.segments
    <3>1. /\ a \in [1 .. N -> Seq(0 .. MaxCodeLen)] /\ b \in [1 .. N -> LengthLists(n)]
          /\ \A s \in 1 .. N : a[s] = b[s]
      BY <1>3, <1>4, <1>7, <2>2
    <3> HIDE DEF a, b, N, n
    <3>2. a = [s \in 1 .. N |-> a[s]] /\ b = [s \in 1 .. N |-> b[s]]
      <4>1. a = [s \in 1 .. N |-> a[s]] BY <3>1
      <4>2. b = [s \in 1 .. N |-> b[s]] BY <3>1
      <4> QED BY <4>1, <4>2
    <3>3. [s \in 1 .. N |-> a[s]] = [s \in 1 .. N |-> b[s]] BY <3>1
    <3> QED BY <3>2, <3>3 DEF a, b
  <2>4. result = format BY <1>3, <1>4, <2>3
  <2>5. (\E m : ReadTo(m))' BY <1>3, <1>8, <2>1 DEF ReadTo
  <2>6. /\ format' \in Formats /\ formatPc' = "done" /\ segment' # 0
        /\ segment' \in 0 .. NumSegments(format')
        /\ symbols' \in [1 .. NumSegments(format') -> Seq(CodeSymbols)]
        /\ header' = <<NumSegments(format')>> \o Steps(format'.boundaries)
        /\ \A s \in 1 .. NumSegments(format') :
             SpelledTo(format', symbols'[s], s, NumLengths(format'))
    BY <1>1, <1>2, <1>3, <1>8, <2>1
  <2>7. /\ result' = [boundaries |-> format'.boundaries, segments |-> result'.segments]
        /\ result'.segments \in [1 .. segment' -> Seq(0 .. MaxCodeLen)]
        /\ \A s \in 1 .. segment' - 1 : result'.segments[s] = format'.segments[s]
        /\ segment' = NumSegments(format') /\ result' = format'
        /\ at' = Len(symbols'[segment'])
    BY <1>2, <1>3, <1>8, <2>1, <2>2, <2>4
  <2> QED BY <2>5, <2>6, <2>7 DEF FormatInv
<1> QED BY <1>9, <1>10

\* Every step of writer and reader keeps the invariant.
LEMMA FormatNextKeepsInv == FormatInv /\ [FormatNext]_formatVars => FormatInv'
<1> SUFFICES ASSUME FormatInv, [FormatNext]_formatVars PROVE FormatInv' OBVIOUS
<1>1. CASE WriteLengths BY <1>1, WriteLengthsKeepsInv
<1>2. CASE WriteNextSegment BY <1>2, WriteNextSegmentKeepsInv
<1>3. CASE WriteHeader BY <1>3, WriteHeaderKeepsInv
<1>4. CASE ReadHeader BY <1>4, ReadHeaderKeepsInv
<1>5. CASE ReadLengths BY <1>5, ReadLengthsKeepsInv
<1>6. CASE ReadNextSegment BY <1>6, ReadNextSegmentKeepsInv
<1>7. CASE UNCHANGED formatVars
  <2>1. /\ format' = format /\ header' = header /\ symbols' = symbols /\ formatPc' = formatPc
        /\ segment' = segment /\ at' = at /\ result' = result
    BY <1>7 DEF formatVars
  <2>2. \A s \in 1 .. NumSegments(format) : WrittenTo(s)' = WrittenTo(s)
    BY <2>1 DEF WrittenTo
  <2>3. (\E mark : ReadTo(mark))' <=> \E mark : ReadTo(mark) BY <2>1 DEF ReadTo
  <2> QED BY <2>1, <2>2, <2>3 DEF FormatInv
<1> QED BY <1>1, <1>2, <1>3, <1>4, <1>5, <1>6, <1>7 DEF FormatNext

\* The last symbol of lengths that are all spelled stands for a single one.
LEMMA LastIsNoRun ==
  ASSUME NEW syms \in Seq(CodeSymbols), NEW list, NEW before, NEW n \in Nat \ {0},
         Len(list) = n, Spelled(syms, list, before, n)
  PROVE  ~IsRun(syms[Len(syms)])
<1> DEFINE k == Len(syms)
<1>1. PICK mark : Spells(mark, syms, list, before, n) BY DEF Spelled
<1>2. k \in Nat BY LenProperties
<1> HIDE DEF k
<1>3. /\ mark \in [0 .. k -> 0 .. n] /\ mark[0] = 0 /\ mark[k] = n
      /\ \A j \in 1 .. k :
           mark[j] = mark[j - 1] + Extent(syms[j]) /\ Says(syms[j], list, before, mark[j - 1])
  BY <1>1 DEF Spells, k
<1>4. k # 0 BY <1>3
<1>5. k \in 1 .. k /\ k - 1 \in 0 .. k BY <1>2, <1>4
<1>6. mark[k - 1] + Extent(syms[k]) = n /\ Says(syms[k], list, before, mark[k - 1])
  BY <1>3, <1>5
<1> QED BY <1>6 DEF Says, k

\* The invariant says that the tables arrive, and that the last length stands alone.
LEMMA InvGivesFormat == FormatInv => FormatArrives
<1> SUFFICES ASSUME FormatInv PROVE FormatArrives OBVIOUS
<1>1. ReadsTheFormat BY DEF FormatInv, ReadsTheFormat
<1>2. ASSUME formatPc = "read", NEW s \in DOMAIN symbols
      PROVE  ~IsRun(symbols[s][Len(symbols[s])])
  <2>1. s \in 1 .. NumSegments(format) /\ format \in Formats
        /\ symbols[s] \in Seq(CodeSymbols)
        /\ SpelledTo(format, symbols[s], s, NumLengths(format))
    BY <1>2 DEF FormatInv
  <2>2. NumLengths(format) \in Nat \ {0} /\ Len(format.segments[s]) = NumLengths(format)
    BY <2>1, FormatFacts
  <2> QED BY <2>1, <2>2, LastIsNoRun DEF SpelledTo
<1> QED BY <1>1, <1>2 DEF FormatArrives, LastLengthIsSingle

(***************************************************************************)
(* The tables at the head of a stream are read as they were written, and   *)
(* no run covers the last length of a segment (write_composite_format_multi *)
(* and read_composite_format).                                             *)
(***************************************************************************)
THEOREM FormatAlwaysArrives == FormatSpec => []FormatArrives
<1>1. FormatInit => FormatInv BY InitFormatInv
<1>2. FormatInv /\ [FormatNext]_formatVars => FormatInv' BY FormatNextKeepsInv
<1>3. FormatInv => FormatArrives BY InvGivesFormat
<1> QED BY <1>1, <1>2, <1>3, PTL DEF FormatSpec

-----------------------------------------------------------------------------
(***************************************************************************)
(* Matches as symbols and bits (MatchSymbols).                             *)
(***************************************************************************)
\* Every nonempty set of numbers has a smallest.
LEMMA LeastNumber ==
  ASSUME NEW S \in SUBSET Nat, S # {}
  PROVE  \E n \in S : \A m \in S : n <= m
<1>1. PICK k \in S : TRUE OBVIOUS
<1> DEFINE T == {j \in S : j <= k}
<1>2. k \in Nat OBVIOUS
<1>3. T \in SUBSET (0 .. k) /\ k \in T
  <2>1. \A j \in S : j \in Nat OBVIOUS
  <2>2. \A j \in T : j \in 0 .. k BY <1>2, <2>1
  <2>3. k \in T BY <1>2
  <2> HIDE DEF T
  <2> QED BY <2>2, <2>3
<1>4. PICK n \in T : \A m \in T : n <= m
  <2> HIDE DEF T
  <2>1. T # {} BY <1>3
  <2> QED BY <1>2, <1>3, <2>1, SmallestNumber
<1>5. n \in S /\ n <= k OBVIOUS
<1>6. \A m \in S : m \in Nat OBVIOUS
<1>7. ASSUME NEW m \in S PROVE n <= m
  <2>1. CASE m <= k BY <1>4, <2>1
  <2>2. CASE ~(m <= k) BY <1>2, <1>5, <1>6, <2>2
  <2> QED BY <2>1, <2>2
<1> QED BY <1>5, <1>7

\* A function of the first powers of two, up to one.
FirstPowers(k, g) == g = [n \in 0 .. k |-> IF n = 0 THEN 1 ELSE 2 * g[n - 1]]

\* The powers of two up to any number are a function.
LEMMA FirstPowersExist == \A k \in Nat : \E g : FirstPowers(k, g)
<1> DEFINE S == {k \in Nat : ~ \E g : FirstPowers(k, g)}
<1> SUFFICES ASSUME S # {} PROVE FALSE
  OBVIOUS
<1>1. PICK k \in S : \A m \in S : k <= m
  <2> HIDE DEF S
  <2>1. S \in SUBSET Nat BY DEF S
  <2> QED BY <2>1, LeastNumber
<1>2. k \in Nat /\ ~ \E g : FirstPowers(k, g) OBVIOUS
<1>3. CASE k = 0
  <2>1. FirstPowers(0, [n \in 0 .. 0 |-> 1]) BY DEF FirstPowers
  <2> QED BY <1>2, <1>3, <2>1
<1>4. CASE k # 0
  <2>1. k - 1 \in Nat /\ k - 1 \notin S BY <1>1, <1>2, <1>4
  <2>2. PICK g : FirstPowers(k - 1, g) BY <2>1
  <2> DEFINE f == [n \in 0 .. k |-> IF n = k THEN 2 * g[k - 1] ELSE g[n]]
  <2>3. FirstPowers(k, f)
    <3>1. \A n \in 0 .. k : f[n] = IF n = 0 THEN 1 ELSE 2 * f[n - 1]
      <4> SUFFICES ASSUME NEW n \in 0 .. k PROVE f[n] = IF n = 0 THEN 1 ELSE 2 * f[n - 1]
        OBVIOUS
      <4>1. CASE n = k BY <1>2, <1>4, <4>1
      <4>2. CASE n # k
        <5>1. n \in 0 .. k - 1 BY <1>2, <4>2
        <5>2. g[n] = IF n = 0 THEN 1 ELSE 2 * g[n - 1] BY <2>2, <5>1 DEF FirstPowers
        <5>3. n # 0 => n - 1 \in 0 .. k /\ n - 1 # k BY <1>2, <5>1
        <5> QED BY <4>2, <5>2, <5>3
      <4> QED BY <4>1, <4>2
    <3>2. f = [n \in 0 .. k |-> f[n]] OBVIOUS
    <3> HIDE DEF f
    <3> QED BY <3>1, <3>2 DEF FirstPowers
  <2> QED BY <1>2, <2>3
<1> QED BY <1>3, <1>4

\* Two such functions agree.
LEMMA FirstPowersAgree ==
  ASSUME NEW j \in Nat, NEW k \in Nat, NEW f, NEW g, FirstPowers(j, f), FirstPowers(k, g)
  PROVE  \A n \in 0 .. j : n <= k => f[n] = g[n]
<1> DEFINE S == {n \in 0 .. j : n <= k /\ f[n] # g[n]}
<1> SUFFICES ASSUME S # {} PROVE FALSE
  OBVIOUS
<1>1. PICK n \in S : \A m \in S : n <= m
  <2> HIDE DEF S
  <2>1. S \in SUBSET Nat BY DEF S
  <2> QED BY <2>1, LeastNumber
<1>2. n \in 0 .. j /\ n \in 0 .. k /\ f[n] # g[n] OBVIOUS
<1>3. f[n] = (IF n = 0 THEN 1 ELSE 2 * f[n - 1]) /\ g[n] = (IF n = 0 THEN 1 ELSE 2 * g[n - 1])
  BY <1>2 DEF FirstPowers
<1>4. n # 0 BY <1>2, <1>3
<1>5. n - 1 \in 0 .. j /\ n - 1 <= k /\ n - 1 \notin S BY <1>1, <1>2, <1>4
<1>6. f[n - 1] = g[n - 1] BY <1>5
<1> QED BY <1>2, <1>3, <1>4, <1>6

\* The powers of two: 1, and each twice the one in front.
LEMMA PowersDouble ==
  /\ TwoTo[0] = 1
  /\ \A n \in Nat : TwoTo[n + 1] = 2 * TwoTo[n]
  /\ \A n \in Nat : TwoTo[n] \in Nat \ {0}
<1> DEFINE P(n) == CHOOSE g : FirstPowers(n, g)
           F == [n \in Nat |-> P(n)[n]]
<1>1. \A n \in Nat : FirstPowers(n, P(n)) BY FirstPowersExist
<1>2. \A n \in Nat : F[n] = IF n = 0 THEN 1 ELSE 2 * F[n - 1]
  <2> SUFFICES ASSUME NEW n \in Nat PROVE F[n] = IF n = 0 THEN 1 ELSE 2 * F[n - 1]
    OBVIOUS
  <2>1. F[n] = P(n)[n] OBVIOUS
  <2> HIDE DEF P
  <2>2. FirstPowers(n, P(n)) BY <1>1
  <2>3. P(n)[n] = IF n = 0 THEN 1 ELSE 2 * P(n)[n - 1] BY <2>2 DEF FirstPowers
  <2>4. CASE n = 0 BY <2>1, <2>3, <2>4
  <2>5. CASE n # 0
    <3>1. n - 1 \in Nat /\ FirstPowers(n - 1, P(n - 1)) BY <1>1, <2>5
    <3>2. P(n)[n - 1] = P(n - 1)[n - 1] BY <2>2, <3>1, FirstPowersAgree
    <3>3. F[n - 1] = P(n - 1)[n - 1] BY <3>1
    <3> QED BY <2>1, <2>3, <2>5, <3>2, <3>3
  <2> QED BY <2>4, <2>5
<1> HIDE DEF P
<1>3. F = [n \in Nat |-> F[n]] OBVIOUS
<1>4. F = [n \in Nat |-> IF n = 0 THEN 1 ELSE 2 * F[n - 1]]
  <2> HIDE DEF F
  <2> QED BY <1>2, <1>3
<1>5. TwoTo = [n \in Nat |-> IF n = 0 THEN 1 ELSE 2 * TwoTo[n - 1]]
  <2> HIDE DEF F
  <2> QED BY <1>4, Zenon DEF TwoTo
<1>6. \A n \in Nat : TwoTo[n] = IF n = 0 THEN 1 ELSE 2 * TwoTo[n - 1]
  BY <1>5, Zenon
<1>7. TwoTo[0] = 1 BY <1>6
<1>8. ASSUME NEW n \in Nat PROVE TwoTo[n + 1] = 2 * TwoTo[n]
  <2>1. TwoTo[n + 1] = IF n + 1 = 0 THEN 1 ELSE 2 * TwoTo[n + 1 - 1] BY <1>6
  <2> QED BY <2>1
<1>9. \A n \in Nat : TwoTo[n] \in Nat \ {0}
  <2> DEFINE S == {n \in Nat : TwoTo[n] \notin Nat \ {0}}
  <2> SUFFICES ASSUME S # {} PROVE FALSE
    OBVIOUS
  <2>1. PICK n \in S : \A m \in S : n <= m
    <3> HIDE DEF S
    <3>1. S \in SUBSET Nat BY DEF S
    <3> QED BY <3>1, LeastNumber
  <2>2. n # 0 BY <1>7
  <2>3. n - 1 \in Nat /\ n - 1 \notin S BY <2>1, <2>2
  <2>4. TwoTo[n - 1] \in Nat \ {0} BY <2>3
  <2>5. TwoTo[n] = 2 * TwoTo[n - 1] BY <1>6, <2>2
  <2> QED BY <2>4, <2>5
<1> QED BY <1>7, <1>8, <1>9

\* They rise.
LEMMA PowersRise ==
  ASSUME NEW i \in Nat, NEW j \in Nat, i < j
  PROVE  2 * TwoTo[i] <= TwoTo[j]
<1> DEFINE S == {k \in Nat : k > i /\ 2 * TwoTo[i] > TwoTo[k]}
<1> SUFFICES ASSUME S # {} PROVE FALSE
  <2> \A k \in Nat : TwoTo[k] \in Nat BY PowersDouble
  <2> QED OBVIOUS
<1>1. PICK k \in S : \A m \in S : k <= m
  <2> HIDE DEF S
  <2>1. S \in SUBSET Nat BY DEF S
  <2> QED BY <2>1, LeastNumber
<1>2. k - 1 \in Nat /\ k - 1 \notin S BY <1>1
<1>3. TwoTo[(k - 1) + 1] = 2 * TwoTo[k - 1] /\ (k - 1) + 1 = k BY <1>2, PowersDouble
<1>4. TwoTo[k - 1] \in Nat /\ TwoTo[i] \in Nat \ {0} /\ TwoTo[k] \in Nat
  BY <1>2, PowersDouble
<1>5. CASE k - 1 = i BY <1>3, <1>4, <1>5
<1>6. CASE k - 1 # i
  <2>1. TwoTo[k - 1] >= 2 * TwoTo[i] BY <1>2, <1>4, <1>6
  <2> QED BY <1>3, <1>4, <2>1
<1> QED BY <1>5, <1>6

\* The powers the fields of a signed distance are bounded by.
LEMMA SomePowers ==
  /\ TwoTo[1] = 2 /\ TwoTo[2] = 4
  /\ TwoTo[14] = 16384 /\ TwoTo[16] = 65536 /\ TwoTo[18] = 262144
<1> \A n \in Nat : TwoTo[n + 1] = 2 * TwoTo[n] BY PowersDouble
<1>1. TwoTo[0 + 1] = 2 BY PowersDouble
<1>2. TwoTo[1 + 1] = 4 BY <1>1
<1>3. TwoTo[2 + 1] = 8 BY <1>2
<1>4. TwoTo[3 + 1] = 16 BY <1>3
<1>5. TwoTo[4 + 1] = 32 BY <1>4
<1>6. TwoTo[5 + 1] = 64 BY <1>5
<1>7. TwoTo[6 + 1] = 128 BY <1>6
<1>8. TwoTo[7 + 1] = 256 BY <1>7
<1>9. TwoTo[8 + 1] = 512 BY <1>8
<1>10. TwoTo[9 + 1] = 1024 BY <1>9
<1>11. TwoTo[10 + 1] = 2048 BY <1>10
<1>12. TwoTo[11 + 1] = 4096 BY <1>11
<1>13. TwoTo[12 + 1] = 8192 BY <1>12
<1>14. TwoTo[13 + 1] = 16384 BY <1>13
<1>15. TwoTo[14 + 1] = 32768 BY <1>14
<1>16. TwoTo[15 + 1] = 65536 BY <1>15
<1>17. TwoTo[16 + 1] = 131072 BY <1>16
<1>18. TwoTo[17 + 1] = 262144 BY <1>17
<1> QED BY <1>1, <1>2, <1>14, <1>16, <1>18

-----------------------------------------------------------------------------
\* A number of 32 bits from 1 on lies between its highest bit and twice that.
LEMMA HighestBitIs ==
  ASSUME NEW n \in Nat \ {0}, n \div 4 < TwoTo[30]
  PROVE  /\ HighBit(n) \in 0 .. 31
         /\ TwoTo[HighBit(n)] <= n /\ n < 2 * TwoTo[HighBit(n)]
         /\ \A h \in Nat : TwoTo[h] <= n /\ n < 2 * TwoTo[h] => h = HighBit(n)
<1>1. \A k \in Nat : TwoTo[k] \in Nat \ {0} /\ TwoTo[k + 1] = 2 * TwoTo[k] BY PowersDouble
<1> DEFINE S == {k \in Nat : n < TwoTo[k]}
<1>2. 32 \in S
  <2>1. TwoTo[30 + 1] = 2 * TwoTo[30] BY <1>1
  <2>2. TwoTo[31 + 1] = 2 * TwoTo[31] BY <1>1
  <2>3. TwoTo[30] \in Nat BY <1>1
  <2>4. n < 4 * TwoTo[30] BY <2>3
  <2> QED BY <2>1, <2>2, <2>3, <2>4
<1>3. PICK k \in S : \A m \in S : k <= m
  <2> HIDE DEF S
  <2>1. S \in SUBSET Nat BY DEF S
  <2> QED BY <2>1, <1>2, LeastNumber
<1>4. k \in Nat /\ k <= 32 /\ n < TwoTo[k] BY <1>2, <1>3
<1>5. k # 0 BY <1>4, PowersDouble
<1> DEFINE h == k - 1
<1>6. h \in 0 .. 31 /\ h \notin S /\ h + 1 = k BY <1>3, <1>4, <1>5
<1> HIDE DEF h
<1>7. TwoTo[h] <= n /\ n < 2 * TwoTo[h]
  <2>1. TwoTo[h] \in Nat /\ TwoTo[h + 1] = 2 * TwoTo[h] BY <1>1, <1>6
  <2> QED BY <1>4, <1>6, <2>1
<1>8. ASSUME NEW i \in Nat, TwoTo[i] <= n, n < 2 * TwoTo[i] PROVE i = h
  <2>1. TwoTo[i] \in Nat /\ TwoTo[h] \in Nat BY <1>1, <1>6
  <2>2. CASE i < h
    <3>1. 2 * TwoTo[i] <= TwoTo[h] BY <1>6, <2>2, PowersRise
    <3> QED BY <1>7, <1>8, <2>1, <3>1
  <2>3. CASE h < i
    <3>1. 2 * TwoTo[h] <= TwoTo[i] BY <1>6, <2>3, PowersRise
    <3> QED BY <1>7, <1>8, <2>1, <3>1
  <2> QED BY <1>6, <2>2, <2>3
<1>9. \A i \in 0 .. 31 : n \div 2 < TwoTo[i] <=> n < 2 * TwoTo[i]
  <2> SUFFICES ASSUME NEW i \in 0 .. 31 PROVE n \div 2 < TwoTo[i] <=> n < 2 * TwoTo[i]
    OBVIOUS
  <2>1. TwoTo[i] \in Nat BY <1>1
  <2> QED BY <2>1
<1>10. HighBit(n) = h
  <2>1. TwoTo[h] <= n /\ n \div 2 < TwoTo[h] BY <1>6, <1>7, <1>9
  <2>2. HighBit(n) \in 0 .. 31 /\ TwoTo[HighBit(n)] <= n /\ n \div 2 < TwoTo[HighBit(n)]
    BY <1>6, <2>1 DEF HighBit
  <2> QED BY <1>8, <1>9, <2>2
<1> QED BY <1>6, <1>7, <1>8, <1>10

\* The slot of a number is the same from its bits as from the search, and the
\* number lies in its half of the two slots of a power.
LEMMA SlotsAreTheSame ==
  ASSUME NEW n \in Nat, n >= 4, n \div 4 < TwoTo[30]
  PROVE  LET half == HighBit(n) - 1
             low  == SlotByBits(n) % 2
         IN  /\ half \in 1 .. 30 /\ low \in {0, 1}
             /\ SlotByBits(n) = 2 * (half + 1) + low
             /\ SlotOf(n) = SlotByBits(n)
             /\ OpenBits(SlotByBits(n)) = half
             /\ StartOf(SlotByBits(n)) = (low + 2) * TwoTo[half]
             /\ (low + 2) * TwoTo[half] <= n /\ n < (low + 3) * TwoTo[half]
<1>1. \A k \in Nat : TwoTo[k] \in Nat \ {0} /\ TwoTo[k + 1] = 2 * TwoTo[k] BY PowersDouble
<1> DEFINE h == HighBit(n)
<1>2. /\ h \in 0 .. 31 /\ TwoTo[h] <= n /\ n < 2 * TwoTo[h]
      /\ \A i \in Nat : TwoTo[i] <= n /\ n < 2 * TwoTo[i] => i = h
  BY HighestBitIs
<1> HIDE DEF h
<1>3. h >= 2
  <2>1. TwoTo[0] = 1 /\ TwoTo[1] = 2 BY SomePowers, PowersDouble
  <2> QED BY <1>2, <2>1
<1> DEFINE T == TwoTo[h - 1]
           q == n \div T
           low == q % 2
<1>4. h - 1 \in 1 .. 30 /\ T \in Nat \ {0} /\ TwoTo[h] = 2 * T
  <2>1. h - 1 \in Nat /\ (h - 1) + 1 = h BY <1>3, <1>2
  <2> QED BY <1>1, <1>2, <1>3, <2>1
<1> HIDE DEF T
<1>5. q \in {2, 3} /\ q * T <= n /\ n < (q + 1) * T /\ low = q - 2
  <2>1. n = T * q + (n % T) /\ n % T \in 0 .. T - 1 /\ q \in Nat BY <1>4
  <2>2. n >= 2 * T /\ n < 4 * T BY <1>2, <1>4
  <2> HIDE DEF q
  <2>3. q >= 2
    <3> SUFFICES ASSUME q <= 1 PROVE FALSE
      BY <2>1
    <3>1. q = 0 \/ q = 1 BY <2>1
    <3> QED BY <1>4, <2>1, <2>2, <3>1
  <2>4. q <= 3
    <3> SUFFICES ASSUME q >= 4 PROVE FALSE
      BY <2>1
    <3>1. PICK r \in Nat : q = 4 + r
      <4>1. q - 4 \in Nat /\ q = 4 + (q - 4) BY <2>1
      <4> QED BY <4>1
    <3>2. T * q = 4 * T + T * r /\ T * r \in Nat BY <1>4, <3>1
    <3> QED BY <1>4, <2>1, <2>2, <3>2
  <2>5. q = 2 \/ q = 3 BY <2>1, <2>3, <2>4
  <2>6. CASE q = 2 BY <1>4, <2>1, <2>6
  <2>7. CASE q = 3 BY <1>4, <2>1, <2>7
  <2> QED BY <2>5, <2>6, <2>7
<1> HIDE DEF q
<1> DEFINE s == 2 * h + low
<1>6. SlotByBits(n) = s BY DEF SlotByBits, s, low, q, T, h
<1>7. low \in {0, 1} /\ s \in 4 .. 63 /\ s % 2 = low /\ (s \div 2) - 1 = h - 1
  <2>1. q - 2 \in {0, 1} BY <1>5
  <2>2. low = 0 \/ low = 1 BY <1>5, <2>1
  <2> HIDE DEF low
  <2> QED BY <1>2, <1>3, <2>2
<1> HIDE DEF s, low
<1>8. OpenBits(s) = h - 1 /\ StartOf(s) = (low + 2) * T /\ WidthOf(s) = T
  BY <1>7 DEF OpenBits, StartOf, WidthOf, T
<1>9. (low + 2) * T <= n /\ n < (low + 3) * T /\ n < (low + 2) * T + T
  <2>1. low + 2 = q /\ low + 3 = q + 1 /\ (q + 1) * T = q * T + T BY <1>4, <1>5
  <2> QED BY <1>5, <2>1
<1>10. ASSUME NEW i \in 0 .. 63, StartOf(i) <= n, n < StartOf(i) + WidthOf(i) PROVE i = s
  <2>1. i > 3
    <3> SUFFICES ASSUME i <= 3 PROVE FALSE
      OBVIOUS
    <3>1. StartOf(i) = i /\ WidthOf(i) = 1 BY DEF StartOf, WidthOf
    <3> QED BY <1>10, <3>1
  <2> DEFINE k == (i \div 2) - 1
             c == i % 2
  <2>2. k \in Nat /\ c \in {0, 1} /\ i = 2 * (k + 1) + c BY <2>1
  <2>3. StartOf(i) = (c + 2) * TwoTo[k] /\ WidthOf(i) = TwoTo[k]
    BY <2>1 DEF StartOf, WidthOf, OpenBits
  <2> HIDE DEF k, c
  <2>4. TwoTo[k] \in Nat \ {0} /\ TwoTo[k + 1] = 2 * TwoTo[k] BY <1>1, <2>2
  <2>5. 2 * TwoTo[k] <= n /\ n < 4 * TwoTo[k]
    <3>1. CASE c = 0 BY <1>10, <2>3, <2>4, <3>1
    <3>2. CASE c = 1 BY <1>10, <2>3, <2>4, <3>2
    <3> QED BY <2>2, <3>1, <3>2
  <2>6. TwoTo[k + 1] <= n /\ n < 2 * TwoTo[k + 1] BY <2>4, <2>5
  <2>7. k + 1 = h BY <1>2, <2>2, <2>6
  <2>8. TwoTo[k] = T BY <1>2, <2>2, <2>7 DEF T
  <2>9. c = low
    <3>1. CASE c = 0
      <4>1. n < 3 * T BY <1>10, <1>4, <2>3, <2>8, <3>1
      <4>2. CASE low = 1 BY <1>4, <1>9, <4>1, <4>2
      <4> QED BY <1>7, <3>1, <4>2
    <3>2. CASE c = 1
      <4>1. n >= 3 * T BY <1>10, <1>4, <2>3, <2>8, <3>2
      <4>2. CASE low = 0 BY <1>4, <1>9, <4>1, <4>2
      <4> QED BY <1>7, <3>2, <4>2
    <3> QED BY <2>2, <3>1, <3>2
  <2> QED BY <2>2, <2>7, <2>9 DEF s
<1>11. SlotOf(n) = s
  <2>1. s \in 0 .. 63 /\ StartOf(s) <= n /\ n < StartOf(s) + WidthOf(s) BY <1>7, <1>8, <1>9
  <2> QED BY <1>10, <2>1 DEF SlotOf
<1>12. s = 2 * ((h - 1) + 1) + low BY <1>2, <1>7 DEF s
<1>13. SlotByBits(n) % 2 = low BY <1>6, <1>7
<1> QED BY <1>4, <1>6, <1>7, <1>8, <1>9, <1>11, <1>12, <1>13 DEF h, T

-----------------------------------------------------------------------------
\* The items of a match, those of them that a table codes, and the aligned one of an offset.
ItemRecords == [kind : {"main", "length", "aligned", "field", "number"}, value : Int, bits : Nat]
NeedsCodeword(fields) ==
  {fields[i] : i \in {j \in DOMAIN fields : fields[j].kind \notin {"field", "number"}}}
AlignedOf(raw) ==
  IF raw > RawOffsetBase + 3 /\ OpenBits(SlotOf(raw - RawOffsetBase)) >= 4
  THEN {Symbol("aligned", (raw - RawOffsetBase) % 16)} ELSE {}

\* The forms of no item, of one and of two, and those that need a codeword.
LEMMA FormsOfFew ==
  /\ FormOf(<<>>) = <<>> /\ NeedsCodeword(<<>>) = {}
  /\ \A a \in ItemRecords :
            /\ FormOf(<<a>>) = <<[kind |-> a.kind, bits |-> a.bits]>>
            /\ NeedsCodeword(<<a>>) = IF a.kind \in {"field", "number"} THEN {} ELSE {a}
  /\ \A a, b \in ItemRecords :
            /\ FormOf(<<a, b>>) = <<[kind |-> a.kind, bits |-> a.bits],
                                    [kind |-> b.kind, bits |-> b.bits]>>
            /\ a.kind \in {"field", "number"} /\ b.kind \notin {"field", "number"} =>
                 NeedsCodeword(<<a, b>>) = {b}
            /\ b.kind \in {"field", "number"} /\ a.kind \notin {"field", "number"} =>
                 NeedsCodeword(<<a, b>>) = {a}
<1>1. FormOf(<<>>) = <<>> /\ NeedsCodeword(<<>>) = {}
  <2>1. DOMAIN <<>> = 1 .. 0 OBVIOUS
  <2>2. FormOf(<<>>) = <<>> BY <2>1 DEF FormOf
  <2>3. NeedsCodeword(<<>>) = {} BY <2>1 DEF NeedsCodeword
  <2> QED BY <2>2, <2>3
<1>2. ASSUME NEW a \in ItemRecords
      PROVE  /\ FormOf(<<a>>) = <<[kind |-> a.kind, bits |-> a.bits]>>
             /\ NeedsCodeword(<<a>>) = IF a.kind \in {"field", "number"} THEN {} ELSE {a}
  <2>1. DOMAIN <<a>> = 1 .. 1 /\ <<a>>[1] = a OBVIOUS
  <2>2. FormOf(<<a>>) = <<[kind |-> a.kind, bits |-> a.bits]>> BY <2>1 DEF FormOf
  <2>3. DOMAIN <<a>> = {1} BY <2>1
  <2>4. NeedsCodeword(<<a>>) = IF a.kind \in {"field", "number"} THEN {} ELSE {a}
    BY <2>1, <2>3 DEF NeedsCodeword
  <2> QED BY <2>2, <2>4
<1>3. ASSUME NEW a \in ItemRecords, NEW b \in ItemRecords
      PROVE  /\ FormOf(<<a, b>>) = <<[kind |-> a.kind, bits |-> a.bits],
                                     [kind |-> b.kind, bits |-> b.bits]>>
             /\ a.kind \in {"field", "number"} /\ b.kind \notin {"field", "number"} =>
                  NeedsCodeword(<<a, b>>) = {b}
             /\ b.kind \in {"field", "number"} /\ a.kind \notin {"field", "number"} =>
                  NeedsCodeword(<<a, b>>) = {a}
  <2>1. DOMAIN <<a, b>> = 1 .. 2 /\ <<a, b>>[1] = a /\ <<a, b>>[2] = b OBVIOUS
  <2>2. FormOf(<<a, b>>) = <<[kind |-> a.kind, bits |-> a.bits],
                             [kind |-> b.kind, bits |-> b.bits]>>
    BY <2>1 DEF FormOf
  <2>3. DOMAIN <<a, b>> = {1, 2} BY <2>1
  <2>4. a.kind \in {"field", "number"} /\ b.kind \notin {"field", "number"} =>
          NeedsCodeword(<<a, b>>) = {b}
    BY <2>1, <2>3 DEF NeedsCodeword
  <2>5. b.kind \in {"field", "number"} /\ a.kind \notin {"field", "number"} =>
          NeedsCodeword(<<a, b>>) = {a}
    BY <2>1, <2>3 DEF NeedsCodeword
  <2> QED BY <2>2, <2>4, <2>5
<1> QED BY <1>1, <1>2, <1>3

\* The items of an offset are of the form its slot announces, stand for it, and
\* hold what they are for.
OffsetArrives(raw, slot, fields) ==
  /\ slot \in 0 .. 42 /\ slot # 7
  /\ fields = <<>> \/ (\E a \in ItemRecords : fields = <<a>>)
                   \/ (\E a, b \in ItemRecords : fields = <<a, b>>)
  /\ FormOf(fields) = OffsetForm(slot)
  /\ OffsetValue(slot, fields) = raw
  /\ \A i \in DOMAIN fields : IsWritable(fields[i])
  /\ NeedsCodeword(fields) = AlignedOf(raw)

\* The three bands of a signed distance.
LEMMA SignedOffsetArrives ==
  ASSUME NEW raw \in Nat, raw < SourceCopy
  PROVE  OffsetArrives(raw, CountedSlot(raw), OffsetItems(raw))
<1> DEFINE signed == raw - OffsetBias
<1>1. signed \in Int /\ signed >= -172032 /\ signed < 172032 /\ raw = signed + 172032
  BY DEF OffsetBias, SourceCopy, SMT
<1>2. CountedSlot(raw) = SignedSlot(signed) /\ OffsetItems(raw) = SignedItems(signed)
  BY DEF CountedSlot, OffsetItems, SourceCopy, RawOffsetBase, LruBase, SMT
<1>3. AlignedOf(raw) = {} BY DEF AlignedOf, SourceCopy, RawOffsetBase, SMT
<1> HIDE DEF signed
<1>4. ASSUME NEW slot \in 0 .. 2, NEW value \in Nat, NEW width \in Nat, width = 14 + 2 * slot,
             value < TwoTo[width], SignedSlot(signed) = slot,
             SignedItems(signed) = <<BitField(value, width)>>, SignedValue(slot, value) = signed
      PROVE  OffsetArrives(raw, CountedSlot(raw), OffsetItems(raw))
  <2> DEFINE a == BitField(value, width)
  <2>1. a \in ItemRecords /\ a.kind = "field" /\ a.bits = width /\ a.value = value
    BY <1>4, SMT DEF ItemRecords, BitField
  <2> HIDE DEF a
  <2>2. FormOf(<<a>>) = <<[kind |-> "field", bits |-> width]>> /\ NeedsCodeword(<<a>>) = {}
    <3>1. FormOf(<<a>>) = <<[kind |-> a.kind, bits |-> a.bits]>> BY <2>1, FormsOfFew, Zenon
    <3>2. NeedsCodeword(<<a>>) = IF a.kind \in {"field", "number"} THEN {} ELSE {a}
      BY <2>1, FormsOfFew, Zenon
    <3> QED BY <2>1, <3>1, <3>2
  <2>3. OffsetForm(slot) = <<[kind |-> "field", bits |-> width]>> BY <1>4, SMT DEF OffsetForm
  <2>4. OffsetValue(slot, <<a>>) = raw BY <1>1, <1>4, <2>1, SMT DEF OffsetValue, OffsetBias
  <2>5. IsWritable(a)
    <3>1. TwoTo[width] \in Nat BY <1>4, PowersDouble, SMT
    <3> QED BY <1>4, <2>1, <3>1, SMT DEF IsWritable
  <2>6. \A i \in DOMAIN <<a>> : IsWritable(<<a>>[i]) BY <2>5, SMT
  <2>7. CountedSlot(raw) = slot /\ OffsetItems(raw) = <<a>> BY <1>2, <1>4, SMT DEF a
  <2> QED BY <1>3, <1>4, <2>1, <2>2, <2>3, <2>4, <2>6, <2>7 DEF OffsetArrives
<1>5. CASE signed >= -8192 /\ signed < 8192
  <2>1. SignedSlot(signed) = 0 BY <1>1, <1>5, SMT DEF SignedSlot
  <2>2. SignedItems(signed) = <<BitField(signed + 8192, 14)>> BY <2>1, SMT DEF SignedItems
  <2>3. SignedValue(0, signed + 8192) = signed BY <1>1, SMT DEF SignedValue
  <2>4. signed + 8192 \in Nat /\ signed + 8192 < TwoTo[14] BY <1>1, <1>5, SomePowers, SMT
  <2> QED BY <1>4, <2>1, <2>2, <2>3, <2>4, SMT
<1>6. CASE signed >= -40960 /\ signed < 40960 /\ ~(signed >= -8192 /\ signed < 8192)
  <2>1. SignedSlot(signed) = 1 BY <1>1, <1>6, SMT DEF SignedSlot
  <2>2. signed >= -40960 /\ signed <= 40959 /\ (signed < -8192 \/ signed > 8191)
    BY <1>1, <1>6, SMT
  <2>3. CASE signed < -8192
    <3>1. SignedItems(signed) = <<BitField(signed + 40960, 16)>> BY <2>1, <2>3, SMT DEF SignedItems
    <3> DEFINE value == signed + 40960
    <3>2. value \in Nat /\ value < 32768 BY <1>1, <2>2, <2>3, SMT
    <3>3. value = signed + 40960 OBVIOUS
    <3> HIDE DEF value
    <3>4. SignedValue(1, value) = signed BY <1>1, <3>2, <3>3, SMT DEF SignedValue
    <3>5. value < TwoTo[16] BY <3>2, SomePowers, SMT
    <3> QED BY <1>4, <2>1, <3>1, <3>2, <3>3, <3>4, <3>5, SMT
  <2>4. CASE signed > 8191
    <3>1. SignedItems(signed) = <<BitField(signed + 24576, 16)>>
      BY <1>1, <2>1, <2>4, SMT DEF SignedItems
    <3> DEFINE value == signed + 24576
    <3>2. value \in Nat /\ value >= 32768 /\ value < 65536 BY <1>1, <2>2, <2>4, SMT
    <3>3. value = signed + 24576 OBVIOUS
    <3> HIDE DEF value
    <3>4. SignedValue(1, value) = signed BY <1>1, <3>2, <3>3, SMT DEF SignedValue
    <3>5. value < TwoTo[16] BY <3>2, SomePowers, SMT
    <3> QED BY <1>4, <2>1, <3>1, <3>2, <3>3, <3>4, <3>5, SMT
  <2> QED BY <2>2, <2>3, <2>4, SMT
<1>7. CASE ~(signed >= -40960 /\ signed < 40960)
  <2>1. SignedSlot(signed) = 2 BY <1>1, <1>7, SMT DEF SignedSlot
  <2>2. signed < -40960 \/ signed >= 40960 BY <1>1, <1>7, SMT
  <2>3. CASE signed < -40960
    <3>1. SignedItems(signed) = <<BitField((signed + 172032) % 262144, 18)>>
      BY <1>1, <2>1, <2>3, SMT DEF SignedItems
    <3> DEFINE value == signed + 172032
    <3>2. value \in Nat /\ value < 131072 BY <1>1, <2>3, SMT
    <3>3. value = signed + 172032 OBVIOUS
    <3> HIDE DEF value
    <3>4. value % 262144 = value BY <3>2, SMT
    <3>5. SignedValue(2, value) = signed BY <1>1, <3>2, <3>3, SMT DEF SignedValue
    <3>6. value < TwoTo[18] BY <3>2, SomePowers, SMT
    <3> QED BY <1>4, <2>1, <3>1, <3>2, <3>3, <3>4, <3>5, <3>6, SMT
  <2>4. CASE signed >= 40960
    <3>1. SignedItems(signed) = <<BitField((signed + 90112) % 262144, 18)>>
      BY <1>1, <2>1, <2>4, SMT DEF SignedItems
    <3> DEFINE value == signed + 90112
    <3>2. value \in Nat /\ value >= 131072 /\ value < 262144 BY <1>1, <2>4, SMT
    <3>3. value = signed + 90112 OBVIOUS
    <3> HIDE DEF value
    <3>4. value % 262144 = value BY <3>2, SMT
    <3>5. SignedValue(2, value) = signed BY <1>1, <3>2, <3>3, SMT DEF SignedValue
    <3>6. value < TwoTo[18] BY <3>2, SomePowers, SMT
    <3> QED BY <1>4, <2>1, <3>1, <3>2, <3>3, <3>4, <3>5, <3>6, SMT
  <2> QED BY <2>2, <2>3, <2>4, SMT
<1> QED BY <1>1, <1>5, <1>6, <1>7, SMT

\* The recent distances and the place of the source have no items.
LEMMA RecentOffsetArrives ==
  ASSUME NEW raw \in Nat, raw >= SourceCopy, raw <= LruBase + 2
  PROVE  OffsetArrives(raw, CountedSlot(raw), OffsetItems(raw))
<1> DEFINE slot == raw - SourceCopy + 3
<1>1. raw \in SourceCopy .. LruBase + 2 /\ slot \in 3 .. 6 /\ slot - 3 + SourceCopy = raw
  BY SMT DEF SourceCopy, LruBase
<1>2. CountedSlot(raw) = slot /\ OffsetItems(raw) = <<>>
  BY <1>1, SMT DEF CountedSlot, OffsetItems
<1>3. AlignedOf(raw) = {} BY SMT DEF AlignedOf, LruBase, RawOffsetBase
<1> HIDE DEF slot
<1>4. FormOf(<<>>) = <<>> /\ NeedsCodeword(<<>>) = {} BY FormsOfFew
<1>5. OffsetForm(slot) = <<>> BY <1>1 DEF OffsetForm
<1>6. OffsetValue(slot, <<>>) = raw BY <1>1, SMT DEF OffsetValue
<1>7. \A i \in DOMAIN <<>> : IsWritable(<<>>[i]) OBVIOUS
<1>8. slot \in 0 .. 42 /\ slot # 7 BY <1>1
<1> QED BY <1>2, <1>3, <1>4, <1>5, <1>6, <1>7, <1>8 DEF OffsetArrives

\* What is left of a number above a multiple.
LEMMA RemainderAbove ==
  ASSUME NEW P \in Nat \ {0}, NEW k \in Nat, NEW q \in Nat, P * k <= q, q < P * k + P
  PROVE  q % P = q - P * k
<1> DEFINE d == q \div P
           r == q % P
<1>1. d \in Nat /\ r \in 0 .. P - 1 /\ q = P * d + r OBVIOUS
<1> HIDE DEF d, r
<1>2. P * k \in Nat /\ P * d \in Nat BY <1>1
<1>3. CASE d < k
  <2>1. PICK e \in Nat : k = d + 1 + e
    <3>1. k - d - 1 \in Nat /\ k = d + 1 + (k - d - 1) BY <1>1, <1>3
    <3> QED BY <3>1
  <2>2. P * k = P * d + P + P * e /\ P * e \in Nat BY <1>1, <2>1
  <2> QED BY <1>1, <1>2, <2>2
<1>4. CASE d > k
  <2>1. PICK e \in Nat : d = k + 1 + e
    <3>1. d - k - 1 \in Nat /\ d = k + 1 + (d - k - 1) BY <1>1, <1>4
    <3> QED BY <3>1
  <2>2. P * d = P * k + P + P * e /\ P * e \in Nat BY <1>1, <2>1
  <2> QED BY <1>1, <1>2, <2>2
<1>5. CASE d = k BY <1>1, <1>2, <1>5 DEF r
<1> QED BY <1>1, <1>3, <1>4, <1>5

\* A distance of three or less is its slot.
LEMMA SmallSlots ==
  ASSUME NEW n \in 0 .. 3
  PROVE  SlotOf(n) = n /\ SlotByBits(n) = n /\ StartOf(n) = n
<1>1. StartOf(n) = n /\ WidthOf(n) = 1 BY DEF StartOf, WidthOf
<1>2. ASSUME NEW i \in 0 .. 63, StartOf(i) <= n, n < StartOf(i) + WidthOf(i) PROVE i = n
  <2>1. CASE i <= 3
    <3>1. StartOf(i) = i /\ WidthOf(i) = 1 BY <2>1 DEF StartOf, WidthOf
    <3> QED BY <1>2, <2>1, <3>1
  <2>2. CASE i > 3
    <3> DEFINE k == (i \div 2) - 1
               c == i % 2
    <3>1. k \in Nat /\ k >= 1 /\ c \in {0, 1} BY <2>2
    <3>2. StartOf(i) = (c + 2) * TwoTo[k] BY <2>2 DEF StartOf, OpenBits
    <3> HIDE DEF k, c
    <3>3. TwoTo[k] \in Nat /\ TwoTo[k] >= 2
      <4>1. TwoTo[1] = 2 /\ TwoTo[k] \in Nat BY <3>1, SomePowers, PowersDouble
      <4>2. k = 1 \/ 2 * TwoTo[1] <= TwoTo[k] BY <3>1, PowersRise
      <4> QED BY <4>1, <4>2
    <3>4. (c + 2) * TwoTo[k] >= 4
      <4>1. CASE c = 0 BY <3>3, <4>1
      <4>2. CASE c = 1 BY <3>3, <4>2
      <4> QED BY <3>1, <4>1, <4>2
    <3> DEFINE w == (c + 2) * TwoTo[k]
    <3>5. w \in Nat /\ w >= 4 /\ StartOf(i) = w BY <3>1, <3>2, <3>3, <3>4
    <3> HIDE DEF w
    <3>6. w <= n BY <1>2, <3>5
    <3> QED BY <3>5, <3>6
  <2> QED BY <2>1, <2>2
<1>3. n \in 0 .. 63 /\ StartOf(n) <= n /\ n < StartOf(n) + WidthOf(n) BY <1>1
<1>4. SlotOf(n) = n BY <1>2, <1>3 DEF SlotOf
<1> QED BY <1>1, <1>4 DEF SlotByBits

\* Two items, one behind the other.
LEMMA OneAndOne == ASSUME NEW S, NEW x \in S, NEW y \in S PROVE <<x>> \o <<y>> = <<x, y>>
<1> DEFINE c == <<x>> \o <<y>>
<1>1. <<x>> \in Seq(S) /\ <<y>> \in Seq(S) /\ Len(<<x>>) = 1 /\ Len(<<y>>) = 1
      /\ <<x>>[1] = x /\ <<y>>[1] = y
  OBVIOUS
<1>2. c \in Seq(S) /\ Len(c) = 2 BY <1>1
<1>3. c[1] = x /\ c[2] = y BY <1>1
<1> DEFINE d == <<x, y>>
<1>4. d \in Seq(S) /\ Len(d) = 2 /\ d[1] = x /\ d[2] = y OBVIOUS
<1> HIDE DEF c, d
<1>5. \A i \in 1 .. 2 : c[i] = d[i] BY <1>3, <1>4
<1>6. c = d BY <1>2, <1>4, <1>5, SeqEqual
<1> QED BY <1>6 DEF c, d

\* What is behind a distance's main symbol: nothing, a field, the lowest four bits
\* as a symbol, or a field and such a symbol.
LEMMA DistanceArrives ==
  ASSUME NEW raw \in Nat, raw > LruBase + 2, raw \div 4 < TwoTo[30], FitsTable(raw)
  PROVE  OffsetArrives(raw, CountedSlot(raw), OffsetItems(raw))
<1> DEFINE dist == raw - RawOffsetBase
           s    == SlotByBits(dist)
<1>1. /\ dist \in Nat \ {0} /\ raw = RawOffsetBase + dist
      /\ raw \notin SourceCopy .. LruBase + 2 /\ raw >= RawOffsetBase
      /\ RawOffsetBase \in Nat /\ dist <= raw
  BY SMT DEF SourceCopy, LruBase, RawOffsetBase
<1>2. /\ CountedSlot(raw) = SlotOf(dist) + 7
      /\ OffsetItems(raw) = DistanceItems(dist)
      /\ LiteralSymbols + 8 * (s + 7) < MainSymbols
  BY <1>1, SMT DEF CountedSlot, OffsetItems, FitsTable
<1>3. dist \div 4 < TwoTo[30]
  <2>1. TwoTo[30] \in Nat BY PowersDouble
  <2> HIDE DEF dist
  <2> QED BY <1>1, <2>1
<1>4. AlignedOf(raw) = IF dist > 3 /\ OpenBits(SlotOf(dist)) >= 4
                       THEN {Symbol("aligned", dist % 16)} ELSE {}
  <2>1. raw > RawOffsetBase + 3 <=> dist > 3 BY <1>1
  <2> QED BY <2>1 DEF AlignedOf
<1> HIDE DEF dist
<1>5. CASE dist <= 3
  <2>1. SlotOf(dist) = dist /\ s = dist /\ StartOf(dist) = dist /\ dist \in 1 .. 3
    BY <1>1, <1>5, SmallSlots
  <2> DEFINE slot == dist + 7
  <2>2. slot \in 8 .. 10 /\ slot - 7 = dist BY <2>1
  <2>3. CountedSlot(raw) = slot /\ OffsetItems(raw) = <<>> /\ AlignedOf(raw) = {}
    BY <1>2, <1>4, <1>5, <2>1 DEF DistanceItems
  <2> HIDE DEF slot
  <2>4. FormOf(<<>>) = <<>> /\ NeedsCodeword(<<>>) = {} BY FormsOfFew
  <2>5. OffsetForm(slot) = <<>> BY <2>2 DEF OffsetForm
  <2>6. OffsetValue(slot, <<>>) = raw
    <3>1. Len(<<>>) = 0 OBVIOUS
    <3>2. OffsetValue(slot, <<>>) = RawOffsetBase + StartOf(slot - 7) + 0
      BY <2>2, <3>1 DEF OffsetValue
    <3> QED BY <1>1, <2>1, <2>2, <3>2
  <2>7. \A i \in DOMAIN <<>> : IsWritable(<<>>[i]) OBVIOUS
  <2>8. slot \in 0 .. 42 /\ slot # 7 BY <2>2
  <2> QED BY <2>3, <2>4, <2>5, <2>6, <2>7, <2>8 DEF OffsetArrives
<1>6. CASE dist > 3
  <2> DEFINE half  == HighBit(dist) - 1
             low   == s % 2
             start == (low + 2) * TwoTo[half]
             slot  == s + 7
  <2>1. /\ half \in 1 .. 30 /\ low \in {0, 1} /\ s = 2 * (half + 1) + low
        /\ SlotOf(dist) = s /\ OpenBits(s) = half /\ StartOf(s) = start
        /\ start <= dist /\ dist < (low + 3) * TwoTo[half]
    BY <1>1, <1>3, <1>6, SlotsAreTheSame
  <2>2. TwoTo[half] \in Nat \ {0} BY <2>1, PowersDouble
  <2> HIDE DEF half, low, s
  <2>3. start \in Nat /\ dist < start + TwoTo[half]
    <3>1. CASE low = 0 BY <2>1, <2>2, <3>1
    <3>2. CASE low = 1 BY <2>1, <2>2, <3>2
    <3> QED BY <2>1, <3>1, <3>2
  <2>4. slot \in 11 .. 42 /\ slot - 7 = s /\ CountedSlot(raw) = slot
    <3>1. 256 + 8 * (s + 7) < 600 BY <1>2 DEF LiteralSymbols, MainSymbols
    <3> QED BY <1>2, <2>1, <3>1
  <2>5. slot \in 0 .. 42 /\ slot # 7 BY <2>4
  <2>6. AlignedOf(raw) = IF half >= 4 THEN {Symbol("aligned", dist % 16)} ELSE {}
    BY <1>4, <1>6, <2>1
  <2> HIDE DEF slot, start
  <2>7. OffsetItems(raw) =
          IF half < 4 THEN <<BitField(dist - start, half)>>
          ELSE (IF half = 4 THEN <<>> ELSE <<BitField((dist \div 16) % TwoTo[half - 4], half - 4)>>)
                 \o <<Symbol("aligned", dist % 16)>>
    <3>1. ~(dist <= 3) BY <1>1, <1>6
    <3> QED BY <1>2, <2>1, <3>1, Zenon DEF DistanceItems
  <2>8. OffsetForm(slot) =
          IF half < 4 THEN <<[kind |-> "field", bits |-> half]>>
          ELSE (IF half = 4 THEN <<>> ELSE <<[kind |-> "field", bits |-> half - 4]>>)
                 \o <<[kind |-> "aligned", bits |-> 0]>>
    BY <2>1, <2>4 DEF OffsetForm
  <2>9. \A fields : OffsetValue(slot, fields) =
          RawOffsetBase + start + (CASE Len(fields) = 0 -> 0
                                     [] Len(fields) = 1 -> fields[1].value
                                     [] Len(fields) = 2 -> 16 * fields[1].value + fields[2].value)
    <3>1. ~(slot < 3) /\ ~(slot < 7) BY <2>4
    <3> QED BY <2>1, <2>4, <3>1, Zenon DEF OffsetValue
  <2> DEFINE al == Symbol("aligned", dist % 16)
  <2>10. /\ al \in ItemRecords /\ al.kind = "aligned" /\ al.bits = 0 /\ al.value = dist % 16
         /\ dist % 16 \in 0 .. 15
    BY <1>1 DEF ItemRecords, Symbol
  <2>11. IsWritable(al)
    <3>1. AlignedSymbols - 1 = 15 BY DEF AlignedSymbols
    <3> QED BY <2>10, <3>1 DEF IsWritable
  <2> HIDE DEF al
  <2>12. CASE half < 4
    <3> DEFINE a == BitField(dist - start, half)
    <3>1. /\ a \in ItemRecords /\ a.kind = "field" /\ a.bits = half /\ a.value = dist - start
          /\ dist - start \in 0 .. TwoTo[half] - 1
      BY <1>1, <2>1, <2>2, <2>3 DEF ItemRecords, BitField
    <3>2. OffsetItems(raw) = <<a>> BY <2>7, <2>12
    <3> HIDE DEF a
    <3>3. FormOf(<<a>>) = <<[kind |-> a.kind, bits |-> a.bits]>> BY <3>1, FormsOfFew, Zenon
    <3>4. NeedsCodeword(<<a>>) = IF a.kind \in {"field", "number"} THEN {} ELSE {a}
      BY <3>1, FormsOfFew, Zenon
    <3>5. OffsetForm(slot) = FormOf(<<a>>) BY <2>8, <2>12, <3>1, <3>3
    <3>6. NeedsCodeword(<<a>>) = AlignedOf(raw) BY <2>1, <2>6, <2>12, <3>1, <3>4
    <3>7. OffsetValue(slot, <<a>>) = raw
      <4>1. Len(<<a>>) = 1 /\ <<a>>[1] = a OBVIOUS
      <4>2. OffsetValue(slot, <<a>>) = RawOffsetBase + start + a.value BY <2>9, <4>1
      <4> QED BY <1>1, <2>3, <3>1, <4>2
    <3>8. IsWritable(a) BY <3>1 DEF IsWritable
    <3>9. \A i \in DOMAIN <<a>> : IsWritable(<<a>>[i]) BY <3>8
    <3> QED BY <2>4, <2>5, <3>1, <3>2, <3>5, <3>6, <3>7, <3>9 DEF OffsetArrives
  <2>13. CASE half = 4
    <3>1. OffsetItems(raw) = <<al>> BY <2>7, <2>13, <2>10 DEF al
    <3>2. FormOf(<<al>>) = <<[kind |-> al.kind, bits |-> al.bits]>> BY <2>10, FormsOfFew, Zenon
    <3>3. NeedsCodeword(<<al>>) = IF al.kind \in {"field", "number"} THEN {} ELSE {al}
      BY <2>10, FormsOfFew, Zenon
    <3>4. OffsetForm(slot) = FormOf(<<al>>) BY <2>8, <2>10, <2>13, <3>2
    <3>5. NeedsCodeword(<<al>>) = AlignedOf(raw) BY <2>6, <2>10, <2>13, <3>3 DEF al
    <3>6. OffsetValue(slot, <<al>>) = raw
      <4>1. Len(<<al>>) = 1 /\ <<al>>[1] = al OBVIOUS
      <4>2. OffsetValue(slot, <<al>>) = RawOffsetBase + start + (dist % 16) BY <2>9, <2>10, <4>1
      <4>3. TwoTo[4] = 16
        <5>1. TwoTo[2 + 1] = 2 * TwoTo[2] /\ TwoTo[3 + 1] = 2 * TwoTo[3] BY PowersDouble
        <5> QED BY <5>1, SomePowers
      <4>4. start = 16 * (low + 2) BY <2>1, <2>13, <4>3 DEF start
      <4>5. dist = start + (dist % 16) BY <1>1, <2>1, <2>3, <2>13, <4>3, <4>4
      <4> DEFINE r == dist % 16
      <4>6. r \in Nat /\ OffsetValue(slot, <<al>>) = RawOffsetBase + start + r /\ dist = start + r
        BY <2>10, <4>2, <4>5
      <4> HIDE DEF r
      <4> QED BY <1>1, <2>3, <4>6
    <3>7. \A i \in DOMAIN <<al>> : IsWritable(<<al>>[i]) BY <2>11
    <3> QED BY <2>4, <2>5, <2>10, <3>1, <3>4, <3>5, <3>6, <3>7 DEF OffsetArrives
  <2>14. CASE half > 4
    <3> DEFINE P == TwoTo[half - 4]
               q == dist \div 16
               a == BitField(q % P, half - 4)
    <3>1. P \in Nat \ {0} /\ TwoTo[half] = 16 * P
      <4>1. \A k \in Nat : TwoTo[k] \in Nat \ {0} /\ TwoTo[k + 1] = 2 * TwoTo[k] BY PowersDouble
      <4>2. half - 4 \in Nat /\ half - 3 \in Nat /\ half - 2 \in Nat /\ half - 1 \in Nat
        BY <2>1, <2>14
      <4>3. /\ TwoTo[half - 4] \in Nat \ {0} /\ TwoTo[half - 3] \in Nat \ {0}
            /\ TwoTo[half - 2] \in Nat \ {0} /\ TwoTo[half - 1] \in Nat \ {0}
        BY <4>1, <4>2
      <4>4. /\ (half - 4) + 1 = half - 3 /\ (half - 3) + 1 = half - 2
            /\ (half - 2) + 1 = half - 1 /\ (half - 1) + 1 = half
        BY <2>1
      <4>5. /\ TwoTo[half - 3] = 2 * TwoTo[half - 4] /\ TwoTo[half - 2] = 2 * TwoTo[half - 3]
            /\ TwoTo[half - 1] = 2 * TwoTo[half - 2] /\ TwoTo[half] = 2 * TwoTo[half - 1]
        BY <4>1, <4>2, <4>4
      <4> QED BY <4>3, <4>5
    <3> HIDE DEF P
    <3>2. q \in Nat /\ dist = 16 * q + (dist % 16) BY <1>1
    <3> HIDE DEF q
    <3>3. start = 16 * (P * (low + 2)) /\ P * (low + 2) \in Nat
      <4>1. low = 0 \/ low = 1 BY <2>1
      <4>2. CASE low = 0 BY <3>1, <4>2 DEF start
      <4>3. CASE low = 1 BY <3>1, <4>3 DEF start
      <4> QED BY <4>1, <4>2, <4>3
    <3>4. P * (low + 2) <= q /\ q < P * (low + 2) + P
      BY <2>1, <2>3, <2>10, <3>1, <3>2, <3>3
    <3>5. q % P = q - P * (low + 2)
      <4>1. low + 2 \in Nat BY <2>1
      <4> QED BY <3>1, <3>2, <3>4, <4>1, RemainderAbove
    <3>6. /\ a \in ItemRecords /\ a.kind = "field" /\ a.bits = half - 4 /\ a.value = q % P
          /\ q % P \in 0 .. P - 1
      BY <2>1, <2>14, <3>1, <3>2 DEF ItemRecords, BitField
    <3>7. OffsetItems(raw) = <<a, al>>
      <4>1. ~(half < 4) /\ half # 4 BY <2>1, <2>14
      <4>2. OffsetItems(raw) = <<a>> \o <<al>> BY <2>7, <4>1, Zenon DEF P, q, al
      <4> HIDE DEF a
      <4>3. <<a>> \o <<al>> = <<a, al>> BY <2>10, <3>6, OneAndOne
      <4> QED BY <4>2, <4>3
    <3> HIDE DEF a
    <3>8. FormOf(<<a, al>>) = <<[kind |-> a.kind, bits |-> a.bits],
                                [kind |-> al.kind, bits |-> al.bits]>>
      BY <2>10, <3>6, FormsOfFew, Zenon
    <3>9. a.kind \in {"field", "number"} /\ al.kind \notin {"field", "number"} =>
            NeedsCodeword(<<a, al>>) = {al}
      BY <2>10, <3>6, FormsOfFew, Zenon
    <3>10. OffsetForm(slot) = FormOf(<<a, al>>)
      <4>1. OffsetForm(slot) = <<[kind |-> "field", bits |-> half - 4]>>
                                 \o <<[kind |-> "aligned", bits |-> 0]>>
        <5>1. ~(half < 4) /\ half # 4 BY <2>1, <2>14
        <5> QED BY <2>8, <5>1, Zenon
      <4> QED BY <2>10, <3>6, <3>8, <4>1
    <3>11. NeedsCodeword(<<a, al>>) = AlignedOf(raw)
      <4>1. a.kind \in {"field", "number"} /\ al.kind \notin {"field", "number"} BY <2>10, <3>6
      <4>2. AlignedOf(raw) = {al} BY <2>1, <2>6, <2>14 DEF al
      <4> QED BY <3>9, <4>1, <4>2
    <3>12. OffsetValue(slot, <<a, al>>) = raw
      <4>1. Len(<<a, al>>) = 2 /\ <<a, al>>[1] = a /\ <<a, al>>[2] = al OBVIOUS
      <4>2. OffsetValue(slot, <<a, al>>) = RawOffsetBase + start + (16 * a.value + al.value)
        BY <2>9, <4>1
      <4> QED BY <1>1, <2>10, <3>2, <3>3, <3>5, <3>6, <4>2
    <3>13. IsWritable(a) BY <3>6 DEF IsWritable, P
    <3>14. \A i \in DOMAIN <<a, al>> : IsWritable(<<a, al>>[i]) BY <2>11, <3>13
    <3> QED BY <2>4, <2>5, <2>10, <3>6, <3>7, <3>10, <3>11, <3>12, <3>14 DEF OffsetArrives
  <2> QED BY <2>1, <2>12, <2>13, <2>14
<1> QED BY <1>1, <1>5, <1>6

\* The items of a length, by its three forms.
LengthArrives(length, slot, fields) ==
  /\ slot \in 0 .. 7
  /\ fields \in Seq(ItemRecords)
  /\ FormOf(fields) = LengthForm(slot, fields)
  /\ LengthValue(slot, fields) = length
  /\ \A i \in DOMAIN fields : IsWritable(fields[i])
  /\ NeedsCodeword(fields) =
       IF LengthSlot(length) = 0 THEN {Symbol("length", LengthSymbol(length))} ELSE {}

\* The items of a length stand for it.
LEMMA LengthsArrive ==
  ASSUME NEW length \in Nat, length >= 2
  PROVE  LengthArrives(length, LengthSlot(length), LengthItems(length))
<1>1. CASE length <= 8
  <2> DEFINE slot == length - 1
  <2>1. length \in 2 .. 8 /\ slot \in 1 .. 7 /\ slot + 1 = length BY <1>1
  <2>2. LengthSlot(length) = slot BY <2>1 DEF LengthSlot
  <2> HIDE DEF slot
  <2>3. LengthItems(length) = <<>> BY <2>1, <2>2 DEF LengthItems
  <2>4. FormOf(<<>>) = <<>> /\ NeedsCodeword(<<>>) = {} BY FormsOfFew
  <2>5. LengthForm(slot, <<>>) = <<>> BY <2>1 DEF LengthForm
  <2>6. LengthValue(slot, <<>>) = length BY <2>1 DEF LengthValue
  <2>7. <<>> \in Seq(ItemRecords) /\ (\A i \in DOMAIN <<>> : IsWritable(<<>>[i])) OBVIOUS
  <2>8. slot \in 0 .. 7 /\ LengthSlot(length) # 0 BY <2>1, <2>2
  <2> QED BY <2>2, <2>3, <2>4, <2>5, <2>6, <2>7, <2>8 DEF LengthArrives
<1>2. CASE length > 8
  <2> DEFINE sym == LengthSymbol(length)
             a   == Symbol("length", sym)
  <2>1. LengthSlot(length) = 0 BY <1>2 DEF LengthSlot
  <2>2. sym = IF length <= 263 THEN length - 8 ELSE 0
    <3>1. LengthSymbols - 1 = 255 BY DEF LengthSymbols
    <3>2. length - 8 \in 1 .. 255 <=> length <= 263 BY <1>2
    <3> QED BY <3>1, <3>2 DEF LengthSymbol
  <2>3. sym \in 0 .. 255 /\ sym \in Nat BY <1>2, <2>2
  <2> HIDE DEF sym
  <2>4. a \in ItemRecords /\ a.kind = "length" /\ a.bits = 0 /\ a.value = sym
    BY <2>3 DEF ItemRecords, Symbol
  <2>5. IsWritable(a)
    <3>1. LengthSymbols - 1 = 255 BY DEF LengthSymbols
    <3> QED BY <2>3, <2>4, <3>1 DEF IsWritable
  <2>6. a = Symbol("length", LengthSymbol(length)) BY DEF sym
  <2> HIDE DEF a
  <2>7. CASE length <= 263
    <3>1. sym > 0 /\ sym + 8 = length BY <1>2, <2>2, <2>7
    <3>2. LengthItems(length) = <<a>> BY <2>1, <2>6, <3>1 DEF LengthItems, sym
    <3>3. FormOf(<<a>>) = <<[kind |-> a.kind, bits |-> a.bits]>> BY <2>4, FormsOfFew, Zenon
    <3>4. NeedsCodeword(<<a>>) = IF a.kind \in {"field", "number"} THEN {} ELSE {a}
      BY <2>4, FormsOfFew, Zenon
    <3>5. <<a>> # <<>> /\ <<a>>[1] = a /\ Len(<<a>>) = 1 /\ <<a>> \in Seq(ItemRecords) BY <2>4
    <3>6. LengthForm(0, <<a>>) = <<[kind |-> "length", bits |-> 0]>>
      <4>1. ~(<<a>> # <<>> /\ <<a>>[1].value = 0) /\ ~(0 > 0) BY <2>3, <2>4, <3>1, <3>5
      <4>2. LengthForm(0, <<a>>) = <<[kind |-> "length", bits |-> 0]>> \o <<>>
        BY <4>1, Zenon DEF LengthForm
      <4> QED BY <4>2
    <3>7. LengthValue(0, <<a>>) = length BY <2>3, <2>4, <3>1, <3>5 DEF LengthValue
    <3>8. \A i \in DOMAIN <<a>> : IsWritable(<<a>>[i]) BY <2>5
    <3>9. NeedsCodeword(<<a>>) =
            IF LengthSlot(length) = 0 THEN {Symbol("length", LengthSymbol(length))} ELSE {}
      BY <2>1, <2>4, <2>6, <3>4
    <3>10. FormOf(<<a>>) = LengthForm(0, <<a>>) BY <2>4, <3>3, <3>6
    <3>11. 0 \in 0 .. 7 OBVIOUS
    <3> QED BY <2>1, <3>2, <3>5, <3>7, <3>8, <3>9, <3>10, <3>11 DEF LengthArrives
  <2>8. CASE length > 263
    <3> DEFINE b == Number(length - 8)
    <3>1. sym = 0 BY <2>2, <2>8
    <3>2. b \in ItemRecords /\ b.kind = "number" /\ b.bits = 0 /\ b.value = length - 8
      BY <2>8 DEF ItemRecords, Number
    <3>3. (IF length - 8 > 256 THEN length - 8 ELSE 256) = length - 8 BY <2>8
    <3>4. LengthItems(length) = <<a, b>>
      <4>1. a = Symbol("length", 0) BY <2>6, <3>1 DEF sym
      <4>2. ~(LengthSlot(length) > 0) /\ ~(LengthSymbol(length) > 0) BY <2>1, <3>1 DEF sym
      <4>3. LengthItems(length) =
              <<Symbol("length", 0), Number(IF length - 8 > 256 THEN length - 8 ELSE 256)>>
        BY <4>2, Zenon DEF LengthItems
      <4> QED BY <3>3, <4>1, <4>3, Zenon
    <3> HIDE DEF b
    <3>5. FormOf(<<a, b>>) = <<[kind |-> a.kind, bits |-> a.bits],
                               [kind |-> b.kind, bits |-> b.bits]>>
      BY <2>4, <3>2, FormsOfFew, Zenon
    <3>6. b.kind \in {"field", "number"} /\ a.kind \notin {"field", "number"} =>
            NeedsCodeword(<<a, b>>) = {a}
      BY <2>4, <3>2, FormsOfFew, Zenon
    <3>7. /\ <<a, b>> # <<>> /\ <<a, b>>[1] = a /\ <<a, b>>[2] = b /\ Len(<<a, b>>) = 2
          /\ <<a, b>> \in Seq(ItemRecords)
      BY <2>4, <3>2
    <3>8. LengthForm(0, <<a, b>>) =
            <<[kind |-> "length", bits |-> 0]>> \o <<[kind |-> "number", bits |-> 0]>>
      BY <2>4, <3>1, <3>7 DEF LengthForm
    <3>9. LengthValue(0, <<a, b>>) = length BY <2>8, <3>2, <3>7 DEF LengthValue
    <3>10. IsWritable(b) BY <2>8, <3>2 DEF IsWritable
    <3>11. \A i \in DOMAIN <<a, b>> : IsWritable(<<a, b>>[i]) BY <2>5, <3>10
    <3>12. NeedsCodeword(<<a, b>>) =
             IF LengthSlot(length) = 0 THEN {Symbol("length", LengthSymbol(length))} ELSE {}
      BY <2>1, <2>4, <2>6, <3>2, <3>6
    <3>13. FormOf(<<a, b>>) = LengthForm(0, <<a, b>>) BY <2>4, <3>2, <3>5, <3>8
    <3>14. 0 \in 0 .. 7 OBVIOUS
    <3> QED BY <2>1, <3>4, <3>7, <3>9, <3>11, <3>12, <3>13, <3>14 DEF LengthArrives
  <2> QED BY <2>7, <2>8
<1> QED BY <1>1, <1>2

-----------------------------------------------------------------------------
\* A symbol with the items of an offset and a length behind it, taken apart.
TakenApart(w, m, a, b) ==
  /\ w[1] = m
  /\ FormOf(Tail(w)) = FormOf(a) \o FormOf(b)
  /\ Len(FormOf(a)) = Len(a)
  /\ SubSeq(w, 2, Len(a) + 1) = a
  /\ SubSeq(w, Len(a) + 2, Len(w)) = b
  /\ \A i \in DOMAIN w : w[i] = m \/ (\E j \in DOMAIN a : w[i] = a[j])
                                  \/ (\E j \in DOMAIN b : w[i] = b[j])
  /\ NeedsCodeword(w) = NeedsCodeword(<<m>>) \cup NeedsCodeword(a) \cup NeedsCodeword(b)

\* The reader's cuts find the offset's items and the length's.
LEMMA MatchTakenApart ==
  ASSUME NEW m \in ItemRecords, NEW a \in Seq(ItemRecords), NEW b \in Seq(ItemRecords)
  PROVE  TakenApart(<<m>> \o (a \o b), m, a, b)
<1> DEFINE c == a \o b
           w == <<m>> \o c
<1>1. /\ c \in Seq(ItemRecords) /\ Len(c) = Len(a) + Len(b)
      /\ \A i \in 1 .. Len(a) : c[i] = a[i]
      /\ \A i \in 1 .. Len(b) : c[Len(a) + i] = b[i]
  OBVIOUS
<1>2. Len(a) \in Nat /\ Len(b) \in Nat OBVIOUS
<1> HIDE DEF c
<1>3. /\ w \in Seq(ItemRecords) /\ Len(w) = 1 + Len(c) /\ w[1] = m
      /\ \A i \in 1 .. Len(c) : w[1 + i] = c[i]
  <2> DEFINE s == <<m>>
  <2>1. s \in Seq(ItemRecords) /\ Len(s) = 1 /\ s[1] = m OBVIOUS
  <2>2. w = s \o c OBVIOUS
  <2>3. c \in Seq(ItemRecords) BY <1>1
  <2> HIDE DEF s, w
  <2>4. /\ w \in Seq(ItemRecords) /\ Len(w) = Len(s) + Len(c)
        /\ \A i \in 1 .. Len(s) + Len(c) : w[i] = IF i <= Len(s) THEN s[i] ELSE c[i - Len(s)]
    BY <2>1, <2>2, <2>3, ConcatProperties, Zenon
  <2> DEFINE k == Len(c)
  <2>5. k \in Nat BY <2>3
  <2> HIDE DEF k
  <2>6. /\ 1 \in 1 .. 1 + k /\ 1 <= 1
        /\ \A i \in 1 .. k : 1 + i \in 1 .. 1 + k /\ ~(1 + i <= 1) /\ (1 + i) - 1 = i
    BY <2>5
  <2> QED BY <2>1, <2>4, <2>6 DEF k
<1> HIDE DEF w
<1>4. Tail(w) = c
  <2>1. Tail(w) \in Seq(ItemRecords) /\ Len(Tail(w)) = Len(c)
        /\ \A i \in 1 .. Len(c) : Tail(w)[i] = w[i + 1]
    BY <1>1, <1>2, <1>3
  <2>2. \A i \in 1 .. Len(c) : Tail(w)[i] = c[i]
    <3> SUFFICES ASSUME NEW i \in 1 .. Len(c) PROVE Tail(w)[i] = c[i]
      OBVIOUS
    <3>1. i + 1 = 1 + i BY <1>1
    <3> QED BY <1>3, <2>1, <3>1
  <2> QED BY <1>1, <2>1, <2>2, SeqEqual
<1> DEFINE R == [kind : {"main", "length", "aligned", "field", "number"}, bits : Nat]
<1>5. \A s \in Seq(ItemRecords) :
        /\ FormOf(s) \in Seq(R) /\ Len(FormOf(s)) = Len(s)
        /\ \A i \in 1 .. Len(s) : FormOf(s)[i] = [kind |-> s[i].kind, bits |-> s[i].bits]
  <2> SUFFICES ASSUME NEW s \in Seq(ItemRecords)
               PROVE  /\ FormOf(s) \in Seq(R) /\ Len(FormOf(s)) = Len(s)
                      /\ \A i \in 1 .. Len(s) :
                           FormOf(s)[i] = [kind |-> s[i].kind, bits |-> s[i].bits]
    OBVIOUS
  <2>1. DOMAIN s = 1 .. Len(s) /\ Len(s) \in Nat OBVIOUS
  <2>2. \A i \in 1 .. Len(s) : [kind |-> s[i].kind, bits |-> s[i].bits] \in R
    <3> SUFFICES ASSUME NEW i \in 1 .. Len(s)
                 PROVE  [kind |-> s[i].kind, bits |-> s[i].bits] \in R
      OBVIOUS
    <3>1. s[i] \in ItemRecords OBVIOUS
    <3> QED BY <3>1 DEF ItemRecords
  <2> HIDE DEF R
  <2>3. FormOf(s) = [i \in 1 .. Len(s) |-> [kind |-> s[i].kind, bits |-> s[i].bits]]
    BY <2>1 DEF FormOf
  <2> QED BY <2>1, <2>2, <2>3
<1>6. FormOf(c) = FormOf(a) \o FormOf(b)
  <2> HIDE DEF R
  <2> DEFINE f == FormOf(a)
             g == FormOf(b)
             h == f \o g
  <2>1. /\ f \in Seq(R) /\ g \in Seq(R) /\ Len(f) = Len(a) /\ Len(g) = Len(b)
        /\ FormOf(c) \in Seq(R) /\ Len(FormOf(c)) = Len(c)
    BY <1>1, <1>5
  <2> HIDE DEF f, g
  <2>2. /\ h \in Seq(R) /\ Len(h) = Len(f) + Len(g)
        /\ \A i \in 1 .. Len(f) : h[i] = f[i]
        /\ \A i \in 1 .. Len(g) : h[Len(f) + i] = g[i]
    <3>1. f \in Seq(R) /\ g \in Seq(R) /\ Len(f) \in Nat /\ Len(g) \in Nat BY <1>2, <2>1
    <3>2. /\ h \in Seq(R) /\ Len(h) = Len(f) + Len(g)
          /\ \A i \in 1 .. Len(f) + Len(g) :
               h[i] = IF i <= Len(f) THEN f[i] ELSE g[i - Len(f)]
      BY <3>1, ConcatProperties
    <3> HIDE DEF h
    <3>3. \A i \in 1 .. Len(f) : h[i] = f[i] BY <3>1, <3>2
    <3>4. ASSUME NEW i \in 1 .. Len(g) PROVE h[Len(f) + i] = g[i]
      <4>1. /\ Len(f) + i \in 1 .. Len(f) + Len(g) /\ ~(Len(f) + i <= Len(f))
            /\ Len(f) + i - Len(f) = i
        BY <3>1
      <4> QED BY <3>2, <4>1
    <3> QED BY <3>2, <3>3, <3>4
  <2> HIDE DEF h
  <2>3. ASSUME NEW i \in 1 .. Len(c) PROVE FormOf(c)[i] = h[i]
    <3>1. FormOf(c)[i] = [kind |-> c[i].kind, bits |-> c[i].bits] BY <1>1, <1>5
    <3>2. CASE i <= Len(a)
      <4>1. i \in 1 .. Len(a) /\ i \in 1 .. Len(f) BY <1>2, <2>1, <3>2
      <4>2. c[i] = a[i] /\ h[i] = f[i] BY <1>1, <2>2, <4>1
      <4>3. f[i] = [kind |-> a[i].kind, bits |-> a[i].bits] BY <1>5, <4>1 DEF f
      <4> QED BY <3>1, <4>2, <4>3
    <3>3. CASE i > Len(a)
      <4> DEFINE k == i - Len(a)
      <4>1. k \in 1 .. Len(b) /\ k \in 1 .. Len(g) /\ i = Len(a) + k /\ i = Len(f) + k
        BY <1>1, <1>2, <2>1, <3>3
      <4> HIDE DEF k
      <4>2. c[i] = b[k] /\ h[i] = g[k] BY <1>1, <2>2, <4>1
      <4>3. g[k] = [kind |-> b[k].kind, bits |-> b[k].bits] BY <1>5, <4>1 DEF g
      <4> QED BY <3>1, <4>2, <4>3
    <3> QED BY <1>1, <1>2, <3>2, <3>3
  <2>4. FormOf(c) = h BY <1>1, <2>1, <2>2, <2>3, SeqEqual
  <2> QED BY <2>4 DEF h, f, g
<1>7. SubSeq(w, 2, Len(a) + 1) = a
  <2> DEFINE t == SubSeq(w, 2, Len(a) + 1)
  <2>1. /\ t \in Seq(ItemRecords) /\ Len(t) = Len(a)
        /\ \A i \in 1 .. Len(a) : t[i] = w[i + 1]
    BY <1>1, <1>2, <1>3
  <2> HIDE DEF t
  <2>2. \A i \in 1 .. Len(a) : t[i] = a[i]
    <3> SUFFICES ASSUME NEW i \in 1 .. Len(a) PROVE t[i] = a[i]
      OBVIOUS
    <3>1. i + 1 = 1 + i /\ i \in 1 .. Len(c) BY <1>1, <1>2
    <3> QED BY <1>1, <1>3, <2>1, <3>1
  <2> QED BY <2>1, <2>2, SeqEqual DEF t
<1>8. SubSeq(w, Len(a) + 2, Len(w)) = b
  <2> DEFINE t == SubSeq(w, Len(a) + 2, Len(w))
  <2>1. /\ t \in Seq(ItemRecords) /\ Len(t) = Len(b)
        /\ \A i \in 1 .. Len(b) : t[i] = w[Len(a) + 1 + i]
    BY <1>1, <1>2, <1>3
  <2> HIDE DEF t
  <2>2. \A i \in 1 .. Len(b) : t[i] = b[i]
    <3> SUFFICES ASSUME NEW i \in 1 .. Len(b) PROVE t[i] = b[i]
      OBVIOUS
    <3>1. Len(a) + 1 + i = 1 + (Len(a) + i) /\ Len(a) + i \in 1 .. Len(c) BY <1>1, <1>2
    <3> QED BY <1>1, <1>3, <2>1, <3>1
  <2> QED BY <2>1, <2>2, SeqEqual DEF t
<1>9. ASSUME NEW i \in DOMAIN w
      PROVE  w[i] = m \/ (\E j \in DOMAIN a : w[i] = a[j]) \/ (\E j \in DOMAIN b : w[i] = b[j])
  <2>1. i \in 1 .. 1 + Len(a) + Len(b) BY <1>1, <1>2, <1>3
  <2>2. DOMAIN a = 1 .. Len(a) /\ DOMAIN b = 1 .. Len(b) OBVIOUS
  <2>3. CASE i = 1 BY <1>3, <2>3
  <2>4. CASE i > 1 /\ i <= 1 + Len(a)
    <3> DEFINE j == i - 1
    <3>1. j \in 1 .. Len(a) /\ j \in 1 .. Len(c) /\ i = 1 + j BY <1>1, <1>2, <2>1, <2>4
    <3> HIDE DEF j
    <3>2. w[i] = a[j] BY <1>1, <1>3, <3>1
    <3> QED BY <2>2, <3>1, <3>2
  <2>5. CASE i > 1 + Len(a)
    <3> DEFINE j == i - 1 - Len(a)
    <3>1. j \in 1 .. Len(b) /\ Len(a) + j \in 1 .. Len(c) /\ i = 1 + (Len(a) + j)
      BY <1>1, <1>2, <2>1, <2>5
    <3> HIDE DEF j
    <3>2. w[i] = b[j] BY <1>1, <1>3, <3>1
    <3> QED BY <2>2, <3>1, <3>2
  <2> QED BY <1>2, <2>1, <2>3, <2>4, <2>5
<1>10. \A s \in Seq(ItemRecords), x \in ItemRecords :
         x \in NeedsCodeword(s) <=>
           x.kind \notin {"field", "number"} /\ (\E i \in DOMAIN s : s[i] = x)
  BY DEF NeedsCodeword
<1>11. \A s \in Seq(ItemRecords) : NeedsCodeword(s) \subseteq ItemRecords
  <2> SUFFICES ASSUME NEW s \in Seq(ItemRecords), NEW x \in NeedsCodeword(s)
               PROVE  x \in ItemRecords
    OBVIOUS
  <2>1. PICK i \in DOMAIN s : x = s[i] BY DEF NeedsCodeword
  <2> QED BY <2>1
<1>12. /\ \A j \in DOMAIN a : \E i \in DOMAIN w : w[i] = a[j]
       /\ \A j \in DOMAIN b : \E i \in DOMAIN w : w[i] = b[j]
       /\ \E i \in DOMAIN w : w[i] = m
  <2>1. ASSUME NEW j \in DOMAIN a PROVE \E i \in DOMAIN w : w[i] = a[j]
    <3>1. j \in 1 .. Len(a) /\ j \in 1 .. Len(c) BY <1>1, <1>2
    <3>2. w[1 + j] = a[j] /\ 1 + j \in DOMAIN w BY <1>1, <1>2, <1>3, <3>1
    <3> QED BY <3>2
  <2>2. ASSUME NEW j \in DOMAIN b PROVE \E i \in DOMAIN w : w[i] = b[j]
    <3>1. j \in 1 .. Len(b) /\ Len(a) + j \in 1 .. Len(c) BY <1>1, <1>2
    <3>2. w[1 + (Len(a) + j)] = b[j] /\ 1 + (Len(a) + j) \in DOMAIN w
      BY <1>1, <1>2, <1>3, <3>1
    <3> QED BY <3>2
  <2>3. 1 \in DOMAIN w BY <1>1, <1>2, <1>3
  <2> QED BY <1>3, <2>1, <2>2, <2>3
<1>13. NeedsCodeword(w) = NeedsCodeword(<<m>>) \cup NeedsCodeword(a) \cup NeedsCodeword(b)
  <2>1. <<m>> \in Seq(ItemRecords) /\ DOMAIN <<m>> = {1} /\ <<m>>[1] = m OBVIOUS
  <2>2. ASSUME NEW x \in ItemRecords
        PROVE  x \in NeedsCodeword(w) <=>
                 x \in NeedsCodeword(<<m>>) \cup NeedsCodeword(a) \cup NeedsCodeword(b)
    <3>1. (\E i \in DOMAIN w : w[i] = x) <=>
            (\E i \in DOMAIN <<m>> : <<m>>[i] = x) \/ (\E j \in DOMAIN a : a[j] = x)
              \/ (\E j \in DOMAIN b : b[j] = x)
      BY <1>9, <1>12, <2>1
    <3>2. x \in NeedsCodeword(w) <=>
            x.kind \notin {"field", "number"} /\ (\E i \in DOMAIN w : w[i] = x)
      BY <1>3, <1>10
    <3>3. x \in NeedsCodeword(<<m>>) <=>
            x.kind \notin {"field", "number"} /\ (\E i \in DOMAIN <<m>> : <<m>>[i] = x)
      BY <1>10, <2>1
    <3>4. x \in NeedsCodeword(a) <=>
            x.kind \notin {"field", "number"} /\ (\E i \in DOMAIN a : a[i] = x)
      BY <1>10
    <3>5. x \in NeedsCodeword(b) <=>
            x.kind \notin {"field", "number"} /\ (\E i \in DOMAIN b : b[i] = x)
      BY <1>10
    <3> QED BY <3>1, <3>2, <3>3, <3>4, <3>5, Zenon
  <2>3. /\ NeedsCodeword(w) \subseteq ItemRecords /\ NeedsCodeword(<<m>>) \subseteq ItemRecords
        /\ NeedsCodeword(a) \subseteq ItemRecords /\ NeedsCodeword(b) \subseteq ItemRecords
    BY <1>3, <1>11, <2>1
  <2> QED BY <2>2, <2>3
<1>14. Len(FormOf(a)) = Len(a) BY <1>5
<1>15. FormOf(Tail(w)) = FormOf(a) \o FormOf(b) BY <1>4, <1>6
<1>16. TakenApart(w, m, a, b) BY <1>3, <1>7, <1>8, <1>9, <1>13, <1>14, <1>15 DEF TakenApart
<1> QED BY <1>16 DEF w, c

\* Every match that is accepted is counted with the symbols it is written with, has
\* nothing to cut off, and is read as it was.
LEMMA MatchArrives ==
  ASSUME NEW raw \in RawOffsets, NEW length \in MatchLengths, FitsTable(raw), NEW w,
         w = <<Symbol("main", MainSymbol(raw, length))>>
               \o (OffsetItems(raw) \o LengthItems(length))
  PROVE  LET main  == w[1].value - LiteralSymbols
             slot  == main \div 8
             count == Len(OffsetForm(slot))
             rest  == SubSeq(w, count + 2, Len(w))
         IN  /\ slot # 7
             /\ FormOf(Tail(w)) = OffsetForm(slot) \o LengthForm(main % 8, rest)
             /\ OffsetValue(slot, SubSeq(w, 2, count + 1)) = raw
             /\ LengthValue(main % 8, rest) = length
             /\ \A i \in DOMAIN w : IsWritable(w[i])
             /\ NeedsCodeword(w) = CountedFor(raw, length)
<1> USE MatchesAssumption
<1> DEFINE s == CountedSlot(raw)
           t == LengthSlot(length)
           a == OffsetItems(raw)
           b == LengthItems(length)
           m == Symbol("main", MainSymbol(raw, length))
<1>1. OffsetArrives(raw, s, a)
  <2>1. raw \in Nat /\ raw \div 4 < TwoTo[30] OBVIOUS
  <2>2. CASE raw < SourceCopy BY <2>1, <2>2, SignedOffsetArrives
  <2>3. CASE raw >= SourceCopy /\ raw <= LruBase + 2 BY <2>1, <2>3, RecentOffsetArrives
  <2>4. CASE raw > LruBase + 2 BY <2>1, <2>4, DistanceArrives
  <2>5. SourceCopy \in Nat /\ LruBase + 2 \in Nat BY DEF SourceCopy, LruBase
  <2> QED BY <2>1, <2>2, <2>3, <2>4, <2>5
<1>2. LengthArrives(length, t, b)
  <2>1. length \in Nat /\ length >= 2 OBVIOUS
  <2> QED BY <2>1, LengthsArrive
<1>3. s \in 0 .. 42 /\ s # 7 /\ t \in 0 .. 7 BY <1>1, <1>2 DEF OffsetArrives, LengthArrives
<1>4. a \in Seq(ItemRecords) /\ b \in Seq(ItemRecords)
  <2>1. CASE a = <<>> BY <2>1, <1>2 DEF LengthArrives
  <2>2. CASE \E x \in ItemRecords : a = <<x>>
    <3>1. PICK x \in ItemRecords : a = <<x>> BY <2>2
    <3>2. <<x>> \in Seq(ItemRecords) OBVIOUS
    <3> QED BY <1>2, <3>1, <3>2 DEF LengthArrives
  <2>3. CASE \E x, y \in ItemRecords : a = <<x, y>>
    <3>1. PICK x \in ItemRecords, y \in ItemRecords : a = <<x, y>> BY <2>3
    <3>2. <<x, y>> \in Seq(ItemRecords) OBVIOUS
    <3> QED BY <1>2, <3>1, <3>2 DEF LengthArrives
  <2> QED BY <1>1, <2>1, <2>2, <2>3 DEF OffsetArrives
<1>5. MainSymbol(raw, length) = 256 + 8 * s + t BY DEF MainSymbol, LiteralSymbols
<1> HIDE DEF s, t, a, b
<1>6. /\ m \in ItemRecords /\ m.kind = "main" /\ m.value = 256 + 8 * s + t
      /\ IsWritable(m)
  <2>1. m.kind = "main" /\ m.value = 256 + 8 * s + t /\ m.bits = 0 BY <1>5 DEF Symbol
  <2>2. m \in ItemRecords BY <1>3, <1>5 DEF Symbol, ItemRecords
  <2>3. m.value >= LiteralSymbols /\ m.value < MainSymbols
    BY <1>3, <2>1, SMT DEF LiteralSymbols, MainSymbols
  <2> HIDE DEF m
  <2> QED BY <2>1, <2>2, <2>3 DEF IsWritable
<1>7. NeedsCodeword(<<m>>) = {m}
  <2> HIDE DEF m
  <2>1. NeedsCodeword(<<m>>) = IF m.kind \in {"field", "number"} THEN {} ELSE {m}
    BY <1>6, FormsOfFew, Zenon
  <2> QED BY <1>6, <2>1
<1>8. w = <<m>> \o (a \o b) BY DEF m, a, b
<1>9. CountedFor(raw, length) =
        {m} \cup NeedsCodeword(a) \cup NeedsCodeword(b)
  BY <1>1, <1>2 DEF CountedFor, AlignedOf, OffsetArrives, LengthArrives, m
<1> HIDE DEF m
<1>10. TakenApart(w, m, a, b) BY <1>4, <1>6, <1>8, MatchTakenApart
<1> DEFINE main == w[1].value - LiteralSymbols
<1>11. main = 8 * s + t BY <1>3, <1>6, <1>10 DEF LiteralSymbols, TakenApart
<1> HIDE DEF main
<1>12. main \div 8 = s /\ main % 8 = t BY <1>3, <1>11
<1>13. /\ FormOf(a) = OffsetForm(s) /\ OffsetValue(s, a) = raw
       /\ FormOf(b) = LengthForm(t, b) /\ LengthValue(t, b) = length
  BY <1>1, <1>2 DEF OffsetArrives, LengthArrives
<1>14. Len(OffsetForm(s)) = Len(a) BY <1>10, <1>13 DEF TakenApart
<1>15. \A i \in DOMAIN w : IsWritable(w[i])
  <2>1. \A j \in DOMAIN a : IsWritable(a[j]) BY <1>1 DEF OffsetArrives
  <2>2. \A j \in DOMAIN b : IsWritable(b[j]) BY <1>2 DEF LengthArrives
  <2> QED BY <1>6, <1>10, <2>1, <2>2 DEF TakenApart
<1>16. NeedsCodeword(w) = CountedFor(raw, length) BY <1>7, <1>9, <1>10 DEF TakenApart
<1> QED BY <1>3, <1>10, <1>12, <1>13, <1>14, <1>15, <1>16 DEF main, TakenApart

-----------------------------------------------------------------------------
(***************************************************************************)
(* The inductive invariant: only a match that fits the table goes on; it   *)
(* is counted, written and read as it is.                                  *)
(***************************************************************************)
MatchSymbolsInv ==
  /\ match \in [raw : RawOffsets, length : MatchLengths]
  /\ matchPc \in {"start", "count", "write", "refused", "read", "done"}
  /\ matchPc \notin {"start", "refused"} => FitsTable(match.raw)
  /\ matchPc \in {"write", "read", "done"} => counted = CountedFor(match.raw, match.length)
  /\ matchPc \in {"read", "done"} =>
       items = <<Symbol("main", MainSymbol(match.raw, match.length))>>
                 \o (OffsetItems(match.raw) \o LengthItems(match.length))
  /\ matchPc = "done" => readMatch = match

\* Every match of the bounds can be offered.
LEMMA InitMatchSymbolsInv == MatchInit => MatchSymbolsInv
BY DEF MatchInit, MatchSymbolsInv

\* The steps of the writer keep the invariant, and the reader finds what it expects.
LEMMA NextMatchSymbolsInv == MatchSymbolsInv /\ [MatchNext]_matchVars => MatchSymbolsInv'
<1> SUFFICES ASSUME MatchSymbolsInv, [MatchNext]_matchVars PROVE MatchSymbolsInv'
  OBVIOUS
<1>1. CASE Offer BY <1>1 DEF Offer, MatchSymbolsInv
<1>2. CASE CountSymbols BY <1>2 DEF CountSymbols, MatchSymbolsInv
<1>3. CASE WriteMatch BY <1>3 DEF WriteMatch, MatchSymbolsInv
<1>4. CASE ReadMatch
  <2> DEFINE main  == items[1].value - LiteralSymbols
             slot  == main \div 8
             count == Len(OffsetForm(slot))
             rest  == SubSeq(items, count + 2, Len(items))
  <2>1. matchPc = "read" /\ match.raw \in RawOffsets /\ match.length \in MatchLengths
        /\ UNCHANGED <<match, items, counted>>
    BY <1>4 DEF ReadMatch, MatchSymbolsInv
  <2>2. /\ slot # 7
        /\ FormOf(Tail(items)) = OffsetForm(slot) \o LengthForm(main % 8, rest)
        /\ OffsetValue(slot, SubSeq(items, 2, count + 1)) = match.raw
        /\ LengthValue(main % 8, rest) = match.length
    BY <2>1, MatchArrives DEF MatchSymbolsInv
  <2>3. /\ matchPc' = "done"
        /\ readMatch' = [raw    |-> OffsetValue(slot, SubSeq(items, 2, count + 1)),
                         length |-> LengthValue(main % 8, rest)]
    BY <1>4, <2>2, Zenon DEF ReadMatch
  <2> HIDE DEF main, slot, count, rest
  <2>4. readMatch' = match
    <3>1. readMatch' = [raw |-> match.raw, length |-> match.length] BY <2>2, <2>3
    <3>2. match = [raw |-> match.raw, length |-> match.length] BY DEF MatchSymbolsInv
    <3> QED BY <3>1, <3>2
  <2> QED BY <2>1, <2>3, <2>4 DEF MatchSymbolsInv
<1>5. CASE UNCHANGED matchVars BY <1>5 DEF matchVars, MatchSymbolsInv
<1> QED BY <1>1, <1>2, <1>3, <1>4, <1>5 DEF MatchNext

\* A match that is accepted is read as it was written, whatever its offset and its
\* length: nothing is cut off, and each of its symbols has been counted (encode_match,
\* read_symbol).
THEOREM MatchesAlwaysArrive == MatchSpec => []ReadsTheMatch
<1>1. MatchSymbolsInv => ReadsTheMatch
  <2> SUFFICES ASSUME MatchSymbolsInv PROVE ReadsTheMatch
    OBVIOUS
  <2>1. ASSUME matchPc = "read"
        PROVE  /\ \A i \in DOMAIN items : IsWritable(items[i])
               /\ counted = NeedsCodeword(items)
    <3>1. match.raw \in RawOffsets /\ match.length \in MatchLengths BY DEF MatchSymbolsInv
    <3> QED BY <2>1, <3>1, MatchArrives DEF MatchSymbolsInv
  <2> QED BY <2>1 DEF MatchSymbolsInv, ReadsTheMatch, NeedsCodeword
<1> QED BY <1>1, InitMatchSymbolsInv, NextMatchSymbolsInv, PTL DEF MatchSpec

-----------------------------------------------------------------------------
(***************************************************************************)
(* The bit stream (BitStream).                                             *)
(***************************************************************************)
\* One more bit of a remainder.
LEMMA OneBitMore ==
  ASSUME NEW v \in Nat, NEW P \in Nat \ {0}
  PROVE  v % (2 * P) = (v % P) + ((v \div P) % 2) * P
<1> DEFINE q == v \div P
           r == v % P
<1>1. q \in Nat /\ r \in 0 .. P - 1 /\ v = P * q + r OBVIOUS
<1> HIDE DEF q, r
<1> DEFINE h == q \div 2
           b == q % 2
<1>2. h \in Nat /\ b \in {0, 1} /\ q = 2 * h + b BY <1>1
<1> HIDE DEF h, b
<1>3. P * q = (2 * P) * h + P * b /\ (2 * P) * h \in Nat
  <2>1. CASE b = 0 BY <1>2, <2>1
  <2>2. CASE b = 1 BY <1>2, <2>2
  <2> QED BY <1>2, <2>1, <2>2
<1>4. P * b \in 0 .. P /\ P * b = b * P /\ (b = 0 => P * b = 0) /\ (b = 1 => P * b = P) BY <1>2
<1> DEFINE H == (2 * P) * h
           B == P * b
<1>5. H \in Nat /\ v = H + B + r /\ B \in 0 .. P BY <1>1, <1>3, <1>4
<1>6. H <= v /\ v < H + 2 * P
  <2> HIDE DEF H, B
  <2> QED BY <1>1, <1>5
<1>7. v % (2 * P) = v - H BY <1>2, <1>6, RemainderAbove
<1>8. v % (2 * P) = r + B
  <2> HIDE DEF H, B
  <2> QED BY <1>1, <1>5, <1>7
<1> QED BY <1>4, <1>8 DEF r, b, q

\* The bits of a number stand for it, as far as they go.
LEMMA BitsStandFor ==
  ASSUME NEW v \in Nat, NEW n \in Nat
  PROVE  LowValueOf(LowBits(v, n)) = v % TwoTo[n]
<1> DEFINE s == LowBits(v, n)
           IsSum(f) == f = [k \in 0 .. Len(s) |->
                              IF k = 0 THEN 0 ELSE f[k - 1] + s[k] * TwoTo[k - 1]]
           W == [k \in 0 .. n |-> v % TwoTo[k]]
<1>1. Len(s) = n /\ \A k \in 1 .. n : s[k] = (v \div TwoTo[k - 1]) % 2
  <2>1. s \in Seq(Int) /\ DOMAIN s = 1 .. n
    <3>1. \A k \in 1 .. n : (v \div TwoTo[k - 1]) % 2 \in Int
      <4> SUFFICES ASSUME NEW k \in 1 .. n PROVE (v \div TwoTo[k - 1]) % 2 \in Int
        OBVIOUS
      <4>1. TwoTo[k - 1] \in Nat \ {0} BY PowersDouble
      <4> QED BY <4>1
    <3> QED BY <3>1 DEF LowBits
  <2>2. \A k \in 1 .. n : s[k] = (v \div TwoTo[k - 1]) % 2 BY DEF LowBits
  <2> HIDE DEF s
  <2> QED BY <2>1, <2>2
<1> HIDE DEF s
<1>2. \A k \in 0 .. n : W[k] = IF k = 0 THEN 0 ELSE W[k - 1] + s[k] * TwoTo[k - 1]
  <2> SUFFICES ASSUME NEW k \in 0 .. n
               PROVE  W[k] = IF k = 0 THEN 0 ELSE W[k - 1] + s[k] * TwoTo[k - 1]
    OBVIOUS
  <2>1. CASE k = 0
    <3>1. v % 1 = 0 OBVIOUS
    <3> QED BY <2>1, <3>1, PowersDouble
  <2>2. CASE k # 0
    <3>1. k - 1 \in Nat /\ k - 1 \in 0 .. n /\ k \in 1 .. n /\ (k - 1) + 1 = k BY <2>2
    <3>2. TwoTo[k - 1] \in Nat \ {0} /\ TwoTo[k] = 2 * TwoTo[k - 1] BY <3>1, PowersDouble
    <3>3. v % TwoTo[k] = (v % TwoTo[k - 1]) + ((v \div TwoTo[k - 1]) % 2) * TwoTo[k - 1]
      BY <3>2, OneBitMore
    <3>4. W[k] = v % TwoTo[k] /\ W[k - 1] = v % TwoTo[k - 1] BY <3>1
    <3>5. s[k] = (v \div TwoTo[k - 1]) % 2 BY <1>1, <3>1
    <3> HIDE DEF W
    <3> QED BY <2>2, <3>3, <3>4, <3>5
  <2> QED BY <2>1, <2>2
<1>3. IsSum(W)
  <2>1. W = [k \in 0 .. n |-> W[k]] OBVIOUS
  <2> HIDE DEF W
  <2>2. W = [k \in 0 .. n |-> IF k = 0 THEN 0 ELSE W[k - 1] + s[k] * TwoTo[k - 1]]
    BY <1>2, <2>1
  <2> QED BY <1>1, <2>2
<1>4. ASSUME NEW f, IsSum(f) PROVE \A k \in 0 .. n : f[k] = W[k]
  <2> HIDE DEF W
  <2>1. \A k \in 0 .. n : f[k] = IF k = 0 THEN 0 ELSE f[k - 1] + s[k] * TwoTo[k - 1]
    BY <1>1, <1>4
  <2> DEFINE S == {k \in 0 .. n : f[k] # W[k]}
  <2> SUFFICES ASSUME S # {} PROVE FALSE
    OBVIOUS
  <2>2. PICK k \in S : \A j \in S : k <= j
    <3> HIDE DEF S
    <3>1. S \in SUBSET Nat BY DEF S
    <3> QED BY <3>1, LeastNumber
  <2>3. k \in 0 .. n /\ f[k] # W[k] OBVIOUS
  <2>4. k # 0 BY <1>2, <2>1, <2>3
  <2>5. k - 1 \in 0 .. n /\ k - 1 \notin S BY <2>2, <2>3, <2>4
  <2>6. f[k - 1] = W[k - 1] BY <2>5
  <2>7. f[k] = f[k - 1] + s[k] * TwoTo[k - 1] /\ W[k] = W[k - 1] + s[k] * TwoTo[k - 1]
    BY <1>2, <2>1, <2>3, <2>4
  <2> QED BY <2>3, <2>6, <2>7
<1> DEFINE F == CHOOSE f : IsSum(f)
<1>5. LowValueOf(s) = F[Len(s)] BY DEF LowValueOf
<1>6. IsSum(F)
  <2> HIDE DEF IsSum, W
  <2> QED BY <1>3, Zenon
<1>7. n \in 0 .. n OBVIOUS
<1>8. F[n] = W[n]
  <2> HIDE DEF IsSum, W, F
  <2> QED BY <1>4, <1>6, <1>7
<1>9. LowValueOf(s) = W[n]
  <2> HIDE DEF IsSum, W, F
  <2> QED BY <1>1, <1>5, <1>8
<1> QED BY <1>7, <1>9 DEF s

\* A number that fits is all there.
LEMMA FittingRemainder ==
  ASSUME NEW v \in Nat, NEW P \in Nat \ {0}, v < P
  PROVE  v % P = v
OBVIOUS

\* The highest bit of a number below a power of two is below it.
LEMMA HighestBitFacts ==
  ASSUME NEW v \in Nat \ {0}, NEW m \in 0 .. 64, v < TwoTo[m]
  PROVE  LET h == HighestBit(v)
         IN  /\ h \in 0 .. 63 /\ h < m
             /\ TwoTo[h] <= v /\ v < TwoTo[h + 1] /\ TwoTo[h + 1] = 2 * TwoTo[h]
<1>1. \A k \in Nat : TwoTo[k] \in Nat \ {0} /\ TwoTo[k + 1] = 2 * TwoTo[k] BY PowersDouble
<1> DEFINE S == {k \in Nat : v < TwoTo[k]}
<1>2. PICK k \in S : \A j \in S : k <= j
  <2> HIDE DEF S
  <2>1. S \in SUBSET Nat /\ S # {} BY DEF S
  <2> QED BY <2>1, LeastNumber
<1>3. k \in Nat /\ k <= m /\ v < TwoTo[k] BY <1>2
<1>4. k # 0 BY <1>3, PowersDouble
<1> DEFINE h == k - 1
<1>5. h \in 0 .. 63 /\ h < m /\ h \notin S /\ h + 1 = k BY <1>2, <1>3, <1>4
<1> HIDE DEF h
<1>6. TwoTo[h] <= v /\ v < 2 * TwoTo[h]
  <2>1. TwoTo[h] \in Nat /\ TwoTo[h + 1] = 2 * TwoTo[h] BY <1>1, <1>5
  <2> QED BY <1>3, <1>5, <2>1
<1>7. \A i \in 0 .. 63 : v \div 2 < TwoTo[i] <=> v < 2 * TwoTo[i]
  <2> SUFFICES ASSUME NEW i \in 0 .. 63 PROVE v \div 2 < TwoTo[i] <=> v < 2 * TwoTo[i]
    OBVIOUS
  <2>1. TwoTo[i] \in Nat BY <1>1
  <2> QED BY <2>1
<1> DEFINE g == HighestBit(v)
<1>8. g \in 0 .. 63 /\ TwoTo[g] <= v /\ v \div 2 < TwoTo[g]
  <2>1. TwoTo[h] <= v /\ v \div 2 < TwoTo[h] BY <1>5, <1>6, <1>7
  <2> QED BY <1>5, <2>1 DEF HighestBit
<1> HIDE DEF g
<1>9. v < 2 * TwoTo[g] /\ TwoTo[g + 1] = 2 * TwoTo[g] /\ TwoTo[g] \in Nat BY <1>1, <1>7, <1>8
<1>10. g < m
  <2> SUFFICES ASSUME m <= g PROVE FALSE
    BY <1>8
  <2>1. TwoTo[m] \in Nat /\ (m = g \/ 2 * TwoTo[m] <= TwoTo[g]) BY <1>1, <1>8, PowersRise
  <2> QED BY <1>8, <1>9, <2>1
<1> QED BY <1>8, <1>9, <1>10 DEF g

-----------------------------------------------------------------------------
\* The bits of a number are as many as asked for.
LEMMA LowBitsAre ==
  ASSUME NEW v \in Nat, NEW n \in Nat
  PROVE  LowBits(v, n) \in Seq({0, 1}) /\ Len(LowBits(v, n)) = n
<1>1. \A i \in 1 .. n : (v \div TwoTo[i - 1]) % 2 \in {0, 1}
  <2> SUFFICES ASSUME NEW i \in 1 .. n PROVE (v \div TwoTo[i - 1]) % 2 \in {0, 1}
    OBVIOUS
  <2>1. TwoTo[i - 1] \in Nat \ {0} BY PowersDouble
  <2> DEFINE q == v \div TwoTo[i - 1]
  <2>2. q \in Nat BY <2>1
  <2> HIDE DEF q
  <2>3. q % 2 \in {0, 1} BY <2>2
  <2> QED BY <2>3 DEF q
<1> QED BY <1>1 DEF LowBits

\* A prefix and the field it announces.
LEMMA PrefixedFieldIs ==
  ASSUME NEW z \in Nat, NEW f \in Seq({0, 1})
  PROVE  LET w == Prefix(z) \o f
         IN  /\ w \in Seq({0, 1}) /\ Len(w) = z + 1 + Len(f)
             /\ \A i \in 1 .. z : w[i] = 0
             /\ w[z + 1] = 1
             /\ \A i \in 1 .. Len(f) : w[z + 1 + i] = f[i]
<1> DEFINE a == ZeroBits(z)
           p == Prefix(z)
           w == p \o f
<1>1. a \in Seq({0, 1}) /\ Len(a) = z /\ \A i \in 1 .. z : a[i] = 0 BY DEF ZeroBits
<1> HIDE DEF a
<1>2. /\ p \in Seq({0, 1}) /\ Len(p) = z + 1 /\ p[z + 1] = 1
      /\ \A i \in 1 .. z : p[i] = 0
  <2>1. p = a \o <<1>> BY DEF Prefix, a
  <2>2. <<1>> \in Seq({0, 1}) /\ Len(<<1>>) = 1 /\ <<1>>[1] = 1 OBVIOUS
  <2> HIDE DEF p
  <2> QED BY <1>1, <2>1, <2>2
<1> HIDE DEF p
<1>3. /\ w \in Seq({0, 1}) /\ Len(w) = z + 1 + Len(f)
      /\ \A i \in 1 .. z + 1 : w[i] = p[i]
      /\ \A i \in 1 .. Len(f) : w[z + 1 + i] = f[i]
  BY <1>2
<1>4. (\A i \in 1 .. z : i \in 1 .. z + 1) /\ z + 1 \in 1 .. z + 1 OBVIOUS
<1> HIDE DEF w
<1> QED BY <1>2, <1>3, <1>4 DEF w, p

\* An integer and its nibbles.
LEMMA IntegerIs ==
  ASSUME NEW v \in -TwoTo[IntBits - 1] .. TwoTo[IntBits - 1] - 1
  PROVE  LET u == Unsigned(v)
             z == Nibbles(u)
             n == 4 * (z + 1)
         IN  /\ u \in Nat /\ z \in Nat /\ n \in Nat /\ n <= IntBits
             /\ u < TwoTo[n] /\ Signed(u) = v
             /\ IntegerBits(v) = Prefix(z) \o LowBits(u, n)
<1> USE StreamAssumption
<1> DEFINE u == Unsigned(v)
           z == Nibbles(u)
           n == 4 * (z + 1)
           H == TwoTo[IntBits - 1]
<1>1. H \in Nat \ {0} /\ TwoTo[IntBits] = 2 * H
  <2>1. IntBits - 1 \in Nat /\ (IntBits - 1) + 1 = IntBits OBVIOUS
  <2> QED BY <2>1, PowersDouble
<1> HIDE DEF H
<1>2. v \in -H .. H - 1 BY DEF H
<1>3. u \in Nat /\ u < 2 * H /\ Signed(u) = v
  <2>1. CASE v >= 0
    <3>1. u = v BY <1>1, <1>2, <2>1, FittingRemainder DEF Unsigned
    <3> QED BY <1>1, <1>2, <2>1, <3>1 DEF Signed, H
  <2>2. CASE v < 0
    <3>1. v % (2 * H) = v + 2 * H BY <1>1, <1>2, <2>2
    <3>2. u = v + 2 * H BY <1>1, <3>1 DEF Unsigned
    <3> HIDE DEF u
    <3>3. u >= H BY <1>1, <1>2, <3>2
    <3>4. Signed(u) = u - TwoTo[IntBits] BY <3>3 DEF Signed, H
    <3> QED BY <1>1, <1>2, <2>2, <3>2, <3>4
  <2> QED BY <1>2, <2>1, <2>2
<1>4. IntegerBits(v) = Prefix(z) \o LowBits(u, n) BY DEF IntegerBits
<1> HIDE DEF u
<1>5. z \in Nat /\ n \in Nat /\ n <= IntBits /\ u < TwoTo[n]
  <2>1. CASE u = 0
    <3>1. z = 0 BY <2>1 DEF Nibbles
    <3>2. TwoTo[n] \in Nat \ {0} BY <3>1, PowersDouble
    <3> QED BY <2>1, <3>1, <3>2
  <2>2. CASE u # 0
    <3> DEFINE h == HighestBit(u)
    <3>1. /\ h \in 0 .. 63 /\ h < IntBits /\ TwoTo[h] <= u /\ u < TwoTo[h + 1]
      BY <1>1, <1>3, <2>2, HighestBitFacts
    <3>2. z = h \div 4 BY <2>2 DEF Nibbles
    <3> HIDE DEF h, z
    <3>3. z \in Nat /\ n \in Nat /\ n <= IntBits /\ h + 1 <= n BY <3>1, <3>2
    <3> HIDE DEF n
    <3>4. TwoTo[h + 1] \in Nat /\ TwoTo[n] \in Nat BY <3>1, <3>3, PowersDouble
    <3>5. h + 1 = n \/ 2 * TwoTo[h + 1] <= TwoTo[n] BY <3>1, <3>3, PowersRise
    <3> QED BY <1>3, <3>1, <3>3, <3>4, <3>5
  <2> QED BY <2>1, <2>2
<1> QED BY <1>3, <1>4, <1>5 DEF u

\* A number and what is announced of it.
LEMMA NumberIs ==
  ASSUME NEW v \in Nat, v >= 256, v \div 4 < TwoTo[30]
  PROVE  LET h == HighestBit(v)
         IN  /\ h \in 8 .. 31 /\ TwoTo[h] <= v /\ v % TwoTo[h] = v - TwoTo[h]
             /\ NumberBits(v) = Prefix(h - 8) \o LowBits(v, h)
<1> DEFINE h == HighestBit(v)
<1>1. \A k \in Nat : TwoTo[k] \in Nat \ {0} /\ TwoTo[k + 1] = 2 * TwoTo[k] BY PowersDouble
<1>2. v < TwoTo[32]
  <2>1. TwoTo[30 + 1] = 2 * TwoTo[30] /\ TwoTo[31 + 1] = 2 * TwoTo[31] /\ TwoTo[30] \in Nat
    BY <1>1
  <2>2. v < 4 * TwoTo[30] BY <2>1
  <2> QED BY <2>1, <2>2
<1>3. h \in 0 .. 63 /\ h < 32 /\ TwoTo[h] <= v /\ v < TwoTo[h + 1] BY <1>2, HighestBitFacts
<1>4. NumberBits(v) = Prefix(h - 8) \o LowBits(v, h) BY DEF NumberBits
<1> HIDE DEF h
<1>5. h >= 8
  <2> SUFFICES ASSUME h <= 7 PROVE FALSE
    BY <1>3
  <2>1. TwoTo[8] = 256
    <3>1. /\ TwoTo[2 + 1] = 2 * TwoTo[2] /\ TwoTo[3 + 1] = 2 * TwoTo[3]
          /\ TwoTo[4 + 1] = 2 * TwoTo[4] /\ TwoTo[5 + 1] = 2 * TwoTo[5]
          /\ TwoTo[6 + 1] = 2 * TwoTo[6] /\ TwoTo[7 + 1] = 2 * TwoTo[7]
      BY <1>1
    <3> QED BY <3>1, SomePowers
  <2>2. h + 1 = 8 \/ 2 * TwoTo[h + 1] <= TwoTo[8] BY <1>3, PowersRise
  <2>3. TwoTo[h + 1] \in Nat BY <1>1, <1>3
  <2> QED BY <1>3, <2>1, <2>2, <2>3
<1> DEFINE P == TwoTo[h]
<1>6. P \in Nat \ {0} /\ P <= v /\ v < 2 * P BY <1>1, <1>3
<1>7. v % P = v - P
  <2> HIDE DEF P
  <2>1. P * 1 = P BY <1>6
  <2>2. P * 1 <= v /\ v < P * 1 + P BY <1>6, <2>1
  <2>3. v % P = v - P * 1 BY <1>6, <2>2, RemainderAbove
  <2> QED BY <2>1, <2>3
<1>8. h \in 8 .. 31 BY <1>3, <1>5
<1>9. TwoTo[h] <= v BY <1>3
<1>10. v % TwoTo[h] = v - TwoTo[h] BY <1>7
<1> HIDE DEF P
<1> QED BY <1>4, <1>8, <1>9, <1>10 DEF h

\* What is ahead of the reader are the bits behind its position.
LEMMA AheadIs ==
  ASSUME bits \in Seq({0, 1}), position \in 0 .. Len(bits)
  PROVE  /\ Ahead \in Seq({0, 1}) /\ Len(Ahead) = Len(bits) - position
         /\ \A i \in 1 .. Len(Ahead) : Ahead[i] = bits[position + i]
<1> DEFINE b == bits
           p == position
           n == Len(b)
<1>1. b \in Seq({0, 1}) /\ p \in Nat /\ n \in Nat /\ p <= n OBVIOUS
<1> DEFINE s == SubSeq(b, p + 1, n)
<1>2. Ahead = s BY DEF Ahead
<1> HIDE DEF b, p
<1>3. s \in Seq({0, 1}) /\ Len(s) = n - p /\ \A i \in 1 .. Len(s) : s[i] = b[p + i]
  <2>1. CASE p = n
    <3>1. s = <<>> BY <1>1, <2>1
    <3> HIDE DEF s
    <3> QED BY <1>1, <2>1, <3>1
  <2>2. CASE p < n
    <3>1. p + 1 \in 1 .. n /\ n \in p + 1 - 1 .. n BY <1>1, <2>2
    <3>2. Len(s) = n - p /\ s \in Seq({0, 1}) BY <1>1, <3>1
    <3>3. \A i \in 1 .. n - p : s[i] = b[p + 1 + i - 1] BY <1>1, <3>1
    <3> HIDE DEF s
    <3> QED BY <1>1, <3>2, <3>3
  <2> QED BY <1>1, <2>1, <2>2
<1> HIDE DEF s, n
<1> QED BY <1>2, <1>3 DEF b, p, n

\* The first bits of a number lie ahead, behind a few others.
LiesAhead(a, from, n, u) ==
  /\ a \in Seq({0, 1}) /\ Ahead = a
  /\ from \in Nat /\ n \in Nat /\ u \in Nat /\ from + n <= Len(a)
  /\ \A i \in 1 .. n : a[from + i] = LowBits(u, n)[i]

\* A field that lies ahead is read as the number it was cut from, as far as it goes.
LEMMA ReadsField ==
  ASSUME NEW a, NEW from, NEW n, NEW u, LiesAhead(a, from, n, u)
  PROVE  FieldAhead(from, n) = u % TwoTo[n]
<1>0. /\ a \in Seq({0, 1}) /\ Ahead = a
      /\ from \in Nat /\ n \in Nat /\ u \in Nat /\ from + n <= Len(a)
      /\ \A i \in 1 .. n : a[from + i] = LowBits(u, n)[i]
  BY DEF LiesAhead
<1> USE <1>0
<1> DEFINE s == SubSeq(a, from + 1, from + n)
           f == LowBits(u, n)
<1>1. f \in Seq({0, 1}) /\ Len(f) = n BY LowBitsAre
<1> HIDE DEF f
<1>2. s \in Seq({0, 1}) /\ Len(s) = n /\ \A i \in 1 .. n : s[i] = a[from + i]
  <2>1. CASE n = 0
    <3>1. s = <<>> BY <2>1
    <3> HIDE DEF s
    <3> QED BY <2>1, <3>1
  <2>2. CASE n > 0
    <3>1. s \in Seq({0, 1}) /\ Len(s) = n BY <2>2
    <3>2. \A i \in 1 .. n : s[i] = a[from + 1 + i - 1] BY <2>2
    <3> HIDE DEF s
    <3>3. \A i \in 1 .. n : from + 1 + i - 1 = from + i OBVIOUS
    <3> QED BY <3>1, <3>2, <3>3
  <2> QED BY <2>1, <2>2
<1>3. s = f
  <2> HIDE DEF s
  <2>1. \A i \in 1 .. n : s[i] = f[i] BY <1>2 DEF f
  <2> QED BY <1>1, <1>2, <2>1, SeqEqual
<1>4. FieldAhead(from, n) = LowValueOf(s) BY DEF FieldAhead
<1> HIDE DEF s
<1> QED BY <1>3, <1>4, BitsStandFor DEF f

\* A run of zeros that ends in a 1 is found where it lies ahead.
LEMMA ReadsZeros ==
  ASSUME NEW a \in Seq({0, 1}), Ahead = a, NEW z \in Nat, z < Len(a),
         \A i \in 1 .. z : a[i] = 0, a[z + 1] = 1
  PROVE  ZerosAhead = z
<1> DEFINE Ends(c) == (\A i \in 1 .. c : a[i] = 0) /\ (c < Len(a) => a[c + 1] = 1)
           c == CHOOSE c \in 0 .. Len(a) : Ends(c)
<1>1. ZerosAhead = c BY DEF ZerosAhead
<1>2. z \in 0 .. Len(a) /\ Ends(z) OBVIOUS
<1>3. c \in 0 .. Len(a) /\ Ends(c)
  <2> HIDE DEF Ends
  <2> QED BY <1>2
<1> HIDE DEF c
<1>4. c \in Nat /\ c <= Len(a) BY <1>3
<1>5. ~(c < z)
  <2> SUFFICES ASSUME c < z PROVE FALSE
    OBVIOUS
  <2>1. c + 1 \in 1 .. z /\ c < Len(a) BY <1>4
  <2>2. a[c + 1] = 0 /\ a[c + 1] = 1 BY <1>3, <2>1
  <2> QED BY <2>2
<1>6. ~(z < c)
  <2> SUFFICES ASSUME z < c PROVE FALSE
    OBVIOUS
  <2>1. z + 1 \in 1 .. c BY <1>4
  <2>2. a[z + 1] = 0 BY <1>3, <2>1
  <2> QED BY <2>2
<1> QED BY <1>1, <1>4, <1>5, <1>6

\* An integer is read where it was put.
LEMMA ReadsInteger ==
  ASSUME NEW a \in Seq({0, 1}), Ahead = a,
         NEW v \in -TwoTo[IntBits - 1] .. TwoTo[IntBits - 1] - 1,
         Len(IntegerBits(v)) <= Len(a), \A i \in 1 .. Len(IntegerBits(v)) : a[i] = IntegerBits(v)[i]
  PROVE  LET nibbles == ZerosAhead + 1
         IN  /\ nibbles \in Nat /\ ZerosAhead # Len(Ahead) /\ ~(4 * nibbles > IntBits)
             /\ Signed(FieldAhead(nibbles, 4 * nibbles)) = v
             /\ Len(IntegerBits(v)) = 5 * nibbles /\ IntegerBits(v) \in Seq({0, 1})
<1> USE StreamAssumption
<1> DEFINE u == Unsigned(v)
           z == Nibbles(u)
           n == 4 * (z + 1)
           f == LowBits(u, n)
           w == IntegerBits(v)
<1>1. /\ u \in Nat /\ z \in Nat /\ n \in Nat /\ n <= IntBits
      /\ u < TwoTo[n] /\ Signed(u) = v /\ w = Prefix(z) \o f
  BY IntegerIs
<1>2. n = 4 * (z + 1) OBVIOUS
<1>3. Len(w) <= Len(a) /\ \A i \in 1 .. Len(w) : a[i] = w[i] OBVIOUS
<1> HIDE DEF u, z, n, w
<1>4. f \in Seq({0, 1}) /\ Len(f) = n BY <1>1, LowBitsAre
<1>5. f = LowBits(u, n) OBVIOUS
<1> HIDE DEF f
<1>6. /\ w \in Seq({0, 1}) /\ Len(w) = z + 1 + n
      /\ \A i \in 1 .. z : w[i] = 0
      /\ w[z + 1] = 1
      /\ \A i \in 1 .. n : w[z + 1 + i] = f[i]
  BY <1>1, <1>4, PrefixedFieldIs
<1>7. /\ \A i \in 1 .. z : i \in 1 .. Len(w)
      /\ z + 1 \in 1 .. Len(w)
      /\ \A i \in 1 .. n : z + 1 + i \in 1 .. Len(w)
  <2> DEFINE length == Len(w)
  <2>1. length = z + 1 + n /\ z \in Nat /\ n \in Nat BY <1>1, <1>6
  <2> HIDE DEF length
  <2>2. /\ \A i \in 1 .. z : i \in 1 .. length
        /\ z + 1 \in 1 .. length
        /\ \A i \in 1 .. n : z + 1 + i \in 1 .. length
    BY <2>1
  <2> QED BY <2>2 DEF length
<1>8. /\ \A i \in 1 .. z : a[i] = 0
      /\ a[z + 1] = 1
      /\ \A i \in 1 .. n : a[z + 1 + i] = f[i]
  BY <1>3, <1>6, <1>7
<1>9. Len(a) \in Nat /\ z < Len(a) /\ z + 1 + n <= Len(a) BY <1>1, <1>3, <1>6
<1>10. ZerosAhead = z BY <1>1, <1>8, <1>9, ReadsZeros
<1>11. FieldAhead(z + 1, n) = u % TwoTo[n]
  <2> DEFINE from == z + 1
  <2>1. from \in Nat /\ from + n <= Len(a) /\ n \in Nat BY <1>1, <1>9
  <2>2. \A i \in 1 .. n : a[from + i] = LowBits(u, n)[i] BY <1>5, <1>8
  <2> HIDE DEF from
  <2>3. LiesAhead(a, from, n, u) BY <1>1, <2>1, <2>2 DEF LiesAhead
  <2>4. FieldAhead(from, n) = u % TwoTo[n] BY <2>3, ReadsField, SMT
  <2> QED BY <2>4 DEF from
<1>12. u % TwoTo[n] = u
  <2>1. TwoTo[n] \in Nat \ {0} BY <1>1, PowersDouble
  <2> QED BY <1>1, <2>1, FittingRemainder
<1>13. Signed(FieldAhead(z + 1, n)) = v BY <1>1, <1>11, <1>12
<1>14. Len(w) = 5 * (z + 1) /\ z # Len(a) /\ ~(n > IntBits) /\ z + 1 \in Nat
  <2>1. z \in Nat /\ n = 4 * (z + 1) /\ Len(w) = z + 1 + n BY <1>1, <1>2, <1>6
  <2>2. Len(w) = 5 * (z + 1) /\ z + 1 \in Nat BY <2>1
  <2>3. ~(n > IntBits) BY <1>1
  <2>4. z # Len(a) BY <1>1, <1>9
  <2> QED BY <2>2, <2>3, <2>4
<1> QED BY <1>2, <1>6, <1>10, <1>13, <1>14 DEF w

\* A number is read where it was put.
LEMMA ReadsNumber ==
  ASSUME NEW a \in Seq({0, 1}), Ahead = a, NEW v \in Nat, v >= 256, v \div 4 < TwoTo[30],
         Len(NumberBits(v)) <= Len(a), \A i \in 1 .. Len(NumberBits(v)) : a[i] = NumberBits(v)[i]
  PROVE  LET low == ZerosAhead + 8
         IN  /\ ZerosAhead # Len(Ahead) /\ ~(ZerosAhead > 23)
             /\ TwoTo[low] + FieldAhead(ZerosAhead + 1, low) = v
             /\ Len(NumberBits(v)) = ZerosAhead + 1 + low
<1> DEFINE h == HighestBit(v)
           z == h - 8
           f == LowBits(v, h)
           w == NumberBits(v)
<1>1. /\ h \in 8 .. 31 /\ TwoTo[h] <= v /\ v % TwoTo[h] = v - TwoTo[h] /\ w = Prefix(h - 8) \o f
  BY NumberIs
<1>2. Len(w) <= Len(a) /\ \A i \in 1 .. Len(w) : a[i] = w[i] OBVIOUS
<1> HIDE DEF h, w
<1>3. z \in Nat /\ h \in Nat /\ h = z + 8 /\ z <= 23 /\ w = Prefix(z) \o f BY <1>1
<1> HIDE DEF z
<1>4. f \in Seq({0, 1}) /\ Len(f) = h BY <1>3, LowBitsAre
<1>5. f = LowBits(v, h) OBVIOUS
<1> HIDE DEF f
<1>6. /\ w \in Seq({0, 1}) /\ Len(w) = z + 1 + h
      /\ \A i \in 1 .. z : w[i] = 0
      /\ w[z + 1] = 1
      /\ \A i \in 1 .. h : w[z + 1 + i] = f[i]
  <2>1. z \in Nat /\ Len(f) = h /\ w = Prefix(z) \o f /\ f \in Seq({0, 1}) BY <1>3, <1>4
  <2> QED BY <2>1, PrefixedFieldIs
<1>7. /\ \A i \in 1 .. z : i \in 1 .. Len(w)
      /\ z + 1 \in 1 .. Len(w)
      /\ \A i \in 1 .. h : z + 1 + i \in 1 .. Len(w)
  <2> DEFINE length == Len(w)
  <2>1. length = z + 1 + h /\ z \in Nat /\ h \in Nat BY <1>3, <1>6
  <2> HIDE DEF length
  <2>2. /\ \A i \in 1 .. z : i \in 1 .. length
        /\ z + 1 \in 1 .. length
        /\ \A i \in 1 .. h : z + 1 + i \in 1 .. length
    BY <2>1
  <2> QED BY <2>2 DEF length
<1>8. /\ \A i \in 1 .. z : a[i] = 0
      /\ a[z + 1] = 1
      /\ \A i \in 1 .. h : a[z + 1 + i] = f[i]
  BY <1>2, <1>6, <1>7
<1>9. Len(a) \in Nat /\ z < Len(a) /\ z + 1 + h <= Len(a) BY <1>2, <1>3, <1>6
<1>10. ZerosAhead = z BY <1>3, <1>8, <1>9, ReadsZeros
<1>11. FieldAhead(z + 1, h) = v % TwoTo[h]
  <2> DEFINE from == z + 1
  <2>1. from \in Nat /\ from + h <= Len(a) /\ h \in Nat BY <1>3, <1>9
  <2>2. \A i \in 1 .. h : a[from + i] = LowBits(v, h)[i] BY <1>5, <1>8
  <2> HIDE DEF from
  <2>3. LiesAhead(a, from, h, v) BY <1>1, <2>1, <2>2 DEF LiesAhead
  <2>4. FieldAhead(from, h) = v % TwoTo[h] BY <2>3, ReadsField, SMT
  <2> QED BY <2>4 DEF from
<1>12. TwoTo[h] \in Nat BY <1>3, PowersDouble
<1>13. TwoTo[h] + FieldAhead(z + 1, h) = v BY <1>1, <1>11, <1>12
<1>14. z # Len(a) /\ ~(z > 23) BY <1>3, <1>9
<1> QED BY <1>3, <1>6, <1>10, <1>13, <1>14 DEF w

\* The bits of an integer are bits.
LEMMA IntegerBitsAre ==
  ASSUME NEW v \in -TwoTo[IntBits - 1] .. TwoTo[IntBits - 1] - 1
  PROVE  IntegerBits(v) \in Seq({0, 1}) /\ Len(IntegerBits(v)) \in Nat
<1> DEFINE u == Unsigned(v)
           z == Nibbles(u)
           n == 4 * (z + 1)
           f == LowBits(u, n)
           w == IntegerBits(v)
<1>1. u \in Nat /\ z \in Nat /\ n \in Nat /\ w = Prefix(z) \o f BY IntegerIs
<1> HIDE DEF u, z, n, w
<1>2. f \in Seq({0, 1}) BY <1>1, LowBitsAre
<1> HIDE DEF f
<1>3. w \in Seq({0, 1}) BY <1>1, <1>2, PrefixedFieldIs
<1>4. Len(w) \in Nat BY <1>3
<1> QED BY <1>3, <1>4 DEF w

\* A byte has 256 values.
LEMMA ByteHasValues == TwoTo[ByteBits] = 256 /\ ByteBits = 8
<1>1. /\ TwoTo[2 + 1] = 2 * TwoTo[2] /\ TwoTo[3 + 1] = 2 * TwoTo[3]
      /\ TwoTo[4 + 1] = 2 * TwoTo[4] /\ TwoTo[5 + 1] = 2 * TwoTo[5]
      /\ TwoTo[6 + 1] = 2 * TwoTo[6] /\ TwoTo[7 + 1] = 2 * TwoTo[7]
  BY PowersDouble
<1> QED BY <1>1, SomePowers DEF ByteBits

\* A byte is itself.
LEMMA ByteIsItself ==
  ASSUME NEW v \in 0 .. 255
  PROVE  v \in Nat /\ v < 256 /\ v % 256 = v
OBVIOUS

\* The bits to the next byte: fewer than a byte, and the byte is whole with them.
LEMMA ToByteFacts ==
  ASSUME NEW count \in Nat
  PROVE  ToByte(count) \in 0 .. 7 /\ (count + ToByte(count)) % ByteBits = 0
BY DEF ToByte, ByteBits

\* A buffer: its size, what fills the byte, and its bytes.
LEMMA BufferIs ==
  ASSUME NEW before \in Nat, NEW buffer \in Seq(0 .. 255), Len(buffer) < TwoTo[IntBits - 1]
  PROVE  LET w    == BufferBits(before, buffer)
             size == IntegerBits(Len(buffer))
             pad  == ToByte(before + Len(size))
         IN  /\ Len(buffer) \in -TwoTo[IntBits - 1] .. TwoTo[IntBits - 1] - 1
             /\ size \in Seq({0, 1}) /\ Len(size) \in Nat /\ pad \in 0 .. 7
             /\ w \in Seq({0, 1}) /\ Len(w) = Len(size) + pad + 8 * Len(buffer)
             /\ \A i \in 1 .. Len(size) : w[i] = size[i]
             /\ \A k \in 1 .. Len(buffer), j \in 1 .. 8 :
                  w[Len(size) + pad + 8 * (k - 1) + j] = LowBits(buffer[k], 8)[j]
<1> USE StreamAssumption
<1> DEFINE N    == Len(buffer)
           size == IntegerBits(N)
           L    == Len(size)
           pad  == ToByte(before + L)
           zeros == ZeroBits(pad)
           byte(i) == buffer[(i - 1) \div ByteBits + 1]
           Bit(i)  == LowBits(byte(i), ByteBits)[((i - 1) % ByteBits) + 1]
           data == [i \in 1 .. ByteBits * N |-> Bit(i)]
           w    == BufferBits(before, buffer)
<1>1. N \in Nat /\ N \in -TwoTo[IntBits - 1] .. TwoTo[IntBits - 1] - 1
  <2>1. IntBits - 1 \in Nat OBVIOUS
  <2>2. TwoTo[IntBits - 1] \in Nat BY <2>1, PowersDouble
  <2> QED BY <2>2
<1>2. w = size \o zeros \o data BY DEF BufferBits
<1>21. \A k \in 1 .. N : buffer[k] \in Nat
  <2>1. \A k \in 1 .. Len(buffer) : buffer[k] \in 0 .. 255 BY ElementOfSeq
  <2>2. \A c \in 0 .. 255 : c \in Nat OBVIOUS
  <2> QED BY <2>1, <2>2
<1>3. size \in Seq({0, 1}) /\ L \in Nat BY <1>1, IntegerBitsAre
<1> HIDE DEF w
<1>4. pad \in 0 .. 7 BY <1>3, ToByteFacts
<1>5. zeros \in Seq({0, 1}) /\ Len(zeros) = pad
  <2> HIDE DEF pad
  <2> QED BY <1>4 DEF ZeroBits
<1>6. /\ data \in Seq({0, 1}) /\ Len(data) = 8 * N
      /\ \A k \in 1 .. N, j \in 1 .. 8 : data[8 * (k - 1) + j] = LowBits(buffer[k], 8)[j]
  <2>1. \A k \in 1 .. N : buffer[k] \in Nat BY <1>21
  <2>2. \A i \in 1 .. 8 * N : (i - 1) \div 8 + 1 \in 1 .. N /\ ((i - 1) % 8) + 1 \in 1 .. 8
    <3> HIDE DEF N
    <3> SUFFICES ASSUME NEW i \in 1 .. 8 * N
                 PROVE  (i - 1) \div 8 + 1 \in 1 .. N /\ ((i - 1) % 8) + 1 \in 1 .. 8
      OBVIOUS
    <3> QED BY <1>1
  <2>3. \A i \in 1 .. 8 * N : Bit(i) \in {0, 1}
    <3> SUFFICES ASSUME NEW i \in 1 .. 8 * N PROVE Bit(i) \in {0, 1}
      OBVIOUS
    <3> DEFINE k == (i - 1) \div 8 + 1
               j == ((i - 1) % 8) + 1
               v == buffer[k]
    <3>1. k \in 1 .. N /\ j \in 1 .. 8 BY <2>2
    <3>2. Bit(i) = LowBits(v, 8)[j] BY DEF ByteBits
    <3> HIDE DEF k, j
    <3>3. v \in Nat BY <2>1, <3>1
    <3> HIDE DEF v, Bit
    <3>4. LowBits(v, 8) \in Seq({0, 1}) /\ Len(LowBits(v, 8)) = 8 BY <3>3, LowBitsAre
    <3> DEFINE low == LowBits(v, 8)
    <3>5. low \in Seq({0, 1}) /\ Len(low) = 8 /\ j \in 1 .. 8 BY <3>1, <3>4
    <3>6. low[j] \in {0, 1}
      <4> HIDE DEF low
      <4> QED BY <3>5, ElementOfSeq
    <3> QED BY <3>2, <3>6
  <2>4. data = [i \in 1 .. 8 * N |-> Bit(i)] BY DEF ByteBits
  <2>5. data \in Seq({0, 1}) /\ Len(data) = 8 * N /\ \A i \in 1 .. 8 * N : data[i] = Bit(i)
    <3> HIDE DEF Bit, data, N
    <3> QED BY <1>1, <2>3, <2>4
  <2> HIDE DEF data
  <2>6. ASSUME NEW k \in 1 .. N, NEW j \in 1 .. 8
        PROVE  data[8 * (k - 1) + j] = LowBits(buffer[k], 8)[j]
    <3> DEFINE i == 8 * (k - 1) + j
    <3>1. i \in 1 .. 8 * N /\ (i - 1) \div 8 + 1 = k /\ ((i - 1) % 8) + 1 = j
      <4> HIDE DEF N
      <4> QED BY <1>1
    <3>2. data[i] = Bit(i) BY <2>5, <3>1
    <3> HIDE DEF i
    <3>3. Bit(i) = LowBits(buffer[k], 8)[j] BY <3>1 DEF ByteBits
    <3> QED BY <3>2, <3>3 DEF i
  <2> QED BY <2>5, <2>6
<1> HIDE DEF data, zeros, size, N
<1> DEFINE head == size \o zeros
<1>7. /\ head \in Seq({0, 1}) /\ Len(head) = L + pad
      /\ \A i \in 1 .. L : head[i] = size[i]
  <2> HIDE DEF pad
  <2> QED BY <1>3, <1>4, <1>5
<1>8. w = head \o data BY <1>2
<1> HIDE DEF head, pad
<1>9. /\ w \in Seq({0, 1}) /\ Len(w) = L + pad + 8 * N
      /\ \A i \in 1 .. L + pad : w[i] = head[i]
      /\ \A i \in 1 .. 8 * N : w[L + pad + i] = data[i]
  <2>0. head \in Seq({0, 1}) /\ data \in Seq({0, 1}) BY <1>6, <1>7
  <2>1. w \in Seq({0, 1}) /\ Len(w) = Len(head) + Len(data) BY <1>8, <2>0
  <2>2. \A i \in 1 .. Len(head) : w[i] = head[i] BY <1>8, <2>0
  <2>3. \A i \in 1 .. Len(data) : w[Len(head) + i] = data[i] BY <1>8, <2>0
  <2> QED BY <1>6, <1>7, <2>1, <2>2, <2>3
<1>10. \A i \in 1 .. L : w[i] = size[i]
  <2> HIDE DEF L
  <2>1. \A i \in 1 .. L : i \in 1 .. L + pad BY <1>3, <1>4
  <2> QED BY <1>7, <1>9, <2>1
<1>11. ASSUME NEW k \in 1 .. N, NEW j \in 1 .. 8
       PROVE  w[L + pad + 8 * (k - 1) + j] = LowBits(buffer[k], 8)[j]
  <2> DEFINE i == 8 * (k - 1) + j
  <2>1. i \in 1 .. 8 * N /\ i \in Nat
    BY <1>1
  <2>2. w[L + pad + i] = data[i] BY <1>9, <2>1
  <2>3. data[i] = LowBits(buffer[k], 8)[j] BY <1>6
  <2> HIDE DEF L, i
  <2>4. L + pad + i = L + pad + 8 * (k - 1) + j BY <1>3, <1>4 DEF i
  <2> QED BY <2>2, <2>3, <2>4
<1> QED BY <1>1, <1>3, <1>4, <1>9, <1>10, <1>11 DEF w, pad, size, N

\* A buffer is read where it was put.
LEMMA ReadsBuffer ==
  ASSUME NEW a \in Seq({0, 1}), Ahead = a, position \in Nat,
         NEW buffer \in Seq(0 .. 255), Len(buffer) < TwoTo[IntBits - 1],
         Len(BufferBits(position, buffer)) <= Len(a),
         \A i \in 1 .. Len(BufferBits(position, buffer)) : a[i] = BufferBits(position, buffer)[i]
  PROVE  LET nibbles == ZerosAhead + 1
             size    == Signed(FieldAhead(nibbles, 4 * nibbles))
             start   == 5 * nibbles + ToByte(position + 5 * nibbles)
         IN  /\ ZerosAhead # Len(Ahead) /\ ~(4 * nibbles > IntBits) /\ ~(size < 0)
             /\ [k \in 1 .. size |-> FieldAhead(start + ByteBits * (k - 1), ByteBits)] = buffer
             /\ start + ByteBits * size = Len(BufferBits(position, buffer))
<1> DEFINE N == Len(buffer)
           w == BufferBits(position, buffer)
           s == IntegerBits(N)
           L == Len(s)
           p == position
           pad == ToByte(p + L)
           nibbles == ZerosAhead + 1
           size    == Signed(FieldAhead(nibbles, 4 * nibbles))
           start   == 5 * nibbles + ToByte(p + 5 * nibbles)
<1>0. N \in Nat /\ p \in Nat OBVIOUS
<1>01. buffer = [k \in 1 .. N |-> buffer[k]] OBVIOUS
<1>02. \A k \in 1 .. N : buffer[k] \in 0 .. 255 BY ElementOfSeq
<1>1. /\ N \in -TwoTo[IntBits - 1] .. TwoTo[IntBits - 1] - 1
      /\ L \in Nat /\ pad \in 0 .. 7 /\ Len(w) = L + pad + 8 * N
      /\ \A i \in 1 .. L : w[i] = s[i]
      /\ \A k \in 1 .. N, j \in 1 .. 8 : w[L + pad + 8 * (k - 1) + j] = LowBits(buffer[k], 8)[j]
  <2> HIDE DEF w, pad, s
  <2> QED BY BufferIs DEF w, pad, s
<1>2. Len(w) <= Len(a) /\ \A i \in 1 .. Len(w) : a[i] = w[i] OBVIOUS
<1>3. Len(a) \in Nat OBVIOUS
<1> HIDE DEF w, pad, N
<1>4. Len(s) <= Len(a) /\ \A i \in 1 .. Len(s) : a[i] = s[i]
  <2> DEFINE M == Len(w)
             A == Len(a)
  <2>1. M = L + pad + 8 * N /\ M <= A /\ A \in Nat BY <1>1, <1>2, <1>3
  <2>11. L \in Nat /\ pad \in 0 .. 7 /\ N \in Nat BY <1>0, <1>1
  <2> HIDE DEF M, A, L
  <2>2. M \in Nat /\ L <= A /\ L <= M BY <2>1, <2>11
  <2>3. \A i \in 1 .. L : i \in 1 .. M BY <2>11, <2>2
  <2>4. \A i \in 1 .. L : a[i] = s[i] BY <1>1, <1>2, <2>3 DEF M
  <2> QED BY <2>2, <2>4 DEF A, L
<1> HIDE DEF s
<1>5. /\ nibbles \in Nat /\ ZerosAhead # Len(Ahead) /\ ~(4 * nibbles > IntBits)
      /\ size = N /\ L = 5 * nibbles
  BY <1>1, <1>4, ReadsInteger DEF s
<1> HIDE DEF nibbles, size, L
<1>6. start = L + pad /\ start \in Nat
  <2>1. start = L + ToByte(p + L) BY <1>5
  <2> HIDE DEF start
  <2>2. start = L + pad BY <2>1 DEF pad
  <2>3. L \in Nat /\ pad \in Nat
    <3>1. L \in Nat /\ pad \in 0 .. 7 BY <1>1
    <3> QED BY <3>1
  <2> QED BY <2>2, <2>3
<1> HIDE DEF start
<1>7. Len(a) >= start + 8 * N /\ start + 8 * N = Len(w) BY <1>0, <1>1, <1>2, <1>3, <1>6
<1>8. ASSUME NEW k \in 1 .. N
      PROVE  FieldAhead(start + ByteBits * (k - 1), ByteBits) = buffer[k]
  <2> DEFINE from == start + 8 * (k - 1)
             v == buffer[k]
  <2>1. from \in Nat /\ from + 8 <= start + 8 * N BY <1>0, <1>6
  <2>2. v \in 0 .. 255 BY <1>02
  <2>21. v \in Nat /\ v < 256 /\ v % 256 = v BY <2>2, ByteIsItself
  <2>3. ASSUME NEW j \in 1 .. 8
        PROVE  a[from + j] = LowBits(v, 8)[j]
    <3>1. w[L + pad + 8 * (k - 1) + j] = LowBits(v, 8)[j] BY <1>1
    <3>2. L + pad + 8 * (k - 1) + j = from + j BY <1>6
    <3> HIDE DEF from
    <3>3. from + j \in 1 .. Len(w)
      <4> DEFINE M == Len(w)
      <4>1. M = start + 8 * N /\ start \in Nat /\ N \in Nat BY <1>0, <1>6, <1>7
      <4>2. from \in Nat /\ from + 8 <= start + 8 * N BY <2>1 DEF from
      <4> HIDE DEF M
      <4>3. from + j \in 1 .. M BY <4>1, <4>2
      <4> QED BY <4>3 DEF M
    <3> QED BY <1>2, <3>1, <3>2, <3>3
  <2> HIDE DEF from, v
  <2>4. from + 8 <= Len(a) BY <1>0, <1>3, <1>6, <1>7, <2>1
  <2>5. FieldAhead(from, 8) = v % TwoTo[8]
    <3>1. 8 \in Nat /\ a \in Seq({0, 1}) /\ Ahead = a OBVIOUS
    <3>2. LiesAhead(a, from, 8, v) BY <2>1, <2>21, <2>3, <2>4, <3>1 DEF LiesAhead
    <3> QED BY <3>2, ReadsField, SMT
  <2>6. TwoTo[8] = 256 /\ ByteBits = 8 BY ByteHasValues
  <2>7. v % 256 = v BY <2>21
  <2> QED BY <2>5, <2>6, <2>7 DEF from, v
<1>9. [k \in 1 .. size |-> FieldAhead(start + ByteBits * (k - 1), ByteBits)] = buffer
  <2>1. [k \in 1 .. N |-> FieldAhead(start + ByteBits * (k - 1), ByteBits)]
          = [k \in 1 .. N |-> buffer[k]]
    BY <1>8
  <2> QED BY <1>01, <1>5, <2>1
<1>10. start + ByteBits * size = Len(w) BY <1>5, <1>7, ByteHasValues
<1>11. ~(size < 0) BY <1>0, <1>5
<1> QED BY <1>5, <1>9, <1>10, <1>11 DEF w, start, nibbles, size

\* The kinds of list are four.
LEMMA ItemBitsAre ==
  ASSUME NEW before \in Nat, NEW item, IsStreamItem(item)
  PROVE  ItemBits(before, item) \in Seq({0, 1}) /\ Len(ItemBits(before, item)) \in Nat
<1> DEFINE w == ItemBits(before, item)
<1>1. w \in Seq({0, 1})
  <2>1. CASE /\ item.kind = "bits" /\ item.bits \in 0 .. 64
             /\ item.value \in 0 .. TwoTo[item.bits] - 1
    <3>1. w = LowBits(item.value, item.bits) BY <2>1 DEF ItemBits
    <3>2. item.bits \in Nat BY <2>1
    <3>3. TwoTo[item.bits] \in Nat BY <3>2, PowersDouble
    <3>4. item.value \in Nat BY <2>1, <3>3
    <3> HIDE DEF w
    <3> QED BY <3>1, <3>2, <3>4, LowBitsAre
  <2>2. CASE item.kind = "integer" /\ item.value \in -TwoTo[IntBits - 1] .. TwoTo[IntBits - 1] - 1
    <3>1. w = IntegerBits(item.value) BY <2>2 DEF ItemBits
    <3> HIDE DEF w
    <3> QED BY <2>2, <3>1, IntegerBitsAre
  <2>3. CASE /\ item.kind = "number" /\ item.value \in Nat /\ item.value >= 256
             /\ item.value \div 4 < TwoTo[30]
    <3>1. w = NumberBits(item.value) BY <2>3 DEF ItemBits
    <3> HIDE DEF w
    <3> DEFINE h == HighestBit(item.value)
               f == LowBits(item.value, h)
    <3>2. h \in 8 .. 31 /\ w = Prefix(h - 8) \o f BY <2>3, <3>1, NumberIs
    <3> HIDE DEF h
    <3>3. h \in Nat /\ h - 8 \in Nat BY <3>2
    <3>4. f \in Seq({0, 1}) BY <2>3, <3>3, LowBitsAre
    <3> HIDE DEF f
    <3> QED BY <3>2, <3>3, <3>4, PrefixedFieldIs
  <2>4. CASE /\ item.kind = "buffer" /\ item.value \in Seq(0 .. 255)
             /\ Len(item.value) < TwoTo[IntBits - 1]
    <3>1. w = BufferBits(before, item.value) BY <2>4 DEF ItemBits
    <3> HIDE DEF w
    <3> QED BY <2>4, <3>1, BufferIs
  <2> QED BY <2>1, <2>2, <2>3, <2>4 DEF IsStreamItem
<1> HIDE DEF w
<1>2. Len(w) \in Nat BY <1>1
<1> QED BY <1>1, <1>2 DEF w

\* The reader's step for an item.
TakesA(item) ==
  CASE item.kind = "bits"    -> ReadBits(item.bits)
    [] item.kind = "integer" -> TakeInteger
    [] item.kind = "number"  -> TakeNumber
    [] item.kind = "buffer"  -> TakeBuffer

\* What lies ahead of the reader is taken for what it is.
LEMMA TakesTheItem ==
  ASSUME bits \in Seq({0, 1}), position \in 0 .. Len(bits), NEW item, IsStreamItem(item),
         position + Len(ItemBits(position, item)) <= Len(bits),
         \A i \in 1 .. Len(ItemBits(position, item)) :
           bits[position + i] = ItemBits(position, item)[i],
         TakesA(item)
  PROVE  /\ position' = position + Len(ItemBits(position, item))
         /\ taken' = Append(taken, item.value)
         /\ failed' = failed
<1> DEFINE w == ItemBits(position, item)
           a == Ahead
           M == Len(w)
           A == Len(a)
<1>1. a \in Seq({0, 1}) /\ A = Len(bits) - position /\ \A i \in 1 .. A : a[i] = bits[position + i]
  BY AheadIs
<1>2. position \in Nat /\ Len(bits) \in Nat OBVIOUS
<1>3. M \in Nat BY <1>2, ItemBitsAre
<1>4. A \in Nat /\ M <= A
  <2>1. position + M <= Len(bits) OBVIOUS
  <2> HIDE DEF M, A
  <2> QED BY <1>1, <1>2, <1>3, <2>1
<1>5. \A i \in 1 .. M : a[i] = w[i]
  <2>1. \A i \in 1 .. M : bits[position + i] = w[i] OBVIOUS
  <2> HIDE DEF M, A, w, a
  <2>2. \A i \in 1 .. M : i \in 1 .. A BY <1>3, <1>4
  <2> QED BY <1>1, <2>1, <2>2
<1>6. a = Ahead OBVIOUS
<1>7. ASSUME NEW value, Took(value, M), value = item.value
      PROVE  position' = position + M /\ taken' = Append(taken, item.value) /\ failed' = failed
  <2>1. ~(M > Len(Ahead)) BY <1>3, <1>4
  <2> HIDE DEF M, a, A, w
  <2> QED BY <1>7, <2>1 DEF Took
<1> HIDE DEF w, a, A
<1>8. CASE /\ item.kind = "bits" /\ item.bits \in 0 .. 64
           /\ item.value \in 0 .. TwoTo[item.bits] - 1
  <2> DEFINE v == item.value
             n == item.bits
  <2>1. w = LowBits(v, n) BY <1>8 DEF ItemBits, w
  <2>2. ReadBits(n) BY <1>8 DEF TakesA
  <2>3. n \in Nat /\ v \in Nat /\ v < TwoTo[n] /\ TwoTo[n] \in Nat \ {0}
    <3>1. n \in Nat
      <4>1. n \in 0 .. 64 BY <1>8
      <4> HIDE DEF n
      <4> QED BY <4>1
    <3>2. TwoTo[n] \in Nat \ {0} BY <3>1, PowersDouble
    <3>3. v \in 0 .. TwoTo[n] - 1 BY <1>8
    <3> HIDE DEF v, n
    <3> QED BY <3>1, <3>2, <3>3
  <2> HIDE DEF v, n
  <2>4. M = n BY <2>1, <2>3, LowBitsAre
  <2>5. FieldAhead(0, n) = v
    <3>1. \A i \in 1 .. n : a[0 + i] = LowBits(v, n)[i]
      <4>1. \A i \in 1 .. n : 0 + i = i BY <2>3
      <4> QED BY <1>5, <2>1, <2>4, <4>1
    <3>2. 0 \in Nat /\ 0 + n <= Len(a) BY <1>4, <2>3, <2>4 DEF A
    <3>3. LiesAhead(a, 0, n, v) BY <1>1, <1>6, <2>3, <3>1, <3>2 DEF LiesAhead
    <3>4. FieldAhead(0, n) = v % TwoTo[n] BY <3>3, ReadsField, SMT
    <3> QED BY <2>3, <3>4, FittingRemainder
  <2>6. Took(v, M) BY <2>2, <2>4, <2>5 DEF ReadBits
  <2> QED BY <1>7, <2>6 DEF v, w
<1>9. CASE item.kind = "integer" /\ item.value \in -TwoTo[IntBits - 1] .. TwoTo[IntBits - 1] - 1
  <2> DEFINE v == item.value
             nibbles == ZerosAhead + 1
  <2>1. w = IntegerBits(v) BY <1>9 DEF ItemBits, w
  <2>2. TakeInteger BY <1>9 DEF TakesA
  <2>3. v \in -TwoTo[IntBits - 1] .. TwoTo[IntBits - 1] - 1 BY <1>9
  <2> HIDE DEF v
  <2>4. /\ ZerosAhead # Len(Ahead) /\ ~(4 * nibbles > IntBits)
        /\ Signed(FieldAhead(nibbles, 4 * nibbles)) = v /\ M = 5 * nibbles
    <3>1. /\ Len(IntegerBits(v)) <= Len(a)
          /\ \A i \in 1 .. Len(IntegerBits(v)) : a[i] = IntegerBits(v)[i]
      BY <1>4, <1>5, <2>1 DEF A
    <3> QED BY <1>1, <1>6, <2>1, <2>3, <3>1, ReadsInteger
  <2>5. Took(Signed(FieldAhead(nibbles, 4 * nibbles)), 5 * nibbles) BY <2>2, <2>4 DEF TakeInteger
  <2> HIDE DEF nibbles
  <2>6. Took(v, M) BY <2>4, <2>5
  <2> QED BY <1>7, <2>6 DEF v, w
<1>10. CASE /\ item.kind = "number" /\ item.value \in Nat /\ item.value >= 256
            /\ item.value \div 4 < TwoTo[30]
  <2> DEFINE v == item.value
             z == ZerosAhead
             low == ZerosAhead + 8
  <2>1. w = NumberBits(v) BY <1>10 DEF ItemBits, w
  <2>2. TakeNumber BY <1>10 DEF TakesA
  <2>3. v \in Nat /\ v >= 256 /\ v \div 4 < TwoTo[30] BY <1>10
  <2> HIDE DEF v
  <2>4. /\ z # Len(Ahead) /\ ~(z > 23)
        /\ TwoTo[low] + FieldAhead(z + 1, low) = v /\ M = z + 1 + low
    <3>1. /\ Len(NumberBits(v)) <= Len(a)
          /\ \A i \in 1 .. Len(NumberBits(v)) : a[i] = NumberBits(v)[i]
      BY <1>4, <1>5, <2>1 DEF A
    <3> QED BY <1>1, <1>6, <2>1, <2>3, <3>1, ReadsNumber
  <2>5. Took(TwoTo[low] + FieldAhead(z + 1, low), z + 1 + low) BY <2>2, <2>4 DEF TakeNumber
  <2> HIDE DEF z, low
  <2>6. Took(v, M) BY <2>4, <2>5
  <2> QED BY <1>7, <2>6 DEF v, w
<1>11. CASE /\ item.kind = "buffer" /\ item.value \in Seq(0 .. 255)
            /\ Len(item.value) < TwoTo[IntBits - 1]
  <2> DEFINE v == item.value
             nibbles == ZerosAhead + 1
             size    == Signed(FieldAhead(nibbles, 4 * nibbles))
             start   == 5 * nibbles + ToByte(position + 5 * nibbles)
             buffer  == [k \in 1 .. size |-> FieldAhead(start + ByteBits * (k - 1), ByteBits)]
  <2>1. w = BufferBits(position, v) BY <1>11 DEF ItemBits, w
  <2>2. TakeBuffer BY <1>11 DEF TakesA
  <2>3. v \in Seq(0 .. 255) /\ Len(v) < TwoTo[IntBits - 1] BY <1>11
  <2> HIDE DEF v
  <2>4. /\ ZerosAhead # Len(Ahead) /\ ~(4 * nibbles > IntBits) /\ ~(size < 0)
        /\ buffer = v /\ start + ByteBits * size = M
    <3>1. /\ Len(BufferBits(position, v)) <= Len(a)
          /\ \A i \in 1 .. Len(BufferBits(position, v)) : a[i] = BufferBits(position, v)[i]
      BY <1>4, <1>5, <2>1 DEF A
    <3> QED BY <1>1, <1>2, <1>6, <2>1, <2>3, <3>1, ReadsBuffer
  <2>5. Took(buffer, start + ByteBits * size) BY <2>2, <2>4 DEF TakeBuffer
  <2> HIDE DEF nibbles, size, start, buffer
  <2>6. Took(v, M) BY <2>4, <2>5
  <2> QED BY <1>7, <2>6 DEF v, w
<1> QED BY <1>8, <1>9, <1>10, <1>11 DEF IsStreamItem, w

-----------------------------------------------------------------------------
\* Where every item ends, from the header on, and what lies between.
Laid(ends, list, stream) ==
  /\ ends \in [0 .. Len(list) -> {n \in Nat : n >= HeaderBits}]
  /\ ends[0] = HeaderBits
  /\ \A i \in 1 .. Len(list) :
       LET w == ItemBits(ends[i - 1], list[i])
       IN  /\ ends[i] = ends[i - 1] + Len(w) /\ ends[i] <= Len(stream)
           /\ \A j \in 1 .. Len(w) : stream[ends[i - 1] + j] = w[j]

\* Open, the stream ends with its last item; closed, with the filling that its
\* header counts, and the reader stands behind what it has taken.
StreamStands(ends) ==
  /\ Laid(ends, put, bits)
  /\ ~closed => taken = <<>> /\ position = 0 /\ Len(bits) = ends[Len(put)]
  /\ closed => /\ Len(bits) = ends[Len(put)] + ToByte(ends[Len(put)])
               /\ Padding = ToByte(ends[Len(put)])
               /\ \E t \in 0 .. Len(put) :
                    taken = [i \in 1 .. t |-> put[i].value] /\ position = ends[t]

\* What every step keeps.
StreamInv ==
  /\ put \in Seq(StreamItems) /\ bits \in Seq({0, 1}) /\ Len(bits) >= HeaderBits
  /\ closed \in BOOLEAN /\ failed = FALSE
  /\ \E ends : StreamStands(ends)

\* Ends only rise.
LEMMA EndsInside ==
  ASSUME NEW list \in Seq(StreamItems), NEW stream \in Seq({0, 1}), Len(stream) >= HeaderBits,
         NEW ends, Laid(ends, list, stream), NEW t \in 0 .. Len(list)
  PROVE  ends[t] \in Nat /\ HeaderBits <= ends[t] /\ ends[t] <= Len(stream)
<1>1. ends[t] \in {n \in Nat : n >= HeaderBits} BY DEF Laid
<1>2. ends[t] <= Len(stream)
  <2>1. CASE t = 0 BY <2>1 DEF Laid
  <2>2. CASE t # 0
    <3>1. t \in 1 .. Len(list) BY <2>2
    <3> QED BY <3>1 DEF Laid
  <2> QED BY <2>1, <2>2
<1> QED BY <1>1, <1>2 DEF HeaderBits

\* Putting an item moves none of the others.
LEMMA PutKeeps ==
  ASSUME StreamInv, NEW item \in StreamItems, Put(item)
  PROVE  StreamInv'
<1> USE StreamAssumption
<1> DEFINE n == Len(put)
           e == Len(bits)
           w == ItemBits(e, item)
           after == bits \o w
           list == Append(put, item)
<1>1. PICK ends : StreamStands(ends) BY DEF StreamInv
<1>2. put \in Seq(StreamItems) /\ bits \in Seq({0, 1}) /\ e >= HeaderBits BY DEF StreamInv
<1>3. /\ ~closed /\ failed = FALSE /\ taken = <<>> /\ position = 0 /\ e = ends[n]
      /\ Laid(ends, put, bits)
  BY <1>1 DEF StreamInv, Put, StreamStands
<1>4. /\ put' = list /\ bits' = after
      /\ closed' = closed /\ position' = position /\ taken' = taken /\ failed' = failed
  BY DEF Put
<1>5. n \in Nat /\ e \in Nat BY <1>2
<1>6. w \in Seq({0, 1}) /\ Len(w) \in Nat
  <2>1. IsStreamItem(item) OBVIOUS
  <2> HIDE DEF e
  <2> QED BY <1>5, <2>1, ItemBitsAre
<1>7. /\ list \in Seq(StreamItems) /\ Len(list) = n + 1 /\ list[n + 1] = item
      /\ \A i \in 1 .. n : list[i] = put[i]
  BY <1>2
<1> HIDE DEF w
<1>8. /\ after \in Seq({0, 1}) /\ Len(after) = e + Len(w)
      /\ \A j \in 1 .. e : after[j] = bits[j]
      /\ \A j \in 1 .. Len(w) : after[e + j] = w[j]
  BY <1>2, <1>6
<1> DEFINE D == {k \in Nat : k >= HeaderBits}
           M == Len(w)
           rest == [i \in 0 .. n + 1 |-> IF i <= n THEN ends[i] ELSE e + M]
<1>9. ends \in [0 .. n -> D] /\ ends[0] = HeaderBits BY <1>3 DEF Laid
<1>10. ASSUME NEW i \in 1 .. n
       PROVE  /\ ends[i] = ends[i - 1] + Len(ItemBits(ends[i - 1], put[i])) /\ ends[i] <= e
              /\ \A j \in 1 .. Len(ItemBits(ends[i - 1], put[i])) :
                   bits[ends[i - 1] + j] = ItemBits(ends[i - 1], put[i])[j]
  BY <1>3 DEF Laid
<1>11. \A i \in 0 .. n : ends[i] \in D /\ ends[i] \in Nat BY <1>9
<1>12. \A i \in 1 .. n : put[i] \in StreamItems BY <1>2
<1> HIDE DEF n, e, list, after
<1>13. /\ rest \in [0 .. n + 1 -> D] /\ rest[0] = HeaderBits /\ rest[n + 1] = e + M
       /\ \A i \in 0 .. n : rest[i] = ends[i]
  <2>1. e + M \in D BY <1>2, <1>5, <1>6 DEF e, HeaderBits
  <2>2. \A i \in 0 .. n + 1 : rest[i] \in D
    <3> SUFFICES ASSUME NEW i \in 0 .. n + 1 PROVE rest[i] \in D
      OBVIOUS
    <3>1. CASE i <= n
      <4>1. i \in 0 .. n BY <1>5, <3>1
      <4> HIDE DEF D
      <4> QED BY <1>11, <3>1, <4>1
    <3>2. CASE ~(i <= n) BY <2>1, <3>2
    <3> QED BY <3>1, <3>2
  <2>3. 0 \in 0 .. n + 1 /\ 0 <= n /\ n + 1 \in 0 .. n + 1 /\ ~(n + 1 <= n) BY <1>5
  <2>4. \A i \in 0 .. n : i \in 0 .. n + 1 /\ i <= n BY <1>5
  <2>5. rest \in [0 .. n + 1 -> D]
    <3> HIDE DEF D
    <3> QED BY <2>2
  <2> HIDE DEF D
  <2> QED BY <1>9, <2>3, <2>4, <2>5
<1> HIDE DEF rest
<1>14. ASSUME NEW i \in 1 .. n + 1
       PROVE  LET u == ItemBits(rest[i - 1], list[i])
              IN  /\ rest[i] = rest[i - 1] + Len(u) /\ rest[i] <= Len(after)
                  /\ \A j \in 1 .. Len(u) : after[rest[i - 1] + j] = u[j]
  <2>1. CASE i = n + 1
    <3>1. rest[i] = e + M /\ rest[i - 1] = e /\ list[i] = item
      <4>1. i - 1 = n /\ n \in 0 .. n BY <1>5, <2>1
      <4> QED BY <1>3, <1>7, <1>13, <2>1, <4>1 DEF e, n
    <3>2. ItemBits(rest[i - 1], list[i]) = w BY <3>1 DEF w
    <3>3. e + M <= Len(after) BY <1>5, <1>6, <1>8 DEF e
    <3> QED BY <1>8, <3>1, <3>2, <3>3 DEF e
  <2>2. CASE i # n + 1
    <3>1. i \in 1 .. n /\ i \in 0 .. n /\ i - 1 \in 0 .. n BY <1>5, <2>2
    <3>2. rest[i] = ends[i] /\ rest[i - 1] = ends[i - 1] /\ list[i] = put[i]
      BY <1>7, <1>13, <3>1 DEF n
    <3> DEFINE u == ItemBits(ends[i - 1], put[i])
               U == Len(u)
               p == ends[i - 1]
    <3>3. ends[i] = p + U /\ ends[i] <= e /\ \A j \in 1 .. U : bits[p + j] = u[j] BY <1>10, <3>1
    <3>4. p \in Nat /\ U \in Nat
      <4>1. p \in Nat BY <1>11, <3>1
      <4>2. IsStreamItem(put[i]) BY <1>12, <3>1
      <4> HIDE DEF p
      <4> QED BY <4>1, <4>2, ItemBitsAre DEF p
    <3> HIDE DEF u, U, p
    <3>5. p + U <= e BY <3>3
    <3>6. \A j \in 1 .. U : p + j \in 1 .. e BY <1>5, <3>4, <3>5
    <3>7. \A j \in 1 .. U : after[p + j] = u[j] BY <1>8, <3>3, <3>6 DEF e
    <3>8. ends[i] <= Len(after)
      <4> DEFINE K == Len(after)
                 x == ends[i]
      <4>1. K = e + M /\ x <= e BY <1>8, <3>3 DEF e
      <4>2. x \in Nat BY <1>11, <3>1
      <4> HIDE DEF K, x, M
      <4>3. x <= K BY <1>5, <1>6, <4>1, <4>2 DEF M
      <4> QED BY <4>3 DEF K, x
    <3> QED BY <3>2, <3>3, <3>7, <3>8 DEF u, U, p
  <2> QED BY <2>1, <2>2
<1>15. Laid(rest, list, after)
  <2>1. Len(list) = n + 1 BY <1>7 DEF n
  <2> HIDE DEF M
  <2> QED BY <1>13, <1>14, <2>1 DEF Laid
<1>151. PICK later : later = rest OBVIOUS
<1>16. StreamStands(later)'
  <2>1. Len(after) = e + M /\ Len(list) = n + 1 BY <1>7, <1>8 DEF e, n
  <2>2. ~closed' /\ taken' = <<>> /\ position' = 0 /\ Len(bits') = later[Len(put')]
    BY <1>3, <1>4, <1>13, <1>151, <2>1
  <2>3. Laid(later, put', bits') BY <1>4, <1>15, <1>151
  <2>4. Laid(later, put, bits)' BY <2>3 DEF Laid
  <2> QED BY <2>2, <2>4 DEF StreamStands
<1>17. /\ put' \in Seq(StreamItems) /\ bits' \in Seq({0, 1}) /\ Len(bits') >= HeaderBits
       /\ closed' \in BOOLEAN /\ failed' = FALSE
  <2>1. Len(after) \in Nat /\ Len(after) >= HeaderBits
    BY <1>2, <1>5, <1>6, <1>8 DEF HeaderBits, e
  <2> QED BY <1>3, <1>4, <1>7, <1>8, <2>1 DEF StreamInv
<1> QED BY <1>16, <1>17 DEF StreamInv

\* Closing fills the last byte and counts it in the header, in front of every item.
LEMMA CloseKeeps ==
  ASSUME StreamInv, Close
  PROVE  StreamInv'
<1> DEFINE n == Len(put)
           e == Len(bits)
           pad == ToByte(e)
           head == LowBits(pad, HeaderBits)
           body == SubSeq(bits, HeaderBits + 1, e)
           zeros == ZeroBits(pad)
           after == head \o body \o zeros
<1>1. PICK ends : StreamStands(ends) BY DEF StreamInv
<1>2. put \in Seq(StreamItems) /\ bits \in Seq({0, 1}) /\ e \in Nat /\ e >= 3 /\ n \in Nat
  BY DEF StreamInv, HeaderBits
<1>3. /\ ~closed /\ failed = FALSE /\ taken = <<>> /\ e = ends[n] /\ Laid(ends, put, bits)
  BY <1>1 DEF StreamInv, Close, StreamStands
<1>4. /\ put' = put /\ bits' = after /\ closed' = TRUE
      /\ position' = HeaderBits /\ taken' = taken /\ failed' = failed
  BY DEF Close
<1>5. pad \in 0 .. 7 /\ pad \in Nat
  <2> HIDE DEF e
  <2> QED BY <1>2, ToByteFacts
<1> HIDE DEF pad
<1>6. head \in Seq({0, 1}) /\ Len(head) = 3 BY <1>5, LowBitsAre DEF HeaderBits
<1>7. body \in Seq({0, 1}) /\ Len(body) = e - 3 /\ \A i \in 1 .. e - 3 : body[i] = bits[3 + i]
  <2> DEFINE b == bits
  <2>1. b \in Seq({0, 1}) BY <1>2
  <2>2. body = SubSeq(b, 4, e) /\ e = Len(b) BY DEF HeaderBits
  <2> HIDE DEF b, body
  <2>3. CASE e = 3
    <3>1. body = <<>> BY <2>2, <2>3
    <3> QED BY <2>3, <3>1
  <2>4. CASE e > 3
    <3> DEFINE s == SubSeq(b, 4, e)
    <3>1. s \in Seq({0, 1}) /\ Len(s) = e - 3 BY <1>2, <2>1, <2>2, <2>4
    <3>2. \A i \in 1 .. e - 3 : s[i] = b[4 + i - 1] BY <1>2, <2>1, <2>2, <2>4
    <3> HIDE DEF s, e
    <3>3. \A i \in 1 .. e - 3 : 4 + i - 1 = 3 + i BY <1>2
    <3> QED BY <2>2, <3>1, <3>2, <3>3 DEF s, b
  <2> HIDE DEF e
  <2>5. e = 3 \/ e > 3 BY <1>2
  <2> QED BY <2>3, <2>4, <2>5
<1>8. zeros \in Seq({0, 1}) /\ Len(zeros) = pad BY <1>5 DEF ZeroBits
<1> HIDE DEF head, body, zeros, e, n
<1> DEFINE front == head \o body
<1>9. /\ front \in Seq({0, 1}) /\ Len(front) = e
      /\ \A i \in 1 .. 3 : front[i] = head[i]
      /\ \A i \in 1 .. e - 3 : front[3 + i] = body[i]
  <2>0. head \in Seq({0, 1}) /\ body \in Seq({0, 1}) BY <1>6, <1>7
  <2>01. front \in Seq({0, 1}) /\ Len(front) = Len(head) + Len(body) BY <2>0
  <2>02. \A i \in 1 .. Len(head) : front[i] = head[i] BY <2>0
  <2>03. \A i \in 1 .. Len(body) : front[Len(head) + i] = body[i] BY <2>0
  <2>1. front \in Seq({0, 1}) /\ Len(front) = 3 + (e - 3) BY <1>6, <1>7, <2>01
  <2>2. \A i \in 1 .. 3 : front[i] = head[i] BY <1>6, <2>02
  <2>3. \A i \in 1 .. e - 3 : front[3 + i] = body[i] BY <1>6, <1>7, <2>03
  <2>4. 3 + (e - 3) = e BY <1>2
  <2> QED BY <2>1, <2>2, <2>3, <2>4
<1>10. after = front \o zeros OBVIOUS
<1> HIDE DEF front, after
<1>11. /\ after \in Seq({0, 1}) /\ Len(after) = e + pad
       /\ \A i \in 1 .. e : after[i] = front[i]
  <2>1. front \in Seq({0, 1}) /\ zeros \in Seq({0, 1}) BY <1>8, <1>9
  <2>2. after \in Seq({0, 1}) /\ Len(after) = Len(front) + Len(zeros) BY <1>10, <2>1
  <2>3. \A i \in 1 .. Len(front) : after[i] = front[i] BY <1>10, <2>1
  <2> QED BY <1>8, <1>9, <2>2, <2>3
<1>12. \A k \in 4 .. e : after[k] = bits[k]
  <2> SUFFICES ASSUME NEW k \in 4 .. e PROVE after[k] = bits[k]
    OBVIOUS
  <2> DEFINE i == k - 3
  <2>1. i \in 1 .. e - 3 /\ 3 + i = k /\ k \in 1 .. e BY <1>2
  <2> HIDE DEF i
  <2> QED BY <1>7, <1>9, <1>11, <2>1
<1>13. LowValueOf(SubSeq(after, 1, HeaderBits)) = pad
  <2> DEFINE s == SubSeq(after, 1, 3)
  <2>1. s \in Seq({0, 1}) /\ Len(s) = 3 /\ \A i \in 1 .. 3 : s[i] = after[i]
    <3>1. Len(after) \in Nat /\ Len(after) >= 3 BY <1>2, <1>5, <1>11
    <3>2. s \in Seq({0, 1}) /\ Len(s) = 3 BY <1>11, <3>1
    <3>3. \A i \in 1 .. 3 : s[i] = after[1 + i - 1] BY <1>11, <3>1
    <3> HIDE DEF s
    <3>4. \A i \in 1 .. 3 : 1 + i - 1 = i OBVIOUS
    <3> QED BY <3>2, <3>3, <3>4
  <2> HIDE DEF s
  <2>2. \A i \in 1 .. 3 : s[i] = head[i]
    <3>1. \A i \in 1 .. 3 : i \in 1 .. e BY <1>2
    <3> QED BY <1>9, <1>11, <2>1, <3>1
  <2>3. s = head BY <1>6, <2>1, <2>2, SeqEqual
  <2>4. LowValueOf(head) = pad % TwoTo[3] BY <1>5, BitsStandFor DEF head, HeaderBits
  <2>5. TwoTo[3] = 8
    <3>1. TwoTo[2 + 1] = 2 * TwoTo[2] BY PowersDouble
    <3> QED BY <3>1, SomePowers
  <2>6. pad % 8 = pad BY <1>5
  <2> QED BY <2>3, <2>4, <2>5, <2>6 DEF s, HeaderBits
<1>14. Laid(ends, put, after)
  <2>1. ends \in [0 .. Len(put) -> {k \in Nat : k >= HeaderBits}] /\ ends[0] = HeaderBits
    BY <1>3 DEF Laid
  <2>2. ASSUME NEW i \in 1 .. Len(put)
        PROVE  LET u == ItemBits(ends[i - 1], put[i])
               IN  /\ ends[i] = ends[i - 1] + Len(u) /\ ends[i] <= Len(after)
                   /\ \A j \in 1 .. Len(u) : after[ends[i - 1] + j] = u[j]
    <3> DEFINE u == ItemBits(ends[i - 1], put[i])
               U == Len(u)
               p == ends[i - 1]
               x == ends[i]
    <3>1. x = p + U /\ x <= e /\ \A j \in 1 .. U : bits[p + j] = u[j] BY <1>3 DEF Laid, e
    <3>2. i - 1 \in 0 .. Len(put) /\ i \in 0 .. Len(put) BY <1>2 DEF n
    <3>3. p \in Nat /\ p >= 3 /\ x \in Nat BY <2>1, <3>2 DEF HeaderBits
    <3>4. U \in Nat
      <4>1. IsStreamItem(put[i]) BY <1>2, StreamAssumption
      <4> HIDE DEF p
      <4> QED BY <3>3, <4>1, ItemBitsAre DEF p
    <3> HIDE DEF u, U, p, x
    <3>5. \A j \in 1 .. U : p + j \in 4 .. e BY <1>2, <3>1, <3>3, <3>4
    <3>6. \A j \in 1 .. U : after[p + j] = u[j] BY <1>12, <3>1, <3>5
    <3>7. x <= Len(after)
      <4> DEFINE K == Len(after)
      <4>1. K = e + pad BY <1>11
      <4> HIDE DEF K
      <4>2. x <= K BY <1>2, <1>5, <3>1, <3>3, <4>1
      <4> QED BY <4>2 DEF K
    <3> QED BY <3>1, <3>6, <3>7 DEF u, U, p, x
  <2> QED BY <2>1, <2>2 DEF Laid
<1>15. StreamStands(ends)'
  <2>1. Laid(ends, put', bits') BY <1>4, <1>14
  <2>2. Laid(ends, put, bits)' BY <2>1 DEF Laid
  <2>3. Len(bits') = ends[Len(put')] + ToByte(ends[Len(put')])
    BY <1>3, <1>4, <1>11 DEF n, pad
  <2>4. Padding' = ToByte(ends[Len(put')]) BY <1>3, <1>4, <1>13 DEF Padding, n, pad
  <2>5. \E t \in 0 .. Len(put') : taken' = [i \in 1 .. t |-> put'[i].value] /\ position' = ends[t]
    <3>1. 0 \in 0 .. Len(put') BY <1>2, <1>4 DEF n
    <3>2. taken' = [i \in 1 .. 0 |-> put'[i].value] BY <1>3, <1>4
    <3>3. position' = ends[0] BY <1>3, <1>4 DEF Laid
    <3> QED BY <3>1, <3>2, <3>3
  <2> QED BY <1>4, <2>2, <2>3, <2>4, <2>5 DEF StreamStands
<1>16. /\ put' \in Seq(StreamItems) /\ bits' \in Seq({0, 1}) /\ Len(bits') >= HeaderBits
       /\ closed' \in BOOLEAN /\ failed' = FALSE
  <2>1. Len(after) \in Nat /\ Len(after) >= HeaderBits BY <1>2, <1>5, <1>11 DEF HeaderBits
  <2> QED BY <1>2, <1>3, <1>4, <1>11, <2>1
<1> QED BY <1>15, <1>16 DEF StreamInv

\* The reader takes the next item.
LEMMA TakeKeeps ==
  ASSUME StreamInv, TakeNext
  PROVE  StreamInv'
<1>1. PICK ends : StreamStands(ends) BY DEF StreamInv
<1>2. /\ put \in Seq(StreamItems) /\ bits \in Seq({0, 1}) /\ Len(bits) >= HeaderBits
      /\ failed = FALSE
  BY DEF StreamInv
<1>3. closed /\ Len(taken) < Len(put) /\ put' = put /\ bits' = bits /\ closed' = closed
  BY DEF TakeNext
<1>4. /\ Laid(ends, put, bits)
      /\ Len(bits) = ends[Len(put)] + ToByte(ends[Len(put)])
      /\ Padding = ToByte(ends[Len(put)])
  BY <1>1, <1>3 DEF StreamStands
<1>5. PICK t \in 0 .. Len(put) :
        taken = [i \in 1 .. t |-> put[i].value] /\ position = ends[t]
  BY <1>1, <1>3 DEF StreamStands
<1> DEFINE n == Len(put)
           item == put[t + 1]
           w == ItemBits(position, item)
           values == {put[i].value : i \in 1 .. n}
<1>6. n \in Nat /\ t \in Nat /\ t <= n BY <1>2
<1>7. taken \in Seq(values) /\ Len(taken) = t
  <2>1. \A i \in 1 .. t : put[i].value \in values
    <3>1. \A i \in 1 .. t : i \in 1 .. n BY <1>6
    <3> QED BY <3>1
  <2> HIDE DEF values
  <2> QED BY <1>5, <1>6, <2>1
<1>8. t + 1 \in 1 .. n /\ t < n
  <2>1. t < n BY <1>3, <1>7
  <2> QED BY <1>6, <2>1
<1>9. item \in StreamItems /\ IsStreamItem(item)
  <2>1. item \in StreamItems BY <1>2, <1>8
  <2> QED BY <2>1, StreamAssumption
<1>10. /\ ends[t + 1] = position + Len(w) /\ ends[t + 1] <= Len(bits)
       /\ \A j \in 1 .. Len(w) : bits[position + j] = w[j]
  <2>1. (t + 1) - 1 = t BY <1>6
  <2> QED BY <1>4, <1>5, <1>8, <2>1 DEF Laid
<1>11. position \in 0 .. Len(bits)
  <2>1. ends[t] \in Nat /\ ends[t] <= Len(bits) BY <1>2, <1>4, <1>5, EndsInside
  <2>2. Len(bits) \in Nat BY <1>2
  <2> QED BY <1>5, <2>1, <2>2
<1>12. TakesA(item) BY <1>7 DEF TakeNext, TakesA
<1>13. /\ position' = position + Len(w) /\ taken' = Append(taken, item.value)
       /\ failed' = failed
  <2>1. position + Len(w) <= Len(bits) BY <1>10
  <2> HIDE DEF item
  <2> QED BY <1>2, <1>9, <1>10, <1>11, <1>12, <2>1, TakesTheItem
<1>14. taken' = [i \in 1 .. t + 1 |-> put[i].value]
  <2> DEFINE v == item.value
             s == Append(taken, v)
             g == [i \in 1 .. t + 1 |-> put[i].value]
  <2>1. v \in values BY <1>8
  <2>2. \A i \in 1 .. t : taken[i] = put[i].value BY <1>5
  <2>3. \A i \in 1 .. t + 1 : put[i].value \in values
    <3>1. \A i \in 1 .. t + 1 : i \in 1 .. n BY <1>6, <1>8
    <3> QED BY <3>1
  <2>4. v = put[t + 1].value OBVIOUS
  <2> HIDE DEF values, v
  <2>5. /\ s \in Seq(values) /\ Len(s) = t + 1 /\ s[t + 1] = v
        /\ \A i \in 1 .. t : s[i] = taken[i]
    BY <1>7, <2>1
  <2>6. g \in Seq(values) /\ Len(g) = t + 1 /\ \A i \in 1 .. t + 1 : g[i] = put[i].value
    BY <1>6, <2>3
  <2> HIDE DEF s, g
  <2>7. \A i \in 1 .. t + 1 : s[i] = g[i]
    <3> SUFFICES ASSUME NEW i \in 1 .. t + 1 PROVE s[i] = g[i]
      OBVIOUS
    <3>1. CASE i = t + 1 BY <2>4, <2>5, <2>6, <3>1
    <3>2. CASE i # t + 1
      <4>1. i \in 1 .. t BY <1>6, <3>2
      <4> QED BY <2>2, <2>5, <2>6, <4>1
    <3> QED BY <3>1, <3>2
  <2>8. s = g BY <2>5, <2>6, <2>7, SeqEqual
  <2> QED BY <1>13, <2>8 DEF s, g, v
<1>15. StreamStands(ends)'
  <2>1. Laid(ends, put, bits)' BY <1>3, <1>4 DEF Laid
  <2>2. Padding' = Padding BY <1>3 DEF Padding
  <2>3. \E k \in 0 .. Len(put') : taken' = [i \in 1 .. k |-> put'[i].value] /\ position' = ends[k]
    <3>1. t + 1 \in 0 .. Len(put') BY <1>3, <1>6, <1>8
    <3>2. position' = ends[t + 1] BY <1>10, <1>13
    <3>3. taken' = [i \in 1 .. t + 1 |-> put'[i].value] BY <1>3, <1>14
    <3> QED BY <3>1, <3>2, <3>3
  <2>4. Len(bits') = ends[Len(put')] + ToByte(ends[Len(put')]) BY <1>3, <1>4
  <2>5. Padding' = ToByte(ends[Len(put')]) BY <1>3, <1>4, <2>2
  <2> QED BY <1>3, <2>1, <2>3, <2>4, <2>5 DEF StreamStands
<1> QED BY <1>2, <1>3, <1>13, <1>15 DEF StreamInv

\* What the invariant says of what has been taken.
LEMMA InvTakes ==
  ASSUME StreamInv
  PROVE  TakesWhatWasPut
<1>1. PICK ends : StreamStands(ends) BY DEF StreamInv
<1>2. /\ put \in Seq(StreamItems) /\ bits \in Seq({0, 1}) /\ Len(bits) >= HeaderBits
      /\ ~failed /\ Laid(ends, put, bits) /\ closed \in BOOLEAN
  BY <1>1 DEF StreamInv, StreamStands
<1> DEFINE n == Len(put)
<1>3. n \in Nat BY <1>2
<1>4. CASE ~closed
  <2>1. taken = <<>> BY <1>1, <1>4 DEF StreamStands
  <2>2. taken = [i \in DOMAIN taken |-> put[i].value] BY <2>1
  <2> QED BY <1>2, <1>4, <2>2 DEF TakesWhatWasPut
<1>5. CASE closed
  <2> DEFINE last == ends[n]
             pad  == ToByte(last)
  <2>1. /\ Len(bits) = last + pad /\ Padding = pad
        /\ \E t \in 0 .. n : taken = [i \in 1 .. t |-> put[i].value] /\ position = ends[t]
    BY <1>1, <1>5 DEF StreamStands
  <2>2. PICK t \in 0 .. n : taken = [i \in 1 .. t |-> put[i].value] /\ position = ends[t]
    BY <2>1
  <2>3. n \in 0 .. n BY <1>3
  <2>4. last \in Nat BY <1>2, <2>3, EndsInside
  <2>5. pad \in 0 .. 7 /\ (last + pad) % ByteBits = 0
    <3> HIDE DEF last
    <3> QED BY <2>4, ToByteFacts
  <2>6. Len(bits) % ByteBits = 0 BY <2>1, <2>5
  <2>7. taken = [i \in DOMAIN taken |-> put[i].value]
    <3>1. DOMAIN taken = 1 .. t BY <2>2
    <3> QED BY <2>2, <3>1
  <2>8. Len(taken) = t
    <3> DEFINE values == {put[i].value : i \in 1 .. n}
    <3>1. \A i \in 1 .. t : put[i].value \in values
      <4>1. \A i \in 1 .. t : i \in 1 .. n BY <1>3
      <4> QED BY <4>1
    <3>2. t \in Nat BY <1>3
    <3> HIDE DEF values
    <3> QED BY <2>2, <3>1, <3>2
  <2>9. ASSUME Len(taken) = Len(put) PROVE Remaining = 0
    <3>1. position = last BY <2>2, <2>8, <2>9
    <3>2. position \in 0 .. Len(bits)
      <4> HIDE DEF last, pad
      <4>1. last \in 0 .. last + pad BY <2>4, <2>5
      <4> QED BY <2>1, <3>1, <4>1
    <3>3. Len(Ahead) = Len(bits) - position BY <1>2, <3>2, AheadIs
    <3>4. Len(Ahead) = pad
      <4> DEFINE length == Len(Ahead)
                 all    == Len(bits)
      <4>1. length = all - position BY <3>3
      <4>2. all = last + pad BY <2>1
      <4> HIDE DEF last, pad, length, all
      <4>3. length = (last + pad) - last BY <3>1, <4>1, <4>2
      <4>4. (last + pad) - last = pad BY <2>4, <2>5
      <4> QED BY <4>3, <4>4 DEF length
    <3>5. ~(pad > pad)
      <4> HIDE DEF pad
      <4> QED BY <2>5
    <3> QED BY <2>1, <3>4, <3>5 DEF Remaining
  <2> QED BY <1>2, <2>6, <2>7, <2>9 DEF TakesWhatWasPut
<1> QED BY <1>2, <1>4, <1>5

\* What one end of a delta's bit stream puts, the other takes: fields, both forms of
\* numbers and buffers, in any order, wherever in a byte they begin.  The reader then has
\* nothing left but the filling that the header counts, and the stream is whole bytes
\* (src/bitstream/mod.rs).
THEOREM StreamsAlwaysArrive == StreamSpec => []TakesWhatWasPut
<1>1. StreamInit => StreamInv
  <2> SUFFICES ASSUME StreamInit PROVE StreamInv
    OBVIOUS
  <2> DEFINE ends == [i \in 0 .. 0 |-> HeaderBits]
  <2>1. put = <<>> /\ bits = ZeroBits(HeaderBits) /\ closed = FALSE /\ position = 0
        /\ taken = <<>> /\ failed = FALSE
    BY DEF StreamInit
  <2>2. bits \in Seq({0, 1}) /\ Len(bits) = HeaderBits BY <2>1 DEF ZeroBits, HeaderBits
  <2>3. put \in Seq(StreamItems) /\ Len(put) = 0 BY <2>1
  <2>4. ends \in [0 .. 0 -> {k \in Nat : k >= HeaderBits}] /\ ends[0] = HeaderBits
    BY DEF HeaderBits
  <2> HIDE DEF ends
  <2>5. Laid(ends, put, bits) BY <2>3, <2>4 DEF Laid
  <2>6. StreamStands(ends) BY <2>1, <2>2, <2>3, <2>4, <2>5 DEF StreamStands
  <2>7. Len(bits) >= HeaderBits BY <2>2 DEF HeaderBits
  <2> QED BY <2>1, <2>2, <2>3, <2>6, <2>7 DEF StreamInv
<1>2. StreamInv /\ [StreamNext]_streamVars => StreamInv'
  <2> SUFFICES ASSUME StreamInv, [StreamNext]_streamVars PROVE StreamInv'
    OBVIOUS
  <2>1. CASE \E item \in StreamItems : Put(item) BY <2>1, PutKeeps
  <2>2. CASE Close BY <2>2, CloseKeeps
  <2>3. CASE TakeNext BY <2>3, TakeKeeps
  <2>4. CASE UNCHANGED streamVars
    <3>1. PICK ends : StreamStands(ends) BY DEF StreamInv
    <3>2. StreamStands(ends)'
      BY <2>4, <3>1 DEF StreamStands, Laid, Padding, streamVars
    <3> QED BY <2>4, <3>2 DEF StreamInv, streamVars
  <2> QED BY <2>1, <2>2, <2>3, <2>4 DEF StreamNext
<1> QED BY <1>1, <1>2, InvTakes, PTL DEF StreamSpec
=============================================================================
