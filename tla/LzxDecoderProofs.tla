--------------------------- MODULE LzxDecoderProofs ---------------------------
(***************************************************************************)
(* The decoder is safe for every reference, rift, target size and stream   *)
(* of symbols: it never overfills the target, its provenance is true, a    *)
(* SOURCE_COPY is re-anchored at every byte, and it implements             *)
(* DeltaBuffer.                                                            *)
(***************************************************************************)
EXTENDS LzxDecoder, FiniteSetTheorems, SequenceTheorems, TLAPS

-----------------------------------------------------------------------------
(***************************************************************************)
(* Facts about the lookup table of LzxRift, for every list of entries:     *)
(* SortBySource is a permutation in ascending order of sources, so the     *)
(* table is sorted and covers every position, and a segment holds at every *)
(* position up to its next breakpoint.                                     *)
(***************************************************************************)

\* Every nonempty set of indices has a largest element.  (The sets of the
\* members from k on are finite; a minimal one among them starts at the
\* largest member.)
LEMMA LargestIndex ==
  ASSUME NEW n \in Nat, NEW S \in SUBSET (1 .. n), S # {}
  PROVE  \E m \in S : \A k \in S : k <= m
<1> DEFINE From(k) == {j \in S : j >= k}
<1> DEFINE T == {From(k) : k \in S}
<1>1. IsFiniteSet(1 .. n) BY FS_Interval
<1>2. IsFiniteSet(S) BY <1>1, FS_Subset
<1>3. T \subseteq FiniteSubsetsOf(S)
  BY <1>2, FS_Subset DEF FiniteSubsetsOf
<1>4. T # {} OBVIOUS
<1>5. PICK x \in T : \A y \in T : ~ (<<y, x>> \in StrictSubsetOrdering(S))
  <2> HIDE DEF T
  <2> QED BY <1>3, <1>4, WFMin, FS_StrictSubsetOrderingWellFounded
<1>6. PICK m \in S : x = From(m) OBVIOUS
<1>7. ASSUME NEW k \in S, k > m PROVE FALSE
  <2>1. k \in Int /\ m \in Int /\ \A j \in S : j \in Int OBVIOUS
  <2>2. From(k) \subseteq x
    <3>1. ASSUME NEW j \in S, j >= k PROVE j >= m BY <3>1, <1>7, <2>1
    <3> QED BY <3>1, <1>6
  <2>3. m \in x /\ m \notin From(k) BY <1>6, <1>7, <2>1
  <2>4. From(k) \in T OBVIOUS
  <2>5. <<From(k), x>> \in StrictSubsetOrdering(S)
    BY <2>2, <2>3, <1>6 DEF StrictSubsetOrdering
  <2> QED BY <1>5, <2>4, <2>5
<1> QED BY <1>7

-----------------------------------------------------------------------------
(***************************************************************************)
(* The sort.                                                               *)
(***************************************************************************)
\* Rank is a one-to-one map of the indices: of two entries the later one in
\* the order has every predecessor of the other, and itself.
LEMMA RankIsInjective ==
  ASSUME NEW n \in Nat, NEW es \in [1 .. n -> RiftEntry]
  PROVE  /\ \A j \in 1 .. n : Rank(es, j) \in 1 .. n
         /\ \A i, j \in 1 .. n :
              (i # j /\ Before(es, i, j)) => Rank(es, i) < Rank(es, j)
<1> DEFINE Pre(j) == {i \in 1 .. n : Before(es, i, j)}
<1>0. \A i \in 1 .. n : es[i].source \in Int BY DEF RiftEntry
<1>1. IsFiniteSet(1 .. n) /\ Cardinality(1 .. n) = n BY FS_Interval
<1>2. \A j \in 1 .. n : IsFiniteSet(Pre(j)) /\ Cardinality(Pre(j)) <= n
  BY <1>1, FS_Subset
<1>3. \A j \in 1 .. n : Rank(es, j) = Cardinality(Pre(j)) BY DEF Rank
<1>4. \A j \in 1 .. n : j \in Pre(j) BY <1>0 DEF Before
<1>5. \A j \in 1 .. n : Cardinality(Pre(j)) \in Nat BY <1>2, FS_CardinalityType
<1>6. ASSUME NEW j \in 1 .. n PROVE Cardinality(Pre(j)) # 0
  BY <1>2, <1>4, FS_EmptySet
<1>7. ASSUME NEW i \in 1 .. n, NEW j \in 1 .. n, i # j, Before(es, i, j)
      PROVE  Rank(es, i) < Rank(es, j)
  <2>1. Pre(i) \subseteq Pre(j) BY <1>7, <1>0 DEF Before
  <2>2. j \notin Pre(i) BY <1>7, <1>0 DEF Before
  <2>3. Cardinality(Pre(i)) <= Cardinality(Pre(j))
    BY <2>1, <1>2, FS_Subset
  <2>4. Cardinality(Pre(i)) # Cardinality(Pre(j))
    <3> HIDE DEF Pre
    <3> QED BY <2>1, <2>2, <1>2, <1>4, FS_Subset
  <2> QED BY <2>3, <2>4, <1>3, <1>5
<1>8. \A j \in 1 .. n : Rank(es, j) \in 1 .. n
  <2> HIDE DEF Pre
  <2> QED BY <1>2, <1>3, <1>5, <1>6
<1> QED BY <1>7, <1>8

\* So it is onto: some entry has rank k, for every k.
LEMMA RankIsOnto ==
  ASSUME NEW n \in Nat, NEW es \in [1 .. n -> RiftEntry], NEW k \in 1 .. n
  PROVE  \E i \in 1 .. n : Rank(es, i) = k
<1> DEFINE f == [i \in 1 .. n |-> Rank(es, i)]
<1>1. \A i, j \in 1 .. n : i # j => (Before(es, i, j) \/ Before(es, j, i))
  <2>1. \A i \in 1 .. n : es[i].source \in Int BY DEF RiftEntry
  <2> QED BY <2>1 DEF Before
<1>2. \A i, j \in 1 .. n : i # j => Rank(es, i) # Rank(es, j)
  BY <1>1, RankIsInjective
<1>3. f \in Injection(1 .. n, 1 .. n)
  BY <1>2, RankIsInjective DEF Injection, IsInjective
<1>4. IsFiniteSet(1 .. n) BY FS_Interval
<1>5. f \in Surjection(1 .. n, 1 .. n)
  <2> HIDE DEF f
  <2> QED BY <1>3, <1>4, FS_Injection
<1> QED BY <1>5 DEF Surjection

\* SortBySource yields entries of the list, in ascending order of sources.
LEMMA SortedEntries ==
  ASSUME NEW n \in Nat, NEW es \in [1 .. n -> RiftEntry]
  PROVE  /\ SortBySource(es) \in [1 .. n -> RiftEntry]
         /\ \A k, l \in 1 .. n :
              k <= l => SortBySource(es)[k].source <= SortBySource(es)[l].source
<1> DEFINE pick(k) == CHOOSE i \in 1 .. n : Rank(es, i) = k
<1>1. \A k \in 1 .. n : pick(k) \in 1 .. n /\ Rank(es, pick(k)) = k
  BY RankIsOnto
<1>2. SortBySource(es) = [k \in 1 .. n |-> es[pick(k)]] BY DEF SortBySource
<1>3. \A i \in 1 .. n : es[i].source \in Int BY DEF RiftEntry
<1>4. ASSUME NEW k \in 1 .. n, NEW l \in 1 .. n, k <= l
      PROVE  es[pick(k)].source <= es[pick(l)].source
  <2>1. SUFFICES ASSUME es[pick(l)].source < es[pick(k)].source PROVE FALSE
    BY <1>1, <1>3
  <2>2. Before(es, pick(l), pick(k)) BY <2>1 DEF Before
  <2>3. pick(l) # pick(k)
    <3> HIDE DEF pick
    <3> QED BY <2>1, <1>1, <1>3
  <2>4. Rank(es, pick(l)) < Rank(es, pick(k))
    <3> HIDE DEF pick
    <3> QED BY <2>2, <2>3, <1>1, RankIsInjective
  <2> QED BY <2>4, <1>1, <1>4
<1> HIDE DEF pick
<1> QED BY <1>1, <1>2, <1>4
-----------------------------------------------------------------------------
(***************************************************************************)
(* The lookup table.                                                       *)
(***************************************************************************)
\* from_rift_table builds such a table from any entries with the boundary.
LEMMA TableIsLookupTable ==
  ASSUME NEW entries \in Seq(RiftEntry), NEW refLen \in Nat
  PROVE  IsLookupTable(OffsetRiftTable(entries, refLen))
<1> DEFINE es     == Append(entries, [source |-> refLen, target |-> 0])
           n      == Len(entries) + 1
           sorted == SortBySource(es)
           first  == [at |-> 0, offset |-> Offset(sorted[Len(sorted)])]
           rest   == [k \in DOMAIN sorted |->
                        [at |-> sorted[k].source, offset |-> Offset(sorted[k])]]
<1>1. n \in Nat /\ n > 0 /\ es \in [1 .. n -> RiftEntry]
  <2>1. [source |-> refLen, target |-> 0] \in RiftEntry BY DEF RiftEntry
  <2>2. es \in Seq(RiftEntry) /\ Len(es) = n BY <2>1, AppendProperties
  <2>3. Len(entries) \in Nat BY LenProperties
  <2> HIDE DEF es
  <2>4. es \in [1 .. Len(es) -> RiftEntry] BY <2>2, LenProperties
  <2> QED BY <2>2, <2>3, <2>4
<1>2. /\ sorted \in [1 .. n -> RiftEntry]
      /\ \A k, l \in 1 .. n : k <= l => sorted[k].source <= sorted[l].source
  <2> HIDE DEF es, n
  <2> QED BY <1>1, SortedEntries
<1> HIDE DEF sorted
<1>3. DOMAIN sorted = 1 .. n /\ Len(sorted) = n BY <1>1, <1>2
<1>4. \A k \in 1 .. n : sorted[k].source \in Int /\ Offset(sorted[k]) \in Int
  BY <1>2 DEF RiftEntry, Offset
<1>5. first \in [at : Int, offset : Int] BY <1>1, <1>3, <1>4
<1>6. rest \in Seq([at : Int, offset : Int]) /\ Len(rest) = n
      /\ \A k \in 1 .. n : rest[k].at = sorted[k].source
  BY <1>1, <1>3, <1>4
<1>7. OffsetRiftTable(entries, refLen) = <<first>> \o rest
  BY DEF OffsetRiftTable, sorted
<1> HIDE DEF first, rest, n
<1> DEFINE lookup == <<first>> \o rest
<1>8. /\ lookup \in Seq([at : Int, offset : Int])
      /\ Len(lookup) = n + 1 /\ n \in Nat
      /\ lookup[1] = first
      /\ \A i \in 2 .. n + 1 : lookup[i] = rest[i - 1]
  BY <1>1, <1>5, <1>6
<1>9. first.at = 0 BY DEF first
<1>10. ASSUME NEW i \in 2 .. n + 1, NEW j \in 2 .. n + 1, i <= j
       PROVE  lookup[i].at <= lookup[j].at
  <2>1. i - 1 \in 1 .. n /\ j - 1 \in 1 .. n /\ i - 1 <= j - 1 BY <1>1, <1>10
  <2>2. lookup[i].at = sorted[i - 1].source /\ lookup[j].at = sorted[j - 1].source
    BY <1>1, <1>6, <1>8, <1>10, <2>1
  <2> QED BY <1>2, <2>1, <2>2
<1> HIDE DEF lookup
<1> QED BY <1>1, <1>7, <1>8, <1>9, <1>10 DEF IsLookupTable, lookup

\* A lookup finds an entry, the last one not behind the position.
LEMMA SegmentIndexExists ==
  ASSUME NEW lookup, IsLookupTable(lookup), NEW place \in Nat
  PROVE  /\ SegmentIndex(lookup, place) \in 1 .. Len(lookup)
         /\ lookup[SegmentIndex(lookup, place)].at <= place
         /\ \A j \in 1 .. Len(lookup) : lookup[j].at <= place => j <= SegmentIndex(lookup, place)
         /\ OffsetAt(lookup, place) \in Int
<1> DEFINE S == {j \in 1 .. Len(lookup) : lookup[j].at <= place}
<1>1. Len(lookup) \in Nat /\ DOMAIN lookup = 1 .. Len(lookup) BY DEF IsLookupTable
<1>2. 1 \in S BY <1>1 DEF IsLookupTable
<1>3. \E m \in S : \A k \in S : k <= m BY <1>1, <1>2, LargestIndex
<1>4. /\ SegmentIndex(lookup, place) \in 1 .. Len(lookup)
      /\ lookup[SegmentIndex(lookup, place)].at <= place
      /\ \A j \in 1 .. Len(lookup) : lookup[j].at <= place => j <= SegmentIndex(lookup, place)
  BY <1>1, <1>3 DEF SegmentIndex
<1>5. lookup[SegmentIndex(lookup, place)] \in [at : Int, offset : Int]
  BY <1>4, ElementOfSeq DEF IsLookupTable
<1> QED BY <1>4, <1>5 DEF OffsetAt

(***************************************************************************)
(* The next breakpoint lies behind the position, even where entries share  *)
(* one, because the lookup takes the last of them: the walk of a           *)
(* SOURCE_COPY always advances, and the cap of the encoder is positive.    *)
(* Up to the breakpoint the offset does not change.                        *)
(***************************************************************************)
THEOREM SegmentHoldsUpToBreak ==
  ASSUME NEW lookup, IsLookupTable(lookup), NEW place \in Nat, NEW limit \in Nat \ {0}
  PROVE  /\ UpToBreak(lookup, place, limit) \in 1 .. limit
         /\ \A p \in place .. place + UpToBreak(lookup, place, limit) - 1 :
              OffsetAt(lookup, p) = OffsetAt(lookup, place)
<1> DEFINE i == SegmentIndex(lookup, place)
           u == UpToBreak(lookup, place, limit)
<1>1. Len(lookup) \in Nat /\ i \in 1 .. Len(lookup) /\ lookup[i].at <= place
  BY SegmentIndexExists, LenProperties DEF IsLookupTable
<1>2. \A j \in 1 .. Len(lookup) : lookup[j] \in [at : Int, offset : Int]
  BY ElementOfSeq DEF IsLookupTable
<1>3. i < Len(lookup) => lookup[i + 1].at > place
  <2> SUFFICES ASSUME i < Len(lookup), lookup[i + 1].at <= place PROVE FALSE
    BY <1>1, <1>2
  <2>1. i + 1 \in 1 .. Len(lookup) BY <1>1
  <2>2. i + 1 <= i BY <2>1, SegmentIndexExists
  <2> QED BY <1>1, <2>2
<1>4. u \in 1 .. limit BY <1>1, <1>2, <1>3 DEF UpToBreak
<1>5. \A p \in place .. place + u - 1 : i = Len(lookup) \/ lookup[i + 1].at > p
  BY <1>1, <1>2, <1>3, <1>4 DEF UpToBreak
<1>6. ASSUME NEW p \in place .. place + u - 1
      PROVE  SegmentIndex(lookup, p) = i
  <2>1. p \in Nat /\ p >= place BY <1>4
  <2> DEFINE j == SegmentIndex(lookup, p)
  <2>2. j \in 1 .. Len(lookup) /\ lookup[j].at <= p BY <2>1, SegmentIndexExists
  <2>3. i <= j
    <3>1. lookup[i].at <= p BY <1>1, <1>2, <2>1
    <3> QED BY <1>1, <2>1, <3>1, SegmentIndexExists
  <2>4. ~(i < j)
    <3> SUFFICES ASSUME i < j PROVE FALSE OBVIOUS
    <3>1. i + 1 \in 2 .. Len(lookup) /\ j \in 2 .. Len(lookup) /\ i + 1 <= j BY <1>1, <2>2
    <3>2. lookup[i + 1].at <= lookup[j].at BY <2>2, <3>1 DEF IsLookupTable
    <3>3. lookup[i + 1].at > p BY <1>1, <1>5, <2>2
    <3> HIDE DEF i, j, u
    <3> QED BY <1>2, <2>1, <2>2, <3>1, <3>2, <3>3
  <2> HIDE DEF i, j
  <2>5. j = i BY <1>1, <2>2, <2>3, <2>4
  <2> QED BY <2>5 DEF j
<1> QED BY <1>4, <1>6 DEF OffsetAt

-----------------------------------------------------------------------------
(***************************************************************************)
(* Copies.  All three cases of copy_one read the combined buffer with the  *)
(* period of the copy: byte k is the one at src + (k-1) % period.          *)
(***************************************************************************)
\* A multiple of p strictly between -p and p is zero.
LEMMA SmallMultiple ==
  ASSUME NEW p \in Nat \ {0}, NEW d \in Int, p * d < p, p * d > -p
  PROVE  d = 0
<1>1. CASE d >= 1
  <2>1. p * d = p + p * (d - 1) OBVIOUS
  <2>2. p * (d - 1) >= 0 BY <1>1
  <2> QED BY <2>1, <2>2
<1>2. CASE d <= -1
  <2>1. p * d = -p + p * (d + 1) OBVIOUS
  <2>2. p * (d + 1) <= 0 BY <1>2
  <2> QED BY <2>1, <2>2
<1> QED BY <1>1, <1>2

\* Division with remainder.
LEMMA Division ==
  ASSUME NEW a \in Nat, NEW p \in Nat \ {0}
  PROVE  a = p * (a \div p) + (a % p) /\ a \div p \in Int /\ a % p \in 0 .. p - 1
OBVIOUS

\* A remainder does not change when the divisor is taken off.
LEMMA ModStep ==
  ASSUME NEW a \in Nat, NEW p \in Nat \ {0}, a >= p
  PROVE  (a % p) = ((a - p) % p)
<1> DEFINE q == a \div p        r == a % p
           s == (a - p) \div p  t == (a - p) % p
<1>1. a = p * q + r /\ q \in Int /\ r \in 0 .. p - 1 BY Division
<1>2. a - p = p * s + t /\ s \in Int /\ t \in 0 .. p - 1
  <2>1. a - p \in Nat OBVIOUS
  <2> QED BY <2>1, Division
<1> HIDE DEF q, r, s, t
<1>3. p * (q - s - 1) = t - r
  <2>1. p * (q - s - 1) = p * q - p * s - p BY <1>1, <1>2
  <2>2. p * q \in Int /\ p * s \in Int BY <1>1, <1>2
  <2> QED BY <1>1, <1>2, <2>1, <2>2
<1>4. q - s - 1 = 0
  <2>1. p * (q - s - 1) < p /\ p * (q - s - 1) > -p BY <1>1, <1>2, <1>3
  <2> QED BY <1>1, <1>2, <2>1, SmallMultiple
<1>5. p * 0 = 0 OBVIOUS
<1> QED BY <1>1, <1>2, <1>3, <1>4, <1>5 DEF r, t

\* A number below the divisor is its own remainder.
LEMMA SmallMod ==
  ASSUME NEW a \in Nat, NEW p \in Nat \ {0}, a < p
  PROVE  (a % p) = a
OBVIOUS

\* The index in old \o new of the k-th value copied from position src on.
SourceIndex(old, new, src, k) ==
  src + ((k - 1) % (Len(old) + Len(new) - src)) + 1

\* What copy_one pushes, in terms of the buffer it reads.
IsPeriodic(V, old, new, src, n) ==
  /\ Copied(old, new, src, n) \in Seq(V)
  /\ Len(Copied(old, new, src, n)) = n
  /\ \A k \in 1 .. n :
       /\ SourceIndex(old, new, src, k) \in 1 .. Len(old) + Len(new)
       /\ Copied(old, new, src, n)[k] = (old \o new)[SourceIndex(old, new, src, k)]

LEMMA CopiedIsPeriodic ==
  ASSUME NEW V, NEW old \in Seq(V), NEW new \in Seq(V),
         NEW src \in 0 .. Len(old) + Len(new) - 1, NEW n \in Nat \ {0}
  PROVE  IsPeriodic(V, old, new, src, n)
<1> DEFINE period == Len(old) + Len(new) - src
           r      == [k \in 1 .. n |-> (k - 1) % period]
           buffer == old \o new
           copied == Copied(old, new, src, n)
<1>1. Len(old) \in Nat /\ Len(new) \in Nat /\ period \in Nat \ {0}
  BY LenProperties
<1>2. \A k \in 1 .. n : /\ r[k] \in 0 .. period - 1
                        /\ k - 1 < period => r[k] = k - 1
  <2> HIDE DEF period
  <2> TAKE k \in 1 .. n
  <2>1. k - 1 \in Nat OBVIOUS
  <2> QED BY <1>1, <2>1, Division, SmallMod
<1>3. copied =
        CASE src + n <= Len(old) -> [k \in 1 .. n |-> old[src + k]]
          [] src >= Len(old) -> [k \in 1 .. n |-> new[src - Len(old) + r[k] + 1]]
          [] src < Len(old) /\ src + n > Len(old) ->
               [k \in 1 .. n |-> IF r[k] < -(src - Len(old))
                                THEN old[src + r[k] + 1]
                                ELSE new[r[k] + (src - Len(old)) + 1]]
  BY DEF Copied
<1>4. /\ buffer \in Seq(V)
      /\ Len(buffer) = Len(old) + Len(new)
      /\ \A i \in 1 .. Len(old) + Len(new) :
           buffer[i] = IF i <= Len(old) THEN old[i] ELSE new[i - Len(old)]
  BY ConcatProperties
<1> HIDE DEF r, copied, buffer
<1>5. \A k \in 1 .. n : src + r[k] + 1 \in 1 .. Len(old) + Len(new)
  BY <1>1, <1>2
<1>6. copied = [k \in 1 .. n |-> buffer[src + r[k] + 1]]
  <2>1. CASE src + n <= Len(old)
    <3>1. copied = [k \in 1 .. n |-> old[src + k]] BY <1>3, <2>1
    <3>2. ASSUME NEW k \in 1 .. n PROVE buffer[src + r[k] + 1] = old[src + k]
      <4>1. r[k] = k - 1 /\ src \in Nat BY <1>1, <1>2, <2>1
      <4>2. src + r[k] + 1 = src + k BY <4>1
      <4>3. src + k \in 1 .. Len(old) /\ src + k \in 1 .. Len(old) + Len(new)
        BY <1>1, <2>1
      <4> QED BY <1>1, <1>4, <4>2, <4>3
    <3> QED BY <3>1, <3>2
  <2>2. CASE src >= Len(old)
    <3>1. copied = [k \in 1 .. n |-> new[src - Len(old) + r[k] + 1]]
      BY <1>1, <1>3, <2>2
    <3>2. ASSUME NEW k \in 1 .. n
          PROVE  buffer[src + r[k] + 1] = new[src - Len(old) + r[k] + 1]
      <4>1. src + r[k] + 1 > Len(old) BY <1>1, <1>2, <2>2
      <4> DEFINE at == src + r[k] + 1
                 by == src - Len(old) + r[k] + 1
      <4>3. buffer[at] = IF at <= Len(old) THEN old[at] ELSE new[at - Len(old)]
        BY <1>4, <1>5
      <4>4. ~(at <= Len(old)) BY <1>1, <1>2, <4>1
      <4>5. at - Len(old) = by BY <1>1, <1>2
      <4>6. buffer[at] = new[by]
        <5> HIDE DEF at, by
        <5> QED BY <4>3, <4>4, <4>5
      <4> QED BY <4>6
    <3> QED BY <3>1, <3>2
  <2>3. CASE src < Len(old) /\ src + n > Len(old)
    <3>1. copied = [k \in 1 .. n |-> IF r[k] < -(src - Len(old))
                                    THEN old[src + r[k] + 1]
                                    ELSE new[r[k] + (src - Len(old)) + 1]]
      BY <1>1, <1>3, <2>3
    <3>2. ASSUME NEW k \in 1 .. n
          PROVE  buffer[src + r[k] + 1] = IF r[k] < -(src - Len(old))
                                          THEN old[src + r[k] + 1]
                                          ELSE new[r[k] + (src - Len(old)) + 1]
      <4>1. (src + r[k] + 1 <= Len(old)) <=> (r[k] < -(src - Len(old)))
        BY <1>1, <1>2
      <4> DEFINE at == src + r[k] + 1
                 by == r[k] + (src - Len(old)) + 1
      <4>3. buffer[at] = IF at <= Len(old) THEN old[at] ELSE new[at - Len(old)]
        BY <1>4, <1>5
      <4>4. at - Len(old) = by BY <1>1, <1>2
      <4>5. (at <= Len(old)) <=> (r[k] < -(src - Len(old))) BY <4>1
      <4>6. buffer[at] = IF r[k] < -(src - Len(old)) THEN old[at] ELSE new[by]
        <5> HIDE DEF at, by
        <5> QED BY <4>3, <4>4, <4>5
      <4> QED BY <4>6
    <3> QED BY <3>1, <3>2
  <2> QED BY <1>1, <2>1, <2>2, <2>3
<1>7. \A k \in 1 .. n : buffer[src + r[k] + 1] \in V
  BY <1>4, <1>5, ElementOfSeq
<1>8. copied \in Seq(V) /\ Len(copied) = n BY <1>6, <1>7
<1>9. \A k \in 1 .. n : /\ src + r[k] + 1 \in 1 .. Len(old) + Len(new)
                        /\ copied[k] = buffer[src + r[k] + 1]
  BY <1>5, <1>6
<1>10. \A k \in 1 .. n : SourceIndex(old, new, src, k) = src + r[k] + 1
  BY DEF SourceIndex, r
<1> QED BY <1>8, <1>9, <1>10 DEF copied, buffer, IsPeriodic

\* What the copy makes of the values pushed so far.
AfterCopy(old, new, src, n) == new \o Copied(old, new, src, n)

\* The buffer after a copy keeps what it was and repeats, from the old end
\* on, what lies one period before.
IsRepetition(V, old, new, src, n) ==
  /\ AfterCopy(old, new, src, n) \in Seq(V)
  /\ Len(AfterCopy(old, new, src, n)) = Len(new) + n
  /\ \A i \in 1 .. Len(new) : AfterCopy(old, new, src, n)[i] = new[i]
  /\ \A i \in 1 .. n :
       AfterCopy(old, new, src, n)[Len(new) + i] = Copied(old, new, src, n)[i]
  /\ \A i \in Len(old) + Len(new) + 1 .. Len(old) + Len(new) + n :
       (old \o AfterCopy(old, new, src, n))[i] =
         (old \o AfterCopy(old, new, src, n))[i - (Len(old) + Len(new) - src)]

LEMMA CopyRepeats ==
  ASSUME NEW V, NEW old \in Seq(V), NEW new \in Seq(V),
         NEW src \in 0 .. Len(old) + Len(new) - 1, NEW n \in Nat \ {0}
  PROVE  IsRepetition(V, old, new, src, n)
<1> DEFINE period == Len(old) + Len(new) - src
           r      == [k \in 1 .. n |-> (k - 1) % period]
           before == old \o new
           copied == Copied(old, new, src, n)
           out    == AfterCopy(old, new, src, n)
           after  == old \o out
           end    == Len(old) + Len(new)
<1>1. /\ Len(old) \in Nat /\ Len(new) \in Nat
      /\ period \in Nat \ {0} /\ end \in Nat
  BY LenProperties
<1>2. /\ copied \in Seq(V) /\ Len(copied) = n
      /\ \A k \in 1 .. n : /\ src + r[k] + 1 \in 1 .. end
                           /\ copied[k] = before[src + r[k] + 1]
  <2>1. \A k \in 1 .. n : SourceIndex(old, new, src, k) = src + r[k] + 1
    BY DEF SourceIndex
  <2>2. IsPeriodic(V, old, new, src, n) BY CopiedIsPeriodic
  <2> HIDE DEF r
  <2> QED BY <2>1, <2>2 DEF IsPeriodic
<1>3. \A k \in 1 .. n : /\ r[k] \in 0 .. period - 1
                        /\ k - 1 < period => r[k] = k - 1
                        /\ k - 1 >= period => r[k] = r[k - period]
  <2> HIDE DEF period
  <2> TAKE k \in 1 .. n
  <2>1. k - 1 \in Nat OBVIOUS
  <2>2. ASSUME k - 1 >= period PROVE r[k] = r[k - period]
    <3>1. k - period \in 1 .. n /\ (k - 1) - period = (k - period) - 1
      BY <1>1, <2>2
    <3>2. ((k - 1) % period) = (((k - 1) - period) % period)
      BY <1>1, <2>1, <2>2, ModStep
    <3> QED BY <3>1, <3>2
  <2> QED BY <1>1, <2>1, <2>2, Division, SmallMod
<1> HIDE DEF copied, r
<1>4. /\ out \in Seq(V) /\ Len(out) = Len(new) + n
      /\ \A i \in 1 .. Len(new) : out[i] = new[i]
      /\ \A i \in 1 .. n : out[Len(new) + i] = copied[i]
  <2>1. /\ out \in Seq(V) /\ Len(out) = Len(new) + n
        /\ \A i \in 1 .. Len(new) + n :
             out[i] = IF i <= Len(new) THEN new[i] ELSE copied[i - Len(new)]
    BY <1>2, ConcatProperties DEF copied, AfterCopy
  <2> HIDE DEF out
  <2>2. ASSUME NEW i \in 1 .. n PROVE out[Len(new) + i] = copied[i]
    <3>1. /\ Len(new) + i \in 1 .. Len(new) + n /\ ~(Len(new) + i <= Len(new))
          /\ (Len(new) + i) - Len(new) = i
      BY <1>1
    <3> QED BY <2>1, <3>1
  <2>3. \A i \in 1 .. Len(new) : out[i] = new[i]
    BY <1>1, <2>1
  <2> QED BY <2>1, <2>2, <2>3
<1> HIDE DEF out
<1>5. \A i \in 1 .. end : before[i] = IF i <= Len(old) THEN old[i] ELSE new[i - Len(old)]
  BY ConcatProperties
<1>6. \A i \in 1 .. end + n : after[i] = IF i <= Len(old) THEN old[i] ELSE out[i - Len(old)]
  <2>1. end + n = Len(old) + Len(out) BY <1>1, <1>4
  <2> QED BY <1>4, <2>1, ConcatProperties
<1> HIDE DEF before, after
<1>7. \A i \in 1 .. end : after[i] = before[i]
  <2> TAKE i \in 1 .. end
  <2>1. i \in 1 .. end + n /\ i \in Int BY <1>1
  <2>2. CASE i <= Len(old) BY <1>5, <1>6, <2>1, <2>2
  <2>3. CASE ~(i <= Len(old))
    <3>1. i - Len(old) \in 1 .. Len(new) BY <1>1, <2>3
    <3>2. out[i - Len(old)] = new[i - Len(old)] BY <1>4, <3>1
    <3> QED BY <1>5, <1>6, <2>1, <2>3, <3>2
  <2> QED BY <2>2, <2>3
<1>8. \A k \in 1 .. n : after[end + k] = copied[k]
  <2> TAKE k \in 1 .. n
  <2>1. /\ end + k \in 1 .. end + n /\ ~(end + k <= Len(old))
        /\ (end + k) - Len(old) = Len(new) + k
    BY <1>1
  <2>2. after[end + k] = out[(end + k) - Len(old)] BY <1>6, <2>1
  <2> QED BY <1>4, <2>1, <2>2
<1>9. ASSUME NEW i \in end + 1 .. end + n
      PROVE  after[i] = after[i - period]
  <2> DEFINE k == i - end
  <2>1. k \in 1 .. n /\ i = end + k BY <1>1
  <2> HIDE DEF k
  <2>2. after[i] = before[src + r[k] + 1] BY <1>2, <1>8, <2>1
  <2>3. CASE k - 1 < period
    <3>1. r[k] = k - 1 BY <1>3, <2>1, <2>3
    <3>2. src + r[k] + 1 = i - period BY <1>1, <2>1, <3>1
    <3>3. i - period \in 1 .. end BY <1>2, <2>1, <3>2
    <3> QED BY <1>7, <2>2, <3>2, <3>3
  <2>4. CASE k - 1 >= period
    <3>1. k - period \in 1 .. n /\ i - period = end + (k - period)
      BY <1>1, <2>1, <2>4
    <3>2. r[k] = r[k - period] BY <1>3, <2>1, <2>4
    <3>3. after[i - period] = before[src + r[k - period] + 1]
      BY <1>2, <1>8, <3>1
    <3> QED BY <2>2, <3>2, <3>3
  <2> QED BY <1>1, <2>1, <2>3, <2>4
<1> HIDE DEF period
<1> QED BY <1>1, <1>4, <1>9 DEF out, after, copied, period, IsRepetition
-----------------------------------------------------------------------------
(***************************************************************************)
(* The inductive invariant.  The walk of a copy is bounded by              *)
(* PositionTracksOutput only if the table answers its lookups, so the      *)
(* three parts go together; ProvenanceIsTrue needs the lengths.            *)
(***************************************************************************)
IInv == TypeOK /\ TableIsSearchable /\ PositionTracksOutput /\ ProvenanceIsTrue

\* A decoder about to read the header satisfies it.
THEOREM InitIInv == Init => IInv
<1> SUFFICES ASSUME Init PROVE IInv OBVIOUS
<1>1. reference \in Seq(Bytes) /\ targetSize \in Nat BY DecoderConstants DEF Init
<1>2. TypeOK
  BY <1>1, LenProperties DEF Init, TypeOK, Statuses, NoWalk
<1>3. TableIsSearchable BY DEF Init, TableIsSearchable
<1>4. PositionTracksOutput BY <1>1 DEF Init, PositionTracksOutput
<1>5. ProvenanceIsTrue BY DEF Init, ProvenanceIsTrue
<1> QED BY <1>2, <1>3, <1>4, <1>5 DEF IInv

\* What TypeOK and the constants say of the inputs.
LEMMA InputTypes ==
  ASSUME TypeOK
  PROVE  /\ reference \in Seq(Bytes) /\ rift \in Seq(RiftEntry) /\ targetSize \in Nat
         /\ Len(reference) \in Nat /\ Len(output) \in Nat /\ Len(copySrc) \in Nat
         /\ End \in Nat
<1>1. reference \in Seq(Bytes) /\ rift \in Seq(RiftEntry) /\ targetSize \in Nat
  BY DecoderConstants DEF TypeOK
<1>2. Len(reference) \in Nat /\ Len(output) \in Nat /\ Len(copySrc) \in Nat
  BY <1>1, LenProperties DEF TypeOK
<1> QED BY <1>1, <1>2 DEF End

\* Every wire offset stands for a distance, which the queue can hold.
LEMMA DistanceTypes ==
  ASSUME IInv, status = "symbol", NEW raw \in Nat
  PROVE  DistanceOf(raw) \in Int /\ LruUpdate(lru, DistanceOf(raw)) \in [1 .. 3 -> Int]
<1>1. OffsetAt(ort, pos) \in Int
  BY SegmentIndexExists DEF IInv, TypeOK, TableIsSearchable
<1>2. lru \in [1 .. 3 -> Int] BY DEF IInv, TypeOK
<1>3. SourceCopy \in Int /\ OffsetBias \in Int BY DecoderConstants DEF SourceCopy
<1>4. DistanceOf(raw) \in Int
  <2>1. CASE raw < SourceCopy
    <3>1. raw # SourceCopy /\ ~(raw \in LruBase .. LruBase + 2) /\ ~(raw > LruBase + 2)
      BY <1>3, <2>1 DEF LruBase
    <3>2. raw - OffsetBias - OffsetAt(ort, pos) \in Int BY <1>1, <1>3
    <3> QED BY <2>1, <3>1, <3>2 DEF DistanceOf
  <2>2. CASE raw = SourceCopy
    <3>1. ~(raw < SourceCopy) BY <1>3, <2>2
    <3>2. ~(raw \in LruBase .. LruBase + 2) /\ ~(raw > LruBase + 2)
      BY <1>3, <2>2 DEF LruBase
    <3> QED BY <1>1, <2>2, <3>1, <3>2 DEF DistanceOf
  <2>3. CASE raw \in LruBase .. LruBase + 2
    <3>1. raw - LruBase + 1 \in 1 .. 3 BY <1>3, <2>3 DEF LruBase
    <3>2. lru[raw - LruBase + 1] \in Int BY <1>2, <3>1
    <3>3. ~(raw < SourceCopy) /\ raw # SourceCopy /\ ~(raw > LruBase + 2)
      BY <1>3, <2>3 DEF LruBase
    <3> QED BY <2>3, <3>2, <3>3 DEF DistanceOf
  <2>4. CASE raw > LruBase + 2
    <3>1. ~(raw < SourceCopy) /\ raw # SourceCopy /\ ~(raw \in LruBase .. LruBase + 2)
      BY <1>3, <2>4 DEF LruBase
    <3>2. raw - RawOffsetBase \in Int BY <1>3 DEF RawOffsetBase
    <3> QED BY <2>4, <3>1, <3>2 DEF DistanceOf
  <2> QED BY <1>3, <2>1, <2>2, <2>3, <2>4 DEF LruBase
<1> HIDE DEF DistanceOf
<1> QED BY <1>2, <1>4 DEF LruUpdate

\* A function on 1 .. n is a sequence of that length.
LEMMA SequenceOf ==
  ASSUME NEW S, NEW n \in Nat, NEW f \in [1 .. n -> S]
  PROVE  f \in Seq(S) /\ Len(f) = n
OBVIOUS

\* Past the first of two sequences the second is read from its start.
LEMMA SecondPart ==
  ASSUME NEW S, NEW s \in Seq(S), NEW t \in Seq(S),
         NEW p \in Len(s) + 1 .. Len(s) + Len(t)
  PROVE  (s \o t)[p] = t[p - Len(s)]
<1>1. Len(s) \in Nat /\ Len(t) \in Nat BY LenProperties
<1>2. p \in 1 .. Len(s) + Len(t) /\ p > Len(s) BY <1>1
<1> QED BY <1>1, <1>2, ConcatProperties

\* What one copy_one does: it pushes ChunkLength bytes, at most what is left,
\* each the byte one distance before it; a longer copy goes on.
LEMMA CopyOneEffect ==
  ASSUME IInv, CopyOne
  PROVE  /\ ChunkLength \in 1 .. walk.left
         /\ ChunkSource \in 0 .. Len(reference) + Len(output) - 1
         /\ output' \in Seq(Bytes) /\ copySrc' \in Seq(Int)
         /\ Len(output') = Len(output) + ChunkLength
         /\ Len(copySrc') = Len(output')
         /\ \A i \in 1 .. Len(output) : output'[i] = output[i]
         /\ \A i \in Len(reference) + Len(output) + 1
                    .. Len(reference) + Len(output) + ChunkLength :
              (reference \o output')[i] =
                (reference \o output')[i - (Len(reference) + Len(output) - ChunkSource)]
<1> DEFINE src == ChunkSource
           n   == ChunkLength
           ids == [i \in DOMAIN reference |-> i - 1]
<1>1. TypeOK /\ TableIsSearchable /\ PositionTracksOutput /\ status = "copy"
  BY DEF IInv, CopyOne
<1>2. /\ reference \in Seq(Bytes) /\ output \in Seq(Bytes) /\ copySrc \in Seq(Int)
      /\ Len(reference) \in Nat /\ Len(output) \in Nat
      /\ walk.at \in Nat /\ walk.left \in Nat \ {0}
      /\ walk.distance \in Int /\ Len(copySrc) = Len(output)
  BY <1>1, InputTypes DEF TypeOK, PositionTracksOutput
<1>3. IsLookupTable(ort) BY <1>1 DEF TableIsSearchable
<1>4. n \in 1 .. walk.left
  <2>1. CASE walk.follow
    <3>1. UpToBreak(ort, walk.at, walk.left) \in 1 .. walk.left
      BY <1>2, <1>3, SegmentHoldsUpToBreak
    <3> QED BY <1>2, <2>1, <3>1 DEF ChunkLength, Larger
  <2>2. CASE ~walk.follow
    BY <1>2, <2>2 DEF ChunkLength
  <2> QED BY <2>1, <2>2
<1>5. src \in 0 .. Len(reference) + Len(output) - 1
  <2>1. src \in Int
    <3>1. OffsetAt(ort, walk.at) \in Int BY <1>2, <1>3, SegmentIndexExists
    <3>2. walk.at + OffsetAt(ort, walk.at) \in Int /\ walk.at - walk.distance \in Int
      BY <1>2, <3>1
    <3> QED BY <3>2 DEF ChunkSource
  <2> QED BY <1>2, <2>1 DEF CopyOne, CopySourceValid
<1>6. ids \in Seq(Int) /\ Len(ids) = Len(reference)
  <2>1. DOMAIN reference = 1 .. Len(reference) BY <1>2, LenProperties
  <2>2. ids \in [1 .. Len(reference) -> Int] BY <2>1
  <2> HIDE DEF ids
  <2> QED BY <1>2, <2>2, SequenceOf
<1>7. /\ output' = AfterCopy(reference, output, src, n)
      /\ copySrc' = AfterCopy(ids, copySrc, src, n)
  BY DEF CopyOne, ChunkProvenance, AfterCopy
<1> HIDE DEF src, n, ids
<1>8. n \in Nat \ {0} BY <1>2, <1>4
<1>9. IsRepetition(Bytes, reference, output, src, n)
  BY <1>2, <1>5, <1>8, CopyRepeats
<1>10. IsRepetition(Int, ids, copySrc, src, n)
  <2>1. src \in 0 .. Len(ids) + Len(copySrc) - 1 BY <1>2, <1>5, <1>6
  <2> QED BY <1>2, <1>6, <1>8, <2>1, CopyRepeats
<1>11. /\ output' \in Seq(Bytes) /\ Len(output') = Len(output) + n
       /\ copySrc' \in Seq(Int) /\ Len(copySrc') = Len(output) + n
       /\ \A i \in 1 .. Len(output) : output'[i] = output[i]
  BY <1>2, <1>7, <1>9, <1>10 DEF IsRepetition
<1>12. \A i \in Len(reference) + Len(output) + 1 .. Len(reference) + Len(output) + n :
         (reference \o output')[i] =
           (reference \o output')[i - (Len(reference) + Len(output) - src)]
  BY <1>7, <1>9 DEF IsRepetition
<1> QED BY <1>4, <1>5, <1>11, <1>12 DEF src, n

\* A copied byte and its provenance come from the same place of the buffer
\* and of its provenance.
LEMMA CopyKeepsProvenance ==
  ASSUME IInv, CopyOne
  PROVE  ProvenanceIsTrue'
<1> DEFINE src == ChunkSource
           n   == ChunkLength
           ids == [i \in DOMAIN reference |-> i - 1]
           lenR == Len(reference)
           lenO == Len(output)
<1>1. TypeOK /\ PositionTracksOutput /\ ProvenanceIsTrue BY DEF IInv
<1>2. /\ reference \in Seq(Bytes) /\ output \in Seq(Bytes) /\ copySrc \in Seq(Int)
      /\ lenR \in Nat /\ lenO \in Nat /\ Len(copySrc) = lenO
      /\ DOMAIN reference = 1 .. lenR /\ DOMAIN copySrc = 1 .. lenO
      /\ walk.left \in Nat
  BY <1>1, InputTypes, LenProperties DEF TypeOK, PositionTracksOutput
<1>3. /\ n \in 1 .. walk.left /\ src \in 0 .. lenR + lenO - 1
      /\ copySrc' \in Seq(Int) /\ Len(copySrc') = lenO + n /\ Len(output') = lenO + n
  BY CopyOneEffect
<1>4. n \in Nat \ {0} BY <1>2, <1>3
<1>5. ids \in Seq(Int) /\ Len(ids) = lenR
  <2>1. ids \in [1 .. lenR -> Int] BY <1>2
  <2> HIDE DEF ids, lenR
  <2> QED BY <1>2, <2>1, SequenceOf
<1>6. \A i \in 1 .. lenR : ids[i] = i - 1 BY <1>2
<1>7. /\ output' = AfterCopy(reference, output, src, n)
      /\ copySrc' = AfterCopy(ids, copySrc, src, n)
      /\ reference' = reference
  BY DEF CopyOne, ChunkProvenance, AfterCopy, inputs
<1> HIDE DEF src, n, ids
<1>8. src \in 0 .. Len(ids) + Len(copySrc) - 1 BY <1>2, <1>3, <1>5
<1>9. IsRepetition(Bytes, reference, output, src, n)
  BY <1>2, <1>3, <1>4, CopyRepeats
<1>10. IsRepetition(Int, ids, copySrc, src, n)
  BY <1>2, <1>4, <1>5, <1>8, CopyRepeats
<1>11. ASSUME NEW i \in 1 .. lenO + n, copySrc'[i] # -1
       PROVE  copySrc'[i] + 1 \in DOMAIN reference /\ output'[i] = reference[copySrc'[i] + 1]
  <2>1. CASE i <= lenO
    <3>1. i \in 1 .. lenO BY <1>2, <1>4, <2>1
    <3>2. copySrc'[i] = copySrc[i] /\ output'[i] = output[i]
      BY <1>2, <1>7, <1>9, <1>10, <3>1 DEF IsRepetition
    <3> QED BY <1>1, <1>2, <1>11, <3>1, <3>2 DEF ProvenanceIsTrue
  <2>2. CASE i > lenO
    <3> DEFINE k  == i - lenO
               at == SourceIndex(reference, output, src, k)
    <3>1. k \in 1 .. n /\ i = lenO + k BY <1>2, <1>4, <2>2
    <3>2. SourceIndex(ids, copySrc, src, k) = at BY <1>2, <1>5 DEF SourceIndex
    <3> HIDE DEF k
    <3>3. output'[i] = Copied(reference, output, src, n)[k]
          /\ copySrc'[i] = Copied(ids, copySrc, src, n)[k]
      BY <1>2, <1>7, <1>9, <1>10, <3>1 DEF IsRepetition
    <3>4. at \in 1 .. lenR + lenO
          /\ Copied(reference, output, src, n)[k] = (reference \o output)[at]
      <4>1. IsPeriodic(Bytes, reference, output, src, n)
        BY <1>2, <1>3, <1>4, CopiedIsPeriodic
      <4> QED BY <3>1, <4>1 DEF IsPeriodic
    <3>5. Copied(ids, copySrc, src, n)[k] = (ids \o copySrc)[at]
      <4>1. IsPeriodic(Int, ids, copySrc, src, n)
        BY <1>2, <1>4, <1>5, <1>8, CopiedIsPeriodic
      <4> QED BY <3>1, <3>2, <4>1 DEF IsPeriodic
    <3> HIDE DEF at
    <3>6. CASE at <= lenR
      <4>1. at \in 1 .. lenR BY <1>2, <3>4, <3>6
      <4>2. (reference \o output)[at] = reference[at]
        BY <1>2, <3>4, <3>6, ConcatProperties
      <4>3. (ids \o copySrc)[at] = ids[at]
        BY <1>2, <1>5, <3>4, <3>6, ConcatProperties
      <4>4. copySrc'[i] + 1 = at BY <1>6, <3>3, <3>5, <4>1, <4>3
      <4> QED BY <1>2, <3>3, <3>4, <4>1, <4>2, <4>4
    <3>7. CASE at > lenR
      <4> DEFINE m == at - lenR
      <4>1. m \in 1 .. lenO BY <1>2, <3>4, <3>7
      <4>0. at \in lenR + 1 .. lenR + lenO BY <1>2, <3>4, <3>7
      <4>2. (reference \o output)[at] = output[m]
        BY <1>2, <4>0, SecondPart, Zenon
      <4>3. (ids \o copySrc)[at] = copySrc[m]
        <5>1. /\ at \in Len(ids) + 1 .. Len(ids) + Len(copySrc)
              /\ m = at - Len(ids)
          BY <1>2, <1>5, <4>0
        <5> QED BY <1>2, <1>5, <5>1, SecondPart, Zenon
      <4> HIDE DEF m
      <4>4. copySrc'[i] = copySrc[m] /\ output'[i] = output[m]
        BY <3>3, <3>4, <3>5, <4>2, <4>3
      <4> QED BY <1>1, <1>2, <1>11, <4>1, <4>4 DEF ProvenanceIsTrue
    <3> QED BY <1>2, <3>4, <3>6, <3>7
  <2> QED BY <1>2, <1>4, <2>1, <2>2
<1>12. DOMAIN copySrc' = 1 .. lenO + n BY <1>3, LenProperties
<1> QED BY <1>7, <1>11, <1>12 DEF ProvenanceIsTrue

(***************************************************************************)
(* Every step preserves the invariant.                                     *)
(***************************************************************************)
THEOREM NextIInv == IInv /\ [Next]_vars => IInv'
<1> SUFFICES ASSUME IInv, [Next]_vars PROVE IInv' OBVIOUS
<1>1. TypeOK /\ TableIsSearchable /\ PositionTracksOutput /\ ProvenanceIsTrue BY DEF IInv
<1>2. /\ reference \in Seq(Bytes) /\ rift \in Seq(RiftEntry) /\ targetSize \in Nat
      /\ Len(reference) \in Nat /\ Len(output) \in Nat /\ Len(copySrc) \in Nat
      /\ End \in Nat /\ pos \in Nat /\ End = Len(reference) + targetSize
      /\ output \in Seq(Bytes) /\ copySrc \in Seq(Int)
  BY <1>1, InputTypes DEF TypeOK, End
<1>3. CASE EmptyPatch
  BY <1>1, <1>3 DEF EmptyPatch, inputs, IInv, TypeOK, Statuses, TableIsSearchable,
                    PositionTracksOutput, ProvenanceIsTrue, End
<1>4. CASE ReadHeader
  <2>1. IsLookupTable(ort') BY <1>2, <1>4, TableIsLookupTable DEF ReadHeader
  <2>2. TypeOK' /\ TableIsSearchable'
    BY <1>1, <1>4, <2>1 DEF ReadHeader, inputs, TypeOK, Statuses, TableIsSearchable, IsLookupTable
  <2>3. pos = Len(reference) + Len(output)
    BY <1>1, <1>4 DEF ReadHeader, PositionTracksOutput
  <2>4. PositionTracksOutput' /\ ProvenanceIsTrue'
    BY <1>1, <1>4, <2>3 DEF ReadHeader, inputs, PositionTracksOutput, ProvenanceIsTrue
  <2> QED BY <2>2, <2>4 DEF IInv
<1>5. CASE ReadFails
  BY <1>1, <1>5 DEF ReadFails, inputs, IInv, TypeOK, Statuses, TableIsSearchable,
                    PositionTracksOutput, ProvenanceIsTrue, End
<1>6. ASSUME NEW byte \in Bytes, ReadLiteral(byte) PROVE IInv'
  <2>1. /\ output' \in Seq(Bytes) /\ Len(output') = Len(output) + 1
        /\ \A i \in 1 .. Len(output) : output'[i] = output[i]
    BY <1>2, <1>6, AppendProperties DEF ReadLiteral
  <2>2. /\ copySrc' \in Seq(Int) /\ Len(copySrc') = Len(copySrc) + 1
        /\ \A i \in 1 .. Len(copySrc) : copySrc'[i] = copySrc[i]
        /\ copySrc'[Len(copySrc) + 1] = -1
    BY <1>2, <1>6, AppendProperties DEF ReadLiteral
  <2>3. /\ status = "symbol" /\ status' = "symbol" /\ pos' = pos + 1 /\ pos < End
        /\ UNCHANGED <<reference, rift, targetSize, ort, lru, walk>>
    BY <1>6 DEF ReadLiteral, inputs
  <2>4. TypeOK'
    <3>1. pos' \in Nat BY <1>2, <2>3
    <3> QED BY <1>1, <2>1, <2>2, <2>3, <3>1 DEF TypeOK, Statuses
  <2>5. TableIsSearchable' BY <1>1, <2>3 DEF TableIsSearchable
  <2>6. PositionTracksOutput'
    BY <1>1, <1>2, <2>1, <2>2, <2>3 DEF PositionTracksOutput, End
  <2>7. ProvenanceIsTrue'
    <3>1. DOMAIN copySrc = 1 .. Len(copySrc) /\ DOMAIN copySrc' = 1 .. Len(copySrc) + 1
      BY <1>2, <2>2, LenProperties
    <3>2. Len(copySrc) = Len(output) BY <1>1 DEF PositionTracksOutput
    <3> SUFFICES ASSUME NEW i \in 1 .. Len(copySrc) + 1, copySrc'[i] # -1
                 PROVE  /\ copySrc'[i] + 1 \in DOMAIN reference
                        /\ output'[i] = reference[copySrc'[i] + 1]
      BY <2>3, <3>1 DEF ProvenanceIsTrue
    <3>3. i \in 1 .. Len(copySrc) BY <1>2, <2>2
    <3>4. copySrc'[i] = copySrc[i] /\ output'[i] = output[i] BY <2>1, <2>2, <3>2, <3>3
    <3> QED BY <1>1, <3>1, <3>3, <3>4 DEF ProvenanceIsTrue
  <2> QED BY <2>4, <2>5, <2>6, <2>7 DEF IInv
<1>7. ASSUME NEW raw \in RawOffsets, NEW length \in MatchLengths, ReadMatch(raw, length)
      PROVE  IInv'
  <2>1. raw \in Nat /\ length \in Nat \ {0} BY DecoderConstants
  <2>2. /\ status = "symbol" /\ status' = "copy" /\ pos < End
        /\ walk' = [at |-> pos, left |-> Smaller(length, End - pos),
                    follow |-> raw = SourceCopy, distance |-> DistanceOf(raw)]
        /\ lru' = LruUpdate(lru, DistanceOf(raw))
        /\ UNCHANGED <<reference, rift, targetSize, ort, output, copySrc, pos>>
    BY <1>7 DEF ReadMatch, inputs
  <2>3. DistanceOf(raw) \in Int /\ lru' \in [1 .. 3 -> Int]
    BY <2>1, <2>2, DistanceTypes
  <2>4. Smaller(length, End - pos) \in 1 .. End - pos
    BY <1>2, <2>1, <2>2 DEF Smaller
  <2>5. TypeOK'
    <3>1. (raw = SourceCopy) \in BOOLEAN /\ Smaller(length, End - pos) \in Nat
      BY <1>2, <2>4
    <3>2. walk' \in [at : Nat, left : Nat, follow : BOOLEAN, distance : Int]
      BY <1>2, <2>2, <2>3, <3>1
    <3> QED BY <1>1, <2>2, <2>3, <3>2 DEF TypeOK, Statuses
  <2>6. TableIsSearchable' BY <1>1, <2>2 DEF TableIsSearchable
  <2>7. PositionTracksOutput'
    <3>1. walk'.at = pos /\ walk'.left = Smaller(length, End - pos) BY <2>2
    <3>2. End' = End BY <2>2 DEF End
    <3> QED BY <1>1, <1>2, <2>2, <2>4, <3>1, <3>2 DEF PositionTracksOutput
  <2>8. ProvenanceIsTrue' BY <1>1, <2>2 DEF ProvenanceIsTrue
  <2> QED BY <2>5, <2>6, <2>7, <2>8 DEF IInv
<1>8. CASE CopyOne
  <2>1. /\ ChunkLength \in 1 .. walk.left
        /\ output' \in Seq(Bytes) /\ copySrc' \in Seq(Int)
        /\ Len(output') = Len(output) + ChunkLength /\ Len(copySrc') = Len(output')
    BY <1>8, CopyOneEffect
  <2>2. /\ walk \in [at : Nat, left : Nat, follow : BOOLEAN, distance : Int]
        /\ walk.at \in Nat /\ walk.left \in Nat /\ walk.at + walk.left <= End
        /\ walk.at = Len(reference) + Len(output) /\ pos <= walk.at
    BY <1>1, <1>8 DEF TypeOK, PositionTracksOutput, CopyOne
  <2>3. status = "copy" /\ UNCHANGED <<reference, rift, targetSize, ort, lru>>
    BY <1>8 DEF CopyOne, inputs
  <2>4. /\ ChunkLength \in Nat /\ Len(output') \in Nat
        /\ walk.at + ChunkLength = Len(reference) + Len(output')
        /\ Len(output') <= targetSize /\ pos <= walk.at + ChunkLength
        /\ walk.at + ChunkLength \in Nat
    <3>1. /\ Len(reference) \in Nat /\ Len(output) \in Nat /\ targetSize \in Nat /\ pos \in Nat
          /\ End = Len(reference) + targetSize
      BY <1>2
    <3>2. /\ ChunkLength \in Nat /\ ChunkLength <= walk.left
          /\ Len(output') = Len(output) + ChunkLength
      BY <2>1, <2>2
    <3> QED BY <2>2, <3>1, <3>2
  <2>5. CASE ChunkLength = walk.left
    <3>1. walk' = NoWalk /\ pos' = walk.at + ChunkLength /\ status' = "symbol"
      BY <1>8, <2>5 DEF CopyOne
    <3>2. TypeOK' BY <1>1, <2>1, <2>2, <2>3, <2>4, <3>1 DEF TypeOK, NoWalk, Statuses
    <3>3. PositionTracksOutput'
      BY <2>1, <2>3, <2>4, <3>1 DEF PositionTracksOutput
    <3>4. TableIsSearchable' BY <1>1, <2>3 DEF TableIsSearchable
    <3> QED BY <1>8, <3>2, <3>3, <3>4, CopyKeepsProvenance DEF IInv
  <2>6. CASE ChunkLength # walk.left
    <3>1. /\ walk' = [walk EXCEPT !.at = @ + ChunkLength, !.left = @ - ChunkLength]
          /\ UNCHANGED <<pos, status>>
      BY <1>8, <2>6 DEF CopyOne
    <3>2. walk.left - ChunkLength \in Nat /\ walk.left - ChunkLength > 0
      BY <2>1, <2>2, <2>4, <2>6
    <3>3. /\ walk'.at = walk.at + ChunkLength /\ walk'.left = walk.left - ChunkLength
          /\ walk' \in [at : Nat, left : Nat, follow : BOOLEAN, distance : Int]
      BY <2>2, <2>4, <3>1, <3>2
    <3>4. /\ walk'.at + walk'.left <= End /\ walk'.left > 0 /\ End' = End
          /\ walk'.at = Len(reference) + Len(output')
      BY <2>1, <2>2, <2>3, <2>4, <3>2, <3>3 DEF End
    <3>5. TypeOK' BY <1>1, <2>1, <2>3, <3>1, <3>3 DEF TypeOK
    <3>6. PositionTracksOutput'
      BY <2>1, <2>3, <2>4, <3>1, <3>3, <3>4 DEF PositionTracksOutput, CopyOne
    <3>7. TableIsSearchable' BY <1>1, <2>3, <3>1 DEF TableIsSearchable
    <3> QED BY <1>8, <3>5, <3>6, <3>7, CopyKeepsProvenance DEF IInv
  <2> QED BY <2>5, <2>6
<1>9. CASE CopyFails
  BY <1>1, <1>9 DEF CopyFails, inputs, IInv, TypeOK, Statuses, TableIsSearchable,
                    PositionTracksOutput, ProvenanceIsTrue, End
<1>10. CASE Finish
  BY <1>1, <1>10 DEF Finish, inputs, IInv, TypeOK, Statuses, TableIsSearchable,
                     PositionTracksOutput, ProvenanceIsTrue, End
<1>11. CASE UNCHANGED vars
  BY <1>1, <1>11 DEF vars, inputs, IInv, TypeOK, TableIsSearchable,
                     PositionTracksOutput, ProvenanceIsTrue, End
<1> QED BY <1>3, <1>4, <1>5, <1>6, <1>7, <1>8, <1>9, <1>10, <1>11 DEF Next
-----------------------------------------------------------------------------
(***************************************************************************)
(* What the decoder guarantees, whatever it is given.                      *)
(***************************************************************************)
\* The invariant holds throughout.
THEOREM Invariance == Spec => []IInv
<1> QED BY InitIInv, NextIInv, PTL DEF Spec

\* The variables keep their types: positions stay natural, the table, the
\* queue and the walk stay what the code declares.
THEOREM TypeCorrect == Spec => []TypeOK
<1>1. IInv => TypeOK BY DEF IInv
<1> QED BY <1>1, Invariance, PTL

\* The lookup table is sorted whenever a symbol is decoded.
THEOREM TableAlwaysSearchable == Spec => []TableIsSearchable
<1>1. IInv => TableIsSearchable BY DEF IInv
<1> QED BY <1>1, Invariance, PTL

\* Position and output advance together; the target is never overfilled.
THEOREM NeverOverfills == Spec => []PositionTracksOutput
<1>1. IInv => PositionTracksOutput BY DEF IInv
<1> QED BY <1>1, Invariance, PTL

\* A byte attributed to the reference is the reference's byte.
THEOREM ProvenanceAlwaysTrue == Spec => []ProvenanceIsTrue
<1>1. IInv => ProvenanceIsTrue BY DEF IInv
<1> QED BY <1>1, Invariance, PTL

\* Every byte of a SOURCE_COPY is found at the offset in force at the byte.
THEOREM AlwaysReanchors == Spec => ReanchorsEveryByte
<1> DEFINE A == (status = "copy" /\ walk.follow /\ status' # "err") =>
                  LET buffer == reference \o output'
                  IN  \A p \in walk.at .. Len(buffer) - 1 :
                        buffer[p + 1] = buffer[p + OffsetAt(ort, p) + 1]
<1>1. IInv /\ [Next]_vars => [A]_vars
  <2> SUFFICES ASSUME IInv, Next, status = "copy", walk.follow, status' # "err",
                      NEW p \in walk.at .. Len(reference \o output') - 1
               PROVE  (reference \o output')[p + 1] =
                        (reference \o output')[p + OffsetAt(ort, p) + 1]
    OBVIOUS
  <2> DEFINE off == OffsetAt(ort, walk.at)
  <2>1. CopyOne
    BY DEF Next, EmptyPatch, ReadHeader, ReadFails, ReadLiteral, ReadMatch, CopyFails, Finish
  <2>2. /\ reference \in Seq(Bytes) /\ Len(reference) \in Nat /\ Len(output) \in Nat
        /\ walk.at \in Nat /\ walk.left \in Nat \ {0}
        /\ walk.at = Len(reference) + Len(output) /\ IsLookupTable(ort)
    BY InputTypes DEF IInv, TypeOK, PositionTracksOutput, TableIsSearchable
  <2>3. /\ ChunkLength \in 1 .. walk.left
        /\ output' \in Seq(Bytes) /\ Len(output') = Len(output) + ChunkLength
        /\ \A i \in Len(reference) + Len(output) + 1
                   .. Len(reference) + Len(output) + ChunkLength :
             (reference \o output')[i] =
               (reference \o output')[i - (Len(reference) + Len(output) - ChunkSource)]
    BY <2>1, CopyOneEffect
  <2>4. /\ UpToBreak(ort, walk.at, walk.left) \in 1 .. walk.left
        /\ \A q \in walk.at .. walk.at + UpToBreak(ort, walk.at, walk.left) - 1 :
             OffsetAt(ort, q) = off
    BY <2>2, SegmentHoldsUpToBreak
  <2>5. ChunkLength = UpToBreak(ort, walk.at, walk.left)
    BY <2>2, <2>4 DEF ChunkLength, Larger
  <2>6. ChunkSource = walk.at + off BY DEF ChunkSource
  <2>7. off \in Int BY <2>2, SegmentIndexExists
  <2>8. p \in walk.at .. walk.at + ChunkLength - 1
    <3>1. Len(reference \o output') = Len(reference) + Len(output')
      BY <2>2, <2>3, ConcatProperties
    <3> QED BY <2>2, <2>3, <3>1
  <2> HIDE DEF off
  <2>9. OffsetAt(ort, p) = off BY <2>4, <2>5, <2>8
  <2>10. /\ p + 1 \in Len(reference) + Len(output) + 1
                     .. Len(reference) + Len(output) + ChunkLength
         /\ (p + 1) - (Len(reference) + Len(output) - ChunkSource) = p + off + 1
    BY <2>2, <2>3, <2>6, <2>7, <2>8
  <2>11. (reference \o output')[p + 1] =
           (reference \o output')[(p + 1) - (Len(reference) + Len(output) - ChunkSource)]
    BY <2>3, <2>10
  <2> QED BY <2>9, <2>10, <2>11
<1> QED BY <1>1, Invariance, PTL DEF Spec, ReanchorsEveryByte

(***************************************************************************)
(* The decoder implements DeltaBuffer: a literal and a copied chunk are    *)
(* its Literal and Copy, the returns its Succeed and Fail, and the rest    *)
(* (the header, reading a match) changes nothing it sees.                  *)
(***************************************************************************)
LEMMA InitRefines == Init => Abstract!Init
BY DEF Init, Abstract!Init, Verdict

LEMMA StepRefines == IInv /\ [Next]_vars => [Abstract!Next]_(Abstract!vars)
<1> SUFFICES ASSUME IInv, [Next]_vars PROVE [Abstract!Next]_(Abstract!vars) OBVIOUS
<1>1. /\ reference \in Seq(Bytes) /\ targetSize \in Nat
      /\ Len(reference) \in Nat /\ Len(output) \in Nat /\ End \in Nat
      /\ output \in Seq(Bytes) /\ PositionTracksOutput /\ status \in Statuses
  BY InputTypes DEF IInv, TypeOK
<1>2. CASE EmptyPatch
  BY <1>1, <1>2 DEF EmptyPatch, inputs, PositionTracksOutput, Verdict,
       Abstract!Next, Abstract!Succeed, Abstract!Fail
<1>3. CASE ReadHeader
  BY <1>3 DEF ReadHeader, inputs, Verdict, Abstract!vars
<1>4. CASE ReadFails
  BY <1>4 DEF ReadFails, inputs, Verdict, Abstract!Next, Abstract!Fail
<1>5. ASSUME NEW byte \in Bytes, ReadLiteral(byte) PROVE Abstract!Next
  <2>1. /\ output' = Append(output, byte) /\ Verdict = "busy" /\ Verdict' = "busy"
        /\ UNCHANGED <<reference, targetSize>>
    BY <1>5 DEF ReadLiteral, inputs, Verdict
  <2>2. Len(Append(output, byte)) <= targetSize
    BY <1>1, <1>5, AppendProperties DEF ReadLiteral, PositionTracksOutput, End
  <2>3. Abstract!Grow(Append(output, byte)) BY <2>1, <2>2 DEF Abstract!Grow
  <2> QED BY <2>1, <2>3 DEF Abstract!Next, Abstract!Literal
<1>6. ASSUME NEW raw \in RawOffsets, NEW length \in MatchLengths, ReadMatch(raw, length)
      PROVE  UNCHANGED Abstract!vars
  BY <1>6 DEF ReadMatch, inputs, Verdict, Abstract!vars
<1>7. CASE CopyOne
  <2> DEFINE distance == Len(reference) + Len(output) - ChunkSource
  <2>1. /\ ChunkLength \in 1 .. walk.left
        /\ ChunkSource \in 0 .. Len(reference) + Len(output) - 1
        /\ output' \in Seq(Bytes) /\ Len(output') = Len(output) + ChunkLength
        /\ \A i \in 1 .. Len(output) : output'[i] = output[i]
        /\ \A i \in Len(reference) + Len(output) + 1
                   .. Len(reference) + Len(output) + ChunkLength :
             (reference \o output')[i] = (reference \o output')[i - distance]
    BY <1>7, CopyOneEffect
  <2>2. /\ walk.at = Len(reference) + Len(output) /\ walk.at + walk.left <= End
        /\ walk.at \in Nat /\ walk.left \in Nat
    BY <1>1, <1>7 DEF IInv, TypeOK, PositionTracksOutput, CopyOne
  <2>3. /\ Verdict = "busy" /\ Verdict' = "busy" /\ UNCHANGED <<reference, targetSize>>
    BY <1>7 DEF CopyOne, inputs, Verdict
  <2>4. Len(output') <= targetSize /\ Len(output') >= Len(output)
    BY <1>1, <2>1, <2>2 DEF End
  <2>5. /\ Abstract!Buffer(output) = reference \o output
        /\ Abstract!Buffer(output') = reference \o output'
        /\ Len(reference \o output) = Len(reference) + Len(output)
        /\ Len(reference \o output') = Len(reference) + Len(output) + ChunkLength
    <3>1. Len(reference \o output) = Len(reference) + Len(output)
      BY <1>1, ConcatProperties
    <3>2. Len(reference \o output') = Len(reference) + Len(output')
      BY <1>1, <2>1, ConcatProperties
    <3> QED BY <1>1, <2>1, <3>1, <3>2 DEF Abstract!Buffer
  <2>6. distance \in 1 .. Len(Abstract!Buffer(output)) BY <1>1, <2>1, <2>5
  <2> HIDE DEF distance
  <2>7. Abstract!RepeatsAt(output', distance)
    BY <2>1, <2>4, <2>5 DEF Abstract!RepeatsAt
  <2>8. Abstract!Grow(output') BY <2>3, <2>4 DEF Abstract!Grow
  <2>9. Abstract!Copy BY <2>3, <2>6, <2>7, <2>8 DEF Abstract!Copy
  <2> QED BY <2>9 DEF Abstract!Next
<1>8. CASE CopyFails
  BY <1>8 DEF CopyFails, inputs, Verdict, Abstract!Next, Abstract!Fail
<1>9. CASE Finish
  BY <1>9 DEF Finish, inputs, Verdict, Abstract!Next, Abstract!Succeed, Abstract!Fail
<1>10. CASE UNCHANGED vars
  BY <1>10 DEF vars, inputs, Verdict, Abstract!vars
<1> QED BY <1>2, <1>3, <1>4, <1>5, <1>6, <1>7, <1>8, <1>9, <1>10 DEF Next

\* Whatever the stream says, the output grows only by bytes it supplies or by
\* repetition at one distance, and "ok" means exactly the announced size.
THEOREM Implements == Spec => ImplementsDeltaBuffer
<1> QED BY InitRefines, StepRefines, Invariance, PTL
      DEF Spec, ImplementsDeltaBuffer, Abstract!Spec
=============================================================================
