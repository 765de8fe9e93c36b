---------------------------- MODULE LzxCodecProofs ----------------------------
(***************************************************************************)
(* Encoder and decoder of PseudoLzx agree, for every reference, rift,      *)
(* target and parse: the decoder reads every symbol with the tables, the   *)
(* recent distances and the rift offset it was written with, never fails,  *)
(* and ends with the target.                                               *)
(*                                                                         *)
(* The decoder of LzxCodec is an instance of LzxDecoder, so what           *)
(* LzxDecoderProofs proves for every stream of symbols holds here as well; *)
(* D is the same instance of the module with the theorems.                 *)
(***************************************************************************)
EXTENDS LzxCodec, FiniteSetTheorems, SequenceTheorems, TLAPS

D == INSTANCE LzxDecoderProofs
       WITH targetSize   <- Len(target),
            TargetSizes  <- Nat,
            RawOffsets   <- Nat,
            MatchLengths <- Nat \ {0, 1}

-----------------------------------------------------------------------------
(***************************************************************************)
(* The inductive invariant.  Behind the symbols there is a trace: for each *)
(* number of symbols, how much of the target they stand for and the recent *)
(* distances after them.  The encoder's state is at its end, the splitter's*)
(* bounds are points of it, and the decoder walks along it.                *)
(***************************************************************************)
Points == [parsed : 0 .. Len(target), recent : [1 .. 3 -> Int]]

\* The distance a wire offset stands for at position `place', with this queue.
WireDistance(raw, table, place, queue) ==
  CASE raw < D!SourceCopy                  -> raw - OffsetBias - D!OffsetAt(table, place)
    [] raw = D!SourceCopy                  -> -D!OffsetAt(table, place)
    [] raw \in D!LruBase .. D!LruBase + 2  -> queue[raw - D!LruBase + 1]
    [] raw > D!LruBase + 2                 -> raw - D!RawOffsetBase

DistanceFrom(before, symbol) ==
  WireDistance(symbol.raw, offsets, Len(reference) + before.parsed, before.recent)

\* A match repeats what lies one distance back; a SOURCE_COPY ends before the
\* next breakpoint.
Matches(before, symbol) ==
  LET here     == Len(reference) + before.parsed
      distance == DistanceFrom(before, symbol)
      buffer   == reference \o target
  IN  /\ symbol.raw \in Nat /\ symbol.length >= 2
      /\ distance \in 1 .. here
      /\ \A k \in 1 .. symbol.length : buffer[here + k] = buffer[here + k - distance]
      /\ symbol.raw = D!SourceCopy =>
           D!UpToBreak(offsets, here, symbol.length) = symbol.length

\* What a symbol makes of one point of the trace.
Leads(before, symbol, after) ==
  /\ symbol.length \in Nat \ {0}
  /\ after.parsed = before.parsed + symbol.length
  /\ IF symbol.literal
     THEN /\ symbol.length = 1
          /\ symbol.raw = target[after.parsed]
          /\ after.recent = before.recent
     ELSE /\ Matches(before, symbol)
          /\ after.recent = D!LruUpdate(before.recent, DistanceFrom(before, symbol))

IsTrace(trace) ==
  /\ trace \in [0 .. Len(symbols) -> Points]
  /\ trace[0] = [parsed |-> 0, recent |-> <<0, 0, 0>>]
  /\ \A n \in 1 .. Len(symbols) : Leads(trace[n - 1], symbols[n], trace[n])
  /\ \A m, n \in 0 .. Len(symbols) : m < n => trace[m].parsed < trace[n].parsed

\* The encoder is at the end of the trace.
EncoderAt(trace) ==
  /\ trace[Len(symbols)] = [parsed |-> parsed, recent |-> recent]
  /\ offsets = D!OffsetRiftTable(rift, Len(reference))

\* The splitter's segments start with later and later symbols, at the points
\* of the trace in front of them.
SplitAt(trace) ==
  /\ split.seen \in 0 .. Len(symbols)
  /\ split.total = trace[split.seen].parsed
  /\ split.starts \in Seq(Nat) /\ split.bounds \in Seq(Nat)
  /\ Len(split.bounds) = Len(split.starts)
  /\ Len(split.starts) > 0 /\ split.starts[1] = 1
  /\ \A s, t \in 1 .. Len(split.starts) : s < t => split.starts[s] < split.starts[t]
  /\ \A s \in 1 .. Len(split.starts) :
       /\ split.starts[s] \in 1 .. split.seen + 1
       /\ split.bounds[s] = Len(reference) + trace[split.starts[s] - 1].parsed

\* What is written is what was parsed and split.
Written ==
  IF Encoded
  THEN /\ parsed = Len(target) /\ ~Encoder!ToSplit
       /\ boundaries = split.bounds
       /\ stream = [n \in 1 .. Len(symbols) |->
                      [symbol |-> symbols[n], tables |-> Encoder!SegmentOf(n)]]
  ELSE /\ stream = <<>>
       /\ status = "header"

\* Where the decoder is on the trace.
DecoderAt(trace) ==
  /\ readPos \in 0 .. Len(symbols)
  /\ segment \in 1 .. Len(split.starts)
  /\ split.starts[segment] <= readPos + 1
  /\ Len(output) = trace[readPos].parsed - walk.left
  /\ \A i \in 1 .. Len(output) : output[i] = target[i]
  /\ CASE status = "header" ->
            /\ readPos = 0 /\ lru = <<0, 0, 0>> /\ walk.left = 0
       [] status = "symbol" ->
            /\ lru = trace[readPos].recent /\ ort = offsets /\ walk.left = 0
       [] status = "copy" ->
            /\ lru = trace[readPos].recent /\ ort = offsets
            /\ readPos > 0 /\ ~symbols[readPos].literal
            /\ walk.left = symbols[readPos].length
            /\ walk.follow = (symbols[readPos].raw = D!SourceCopy)
            /\ walk.distance = DistanceFrom(trace[readPos - 1], symbols[readPos])
       [] status = "ok" ->
            readPos = Len(symbols) /\ lru = recent /\ walk.left = 0

InStep(trace) ==
  /\ IsTrace(trace) /\ EncoderAt(trace) /\ SplitAt(trace) /\ DecoderAt(trace)

\* What is written of a symbol.
Symbols == [literal : BOOLEAN, raw : Nat \cup Bytes, length : Nat]

CodecInv ==
  /\ target \in Targets /\ symbols \in Seq(Symbols)
  /\ status # "err"
  /\ Written
  /\ \E trace : InStep(trace)

IInv == D!IInv /\ CodecInv

-----------------------------------------------------------------------------
(***************************************************************************)
(* Encoder, Decoder and D hold copies of the same operators.               *)
(***************************************************************************)
\* The theorems about the decoder ask of the constants what the codec's say.
LEMMA DecoderInputs == D!DecoderConstants
BY CodecConstants DEF D!DecoderConstants, D!RiftEntry

\* The encoder's view of the rift, the offset classes and the queue.
LEMMA SameTables ==
  /\ \A table, place : Encoder!OffsetAt(table, place) = D!OffsetAt(table, place)
  /\ \A table, place, limit :
       Encoder!UpToBreak(table, place, limit) = D!UpToBreak(table, place, limit)
  /\ \A entries, length :
       Encoder!OffsetRiftTable(entries, length) = D!OffsetRiftTable(entries, length)
  /\ \A queue, distance : Encoder!LruUpdate(queue, distance) = D!LruUpdate(queue, distance)
  /\ Encoder!SourceCopy = D!SourceCopy
  /\ Encoder!LruBase = D!LruBase
  /\ Encoder!RawOffsetBase = D!RawOffsetBase
<1>1. \A table, place : Encoder!OffsetAt(table, place) = D!OffsetAt(table, place)
  BY DEF Encoder!OffsetAt, D!OffsetAt, Encoder!SegmentIndex, D!SegmentIndex
<1>2. \A table, place, limit :
        Encoder!UpToBreak(table, place, limit) = D!UpToBreak(table, place, limit)
  BY DEF Encoder!UpToBreak, D!UpToBreak, Encoder!SegmentIndex, D!SegmentIndex
<1>3. \A entries, length :
        Encoder!OffsetRiftTable(entries, length) = D!OffsetRiftTable(entries, length)
  <2>1. \A entries : Encoder!SortBySource(entries) = D!SortBySource(entries)
    BY DEF Encoder!SortBySource, D!SortBySource, Encoder!Rank, D!Rank,
           Encoder!Before, D!Before, Encoder!Cardinality, D!Cardinality
  <2>2. \A entry : Encoder!Offset(entry) = D!Offset(entry)
    BY DEF Encoder!Offset, D!Offset
  <2> QED BY <2>1, <2>2, Zenon DEF Encoder!OffsetRiftTable, D!OffsetRiftTable
<1>4. \A queue, distance : Encoder!LruUpdate(queue, distance) = D!LruUpdate(queue, distance)
  BY DEF Encoder!LruUpdate, D!LruUpdate
<1>5. /\ Encoder!SourceCopy = D!SourceCopy
      /\ Encoder!LruBase = D!LruBase
      /\ Encoder!RawOffsetBase = D!RawOffsetBase
  BY DEF Encoder!SourceCopy, D!SourceCopy, Encoder!LruBase, D!LruBase,
         Encoder!RawOffsetBase, D!RawOffsetBase
<1> QED BY <1>1, <1>2, <1>3, <1>4, <1>5

\* What the decoder derives from its state.
LEMMA SameDerived ==
  /\ Decoder!End = D!End
  /\ \A raw : Decoder!DistanceOf(raw) = D!DistanceOf(raw)
  /\ Decoder!ChunkLength = D!ChunkLength
  /\ Decoder!ChunkSource = D!ChunkSource
  /\ Decoder!ChunkProvenance = D!ChunkProvenance
<1>1. \A table, place : Decoder!OffsetAt(table, place) = D!OffsetAt(table, place)
  BY DEF Decoder!OffsetAt, D!OffsetAt, Decoder!SegmentIndex, D!SegmentIndex
<1>2. \A table, place, limit :
        Decoder!UpToBreak(table, place, limit) = D!UpToBreak(table, place, limit)
  BY DEF Decoder!UpToBreak, D!UpToBreak, Decoder!SegmentIndex, D!SegmentIndex
<1>3. Decoder!End = D!End BY DEF Decoder!End, D!End
<1>4. \A raw : Decoder!DistanceOf(raw) = D!DistanceOf(raw)
  BY <1>1, Zenon DEF Decoder!DistanceOf, D!DistanceOf, Decoder!SourceCopy, D!SourceCopy,
         Decoder!LruBase, D!LruBase, Decoder!RawOffsetBase, D!RawOffsetBase
<1>5. Decoder!ChunkLength = D!ChunkLength
  BY <1>2 DEF Decoder!ChunkLength, D!ChunkLength, Decoder!Larger, D!Larger
<1>6. Decoder!ChunkSource = D!ChunkSource
  BY <1>1 DEF Decoder!ChunkSource, D!ChunkSource
<1>7. Decoder!ChunkProvenance = D!ChunkProvenance
  <2>1. \A old, new, src, n : Decoder!Copied(old, new, src, n) = D!Copied(old, new, src, n)
    BY DEF Decoder!Copied, D!Copied
  <2> QED BY <1>5, <1>6, <2>1, Zenon DEF Decoder!ChunkProvenance, D!ChunkProvenance
<1> QED BY <1>3, <1>4, <1>5, <1>6, <1>7

\* Its initial states and actions.
LEMMA SameActions ==
  /\ Decoder!Init = D!Init
  /\ Decoder!ReadHeader = D!ReadHeader
  /\ Decoder!ReadFails = D!ReadFails
  /\ \A byte : Decoder!ReadLiteral(byte) = D!ReadLiteral(byte)
  /\ \A raw, length : Decoder!ReadMatch(raw, length) = D!ReadMatch(raw, length)
  /\ Decoder!CopyOne = D!CopyOne
  /\ Decoder!CopyFails = D!CopyFails
  /\ Decoder!Finish = D!Finish
<1>1. Decoder!Init = D!Init
  BY Zenon DEF Decoder!Init, D!Init, Decoder!NoWalk, D!NoWalk
<1>2. Decoder!ReadHeader = D!ReadHeader
  <2>3. \A entries : Decoder!SortBySource(entries) = D!SortBySource(entries)
    BY DEF Decoder!SortBySource, D!SortBySource, Decoder!Rank, D!Rank,
           Decoder!Before, D!Before, Decoder!Cardinality, D!Cardinality
  <2>4. \A entry : Decoder!Offset(entry) = D!Offset(entry)
    BY DEF Decoder!Offset, D!Offset
  <2>5. \A entries, length :
          Decoder!OffsetRiftTable(entries, length) = D!OffsetRiftTable(entries, length)
    BY <2>3, <2>4, Zenon DEF Decoder!OffsetRiftTable, D!OffsetRiftTable
  <2> QED BY <2>5, Zenon DEF Decoder!ReadHeader, D!ReadHeader, Decoder!inputs, D!inputs
<1>3. Decoder!ReadFails = D!ReadFails
  BY SameDerived, Zenon DEF Decoder!ReadFails, D!ReadFails, Decoder!inputs, D!inputs
<1>4. \A byte : Decoder!ReadLiteral(byte) = D!ReadLiteral(byte)
  BY SameDerived, Zenon DEF Decoder!ReadLiteral, D!ReadLiteral, Decoder!inputs, D!inputs
<1>5. \A raw, length : Decoder!ReadMatch(raw, length) = D!ReadMatch(raw, length)
  BY SameDerived, Zenon DEF Decoder!ReadMatch, D!ReadMatch, Decoder!inputs, D!inputs,
       Decoder!LruUpdate, D!LruUpdate, Decoder!Smaller, D!Smaller,
       Decoder!SourceCopy, D!SourceCopy
<1>6. Decoder!CopyOne = D!CopyOne
  BY SameDerived, Zenon DEF Decoder!CopyOne, D!CopyOne, Decoder!inputs, D!inputs,
       Decoder!CopySourceValid, D!CopySourceValid, Decoder!Copied, D!Copied,
       Decoder!NoWalk, D!NoWalk
<1>7. Decoder!CopyFails = D!CopyFails
  BY SameDerived, Zenon DEF Decoder!CopyFails, D!CopyFails, Decoder!inputs, D!inputs,
       Decoder!CopySourceValid, D!CopySourceValid
<1>8. Decoder!Finish = D!Finish
  BY SameDerived, Zenon DEF Decoder!Finish, D!Finish, Decoder!inputs, D!inputs
<1> QED BY <1>1, <1>2, <1>3, <1>4, <1>5, <1>6, <1>7, <1>8

-----------------------------------------------------------------------------
(***************************************************************************)
(* Largest and smallest members, and induction by a smallest               *)
(* counterexample.                                                         *)
(***************************************************************************)
\* Every nonempty set of indices has a smallest element: its mirror image has
\* a largest.
LEMMA SmallestIndex ==
  ASSUME NEW n \in Nat, NEW S \in SUBSET (1 .. n), S # {}
  PROVE  \E m \in S : \A k \in S : m <= k
<1> DEFINE T == {k \in 1 .. n : n + 1 - k \in S}
<1>1. T \in SUBSET (1 .. n) OBVIOUS
<1>2. T # {}
  <2>1. PICK k \in S : TRUE OBVIOUS
  <2>2. k \in 1 .. n /\ n + 1 - k \in 1 .. n /\ n + 1 - (n + 1 - k) = k OBVIOUS
  <2>3. n + 1 - k \in T BY <2>1, <2>2
  <2> QED BY <2>3
<1>3. PICK m \in T : \A k \in T : k <= m
  <2> HIDE DEF T
  <2> QED BY <1>1, <1>2, DecoderInputs, D!LargestIndex
<1>4. m \in 1 .. n /\ n + 1 - m \in S BY <1>3
<1>5. ASSUME NEW k \in S PROVE n + 1 - m <= k
  <2>1. k \in 1 .. n /\ n + 1 - k \in 1 .. n /\ n + 1 - (n + 1 - k) = k OBVIOUS
  <2>2. n + 1 - k \in T BY <2>1
  <2>3. n + 1 - k <= m BY <1>3, <2>2
  <2> QED BY <1>4, <2>1, <2>3
<1> QED BY <1>4, <1>5

\* Max and Min of a nonempty set of numbers up to n.
LEMMA MaxOfIndices ==
  ASSUME NEW n \in Nat, NEW S \in SUBSET (0 .. n), S # {}
  PROVE  Encoder!Max(S) \in S /\ \A k \in S : k <= Encoder!Max(S)
<1> DEFINE T == {k \in 1 .. n + 1 : k - 1 \in S}
<1>1. T \in SUBSET (1 .. n + 1) OBVIOUS
<1>2. T # {}
  <2>1. PICK k \in S : TRUE OBVIOUS
  <2>2. k \in Nat /\ k + 1 \in 1 .. n + 1 /\ (k + 1) - 1 = k OBVIOUS
  <2>3. k + 1 \in T BY <2>1, <2>2
  <2> QED BY <2>3
<1>3. PICK m \in T : \A k \in T : k <= m
  <2>1. n + 1 \in Nat OBVIOUS
  <2> HIDE DEF T
  <2> QED BY <1>1, <1>2, <2>1, DecoderInputs, D!LargestIndex
<1>4. m \in 1 .. n + 1 /\ m - 1 \in S BY <1>3
<1>5. ASSUME NEW k \in S PROVE m - 1 >= k
  <2>1. k \in Nat /\ k + 1 \in 1 .. n + 1 /\ (k + 1) - 1 = k OBVIOUS
  <2>2. k + 1 \in T BY <2>1
  <2>3. k + 1 <= m BY <1>3, <2>2
  <2> QED BY <1>4, <2>1, <2>3
<1>6. \E x \in S : \A y \in S : x >= y BY <1>4, <1>5
<1>7. Encoder!Max(S) \in S /\ \A k \in S : Encoder!Max(S) >= k
  BY <1>6 DEF Encoder!Max
<1> QED BY <1>7

\* The smallest of a nonempty set of indices is one of them.
LEMMA MinOfIndices ==
  ASSUME NEW n \in Nat, NEW S \in SUBSET (1 .. n), S # {}
  PROVE  Encoder!Min(S) \in S /\ \A k \in S : Encoder!Min(S) <= k
<1>1. \E x \in S : \A y \in S : x <= y BY SmallestIndex
<1> QED BY <1>1 DEF Encoder!Min

-----------------------------------------------------------------------------
(***************************************************************************)
(* Copying.  A buffer that agrees with another up to some point, and from  *)
(* there on repeats at a distance at which the other repeats, agrees with  *)
(* it as far as the repetition goes: a copy may read what it has written.  *)
(***************************************************************************)
Repeats(buffer, here, count, distance) ==
  \A k \in 1 .. count : buffer[here + k] = buffer[here + k - distance]

\* Two buffers that agree in front, and repeat at one distance, agree behind.
LEMMA RepetitionAgrees ==
  ASSUME NEW f, NEW g, NEW here \in Nat, NEW count \in Nat,
         NEW distance \in 1 .. here,
         \A i \in 1 .. here : f[i] = g[i],
         Repeats(f, here, count, distance), Repeats(g, here, count, distance)
  PROVE  \A i \in 1 .. here + count : f[i] = g[i]
<1> DEFINE Wrong == {i \in 1 .. here + count : f[i] # g[i]}
<1> SUFFICES ASSUME Wrong # {} PROVE FALSE OBVIOUS
<1>1. PICK i \in Wrong : \A k \in Wrong : i <= k
  <2>1. Wrong \in SUBSET (1 .. here + count) /\ here + count \in Nat OBVIOUS
  <2> HIDE DEF Wrong
  <2> QED BY <2>1, SmallestIndex
<1>2. i \in 1 .. here + count /\ f[i] # g[i] BY <1>1
<1>3. i > here BY <1>2
<1> DEFINE k == i - here
<1>4. k \in 1 .. count /\ here + k = i BY <1>2, <1>3
<1>5. i - distance \in 1 .. here + count /\ i - distance < i BY <1>2, <1>3
<1>6. f[i] = f[i - distance] /\ g[i] = g[i - distance]
  <2> HIDE DEF k
  <2>1. f[here + k] = f[here + k - distance] /\ g[here + k] = g[here + k - distance]
    BY <1>4 DEF Repeats
  <2> QED BY <1>4, <2>1
<1>7. i - distance \in Wrong BY <1>2, <1>5, <1>6
<1> HIDE DEF Wrong
<1> QED BY <1>1, <1>2, <1>5, <1>7

\* Capping a length at the next breakpoint twice caps it once.
LEMMA CapIsFinal ==
  ASSUME NEW table, D!IsLookupTable(table), NEW place \in Nat, NEW limit \in Nat \ {0}
  PROVE  /\ D!UpToBreak(table, place, limit) \in 1 .. limit
         /\ D!UpToBreak(table, place, D!UpToBreak(table, place, limit)) =
              D!UpToBreak(table, place, limit)
<1> DEFINE i == D!SegmentIndex(table, place)
<1>1. D!UpToBreak(table, place, limit) \in 1 .. limit
  BY DecoderInputs, D!SegmentHoldsUpToBreak
<1>2. i \in 1 .. Len(table) BY DecoderInputs, D!SegmentIndexExists
<1>3. Len(table) \in Nat /\ \A j \in 1 .. Len(table) : table[j].at \in Int
  <2>1. \A j \in 1 .. Len(table) : table[j] \in [at : Int, offset : Int]
    BY ElementOfSeq DEF D!IsLookupTable
  <2> QED BY <2>1, LenProperties DEF D!IsLookupTable
<1>4. i = Len(table) \/ (i + 1 \in 1 .. Len(table) /\ table[i + 1].at - place \in Int)
  BY <1>2, <1>3
<1> HIDE DEF i
<1>5. \A m : D!UpToBreak(table, place, m) =
               IF i = Len(table) \/ table[i + 1].at - place > m
               THEN m ELSE table[i + 1].at - place
  BY DEF D!UpToBreak, i
<1> QED BY <1>1, <1>4, <1>5
-----------------------------------------------------------------------------
(***************************************************************************)
(* Types, and what does not change.                                        *)
(***************************************************************************)
LEMMA InvTypes ==
  ASSUME IInv
  PROVE  /\ reference \in Seq(Bytes) /\ target \in Seq(Bytes)
         /\ rift \in Seq([source : Int, target : Int])
         /\ Len(reference) \in Nat /\ Len(target) \in Nat /\ Len(symbols) \in Nat
         /\ D!End = Len(reference) + Len(target)
         /\ \A i \in 1 .. Len(target) : target[i] \in Bytes
         /\ \A n \in 1 .. Len(symbols) :
              symbols[n] \in Symbols
<1>1. reference \in References /\ rift \in Rifts
  BY DEF IInv, D!IInv, D!TypeOK
<1>2. /\ reference \in Seq(Bytes) /\ target \in Seq(Bytes)
      /\ rift \in Seq([source : Int, target : Int])
  BY <1>1, CodecConstants DEF IInv, CodecInv
<1>3. Len(reference) \in Nat /\ Len(target) \in Nat /\ Len(symbols) \in Nat
  BY <1>2, LenProperties DEF IInv, CodecInv
<1>4. \A i \in 1 .. Len(target) : target[i] \in Bytes BY <1>2, ElementOfSeq
<1>5. \A n \in 1 .. Len(symbols) :
        symbols[n] \in Symbols
  BY ElementOfSeq DEF IInv, CodecInv
<1> QED BY <1>2, <1>3, <1>4, <1>5 DEF D!End

\* The symbols are such as the decoder can read.
LEMMA SymbolsReadable ==
  ASSUME IInv, NEW n \in 1 .. Len(symbols)
  PROVE  /\ symbols[n].literal \in BOOLEAN
         /\ symbols[n].literal => symbols[n].raw \in Bytes
         /\ ~symbols[n].literal => /\ symbols[n].raw \in Nat
                                   /\ symbols[n].length \in Nat \ {0, 1}
<1>1. PICK trace : InStep(trace) BY DEF IInv, CodecInv
<1>2. symbols[n] \in Symbols BY InvTypes
<1>3. /\ trace[n] \in Points /\ trace[n - 1] \in Points
      /\ Leads(trace[n - 1], symbols[n], trace[n])
  <2>1. n \in 0 .. Len(symbols) /\ n - 1 \in 0 .. Len(symbols) BY InvTypes
  <2> QED BY <1>1, <2>1 DEF InStep, IsTrace
<1>4. trace[n].parsed \in 1 .. Len(target) BY <1>3, InvTypes, SMTT(30) DEF Leads, Points
<1>5. symbols[n].literal => symbols[n].raw \in Bytes
  BY <1>3, <1>4, InvTypes DEF Leads
<1>6. ~symbols[n].literal => /\ symbols[n].raw \in Nat
                             /\ symbols[n].length \in Nat \ {0, 1}
  BY <1>2, <1>3 DEF Leads, Matches, Symbols
<1> QED BY <1>2, <1>5, <1>6 DEF Symbols

\* What a symbol means depends only on the inputs and the rift table.
LEMMA SameMeaning ==
  ASSUME UNCHANGED <<reference, target, offsets>>
  PROVE  /\ \A before, symbol, after :
              Leads(before, symbol, after)' = Leads(before, symbol, after)
         /\ \A before, symbol :
              DistanceFrom(before, symbol)' = DistanceFrom(before, symbol)
         /\ Points' = Points
BY DEF Leads, Matches, DistanceFrom, WireDistance, Points

\* A trace stays a trace while what it speaks of stays the same.
LEMMA SameTrace ==
  ASSUME UNCHANGED <<reference, rift, target, encoderVars>>, NEW trace,
         IsTrace(trace), EncoderAt(trace), SplitAt(trace)
  PROVE  IsTrace(trace)' /\ EncoderAt(trace)' /\ SplitAt(trace)'
<1>1. UNCHANGED <<reference, rift, target, offsets, parsed, recent, symbols, split>>
  BY DEF encoderVars
<1>2. IsTrace(trace)' BY <1>1, SameMeaning DEF IsTrace
<1>3. EncoderAt(trace)' BY <1>1 DEF EncoderAt
<1>4. SplitAt(trace)' BY <1>1 DEF SplitAt
<1> QED BY <1>2, <1>3, <1>4

-----------------------------------------------------------------------------
(***************************************************************************)
(* The codec's decoder is a decoder: its steps are steps of LzxDecoder.    *)
(***************************************************************************)
LEMMA InitIsDecoders == Init => D!Init
BY SameActions DEF Init

\* The encoder touches nothing of the decoder's.
LEMMA EncodeLeavesInputs ==
  ASSUME Encode
  PROVE  UNCHANGED <<reference, rift, target, ort, output, copySrc, pos, lru, walk, status,
                     readPos, segment>>
BY DEF Encode, decoderVars, Encoder!Next, Encoder!EmitLiteral, Encoder!EmitMatch,
       Encoder!SplitAtSymbol, Encoder!Write, Encoder!inputs

\* A step of the codec is a step of the decoder, or nothing to it.
LEMMA StepIsDecoders ==
  ASSUME IInv, [Next]_vars
  PROVE  [D!Next]_(D!vars)
<1>1. CASE Encode
  BY <1>1, EncodeLeavesInputs DEF D!vars, D!inputs
<1>2. CASE UNCHANGED vars
  BY <1>2 DEF vars, decoderVars, D!vars, D!inputs
<1>3. CASE Decode /\ ReadSymbol
  <2> DEFINE symbol == stream[readPos + 1].symbol
  <2>1. readPos + 1 \in 1 .. Len(symbols) /\ symbol = symbols[readPos + 1]
    <3>1. PICK trace : InStep(trace) BY DEF IInv, CodecInv
    <3>2. readPos \in 0 .. Len(symbols) /\ readPos < Len(stream)
      BY <1>3, <3>1 DEF ReadSymbol, InStep, DecoderAt
    <3>3. stream = [n \in 1 .. Len(symbols) |->
                      [symbol |-> symbols[n], tables |-> Encoder!SegmentOf(n)]]
      BY <1>3 DEF IInv, CodecInv, Written, Decode
    <3>4. Len(stream) = Len(symbols) BY <3>3, InvTypes
    <3>5. readPos + 1 \in 1 .. Len(symbols) BY <3>2, <3>4, InvTypes
    <3> QED BY <3>3, <3>5
  <2>2. /\ symbol.literal => symbol.raw \in Bytes
        /\ ~symbol.literal => symbol.raw \in Nat /\ symbol.length \in Nat \ {0, 1}
    BY <2>1, SymbolsReadable
  <2>3. \/ symbol.literal /\ D!ReadLiteral(symbol.raw)
        \/ ~symbol.literal /\ D!ReadMatch(symbol.raw, symbol.length)
    BY <1>3, SameActions DEF ReadSymbol, NextSymbol
  <2> HIDE DEF symbol
  <2> QED BY <2>2, <2>3 DEF D!Next
<1>4. CASE Decode /\ ~ReadSymbol
  <2>1. D!ReadFails \/ D!ReadHeader \/ D!CopyOne \/ D!CopyFails \/ D!Finish
    BY <1>4, SameActions DEF Decode, Exhausted
  <2> QED BY <2>1 DEF D!Next
<1> QED BY <1>1, <1>2, <1>3, <1>4 DEF Next
-----------------------------------------------------------------------------
(***************************************************************************)
(* The encoder's steps: a literal or a match adds a point to the trace.    *)
(***************************************************************************)
LEMMA InitInv == Init => IInv
<1> SUFFICES ASSUME Init PROVE IInv OBVIOUS
<1>1. D!Init BY InitIsDecoders
<1>2. D!IInv BY <1>1, DecoderInputs, D!InitIInv
<1>3. /\ target \in Targets /\ parsed = 0 /\ recent = <<0, 0, 0>> /\ symbols = <<>>
      /\ split = Encoder!OneSegment /\ stream = <<>> /\ boundaries = <<>>
      /\ offsets = D!OffsetRiftTable(rift, Len(reference))
      /\ readPos = 0 /\ segment = 1
  BY SameTables DEF Init, Encoder!Init
<1>4. /\ output = <<>> /\ lru = <<0, 0, 0>> /\ walk.left = 0 /\ status = "header"
      /\ reference \in References
  BY <1>1 DEF D!Init, D!NoWalk
<1>5. Len(target) \in Nat /\ Len(reference) \in Nat
  BY <1>3, <1>4, CodecConstants, LenProperties
<1>6. PICK trace : trace = [n \in 0 .. 0 |-> [parsed |-> 0, recent |-> <<0, 0, 0>>]]
  OBVIOUS
<1>7. Len(symbols) = 0 /\ symbols \in Seq(Symbols) BY <1>3
<1>8. trace[0] = [parsed |-> 0, recent |-> <<0, 0, 0>>] BY <1>6
<1>9. IsTrace(trace)
  <2>1. trace[0] \in Points BY <1>5, <1>8 DEF Points
  <2> QED BY <1>6, <1>7, <1>8, <2>1 DEF IsTrace
<1>10. EncoderAt(trace) BY <1>3, <1>7, <1>8 DEF EncoderAt
<1>11. SplitAt(trace)
  <2>1. /\ split.seen = 0 /\ split.total = 0 /\ split.starts = <<1>>
        /\ split.bounds = <<Len(reference)>>
    BY <1>3 DEF Encoder!OneSegment
  <2> QED BY <1>5, <1>7, <1>8, <2>1 DEF SplitAt
<1>12. DecoderAt(trace)
  <2>1. split.starts = <<1>> BY <1>3 DEF Encoder!OneSegment
  <2> QED BY <1>3, <1>4, <1>7, <1>8, <2>1 DEF DecoderAt
<1>13. Written BY <1>3, <1>4 DEF Written, Encoded
<1> QED BY <1>2, <1>3, <1>4, <1>7, <1>9, <1>10, <1>11, <1>12, <1>13
        DEF IInv, CodecInv, InStep

\* One more symbol, and the trace goes one point further.
LEMMA SymbolAdded ==
  ASSUME IInv, ~Encoded, NEW trace, InStep(trace),
         NEW symbol \in Symbols, NEW point \in Points,
         Leads(trace[Len(symbols)], symbol, point),
         symbols' = Append(symbols, symbol),
         parsed' = point.parsed, recent' = point.recent,
         UNCHANGED <<reference, rift, target, offsets, split, stream, boundaries>>,
         UNCHANGED <<output, lru, walk, status, readPos, segment>>
  PROVE  CodecInv'
<1> DEFINE N == Len(symbols)
<1>1. /\ IsTrace(trace) /\ EncoderAt(trace) /\ SplitAt(trace) /\ DecoderAt(trace)
      /\ symbols \in Seq(Symbols) /\ N \in Nat /\ target \in Targets /\ Written
  BY InvTypes DEF IInv, CodecInv, InStep
<1>2. status = "header" BY <1>1 DEF Written
<1>3. /\ symbols' \in Seq(Symbols) /\ Len(symbols') = N + 1
      /\ \A n \in 1 .. N : symbols'[n] = symbols[n]
      /\ symbols'[N + 1] = symbol
  BY <1>1, AppendProperties
<1>4. PICK longer : longer = [n \in 0 .. N + 1 |-> IF n <= N THEN trace[n] ELSE point]
  OBVIOUS
<1>5. /\ \A n \in 0 .. N : longer[n] = trace[n] /\ trace[n] \in Points
      /\ longer[N + 1] = point
      /\ longer \in [0 .. N + 1 -> Points]
  <2>1. trace \in [0 .. N -> Points] BY <1>1 DEF IsTrace
  <2> HIDE DEF N
  <2>2. ~(N + 1 <= N) /\ N + 1 \in 0 .. N + 1 BY <1>1
  <2>3. \A n \in 0 .. N + 1 : n <= N => n \in 0 .. N BY <1>1
  <2>4. \A n \in 0 .. N : n <= N /\ n \in 0 .. N + 1 BY <1>1
  <2> QED BY <1>4, <2>1, <2>2, <2>3, <2>4
<1>6. trace[N].parsed < point.parsed
  <2>1. trace[N] \in Points BY <1>1, <1>5
  <2> QED BY <2>1, InvTypes, SMTT(30) DEF Leads, Points
<1> HIDE DEF N
<1>7. IsTrace(longer)'
  <2>1. longer[0] = [parsed |-> 0, recent |-> <<0, 0, 0>>]
    BY <1>1, <1>5 DEF IsTrace
  <2>2. ASSUME NEW n \in 1 .. N + 1
        PROVE  Leads(longer[n - 1], symbols'[n], longer[n])
    <3>0. n = N + 1 \/ n \in 1 .. N BY <1>1
    <3>1. CASE n = N + 1
      <4>1. n - 1 = N /\ N \in 0 .. N BY <1>1, <3>1
      <4>2. Leads(trace[N], symbol, point) BY DEF N
      <4> QED BY <1>3, <1>5, <3>1, <4>1, <4>2
    <3>2. CASE n \in 1 .. N
      <4>1. n - 1 \in 0 .. N /\ n \in 0 .. N BY <1>1, <3>2
      <4>2. Leads(trace[n - 1], symbols[n], trace[n])
        BY <1>1, <3>2 DEF IsTrace, N
      <4> QED BY <1>3, <1>5, <3>2, <4>1, <4>2
    <3> QED BY <3>0, <3>1, <3>2
  <2>3. ASSUME NEW m \in 0 .. N + 1, NEW n \in 0 .. N + 1, m < n
        PROVE  longer[m].parsed < longer[n].parsed
    <3>1. \A k, l \in 0 .. N : k < l => trace[k].parsed < trace[l].parsed
      BY <1>1 DEF IsTrace, N
    <3>2. \A k \in 0 .. N : trace[k].parsed \in Int
      BY <1>5, InvTypes, SMTT(30) DEF Points
    <3>3. CASE n \in 0 .. N BY <1>1, <1>5, <2>3, <3>1, <3>3
    <3>4. CASE n = N + 1
      <4>1. m \in 0 .. N /\ N \in 0 .. N BY <1>1, <2>3, <3>4
      <4>2. trace[m].parsed <= trace[N].parsed
        <5>1. CASE m = N BY <3>2, <4>1, <5>1
        <5>2. CASE m < N BY <3>1, <3>2, <4>1, <5>2
        <5> QED BY <1>1, <4>1, <5>1, <5>2
      <4>3. point.parsed \in Int BY InvTypes DEF Points
      <4> QED BY <1>5, <1>6, <3>2, <3>4, <4>1, <4>2, <4>3
    <3> QED BY <1>1, <3>3, <3>4
  <2>4. PICK all : all = symbols' OBVIOUS
  <2>5. \A n \in 1 .. N + 1 : Leads(longer[n - 1], all[n], longer[n])'
    BY <2>2, <2>4, SameMeaning
  <2> QED BY <1>3, <1>5, <2>1, <2>3, <2>4, <2>5, SameMeaning DEF IsTrace
<1>8. EncoderAt(longer)'
  BY <1>1, <1>3, <1>5 DEF EncoderAt, Points
<1>9. SplitAt(longer)'
  <2>1. /\ split.seen \in 0 .. N
        /\ \A s \in 1 .. Len(split.starts) : split.starts[s] - 1 \in 0 .. N
    BY <1>1, SMTT(30) DEF SplitAt, N
  <2>2. split.seen \in 0 .. N + 1 BY <1>1, <2>1
  <2> QED BY <1>1, <1>3, <1>5, <2>1, <2>2 DEF SplitAt
<1>10. DecoderAt(longer)'
  <2>1. longer[0] = trace[0] /\ readPos = 0 /\ 0 \in 0 .. N + 1
    BY <1>1, <1>2, <1>5, SMTT(30) DEF DecoderAt
  <2> QED BY <1>1, <1>2, <1>3, <2>1 DEF DecoderAt
<1>11. Written' BY <1>1, <1>2 DEF Written, Encoded
<1> QED BY <1>1, <1>2, <1>3, <1>7, <1>8, <1>9, <1>10, <1>11
        DEF CodecInv, InStep
-----------------------------------------------------------------------------
(***************************************************************************)
(* What best_match_at may return is a match: the wire offset it is given   *)
(* stands for its distance, and its bytes repeat at that distance.         *)
(***************************************************************************)
\* The encoder between two symbols.
LEMMA EncoderTypes ==
  ASSUME IInv
  PROVE  /\ parsed \in 0 .. Len(target) /\ recent \in [1 .. 3 -> Int]
         /\ D!IsLookupTable(offsets)
         /\ Encoder!Here = Len(reference) + parsed /\ Encoder!Here \in Nat
         /\ D!OffsetAt(offsets, Encoder!Here) \in Int
<1>1. PICK trace : InStep(trace) BY DEF IInv, CodecInv
<1>2. parsed \in 0 .. Len(target) /\ recent \in [1 .. 3 -> Int]
  <2>1. trace[Len(symbols)] \in Points BY <1>1, InvTypes DEF InStep, IsTrace
  <2> QED BY <1>1, <2>1 DEF InStep, EncoderAt, Points
<1>3. D!IsLookupTable(offsets)
  <2>1. offsets = D!OffsetRiftTable(rift, Len(reference)) BY <1>1 DEF InStep, EncoderAt
  <2>2. rift \in Seq(D!RiftEntry) BY InvTypes DEF D!RiftEntry
  <2> QED BY <2>1, <2>2, InvTypes, DecoderInputs, D!TableIsLookupTable
<1>4. Encoder!Here = Len(reference) + parsed /\ Encoder!Here \in Nat
  BY <1>2, InvTypes DEF Encoder!Here
<1>5. D!OffsetAt(offsets, Encoder!Here) \in Int
  BY <1>3, <1>4, DecoderInputs, D!SegmentIndexExists
<1> QED BY <1>2, <1>3, <1>4, <1>5

\* The offset classes do not overlap, so the decoder takes a wire offset for
\* what the encoder meant.
LEMMA WireOffsetMeansDistance ==
  ASSUME IInv, NEW q \in 0 .. Encoder!Here - 1
  PROVE  /\ Encoder!WireOffset(q) \in Nat
         /\ WireDistance(Encoder!WireOffset(q), offsets, Encoder!Here, recent)
              = Encoder!Here - q
<1> DEFINE raw      == Encoder!WireOffset(q)
           distance == Encoder!Here - q
           off      == D!OffsetAt(offsets, Encoder!Here)
           slots    == {i \in 1 .. 3 : recent[i] = distance}
           signed   == distance + OffsetBias + off
<1>1. /\ D!SourceCopy \in Nat /\ OffsetBias \in Nat
      /\ D!LruBase = D!SourceCopy + 1 /\ D!RawOffsetBase = D!SourceCopy + 3
  BY CodecConstants DEF D!SourceCopy, D!LruBase, D!RawOffsetBase
<1>2. /\ Encoder!Here \in Nat /\ off \in Int /\ distance \in Nat \ {0}
      /\ recent \in [1 .. 3 -> Int]
  BY EncoderTypes
<1>3. raw = IF q < Len(reference) /\ distance = -off
            THEN D!SourceCopy
            ELSE IF slots # {}
            THEN D!LruBase + Encoder!Min(slots) - 1
            ELSE IF signed \in 0 .. D!SourceCopy - 1
            THEN signed
            ELSE D!RawOffsetBase + distance
  BY SameTables, Zenon DEF Encoder!WireOffset, Encoder!SignedDelta
<1> DEFINE means(r, d) == r \in Nat /\ WireDistance(r, offsets, Encoder!Here, recent) = d
<1>4. \A r \in Nat :
        /\ r < D!SourceCopy => means(r, r - OffsetBias - off)
        /\ r = D!SourceCopy => means(r, -off)
        /\ r \in D!LruBase .. D!LruBase + 2 => means(r, recent[r - D!LruBase + 1])
        /\ r > D!LruBase + 2 => means(r, r - D!RawOffsetBase)
  <2> TAKE r \in Nat
  <2>1. ASSUME r < D!SourceCopy PROVE means(r, r - OffsetBias - off)
    <3>1. r # D!SourceCopy /\ ~(r \in D!LruBase .. D!LruBase + 2) /\ ~(r > D!LruBase + 2)
      BY <1>1, <2>1
    <3> QED BY <2>1, <3>1 DEF WireDistance
  <2>2. ASSUME r = D!SourceCopy PROVE means(r, -off)
    <3>1. ~(r < D!SourceCopy) /\ ~(r \in D!LruBase .. D!LruBase + 2) /\ ~(r > D!LruBase + 2)
      BY <1>1, <2>2
    <3> QED BY <2>2, <3>1 DEF WireDistance
  <2>3. ASSUME r \in D!LruBase .. D!LruBase + 2
        PROVE  means(r, recent[r - D!LruBase + 1])
    <3>1. ~(r < D!SourceCopy) /\ r # D!SourceCopy /\ ~(r > D!LruBase + 2)
      BY <1>1, <2>3
    <3> QED BY <2>3, <3>1 DEF WireDistance
  <2>4. ASSUME r > D!LruBase + 2 PROVE means(r, r - D!RawOffsetBase)
    <3>1. ~(r < D!SourceCopy) /\ r # D!SourceCopy /\ ~(r \in D!LruBase .. D!LruBase + 2)
      BY <1>1, <2>4
    <3> QED BY <2>4, <3>1 DEF WireDistance
  <2> QED BY <2>1, <2>2, <2>3, <2>4
<1>5. slots # {} => Encoder!Min(slots) \in 1 .. 3 /\ recent[Encoder!Min(slots)] = distance
  <2>1. slots \in SUBSET (1 .. 3) /\ 3 \in Nat OBVIOUS
  <2>2. slots # {} => Encoder!Min(slots) \in slots
    <3> HIDE DEF slots
    <3> QED BY <2>1, MinOfIndices
  <2> QED BY <2>2
<1> SUFFICES means(raw, distance) OBVIOUS
<1> HIDE DEF means, raw, slots
<1>6. CASE q < Len(reference) /\ distance = -off
  BY <1>1, <1>2, <1>3, <1>4, <1>6
<1>7. CASE ~(q < Len(reference) /\ distance = -off) /\ slots # {}
  <2>1. raw = D!LruBase + Encoder!Min(slots) - 1 BY <1>3, <1>7
  <2>2. /\ raw \in Nat /\ raw \in D!LruBase .. D!LruBase + 2
        /\ raw - D!LruBase + 1 = Encoder!Min(slots)
    BY <1>1, <1>5, <1>7, <2>1
  <2> QED BY <1>4, <1>5, <1>7, <2>2
<1>8. CASE /\ ~(q < Len(reference) /\ distance = -off) /\ slots = {}
           /\ signed \in 0 .. D!SourceCopy - 1
  <2>1. raw = signed BY <1>3, <1>8
  <2>2. raw \in Nat /\ raw < D!SourceCopy /\ raw - OffsetBias - off = distance
    BY <1>1, <1>2, <1>8, <2>1
  <2> HIDE DEF signed, off
  <2> QED BY <1>4, <2>2
<1>9. CASE /\ ~(q < Len(reference) /\ distance = -off) /\ slots = {}
           /\ ~(signed \in 0 .. D!SourceCopy - 1)
  <2>1. raw = D!RawOffsetBase + distance BY <1>3, <1>9
  <2>2. raw \in Nat /\ raw > D!LruBase + 2 /\ raw - D!RawOffsetBase = distance
    BY <1>1, <1>2, <2>1
  <2> HIDE DEF signed, off
  <2> QED BY <1>4, <2>2
<1> QED BY <1>6, <1>7, <1>8, <1>9

\* The bytes of a match agree, and it ends with the target.
LEMMA AgreedBytes ==
  ASSUME IInv, parsed < Len(target), NEW q
  PROVE  /\ Encoder!AgreedLength(q, Encoder!Here) \in 0 .. Len(target) - parsed
         /\ \A k \in 1 .. Encoder!AgreedLength(q, Encoder!Here) :
              (reference \o target)[q + k] = (reference \o target)[Encoder!Here + k]
<1> DEFINE c     == reference \o target
           here  == Encoder!Here
           left  == Len(c) - here
           limit == Encoder!Min({MaxMatch, left})
           S     == {n \in 0 .. limit : \A k \in 1 .. n : c[q + k] = c[here + k]}
<1>1. /\ Len(c) = Len(reference) + Len(target) /\ here = Len(reference) + parsed
      /\ parsed \in 0 .. Len(target) /\ Len(reference) \in Nat /\ Len(target) \in Nat
  BY InvTypes, EncoderTypes, ConcatProperties
<1>2. left = Len(target) - parsed /\ left \in Nat \ {0} BY <1>1
<1>3. limit \in 1 .. left
  <2>1. MaxMatch \in Nat \ {0} BY CodecConstants
  <2> HIDE DEF left
  <2>2. {MaxMatch, left} \in SUBSET (1 .. MaxMatch + left) /\ {MaxMatch, left} # {}
        /\ MaxMatch + left \in Nat
    BY <1>2, <2>1
  <2>3. limit \in {MaxMatch, left} /\ limit <= left BY <2>2, MinOfIndices
  <2> QED BY <1>2, <2>1, <2>3
<1>4. Encoder!AgreedLength(q, here) = Encoder!Max(S)
  BY Zenon DEF Encoder!AgreedLength, Encoder!Combined
<1>5. limit \in Nat /\ S \in SUBSET (0 .. limit) /\ 0 \in S
  BY <1>2, <1>3
<1>6. Encoder!Max(S) \in S
  <2> HIDE DEF S
  <2> QED BY <1>5, MaxOfIndices
<1>7. /\ Encoder!AgreedLength(q, here) \in 0 .. limit
      /\ \A k \in 1 .. Encoder!AgreedLength(q, here) : c[q + k] = c[here + k]
  BY <1>4, <1>6
<1>8. Encoder!AgreedLength(q, here) \in 0 .. Len(target) - parsed
  <2> HIDE DEF limit, left, S
  <2> QED BY <1>2, <1>3, <1>7
<1> HIDE DEF limit, left, S
<1> QED BY <1>7, <1>8

\* A usable match leads from where the encoder is to where it puts itself.
LEMMA UsableMatch ==
  ASSUME IInv, parsed < Len(target), NEW m \in Encoder!UsableMatches
  PROVE  /\ m.raw \in Nat /\ m.length \in 1 .. Len(target) - parsed /\ m.distance \in Int
         /\ \A symbol \in Symbols :
              (~symbol.literal /\ symbol.raw = m.raw /\ symbol.length = m.length) =>
                 Leads([parsed |-> parsed, recent |-> recent], symbol,
                       [parsed |-> parsed + m.length,
                        recent |-> D!LruUpdate(recent, m.distance)])
<1> DEFINE here   == Encoder!Here
           buffer == reference \o target
<1>1. PICK q \in Encoder!Indexed(here) :
        /\ Encoder!AgreedLength(q, here) >= 3
        /\ m = [raw      |-> Encoder!WireOffset(q),
                length   |-> Encoder!CappedLength(Encoder!WireOffset(q),
                                                  Encoder!AgreedLength(q, here)),
                distance |-> here - q]
        /\ m.length >= 2
  BY DEF Encoder!UsableMatches
<1>2. q \in 0 .. here - 1 BY <1>1 DEF Encoder!Indexed
<1>3. /\ parsed \in 0 .. Len(target) /\ recent \in [1 .. 3 -> Int]
      /\ D!IsLookupTable(offsets) /\ here = Len(reference) + parsed /\ here \in Nat
      /\ Len(target) \in Nat /\ Len(reference) \in Nat
  BY EncoderTypes, InvTypes
<1>4. /\ m.raw \in Nat /\ WireDistance(m.raw, offsets, here, recent) = m.distance
      /\ m.distance = here - q /\ m.distance \in 1 .. here
  BY <1>1, <1>2, <1>3, WireOffsetMeansDistance
<1> DEFINE agreed == Encoder!AgreedLength(q, here)
<1>5. /\ agreed \in 3 .. Len(target) - parsed
      /\ \A k \in 1 .. agreed : buffer[q + k] = buffer[here + k]
  <2>1. /\ agreed \in 0 .. Len(target) - parsed
        /\ \A k \in 1 .. agreed : buffer[q + k] = buffer[here + k]
    BY AgreedBytes
  <2>2. agreed >= 3 BY <1>1
  <2> HIDE DEF agreed, buffer
  <2>3. agreed \in 3 .. Len(target) - parsed BY <1>3, <2>1, <2>2
  <2> QED BY <2>1, <2>3
<1>6. /\ m.length \in 2 .. agreed
      /\ m.raw = D!SourceCopy => D!UpToBreak(offsets, here, m.length) = m.length
  <2>1. /\ m.length = Encoder!CappedLength(m.raw, agreed)
        /\ m.length >= 2
    BY <1>1
  <2> HIDE DEF agreed, here
  <2>2. agreed \in Nat \ {0} BY <1>5
  <2>3. /\ D!UpToBreak(offsets, here, agreed) \in 1 .. agreed
        /\ D!UpToBreak(offsets, here, D!UpToBreak(offsets, here, agreed)) =
             D!UpToBreak(offsets, here, agreed)
    BY <1>3, <2>2, CapIsFinal
  <2>4. m.length = IF m.raw = D!SourceCopy THEN D!UpToBreak(offsets, here, agreed)
                   ELSE agreed
    BY <2>1, <2>3, SameTables DEF Encoder!CappedLength, here
  <2> QED BY <2>1, <2>2, <2>3, <2>4
<1> HIDE DEF agreed, here, buffer
<1>7. m.length \in 1 .. Len(target) - parsed BY <1>3, <1>5, <1>6, SMTT(30)
<1>8. \A k \in 1 .. m.length : buffer[here + k] = buffer[here + k - m.distance]
  <2> TAKE k \in 1 .. m.length
  <2>1. k \in 1 .. agreed BY <1>5, <1>6
  <2>2. here + k - m.distance = q + k BY <1>2, <1>3, <1>4
  <2> QED BY <1>5, <2>1, <2>2
<1>9. ASSUME NEW symbol \in Symbols,
             ~symbol.literal, symbol.raw = m.raw, symbol.length = m.length
      PROVE  Leads([parsed |-> parsed, recent |-> recent], symbol,
                   [parsed |-> parsed + m.length,
                    recent |-> D!LruUpdate(recent, m.distance)])
  <2>1. PICK before : before = [parsed |-> parsed, recent |-> recent] OBVIOUS
  <2>2. PICK after : after = [parsed |-> parsed + m.length,
                              recent |-> D!LruUpdate(recent, m.distance)]
    OBVIOUS
  <2>3. /\ before.parsed = parsed /\ before.recent = recent
        /\ after.parsed = parsed + m.length
        /\ after.recent = D!LruUpdate(recent, m.distance)
    BY <2>1, <2>2
  <2>4. Len(reference) + before.parsed = here BY <1>3, <2>3
  <2>5. DistanceFrom(before, symbol) = m.distance
    BY <1>4, <1>9, <2>3, <2>4 DEF DistanceFrom
  <2>6. Matches(before, symbol)
    <3>1. /\ symbol.raw \in Nat /\ symbol.length >= 2 /\ m.distance \in 1 .. here
          /\ \A k \in 1 .. symbol.length : buffer[here + k] = buffer[here + k - m.distance]
          /\ symbol.raw = D!SourceCopy =>
               D!UpToBreak(offsets, here, symbol.length) = symbol.length
      BY <1>4, <1>5, <1>6, <1>8, <1>9
    <3> QED BY <2>4, <2>5, <3>1 DEF Matches, buffer
  <2>7. Leads(before, symbol, after)
    BY <1>3, <1>7, <1>9, <2>3, <2>5, <2>6 DEF Leads
  <2> QED BY <2>1, <2>2, <2>7
<1> QED BY <1>4, <1>7, <1>9
-----------------------------------------------------------------------------
(***************************************************************************)
(* Parsing, splitting and writing keep the invariant.                      *)
(***************************************************************************)
LEMMA LiteralKeeps ==
  ASSUME IInv, Encode, Encoder!EmitLiteral
  PROVE  CodecInv'
<1>1. PICK trace : InStep(trace) BY DEF IInv, CodecInv
<1>2. ~Encoded BY DEF IInv, CodecInv, Written, Encoder!EmitLiteral
<1>3. /\ parsed \in 0 .. Len(target) /\ recent \in [1 .. 3 -> Int]
      /\ parsed < Len(target) /\ Len(target) \in Nat
      /\ \A i \in 1 .. Len(target) : target[i] \in Bytes
  BY EncoderTypes, InvTypes DEF Encoder!EmitLiteral
<1>4. PICK symbol : symbol = [literal |-> TRUE, raw |-> target[parsed + 1], length |-> 1]
  OBVIOUS
<1>5. PICK point : point = [parsed |-> parsed + 1, recent |-> recent] OBVIOUS
<1>6. symbol \in Symbols BY <1>3, <1>4 DEF Symbols
<1>7. point \in Points BY <1>3, <1>5 DEF Points
<1>8. Leads(trace[Len(symbols)], symbol, point)
  BY <1>1, <1>3, <1>4, <1>5 DEF InStep, EncoderAt, Leads
<1>9. /\ symbols' = Append(symbols, symbol)
      /\ parsed' = point.parsed /\ recent' = point.recent
      /\ UNCHANGED <<reference, rift, target, offsets, split, stream, boundaries>>
  BY <1>4, <1>5 DEF Encoder!EmitLiteral, Encoder!inputs
<1>10. UNCHANGED <<output, lru, walk, status, readPos, segment>> BY EncodeLeavesInputs
<1> QED BY <1>1, <1>2, <1>6, <1>7, <1>8, <1>9, <1>10, SymbolAdded

\* A match is one more symbol of the trace.
LEMMA MatchKeeps ==
  ASSUME IInv, Encode, NEW m \in Encoder!UsableMatches, Encoder!EmitMatch(m)
  PROVE  CodecInv'
<1>1. PICK trace : InStep(trace) BY DEF IInv, CodecInv
<1>2. ~Encoded BY DEF IInv, CodecInv, Written, Encoder!EmitMatch
<1>3. /\ parsed \in 0 .. Len(target) /\ recent \in [1 .. 3 -> Int]
      /\ parsed < Len(target) /\ Len(target) \in Nat
  BY EncoderTypes, InvTypes DEF Encoder!EmitMatch
<1>4. PICK symbol : symbol = [literal |-> FALSE, raw |-> m.raw, length |-> m.length]
  OBVIOUS
<1>5. PICK point : point = [parsed |-> parsed + m.length,
                            recent |-> D!LruUpdate(recent, m.distance)]
  OBVIOUS
<1>6. m.raw \in Nat /\ m.length \in 1 .. Len(target) - parsed /\ m.distance \in Int
  BY <1>3, UsableMatch
<1>7. symbol \in Symbols BY <1>3, <1>4, <1>6 DEF Symbols
<1>8. point \in Points
  <2>1. D!LruUpdate(recent, m.distance) \in [1 .. 3 -> Int]
    BY <1>3, <1>6 DEF D!LruUpdate
  <2> QED BY <1>3, <1>5, <1>6, <2>1 DEF Points
<1>9. Leads(trace[Len(symbols)], symbol, point)
  <2>1. trace[Len(symbols)] = [parsed |-> parsed, recent |-> recent]
    BY <1>1 DEF InStep, EncoderAt
  <2>2. ~symbol.literal /\ symbol.raw = m.raw /\ symbol.length = m.length BY <1>4
  <2> QED BY <1>3, <1>5, <1>7, <2>1, <2>2, UsableMatch
<1>10. /\ symbols' = Append(symbols, symbol)
       /\ parsed' = point.parsed /\ recent' = point.recent
       /\ UNCHANGED <<reference, rift, target, offsets, split, stream, boundaries>>
  BY <1>4, <1>5, SameTables DEF Encoder!EmitMatch, Encoder!inputs
<1>11. UNCHANGED <<output, lru, walk, status, readPos, segment>> BY EncodeLeavesInputs
<1> QED BY <1>1, <1>2, <1>7, <1>8, <1>9, <1>10, <1>11, SymbolAdded

\* A boundary is put at the point behind the symbol that fills the segment.
LEMMA SplitKeeps ==
  ASSUME IInv, Encode, Encoder!SplitAtSymbol
  PROVE  CodecInv'
<1> DEFINE n     == split.seen + 1
           total == split.total + symbols[n].length
           K     == Len(split.starts)
<1>1. PICK trace : InStep(trace) BY DEF IInv, CodecInv
<1>2. /\ IsTrace(trace) /\ EncoderAt(trace) /\ SplitAt(trace) /\ DecoderAt(trace)
      /\ symbols \in Seq(Symbols) /\ target \in Targets /\ Written /\ status # "err"
      /\ Len(symbols) \in Nat /\ Len(reference) \in Nat /\ Len(target) \in Nat
  BY <1>1, InvTypes DEF IInv, CodecInv, InStep
<1>3. ~Encoded /\ status = "header" /\ stream = <<>>
  BY <1>2 DEF Encoder!SplitAtSymbol, Written
<1>4. /\ UNCHANGED <<reference, rift, target, offsets, parsed, recent, symbols, stream,
                     boundaries>>
      /\ UNCHANGED <<output, lru, walk, status, readPos, segment>>
  BY EncodeLeavesInputs DEF Encoder!SplitAtSymbol, Encoder!inputs
<1>5. /\ split.seen \in 0 .. Len(symbols) /\ split.seen < Len(symbols)
      /\ n \in 1 .. Len(symbols)
  BY <1>2 DEF SplitAt, Encoder!SplitAtSymbol, Encoder!ToSplit
<1>6. total = trace[n].parsed /\ total \in Nat
  <2>1. Leads(trace[n - 1], symbols[n], trace[n]) BY <1>2, <1>5 DEF IsTrace
  <2>2. trace[n] \in Points BY <1>2, <1>5 DEF IsTrace
  <2>3. n - 1 = split.seen BY <1>5
  <2>4. split.total = trace[n - 1].parsed BY <1>2, <2>3 DEF SplitAt
  <2> HIDE DEF n
  <2>5. total = trace[n].parsed BY <2>1, <2>4 DEF Leads
  <2> QED BY <1>2, <2>2, <2>5 DEF Points
<1>7. /\ split.starts \in Seq(Nat) /\ split.bounds \in Seq(Nat)
      /\ K \in Nat /\ K > 0 /\ Len(split.bounds) = K
  BY <1>2, LenProperties DEF SplitAt
<1>8. split'.seen = n /\ split'.total = total
      /\ \/ split'.starts = split.starts /\ split'.bounds = split.bounds
         \/ /\ split'.starts = Append(split.starts, n + 1)
            /\ split'.bounds = Append(split.bounds, Len(reference) + total)
  <2>1. split' = (IF split.filled + symbols[n].length >= SegmentSize
                     /\ Len(split.starts) < MaxSegments
                  THEN [bounds |-> Append(split.bounds, Len(reference) + total),
                        starts |-> Append(split.starts, n + 1),
                        total |-> total, filled |-> 0, seen |-> n]
                  ELSE [split EXCEPT !.total = total,
                          !.filled = split.filled + symbols[n].length, !.seen = n])
    BY DEF Encoder!SplitAtSymbol
  <2> QED BY <2>1
<1> HIDE DEF total
<1>9. SplitAt(trace)'
  <2>1. /\ split.starts[1] = 1
        /\ \A s, t \in 1 .. K : s < t => split.starts[s] < split.starts[t]
        /\ \A s \in 1 .. K :
             /\ split.starts[s] \in 1 .. n
             /\ split.bounds[s] = Len(reference) + trace[split.starts[s] - 1].parsed
    BY <1>2 DEF SplitAt
  <2>2. \A s \in 1 .. K : split.starts[s] \in 1 .. n + 1
    BY <1>5, <2>1
  <2> HIDE DEF n
  <2>3. CASE split'.starts = split.starts /\ split'.bounds = split.bounds
    BY <1>2, <1>4, <1>5, <1>6, <1>7, <1>8, <2>1, <2>2, <2>3 DEF SplitAt
  <2>4. CASE /\ split'.starts = Append(split.starts, n + 1)
             /\ split'.bounds = Append(split.bounds, Len(reference) + total)
    <3>1. /\ split'.starts \in Seq(Nat) /\ Len(split'.starts) = K + 1
          /\ \A s \in 1 .. K : split'.starts[s] = split.starts[s]
          /\ split'.starts[K + 1] = n + 1
      <4>1. n + 1 \in Nat BY <1>5
      <4> QED BY <1>7, <2>4, <4>1, AppendProperties
    <3>2. /\ split'.bounds \in Seq(Nat) /\ Len(split'.bounds) = K + 1
          /\ \A s \in 1 .. K : split'.bounds[s] = split.bounds[s]
          /\ split'.bounds[K + 1] = Len(reference) + total
      <4>1. Len(reference) + total \in Nat BY <1>2, <1>6
      <4> QED BY <1>7, <2>4, <4>1, AppendProperties, SMTT(30)
    <3> HIDE DEF K
    <3>3. 1 \in 1 .. K /\ \A s \in 1 .. K + 1 : s \in 1 .. K \/ s = K + 1 BY <1>7
    <3>4. ASSUME NEW s \in 1 .. K + 1, NEW t \in 1 .. K + 1, s < t
          PROVE  split'.starts[s] < split'.starts[t]
      <4>1. s \in 1 .. K BY <1>7, <3>4
      <4>2. CASE t \in 1 .. K BY <2>1, <3>1, <3>4, <4>1, <4>2
      <4>3. CASE t = K + 1 BY <1>5, <2>1, <3>1, <4>1, <4>3, SMTT(30)
      <4> QED BY <3>3, <4>2, <4>3
    <3>5. ASSUME NEW s \in 1 .. K + 1
          PROVE  /\ split'.starts[s] \in 1 .. n + 1
                 /\ split'.bounds[s] = Len(reference) + trace[split'.starts[s] - 1].parsed
      <4>1. CASE s \in 1 .. K BY <2>1, <2>2, <3>1, <3>2, <4>1
      <4>2. CASE s = K + 1
        <5>1. split'.starts[s] = n + 1 /\ (n + 1) - 1 = n /\ n + 1 \in 1 .. n + 1
          BY <1>5, <3>1, <4>2
        <5> QED BY <1>6, <3>2, <4>2, <5>1
      <4> QED BY <3>3, <4>1, <4>2
    <3>6. split'.starts[1] = 1 BY <2>1, <3>1, <3>3
    <3> QED BY <1>2, <1>4, <1>5, <1>6, <1>7, <1>8, <3>1, <3>2, <3>4, <3>5, <3>6 DEF SplitAt
  <2> QED BY <1>8, <2>3, <2>4
<1>10. IsTrace(trace)' /\ EncoderAt(trace)'
  BY <1>2, <1>4, SameMeaning DEF IsTrace, EncoderAt
<1>11. DecoderAt(trace)'
  <2>1. segment \in 1 .. Len(split'.starts) /\ split'.starts[segment] <= readPos + 1
    <3>1. segment \in 1 .. K /\ split.starts[segment] <= readPos + 1
      BY <1>2 DEF DecoderAt
    <3>2. CASE split'.starts = split.starts BY <3>1, <3>2
    <3>3. CASE split'.starts = Append(split.starts, n + 1)
      <4>1. n + 1 \in Nat BY <1>5
      <4>2. /\ Len(split'.starts) = K + 1
            /\ \A s \in 1 .. K : split'.starts[s] = split.starts[s]
        BY <1>7, <3>3, <4>1, AppendProperties
      <4> HIDE DEF K, n
      <4> QED BY <1>7, <3>1, <4>2
    <3> QED BY <1>8, <3>2, <3>3
  <2> QED BY <1>2, <1>3, <1>4, <2>1 DEF DecoderAt
<1>12. Written' BY <1>3, <1>4 DEF Written, Encoded
<1> QED BY <1>2, <1>4, <1>9, <1>10, <1>11, <1>12 DEF CodecInv, InStep

\* Writing fixes the stream and the boundaries as they were found.
LEMMA WriteKeeps ==
  ASSUME IInv, Encode, Encoder!Write
  PROVE  CodecInv'
<1>1. PICK trace : InStep(trace) BY DEF IInv, CodecInv
<1>2. /\ UNCHANGED <<reference, rift, target, offsets, parsed, recent, symbols, split>>
      /\ UNCHANGED <<output, lru, walk, status, readPos, segment>>
      /\ ~Encoded /\ status = "header"
      /\ symbols \in Seq(Symbols) /\ target \in Targets
  BY EncodeLeavesInputs DEF Encoder!Write, Encoder!inputs, Encoded, IInv, CodecInv, Written
<1>3. IsTrace(trace)' /\ EncoderAt(trace)' /\ SplitAt(trace)'
  <2>1. IsTrace(trace)' BY <1>1, <1>2, SameMeaning DEF InStep, IsTrace
  <2>2. EncoderAt(trace)' BY <1>1, <1>2 DEF InStep, EncoderAt
  <2>3. SplitAt(trace)' BY <1>1, <1>2 DEF InStep, SplitAt
  <2> QED BY <2>1, <2>2, <2>3
<1>4. DecoderAt(trace)'
  BY <1>1, <1>2 DEF InStep, DecoderAt
<1>5. Written'
  <2>1. parsed' = Len(target') /\ ~Encoder!ToSplit'
    BY <1>2 DEF Encoder!Write, Encoder!Parsed, Encoder!ToSplit
  <2>2. boundaries' = split'.bounds BY <1>2 DEF Encoder!Write
  <2>3. stream' = [k \in 1 .. Len(symbols) |->
                     [symbol |-> symbols[k], tables |-> Encoder!SegmentOf(k)]]
    <3>1. DOMAIN symbols = 1 .. Len(symbols) BY <1>2, LenProperties
    <3> QED BY <3>1 DEF Encoder!Write
  <2>4. \A k : Encoder!SegmentOf(k)' = Encoder!SegmentOf(k)
    BY <1>2 DEF Encoder!SegmentOf, Encoder!Max
  <2>5. (stream = [k \in 1 .. Len(symbols) |->
                     [symbol |-> symbols[k], tables |-> Encoder!SegmentOf(k)]])'
    BY <1>2, <2>3, <2>4
  <2>6. Encoded'
    <3>1. Len(split.bounds) > 0 BY <1>1 DEF InStep, SplitAt
    <3>2. split.bounds # <<>> BY <3>1
    <3> QED BY <1>2, <2>2, <3>2 DEF Encoded
  <2> QED BY <2>1, <2>2, <2>5, <2>6 DEF Written
<1> QED BY <1>2, <1>3, <1>4, <1>5 DEF CodecInv, InStep

\* So each step of the encoder keeps the invariant.
LEMMA EncodeKeeps ==
  ASSUME IInv, Encode
  PROVE  CodecInv'
BY LiteralKeeps, MatchKeeps, SplitKeeps, WriteKeeps DEF Encode, Encoder!Next
-----------------------------------------------------------------------------
(***************************************************************************)
(* The segment found by output position is the one found by symbol count:  *)
(* the positions on the trace grow strictly with the number of symbols.    *)
(***************************************************************************)
LEMMA SegmentIsTables ==
  ASSUME IInv, Encoded, status = "symbol", readPos < Len(stream)
  PROVE  /\ readPos + 1 \in 1 .. Len(symbols)
         /\ stream[readPos + 1] = [symbol |-> symbols[readPos + 1],
                                   tables |-> Encoder!SegmentOf(readPos + 1)]
         /\ SegmentAt(segment, pos) = Encoder!SegmentOf(readPos + 1)
         /\ SegmentAt(segment, pos) \in 1 .. Len(split.starts)
         /\ split.starts[SegmentAt(segment, pos)] <= readPos + 1
<1> DEFINE n  == readPos + 1
           K  == Len(split.starts)
           S  == {s \in 1 .. K : split.starts[s] <= n}
           mx == Encoder!Max(S)
<1>1. PICK trace : InStep(trace) BY DEF IInv, CodecInv
<1>2. /\ IsTrace(trace) /\ SplitAt(trace) /\ DecoderAt(trace) /\ Written
      /\ Len(symbols) \in Nat /\ Len(reference) \in Nat /\ Len(target) \in Nat
      /\ D!PositionTracksOutput
  BY <1>1, InvTypes DEF IInv, CodecInv, InStep, D!IInv
<1>16. Len(symbols) \in Nat /\ Len(reference) \in Nat BY InvTypes
<1>3. /\ stream = [k \in 1 .. Len(symbols) |->
                     [symbol |-> symbols[k], tables |-> Encoder!SegmentOf(k)]]
      /\ boundaries = split.bounds
  BY <1>2 DEF Written
<1>4. n \in 1 .. Len(symbols) /\ readPos \in 0 .. Len(symbols)
  <2>1. Len(stream) = Len(symbols) BY <1>2, <1>3
  <2> QED BY <1>2, <2>1 DEF DecoderAt
<1>5. /\ K \in Nat /\ K > 0 /\ Len(boundaries) = K
      /\ \A s \in 1 .. K : /\ split.starts[s] \in 1 .. Len(symbols) + 1
                           /\ split.starts[s] - 1 \in 0 .. Len(symbols)
                           /\ boundaries[s] = Len(reference) + trace[split.starts[s] - 1].parsed
      /\ \A s, t \in 1 .. K : s < t => split.starts[s] < split.starts[t]
      /\ split.starts[1] = 1
  <2>1. /\ K > 0 /\ Len(split.bounds) = K /\ split.starts \in Seq(Nat)
        /\ split.seen \in 0 .. Len(symbols) /\ split.starts[1] = 1
        /\ \A s, t \in 1 .. K : s < t => split.starts[s] < split.starts[t]
        /\ \A s \in 1 .. K :
             /\ split.starts[s] \in 1 .. split.seen + 1
             /\ split.bounds[s] = Len(reference) + trace[split.starts[s] - 1].parsed
    BY <1>2 DEF SplitAt
  <2>2. K \in Nat BY <2>1, LenProperties
  <2> HIDE DEF K
  <2>3. \A s \in 1 .. K : /\ split.starts[s] \in 1 .. Len(symbols) + 1
                          /\ split.starts[s] - 1 \in 0 .. Len(symbols)
    BY <1>16, <2>1, SMTT(30)
  <2> QED BY <1>3, <2>1, <2>2, <2>3
<1>6. \A k \in 0 .. Len(symbols) : trace[k].parsed \in Nat
  <2> TAKE k \in 0 .. Len(symbols)
  <2>1. trace[k] \in Points BY <1>2 DEF IsTrace
  <2>2. trace[k].parsed \in 0 .. Len(target) BY <2>1 DEF Points
  <2> QED BY <1>2, <2>2
<1>17. \A s \in 1 .. K : boundaries[s] \in Nat
  <2> TAKE s \in 1 .. K
  <2>1. trace[split.starts[s] - 1].parsed \in Nat BY <1>5, <1>6
  <2>2. boundaries[s] = Len(reference) + trace[split.starts[s] - 1].parsed BY <1>5
  <2> QED BY <1>16, <2>1, <2>2
<1>7. pos = Len(reference) + trace[readPos].parsed
  <2>1. Len(output) = trace[readPos].parsed
    BY <1>2, <1>4, <1>6 DEF DecoderAt
  <2> QED BY <1>2, <2>1 DEF D!PositionTracksOutput
<1>0. pos \in Nat
  <2>1. trace[readPos].parsed \in Nat BY <1>4, <1>6
  <2> QED BY <1>2, <1>7, <2>1
<1>8. segment \in 1 .. K /\ split.starts[segment] <= n BY <1>2 DEF DecoderAt
<1> HIDE DEF K
<1>9. \A s \in 1 .. K : (pos >= boundaries[s]) <=> (split.starts[s] <= n)
  <2> TAKE s \in 1 .. K
  <2> DEFINE k == split.starts[s] - 1
  <2>1. k \in 0 .. Len(symbols) /\ split.starts[s] = k + 1 BY <1>5
  <2>2. boundaries[s] = Len(reference) + trace[k].parsed BY <1>5
  <2>3. \A i, j \in 0 .. Len(symbols) : i < j => trace[i].parsed < trace[j].parsed
    BY <1>2 DEF IsTrace
  <2> HIDE DEF k
  <2>4. (trace[readPos].parsed >= trace[k].parsed) <=> (k <= readPos)
    <3>1. CASE k < readPos BY <1>4, <1>6, <2>1, <2>3, <3>1
    <3>2. CASE k = readPos BY <1>4, <1>6, <2>1, <3>2
    <3>3. CASE readPos < k BY <1>4, <1>6, <2>1, <2>3, <3>3
    <3> QED BY <1>4, <2>1, <3>1, <3>2, <3>3
  <2>5. (pos >= boundaries[s]) <=> (trace[readPos].parsed >= trace[k].parsed)
    <3>1. trace[readPos].parsed \in Nat /\ trace[k].parsed \in Nat BY <1>4, <1>6, <2>1
    <3> QED BY <1>2, <1>7, <2>2, <3>1, SMTT(30)
  <2>6. (split.starts[s] <= n) <=> (k <= readPos) BY <1>4, <2>1
  <2> QED BY <2>4, <2>5, <2>6
<1>10. mx \in S /\ \A s \in S : s <= mx
  <2>1. S \in SUBSET (0 .. K) /\ segment \in S BY <1>5, <1>8
  <2> HIDE DEF S
  <2> QED BY <1>5, <2>1, MaxOfIndices
<1>11. Encoder!SegmentOf(n) = mx
  <2>1. DOMAIN split.starts = 1 .. K BY <1>2, LenProperties DEF SplitAt, K
  <2> QED BY <2>1, Zenon DEF Encoder!SegmentOf
<1> DEFINE Found(s) == /\ \A t \in segment + 1 .. s : pos >= boundaries[t]
                       /\ s < Len(boundaries) => pos < boundaries[s + 1]
<1>12. mx \in segment .. K /\ mx \in 1 .. K /\ split.starts[mx] <= n
  <2>1. segment \in S BY <1>8
  <2>2. mx \in 1 .. K /\ split.starts[mx] <= n BY <1>10
  <2>3. segment <= mx BY <1>10, <2>1
  <2> HIDE DEF mx, S
  <2> QED BY <1>5, <1>8, <2>2, <2>3
<1>13. Found(mx)
  <2>1. ASSUME NEW t \in segment + 1 .. mx PROVE pos >= boundaries[t]
    <3>1. t \in 1 .. K /\ (t = mx \/ t < mx)
      <4> HIDE DEF mx
      <4> QED BY <1>5, <1>8, <1>12
    <3>2. split.starts[t] <= split.starts[mx]
      <4> HIDE DEF mx
      <4> QED BY <1>5, <1>12, <3>1
    <3>3. split.starts[t] <= n
      <4> HIDE DEF mx
      <4> QED BY <1>4, <1>5, <1>12, <3>1, <3>2, SMTT(30)
    <3> QED BY <1>9, <3>1, <3>3
  <2>2. ASSUME mx < Len(boundaries) PROVE pos < boundaries[mx + 1]
    <3>1. mx + 1 \in 1 .. K /\ mx + 1 > mx
      <4> HIDE DEF mx
      <4> QED BY <1>5, <1>12, <2>2
    <3>2. mx + 1 \notin S
      <4> HIDE DEF S, mx
      <4> QED BY <1>10, <1>12, <3>1
    <3>3. ~(split.starts[mx + 1] <= n) BY <3>1, <3>2
    <3>4. ~(pos >= boundaries[mx + 1]) BY <1>9, <3>1, <3>3
    <3>5. boundaries[mx + 1] \in Int /\ pos \in Int
      <4> HIDE DEF mx
      <4> QED BY <1>0, <1>17, <3>1
    <3> QED BY <3>4, <3>5
  <2> QED BY <2>1, <2>2
<1>14. ASSUME NEW s \in segment .. K, Found(s) PROVE s = mx
  <2> HIDE DEF mx, n
  <2>1. s \in 1 .. K BY <1>5, <1>8
  <2>2. split.starts[s] <= n
    <3>1. CASE s = segment BY <1>8, <3>1
    <3>2. CASE s # segment
      <4>1. s \in segment + 1 .. s BY <1>5, <1>8, <3>2
      <4> QED BY <1>9, <1>14, <2>1, <4>1
    <3> QED BY <3>1, <3>2
  <2>3. s <= mx
    <3>1. s \in S BY <2>1, <2>2
    <3> HIDE DEF S
    <3> QED BY <1>10, <3>1
  <2>4. ASSUME s < mx PROVE FALSE
    <3>1. s + 1 \in 1 .. K /\ (s + 1 = mx \/ s + 1 < mx) BY <1>5, <1>12, <2>1, <2>4
    <3>2. split.starts[s + 1] <= split.starts[mx] BY <1>5, <1>12, <3>1, SMTT(30)
    <3>3. split.starts[s + 1] <= n
      <4>1. n \in Int BY <1>4
      <4> QED BY <1>5, <1>12, <3>1, <3>2, <4>1, SMTT(30)
    <3>4. pos >= boundaries[s + 1] BY <1>9, <3>1, <3>3
    <3>5. pos < boundaries[s + 1] BY <1>5, <1>14, <2>1, <3>1
    <3>6. boundaries[s + 1] \in Int /\ pos \in Int
      <4> QED BY <1>0, <1>17, <3>1
    <3> QED BY <3>4, <3>5, <3>6
  <2> QED BY <1>12, <2>1, <2>3, <2>4
<1>15. SegmentAt(segment, pos) = mx
  <2>1. SegmentAt(segment, pos) = CHOOSE s \in segment .. K : Found(s)
    BY <1>5 DEF SegmentAt
  <2> HIDE DEF Found, mx
  <2> QED BY <1>12, <1>13, <1>14, <2>1
<1> HIDE DEF mx
<1> QED BY <1>3, <1>4, <1>11, <1>12, <1>15 DEF K
-----------------------------------------------------------------------------
(***************************************************************************)
(* The decoder's steps.                                                    *)
(***************************************************************************)
\* Where the decoder is, in numbers.
LEMMA DecoderPlace ==
  ASSUME IInv, Encoded, NEW trace, InStep(trace)
  PROVE  /\ readPos \in 0 .. Len(symbols) /\ Len(output) \in Nat /\ walk.left \in Nat
         /\ \A k \in 0 .. Len(symbols) :
              trace[k].parsed \in 0 .. Len(target) /\ trace[k].recent \in [1 .. 3 -> Int]
         /\ \A k \in 0 .. Len(symbols) :
              (trace[k].parsed >= Len(target)) <=> (k = Len(symbols))
         /\ Len(output) + walk.left = trace[readPos].parsed
         /\ status \in {"symbol", "ok"} => walk.left = 0
         /\ status = "symbol" => pos = Len(reference) + trace[readPos].parsed
         /\ status = "copy" => /\ walk.at = Len(reference) + Len(output)
                               /\ walk.left > 0
         /\ Len(stream) = Len(symbols)
<1>1. /\ IsTrace(trace) /\ EncoderAt(trace) /\ DecoderAt(trace) /\ Written
      /\ D!PositionTracksOutput /\ D!TypeOK
  BY DEF IInv, CodecInv, InStep, D!IInv
<1>2. Len(symbols) \in Nat /\ Len(reference) \in Nat /\ Len(target) \in Nat BY InvTypes
<1>3. readPos \in 0 .. Len(symbols) BY <1>1 DEF DecoderAt
<1>4. Len(output) \in Nat /\ walk.left \in Nat BY <1>1, LenProperties DEF D!TypeOK
<1>5. ASSUME NEW k \in 0 .. Len(symbols)
      PROVE  trace[k].parsed \in 0 .. Len(target) /\ trace[k].recent \in [1 .. 3 -> Int]
  <2>1. trace[k] \in Points BY <1>1 DEF IsTrace
  <2> QED BY <2>1 DEF Points
<1>6. trace[Len(symbols)].parsed = Len(target) BY <1>1 DEF EncoderAt, Written
<1>7. ASSUME NEW k \in 0 .. Len(symbols), trace[k].parsed >= Len(target)
      PROVE  k = Len(symbols)
  <2> SUFFICES ASSUME k < Len(symbols) PROVE FALSE BY <1>2
  <2>1. Len(symbols) \in 0 .. Len(symbols) BY <1>2
  <2>2. trace[k].parsed < trace[Len(symbols)].parsed BY <1>1, <2>1 DEF IsTrace
  <2> QED BY <1>2, <1>5, <1>6, <1>7, <2>2
<1>8. \A k \in 0 .. Len(symbols) : (trace[k].parsed >= Len(target)) <=> (k = Len(symbols))
  BY <1>2, <1>6, <1>7
<1>9. Len(output) + walk.left = trace[readPos].parsed
  <2>1. Len(output) = trace[readPos].parsed - walk.left BY <1>1 DEF DecoderAt
  <2>2. trace[readPos].parsed \in Int BY <1>2, <1>3, <1>5
  <2> QED BY <1>4, <2>1, <2>2
<1>10. status \in {"symbol", "ok"} => walk.left = 0 BY <1>1 DEF DecoderAt
<1>11. /\ status = "symbol" => pos = Len(reference) + Len(output)
       /\ status = "copy" => walk.at = Len(reference) + Len(output) /\ walk.left > 0
  BY <1>1 DEF D!PositionTracksOutput
<1>12. status = "symbol" => pos = Len(reference) + trace[readPos].parsed
  BY <1>4, <1>9, <1>10, <1>11
<1>13. Len(stream) = Len(symbols) BY <1>1, <1>2 DEF Written
<1> QED BY <1>3, <1>4, <1>5, <1>8, <1>9, <1>10, <1>11, <1>12, <1>13

\* The encoder's side of the invariant does not see the decoder move.
LEMMA EncoderStays ==
  ASSUME IInv, Decode, UNCHANGED <<reference, rift>>, status' # "err",
         NEW trace, InStep(trace), DecoderAt(trace)'
  PROVE  CodecInv'
<1>1. /\ UNCHANGED <<reference, rift, target, encoderVars>>
      /\ UNCHANGED <<symbols, boundaries, stream, parsed, split>> /\ Encoded
  BY DEF Decode, encoderVars
<1>2. IsTrace(trace)' /\ EncoderAt(trace)' /\ SplitAt(trace)'
  BY <1>1, SameTrace DEF InStep
<1>3. Written'
  <2>1. \A k : Encoder!SegmentOf(k)' = Encoder!SegmentOf(k)
    BY <1>1 DEF Encoder!SegmentOf, Encoder!Max
  <2>2. Encoder!ToSplit' = Encoder!ToSplit BY <1>1 DEF Encoder!ToSplit
  <2>3. Encoded' BY <1>1 DEF Encoded
  <2>4. Written BY DEF IInv, CodecInv
  <2> QED BY <1>1, <2>1, <2>2, <2>3, <2>4 DEF Written
<1>4. target' \in Targets /\ symbols' \in Seq(Symbols) BY <1>1 DEF IInv, CodecInv
<1> QED BY <1>2, <1>3, <1>4 DEF CodecInv, InStep

\* Reading the header puts the decoder at the start of the trace.
LEMMA HeaderKeeps ==
  ASSUME IInv, Decode, D!ReadHeader, UNCHANGED <<readPos, segment>>
  PROVE  CodecInv'
<1>1. PICK trace : InStep(trace) BY DEF IInv, CodecInv
<1>2. /\ IsTrace(trace) /\ EncoderAt(trace) /\ DecoderAt(trace) BY <1>1 DEF InStep
<1>3. /\ status = "header" /\ status' = "symbol" /\ ort' = offsets
      /\ UNCHANGED <<reference, rift, output, lru, walk>>
  BY <1>2 DEF D!ReadHeader, D!inputs, EncoderAt
<1>4. UNCHANGED <<target, symbols, split, offsets, recent>> BY DEF Decode, encoderVars
<1>5. readPos = 0 /\ walk.left = 0 /\ lru = trace[readPos].recent
  BY <1>2, <1>3 DEF DecoderAt, IsTrace
<1>6. DecoderAt(trace)' BY <1>2, <1>3, <1>4, <1>5 DEF DecoderAt
<1> QED BY <1>1, <1>3, <1>6, EncoderStays

\* The stream ends exactly where the target does, so reading never fails.
LEMMA NeverExhausted ==
  ASSUME IInv, Encoded, status = "symbol", readPos = Len(stream)
  PROVE  ~(pos < D!End)
<1>1. PICK trace : InStep(trace) BY DEF IInv, CodecInv
<1>2. trace[readPos].parsed \in 0 .. Len(target) /\ trace[readPos].parsed >= Len(target)
      /\ pos = Len(reference) + trace[readPos].parsed
  BY <1>1, DecoderPlace
<1> QED BY <1>2, InvTypes

\* Reading a symbol takes the decoder one point further.
LEMMA SymbolKeeps ==
  ASSUME IInv, Decode, ReadSymbol
  PROVE  CodecInv'
<1> DEFINE n      == readPos + 1
           symbol == symbols[n]
<1>1. PICK trace : InStep(trace) BY DEF IInv, CodecInv
<1>2. /\ IsTrace(trace) /\ EncoderAt(trace) /\ SplitAt(trace) /\ DecoderAt(trace)
      /\ Encoded /\ readPos < Len(stream)
  BY <1>1 DEF InStep, Decode, ReadSymbol
<1>3. \/ stream[n].symbol.literal /\ D!ReadLiteral(stream[n].symbol.raw)
      \/ /\ ~stream[n].symbol.literal
         /\ D!ReadMatch(stream[n].symbol.raw, stream[n].symbol.length)
  BY SameActions DEF ReadSymbol, NextSymbol
<1>4. status = "symbol" /\ pos < D!End BY <1>3 DEF D!ReadLiteral, D!ReadMatch
<1>5. /\ n \in 1 .. Len(symbols) /\ stream[n].symbol = symbol
      /\ SegmentAt(segment, pos) \in 1 .. Len(split.starts)
      /\ split.starts[SegmentAt(segment, pos)] <= n
  BY <1>2, <1>4, SegmentIsTables
<1>6. /\ readPos' = n /\ segment' = SegmentAt(segment, pos)
      /\ UNCHANGED <<target, offsets, symbols, split, recent>>
  BY DEF ReadSymbol, Decode, encoderVars
<1>7. /\ Len(symbols) \in Nat /\ Len(reference) \in Nat /\ Len(target) \in Nat
      /\ readPos \in 0 .. Len(symbols) /\ Len(output) \in Nat
      /\ output \in Seq(Bytes) /\ walk.left = 0
      /\ Len(output) = trace[readPos].parsed
      /\ pos = Len(reference) + trace[readPos].parsed
      /\ D!End = Len(reference) + Len(target)
      /\ lru = trace[readPos].recent /\ ort = offsets
  <2>1. output \in Seq(Bytes) BY DEF IInv, D!IInv, D!TypeOK
  <2>2. lru = trace[readPos].recent /\ ort = offsets BY <1>2, <1>4 DEF DecoderAt
  <2> QED BY <1>1, <1>2, <1>4, <2>1, <2>2, InvTypes, DecoderPlace
<1>8. Leads(trace[readPos], symbol, trace[n]) /\ trace[n].parsed \in 0 .. Len(target)
  <2>1. n - 1 = readPos /\ n \in 0 .. Len(symbols) BY <1>5, <1>7
  <2>2. Leads(trace[n - 1], symbols[n], trace[n]) BY <1>2, <1>5 DEF IsTrace
  <2> QED BY <1>1, <1>2, <2>1, <2>2, DecoderPlace
<1>9. \A i \in 1 .. Len(output) : output[i] = target[i] BY <1>2 DEF DecoderAt
<1>10. /\ readPos' \in 0 .. Len(symbols') /\ segment' \in 1 .. Len(split'.starts)
       /\ split'.starts[segment'] <= readPos' + 1
  <2>1. split.starts[SegmentAt(segment, pos)] \in Nat
    <3>1. split.starts \in Seq(Nat) BY <1>2 DEF SplitAt
    <3> QED BY <1>5, <3>1, ElementOfSeq
  <2>2. n \in 0 .. Len(symbols) /\ split.starts[SegmentAt(segment, pos)] <= n + 1
    BY <1>5, <1>7, <2>1
  <2> QED BY <1>5, <1>6, <2>2
<1> HIDE DEF n, symbol
<1>11. CASE symbol.literal
  <2>1. D!ReadLiteral(symbol.raw) BY <1>3, <1>5, <1>11
  <2>2. /\ output' = Append(output, symbol.raw) /\ status' = "symbol"
        /\ UNCHANGED <<reference, rift, ort, lru, walk>>
    BY <1>4, <2>1 DEF D!ReadLiteral, D!inputs
  <2>3. /\ symbol.length = 1 /\ trace[n].parsed = trace[readPos].parsed + 1
        /\ symbol.raw = target[trace[n].parsed] /\ trace[n].recent = trace[readPos].recent
    BY <1>8, <1>11 DEF Leads
  <2>4. symbol.raw \in Bytes
    <3>1. symbol.literal => symbol.raw \in Bytes BY <1>5, SymbolsReadable DEF symbol
    <3> QED BY <1>11, <3>1
  <2>5. /\ Len(output') = Len(output) + 1
        /\ \A i \in 1 .. Len(output) : output'[i] = output[i]
        /\ output'[Len(output) + 1] = symbol.raw
    BY <1>7, <2>2, <2>4, AppendProperties
  <2>6. \A i \in 1 .. Len(output') : output'[i] = target'[i]
    <3> TAKE i \in 1 .. Len(output')
    <3>1. i \in 1 .. Len(output) \/ i = Len(output) + 1 BY <1>7, <2>5
    <3>2. CASE i \in 1 .. Len(output) BY <1>6, <1>9, <2>5, <3>2
    <3>3. CASE i = Len(output) + 1 BY <1>6, <1>7, <2>3, <2>5, <3>3
    <3> QED BY <3>1, <3>2, <3>3
  <2>7. Len(output') = trace[readPos'].parsed - walk'.left
    BY <1>6, <1>7, <2>2, <2>3, <2>5
  <2>8. DecoderAt(trace)'
    BY <1>6, <1>7, <1>10, <2>2, <2>3, <2>6, <2>7 DEF DecoderAt
  <2> QED BY <1>1, <2>2, <2>8, EncoderStays
<1>12. CASE ~symbol.literal
  <2> DEFINE distance == DistanceFrom(trace[readPos], symbol)
  <2>1. D!ReadMatch(symbol.raw, symbol.length) BY <1>3, <1>5, <1>12
  <2>2. D!DistanceOf(symbol.raw) = distance
    BY <1>7 DEF D!DistanceOf, DistanceFrom, WireDistance
  <2>3. /\ lru' = D!LruUpdate(lru, distance) /\ status' = "copy"
        /\ walk'.left = D!Smaller(symbol.length, D!End - pos)
        /\ walk'.follow = (symbol.raw = D!SourceCopy)
        /\ walk'.distance = distance
        /\ UNCHANGED <<reference, rift, ort, output>>
    BY <2>1, <2>2, Zenon DEF D!ReadMatch, D!inputs
  <2> HIDE DEF distance
  <2>4. /\ symbol.length \in Nat \ {0}
        /\ trace[n].parsed = trace[readPos].parsed + symbol.length
        /\ trace[n].recent = D!LruUpdate(trace[readPos].recent, distance)
    BY <1>8, <1>12 DEF Leads, distance
  <2>5. trace[readPos].parsed \in Nat BY <1>7
  <2>6. walk'.left = symbol.length
    <3>1. symbol.length <= D!End - pos BY <1>7, <1>8, <2>4, <2>5, SMTT(30)
    <3> QED BY <2>3, <3>1 DEF D!Smaller
  <2>7. Len(output') = trace[readPos'].parsed - walk'.left
    BY <1>6, <1>7, <2>3, <2>4, <2>5, <2>6, SMTT(30)
  <2>8. readPos' - 1 = readPos /\ readPos' > 0 BY <1>6, <1>7 DEF n
  <2>9. DistanceFrom(trace[readPos - 1], symbols[readPos])' = distance
    <3>1. PICK before, s : before = trace[readPos] /\ s = symbol OBVIOUS
    <3>2. DistanceFrom(before, s)' = DistanceFrom(before, s)
      BY <1>6, <2>3, SameMeaning
    <3>3. trace[readPos' - 1] = before /\ symbols'[readPos'] = s
      BY <1>6, <2>8, <3>1 DEF symbol
    <3> QED BY <3>1, <3>2, <3>3 DEF distance
  <2>10. DecoderAt(trace)'
    BY <1>6, <1>7, <1>9, <1>10, <1>12, <2>3, <2>4, <2>6, <2>7, <2>8, <2>9
       DEF DecoderAt, symbol
  <2> QED BY <1>1, <2>3, <2>10, EncoderStays
<1> QED BY <1>11, <1>12
\* A copy the decoder has in hand is a match the encoder found: one chunk at
\* one distance, within what is there.
LEMMA CopyIsMatch ==
  ASSUME IInv, Encoded, status = "copy", NEW trace, InStep(trace)
  PROVE  /\ D!ChunkLength = walk.left
         /\ walk.distance \in 1 .. walk.at
         /\ D!ChunkSource = walk.at - walk.distance
         /\ \A k \in 1 .. walk.left :
              (reference \o target)[walk.at + k] =
                (reference \o target)[walk.at + k - walk.distance]
<1> DEFINE before == trace[readPos - 1]
           symbol == symbols[readPos]
           here   == Len(reference) + before.parsed
<1>1. /\ IsTrace(trace) /\ DecoderAt(trace) BY DEF InStep
<1>2. /\ ort = offsets /\ readPos > 0 /\ ~symbol.literal
      /\ walk.left = symbol.length
      /\ walk.follow = (symbol.raw = D!SourceCopy)
      /\ walk.distance = DistanceFrom(before, symbol)
  BY <1>1 DEF DecoderAt
<1>3. readPos \in 1 .. Len(symbols) BY <1>2, InvTypes, DecoderPlace
<1>4. Leads(before, symbol, trace[readPos]) BY <1>1, <1>3 DEF IsTrace
<1>5. before.parsed \in Nat /\ trace[readPos].parsed \in Nat
  <2>1. readPos - 1 \in 0 .. Len(symbols) /\ readPos \in 0 .. Len(symbols)
    BY <1>3, InvTypes
  <2> QED BY <2>1, InvTypes, DecoderPlace
<1> HIDE DEF before, symbol
<1>6. /\ Matches(before, symbol)
      /\ trace[readPos].parsed = before.parsed + symbol.length
      /\ symbol.length \in Nat \ {0}
  BY <1>2, <1>4 DEF Leads
<1>7. walk.at = here /\ here \in Nat
  <2>1. /\ Len(output) + walk.left = trace[readPos].parsed
        /\ walk.at = Len(reference) + Len(output) /\ Len(output) \in Nat
    BY DecoderPlace
  <2>2. Len(output) = before.parsed BY <1>2, <1>5, <1>6, <2>1
  <2>3. Len(reference) \in Nat BY InvTypes
  <2> QED BY <1>5, <2>1, <2>2, <2>3
<1>8. /\ symbol.length >= 2 /\ walk.distance \in 1 .. here
      /\ \A k \in 1 .. symbol.length :
           (reference \o target)[here + k] = (reference \o target)[here + k - walk.distance]
      /\ symbol.raw = D!SourceCopy =>
           D!UpToBreak(offsets, here, symbol.length) = symbol.length
  BY <1>2, <1>6 DEF Matches
<1>9. D!ChunkLength = walk.left
  <2>1. CASE walk.follow
    <3>1. D!UpToBreak(ort, walk.at, walk.left) = walk.left BY <1>2, <1>7, <1>8, <2>1
    <3>2. 1 <= walk.left BY <1>2, <1>6
    <3> QED BY <2>1, <3>1, <3>2 DEF D!ChunkLength, D!Larger
  <2>2. CASE ~walk.follow BY <2>2 DEF D!ChunkLength
  <2> QED BY <2>1, <2>2
<1>10. D!ChunkSource = walk.at - walk.distance
  <2>1. CASE walk.follow
    <3> DEFINE off == D!OffsetAt(offsets, here)
    <3>1. symbol.raw = D!SourceCopy BY <1>2, <2>1
    <3>2. D!SourceCopy \in Nat /\ D!LruBase = D!SourceCopy + 1
      BY CodecConstants DEF D!SourceCopy, D!LruBase
    <3>3. /\ ~(symbol.raw < D!SourceCopy) /\ ~(symbol.raw > D!LruBase + 2)
          /\ ~(symbol.raw \in D!LruBase .. D!LruBase + 2)
      BY <3>1, <3>2
    <3>4. walk.distance = -off
      BY <1>2, <3>1, <3>3 DEF DistanceFrom, WireDistance
    <3>5. off \in Int
      <4>1. D!IsLookupTable(offsets) BY EncoderTypes
      <4> QED BY <1>7, <4>1, DecoderInputs, D!SegmentIndexExists
    <3>6. D!ChunkSource = walk.at + off BY <1>2, <1>7, <2>1 DEF D!ChunkSource
    <3> HIDE DEF off
    <3> QED BY <1>7, <3>4, <3>5, <3>6
  <2>2. CASE ~walk.follow BY <2>2 DEF D!ChunkSource
  <2> QED BY <2>1, <2>2
<1> QED BY <1>2, <1>7, <1>8, <1>9, <1>10

\* So every copied byte is the target's: the encoder compared the same bytes.
LEMMA CopyKeeps ==
  ASSUME IInv, Decode, D!CopyOne, UNCHANGED <<readPos, segment>>
  PROVE  CodecInv'
<1> DEFINE done == Len(output)
           here == Len(reference) + Len(output)
           left == D!ChunkLength
<1>1. PICK trace : InStep(trace) BY DEF IInv, CodecInv
<1>2. /\ IsTrace(trace) /\ DecoderAt(trace) /\ Encoded /\ status = "copy" /\ D!IInv
  BY <1>1 DEF InStep, Decode, D!CopyOne, IInv
<1>3. /\ left = walk.left /\ walk.distance \in 1 .. walk.at
      /\ D!ChunkSource = walk.at - walk.distance
      /\ \A k \in 1 .. walk.left : (reference \o target)[walk.at + k] =
                                (reference \o target)[walk.at + k - walk.distance]
  BY <1>1, <1>2, CopyIsMatch
<1>4. /\ done \in Nat /\ left \in Nat /\ left > 0 /\ walk.at = here
      /\ done + left = trace[readPos].parsed
      /\ trace[readPos].parsed \in 0 .. Len(target)
      /\ Len(reference) \in Nat /\ Len(target) \in Nat /\ here \in Nat
      /\ reference \in Seq(Bytes) /\ target \in Seq(Bytes)
  <2> HIDE DEF left
  <2> QED BY <1>1, <1>2, <1>3, InvTypes, DecoderPlace
<1>5. /\ output' \in Seq(Bytes) /\ Len(output') = done + left
      /\ \A i \in 1 .. done : output'[i] = output[i]
      /\ \A i \in here + 1 .. here + left :
           (reference \o output')[i] = (reference \o output')[i - (here - D!ChunkSource)]
  <2>1. /\ output' \in Seq(Bytes) /\ Len(output') = Len(output) + D!ChunkLength
        /\ \A i \in 1 .. Len(output) : output'[i] = output[i]
        /\ \A i \in Len(reference) + Len(output) + 1
                   .. Len(reference) + Len(output) + D!ChunkLength :
             (reference \o output')[i] =
               (reference \o output')[i - (Len(reference) + Len(output) - D!ChunkSource)]
    BY <1>2, DecoderInputs, D!CopyOneEffect
  <2>2. Len(reference) + Len(output) = here /\ Len(output) = done /\ D!ChunkLength = left
    OBVIOUS
  <2> HIDE DEF done, here, left
  <2>3. output' \in Seq(Bytes) /\ Len(output') = done + left BY <2>1, <2>2
  <2>4. \A i \in 1 .. done : output'[i] = output[i] BY <2>1, <2>2
  <2>5. \A i \in here + 1 .. here + left :
           (reference \o output')[i] = (reference \o output')[i - (here - D!ChunkSource)]
    <3> TAKE i \in here + 1 .. here + left
    <3>1. i \in Len(reference) + Len(output) + 1
                 .. Len(reference) + Len(output) + D!ChunkLength
      BY <2>2
    <3>2. (reference \o output')[i] =
            (reference \o output')[i - (Len(reference) + Len(output) - D!ChunkSource)]
      BY <2>1, <3>1
    <3>3. /\ D!ChunkSource \in Int
          /\ Len(reference) \in Nat /\ Len(output) \in Nat
      BY <1>2, <1>3, InvTypes, DecoderPlace
    <3>4. Len(reference) + Len(output) - D!ChunkSource = here - D!ChunkSource
      BY <2>2, <3>3
    <3> QED BY <3>2, <3>4
  <2> QED BY <2>3, <2>4, <2>5
<1>6. /\ walk'.left = 0 /\ status' = "symbol"
      /\ UNCHANGED <<reference, rift, ort, lru>>
  BY <1>3 DEF D!CopyOne, D!NoWalk, D!inputs
<1>7. UNCHANGED <<target, symbols, split, offsets>> BY DEF Decode, encoderVars
<1>8. \A i \in 1 .. done : output[i] = target[i] BY <1>2 DEF DecoderAt
<1>9. PICK f, g : f = reference \o output' /\ g = reference \o target OBVIOUS
<1>10. \A i \in 1 .. Len(reference) : f[i] = reference[i] /\ g[i] = reference[i]
  BY <1>4, <1>5, <1>9, ConcatProperties
<1>11. \A i \in 1 .. done + left :
         f[Len(reference) + i] = output'[i] /\ g[Len(reference) + i] = target[i]
  <2> TAKE i \in 1 .. done + left
  <2> DEFINE p == Len(reference) + i
  <2> HIDE DEF left, done
  <2>1. /\ p \in Len(reference) + 1 .. Len(reference) + Len(output')
        /\ p \in Len(reference) + 1 .. Len(reference) + Len(target)
        /\ p - Len(reference) = i
    BY <1>4, <1>5
  <2> HIDE DEF p
  <2>2. f[p] = output'[p - Len(reference)]
    BY <1>4, <1>5, <1>9, <2>1, DecoderInputs, D!SecondPart
  <2>3. g[p] = target[p - Len(reference)]
    BY <1>4, <1>9, <2>1, DecoderInputs, D!SecondPart
  <2> QED BY <2>1, <2>2, <2>3 DEF p
<1>12. \A i \in 1 .. here : f[i] = g[i]
  <2> TAKE i \in 1 .. here
  <2>1. CASE i \in 1 .. Len(reference) BY <1>10, <2>1
  <2>2. CASE ~(i \in 1 .. Len(reference))
    <3> DEFINE j == i - Len(reference)
    <3>1. j \in 1 .. done /\ j \in 1 .. done + left /\ i = Len(reference) + j
      BY <1>4, <2>2
    <3> HIDE DEF j, done, left
    <3>2. f[i] = output'[j] /\ g[i] = target[j] BY <1>11, <3>1
    <3>3. output'[j] = target[j] BY <1>5, <1>8, <3>1
    <3> QED BY <3>2, <3>3
  <2> QED BY <2>1, <2>2
<1> HIDE DEF done, left, here
<1>13. \A k \in 1 .. left : /\ f[here + k] = f[here + k - walk.distance]
                            /\ g[here + k] = g[here + k - walk.distance]
  <2> TAKE k \in 1 .. left
  <2>1. /\ here + k \in here + 1 .. here + left /\ k \in 1 .. walk.left
        /\ walk.distance \in Int /\ D!ChunkSource \in Int
        /\ here - D!ChunkSource = walk.distance
    BY <1>3, <1>4
  <2>4. (here + k) - (here - D!ChunkSource) = here + k - walk.distance BY <1>4, <2>1
  <2>5. f[here + k] = f[(here + k) - (here - D!ChunkSource)] BY <1>5, <1>9, <2>1
  <2>2. f[here + k] = f[here + k - walk.distance] BY <2>4, <2>5
  <2>3. g[here + k] = g[here + k - walk.distance] BY <1>3, <1>4, <1>9, <2>1
  <2> QED BY <2>2, <2>3
<1>14. \A i \in 1 .. here + left : f[i] = g[i]
  <2>1. here \in Nat /\ left \in Nat /\ walk.distance \in 1 .. here BY <1>3, <1>4
  <2>2. Repeats(f, here, left, walk.distance) /\ Repeats(g, here, left, walk.distance)
    BY <1>13 DEF Repeats
  <2> QED BY <1>12, <2>1, <2>2, RepetitionAgrees
<1>15. \A i \in 1 .. done + left : output'[i] = target[i]
  <2> TAKE i \in 1 .. done + left
  <2>1. Len(reference) + i \in 1 .. here + left BY <1>4 DEF here, done
  <2> QED BY <1>11, <1>14, <2>1
<1>16. DecoderAt(trace)'
  <2>1. Len(output') = trace[readPos'].parsed - walk'.left BY <1>4, <1>5, <1>6
  <2>2. lru = trace[readPos].recent /\ ort = offsets BY <1>2 DEF DecoderAt
  <2>3. \A i \in 1 .. Len(output') : output'[i] = target'[i] BY <1>5, <1>7, <1>15
  <2> QED BY <1>2, <1>6, <1>7, <2>1, <2>2, <2>3 DEF DecoderAt
<1> QED BY <1>1, <1>6, <1>16, EncoderStays

\* The decoder finishes at the end of the trace.
LEMMA FinishKeeps ==
  ASSUME IInv, Decode, D!Finish, UNCHANGED <<readPos, segment>>
  PROVE  CodecInv'
<1>1. PICK trace : InStep(trace) BY DEF IInv, CodecInv
<1>2. /\ IsTrace(trace) /\ EncoderAt(trace) /\ DecoderAt(trace)
      /\ Encoded /\ status = "symbol" /\ pos >= D!End
  BY <1>1 DEF InStep, Decode, D!Finish
<1>3. /\ readPos \in 0 .. Len(symbols) /\ trace[readPos].parsed \in 0 .. Len(target)
      /\ (trace[readPos].parsed >= Len(target)) <=> (readPos = Len(symbols))
      /\ pos = Len(reference) + trace[readPos].parsed
      /\ Len(output) + walk.left = trace[readPos].parsed /\ walk.left = 0
      /\ Len(output) \in Nat /\ D!End = Len(reference) + Len(target)
      /\ Len(reference) \in Nat /\ Len(target) \in Nat
  BY <1>1, <1>2, DecoderPlace, InvTypes
<1>4. readPos = Len(symbols) /\ Len(output) = Len(target) BY <1>2, <1>3
<1>5. status' = "ok" /\ UNCHANGED <<reference, rift, ort, output, lru, walk>>
  BY <1>4 DEF D!Finish, D!inputs
<1>6. UNCHANGED <<target, symbols, split, offsets, recent>> BY DEF Decode, encoderVars
<1>7. lru = recent
  BY <1>2, <1>4 DEF DecoderAt, EncoderAt
<1>8. DecoderAt(trace)' BY <1>2, <1>3, <1>4, <1>5, <1>6, <1>7 DEF DecoderAt
<1> QED BY <1>1, <1>5, <1>8, EncoderStays

\* So each step of the decoder keeps the invariant.
LEMMA DecodeKeeps ==
  ASSUME IInv, Decode
  PROVE  CodecInv'
<1>1. CASE ReadSymbol BY <1>1, SymbolKeeps
<1>2. CASE ~ReadSymbol
  <2>1. UNCHANGED <<readPos, segment>> BY <1>2 DEF Decode
  <2>2. CASE Exhausted
    <3>1. Encoded /\ status = "symbol" /\ readPos = Len(stream) /\ pos < D!End
      BY <2>2, SameActions DEF Exhausted, D!ReadFails, Decode
    <3> QED BY <3>1, NeverExhausted
  <2>3. CASE D!ReadHeader BY <2>1, <2>3, HeaderKeeps
  <2>4. CASE D!CopyOne BY <2>1, <2>4, CopyKeeps
  <2>5. CASE D!CopyFails
    <3>1. Encoded /\ status = "copy" /\ ~D!CopySourceValid(D!ChunkSource)
      BY <2>5 DEF D!CopyFails, Decode
    <3>2. PICK trace : InStep(trace) BY DEF IInv, CodecInv
    <3>3. walk.distance \in 1 .. walk.at /\ D!ChunkSource = walk.at - walk.distance
      BY <3>1, <3>2, CopyIsMatch
    <3>4. walk.at = Len(reference) + Len(output) /\ Len(output) \in Nat
      BY <3>1, <3>2, DecoderPlace
    <3> QED BY <3>1, <3>3, <3>4, InvTypes DEF D!CopySourceValid
  <2>6. CASE D!Finish BY <2>1, <2>6, FinishKeeps
  <2> QED BY <1>2, <2>2, <2>3, <2>4, <2>5, <2>6, SameActions DEF Decode
<1> QED BY <1>1, <1>2

\* A step that changes nothing keeps the invariant.
LEMMA StutterKeeps ==
  ASSUME IInv, UNCHANGED vars
  PROVE  CodecInv'
<1>1. PICK trace : InStep(trace) BY DEF IInv, CodecInv
<1>2. /\ UNCHANGED <<reference, rift, target, encoderVars>>
      /\ UNCHANGED <<offsets, parsed, recent, symbols, split, stream, boundaries>>
      /\ UNCHANGED <<ort, output, lru, walk, status, readPos, segment>>
  BY DEF vars, encoderVars, decoderVars
<1>3. IsTrace(trace)' /\ EncoderAt(trace)' /\ SplitAt(trace)'
  BY <1>1, <1>2, SameTrace DEF InStep
<1>4. DecoderAt(trace)'
  <2>1. DistanceFrom(trace[readPos - 1], symbols[readPos])'
          = DistanceFrom(trace[readPos - 1], symbols[readPos])
    BY <1>2, SameMeaning
  <2> QED BY <1>1, <1>2, <2>1 DEF InStep, DecoderAt
<1>5. Written'
  <2>1. \A k : Encoder!SegmentOf(k)' = Encoder!SegmentOf(k)
    BY <1>2 DEF Encoder!SegmentOf, Encoder!Max
  <2>2. Encoder!ToSplit' = Encoder!ToSplit BY <1>2 DEF Encoder!ToSplit
  <2> QED BY <1>2, <2>1, <2>2 DEF Written, Encoded, IInv, CodecInv
<1> QED BY <1>2, <1>3, <1>4, <1>5 DEF IInv, CodecInv, InStep

\* Every step of encoder or decoder keeps the invariant.
THEOREM NextIInv == IInv /\ [Next]_vars => IInv'
<1> SUFFICES ASSUME IInv, [Next]_vars PROVE IInv' OBVIOUS
<1>1. D!IInv'
  <2>1. [D!Next]_(D!vars) BY StepIsDecoders
  <2>2. D!IInv BY DEF IInv
  <2> QED BY <2>1, <2>2, DecoderInputs, D!NextIInv
<1>2. CodecInv'
  BY EncodeKeeps, DecodeKeeps, StutterKeeps DEF Next
<1> QED BY <1>1, <1>2 DEF IInv

-----------------------------------------------------------------------------
(***************************************************************************)
(* What the codec guarantees, whatever it is given.                        *)
(***************************************************************************)
\* The invariant holds throughout.
THEOREM Invariance == Spec => []IInv
<1> QED BY InitInv, NextIInv, PTL DEF Spec

\* Every symbol is read with the tables it was written with: the boundary
\* found by output position is the one set by symbol count.
THEOREM TablesAlwaysInStep == Spec => []TablesInStep
<1>1. IInv => TablesInStep
  <2> SUFFICES ASSUME IInv, Encoded, status = "symbol", readPos < Len(stream)
               PROVE  SegmentAt(segment, pos) = stream[readPos + 1].tables
    BY DEF TablesInStep
  <2> QED BY SegmentIsTables
<1> QED BY <1>1, Invariance, PTL

\* When all is read and copied, both sides hold the same recent distances.
THEOREM LruAlwaysInStep == Spec => []LruInStep
<1>1. IInv => LruInStep
  <2> SUFFICES ASSUME IInv, Encoded, status \in {"symbol", "ok"}, readPos = Len(stream)
               PROVE  lru = recent
    BY DEF LruInStep
  <2>1. PICK trace : InStep(trace) BY DEF IInv, CodecInv
  <2>2. Len(stream) = Len(symbols) BY <2>1, DecoderPlace
  <2>3. /\ EncoderAt(trace) /\ DecoderAt(trace) /\ readPos = Len(symbols)
    BY <2>1, <2>2 DEF InStep
  <2>4. trace[readPos].recent = recent BY <2>3 DEF EncoderAt
  <2>5. CASE status = "symbol" BY <2>3, <2>4, <2>5 DEF DecoderAt
  <2>6. CASE status = "ok" BY <2>3, <2>6 DEF DecoderAt
  <2> QED BY <2>5, <2>6
<1> QED BY <1>1, Invariance, PTL

\* The decoder never has to re-anchor a SOURCE_COPY the encoder emits.
THEOREM SourceCopyAlwaysSingle == Spec => []SourceCopyIsSingleSegment
<1>1. IInv => SourceCopyIsSingleSegment
  <2> SUFFICES ASSUME IInv, status = "copy", walk.follow
               PROVE  Decoder!ChunkLength = walk.left
    BY DEF SourceCopyIsSingleSegment
  <2>1. PICK trace : InStep(trace) BY DEF IInv, CodecInv
  <2>2. Encoded BY DEF IInv, CodecInv, Written
  <2> QED BY <2>1, <2>2, CopyIsMatch, SameDerived
<1> QED BY <1>1, Invariance, PTL

\* The decoder of a delta the encoder wrote never fails; what it has put out is
\* at every moment the beginning of the target, and all of it at the end.
RebuildsTarget ==
  /\ status # "err"
  /\ \A i \in 1 .. Len(output) : output[i] = target[i]
  /\ status = "ok" => output = target

\* So a delta the encoder wrote always rebuilds its target.
THEOREM AlwaysRebuildsTarget == Spec => []RebuildsTarget
<1>1. IInv => RebuildsTarget
  <2> SUFFICES ASSUME IInv PROVE RebuildsTarget OBVIOUS
  <2>1. PICK trace : InStep(trace) BY DEF IInv, CodecInv
  <2>2. status # "err" /\ \A i \in 1 .. Len(output) : output[i] = target[i]
    BY <2>1 DEF IInv, CodecInv, InStep, DecoderAt
  <2>3. ASSUME status = "ok" PROVE output = target
    <3>1. Encoded BY <2>3 DEF IInv, CodecInv, Written
    <3>2. readPos = Len(symbols) /\ walk.left = 0
      BY <2>1, <2>3 DEF InStep, DecoderAt
    <3>3. Len(output) = Len(target)
      <4>1. /\ trace[readPos].parsed \in 0 .. Len(target)
            /\ trace[readPos].parsed >= Len(target)
            /\ Len(output) + walk.left = trace[readPos].parsed /\ Len(output) \in Nat
        BY <2>1, <3>1, <3>2, DecoderPlace
      <4> QED BY <3>2, <4>1, InvTypes
    <3>4. output \in Seq(Bytes) /\ target \in Seq(Bytes)
      BY InvTypes DEF IInv, D!IInv, D!TypeOK
    <3> QED BY <2>2, <3>3, <3>4, SeqEqual
  <2> QED BY <2>2, <2>3 DEF RebuildsTarget
<1> QED BY <1>1, Invariance, PTL

\* The codec's decoder is a decoder: everything LzxDecoderProofs proves of one
\* that is fed any stream of symbols holds of it.
THEOREM DecoderIsDecoder == Spec => D!Spec
<1> QED BY InitIsDecoders, StepIsDecoders, Invariance, PTL DEF Spec, D!Spec

\* Where its output comes from the reference, its provenance says so truly; and
\* it implements DeltaBuffer.
THEOREM DecodesSafely == Spec => []D!ProvenanceIsTrue /\ D!ImplementsDeltaBuffer
<1> QED BY DecoderIsDecoder, DecoderInputs, D!ProvenanceAlwaysTrue, D!Implements, PTL
=============================================================================
