--------------------------- MODULE LzmsDecoderProofs ---------------------------
(***************************************************************************)
(* For every stream of items, every size and every size of a byte: the     *)
(* LZMS decoder stays in its buffer, and its doubling memmoves copy what   *)
(* a byte-by-byte LZ copy would.                                           *)
(***************************************************************************)
EXTENDS LzmsDecoder, SequenceTheorems, TLAPS

-----------------------------------------------------------------------------
(***************************************************************************)
(* The inductive invariant.  What the doubling rests on is the last part:  *)
(* between two memmoves the bytes copied are whole periods of the match,   *)
(* so that their last offset-many are again the first.                     *)
(***************************************************************************)
PairType == (Nat \ {0}) \X (0 .. 7)

\* The bytes of s behind from, up to to, repeat what lies offset before them.
Repeating(s, from, to, offset) == \A p \in from + 1 .. to : s[p] = s[p - offset]

\* The last offset bytes of s are those behind start.
Closed(s, start, offset) ==
  \A k \in 1 .. offset : s[Len(s) - offset + k] = s[start + k]

LzCopyInv ==
  copy.kind = "lz" =>
    /\ copy.offset <= copy.start
    /\ Repeating(output, copy.start, Position, copy.offset)
    /\ Done = 0 \/ (copy.offset <= Done /\ Closed(output, copy.start, copy.offset))

DeltaCopyInv == copy.kind = "delta" => copy.offset + copy.span <= copy.start

CopyInv ==
  copy # NoCopy =>
    /\ copy.kind \in {"lz", "delta"}
    /\ copy.start <= Position
    /\ Done < copy.length
    /\ copy.start + copy.length <= size
    /\ LzCopyInv
    /\ DeltaCopyInv

SizeInv ==
  /\ Position <= size
  /\ result # "panic"
  /\ result = "ok" => Position = size

IInv == TypeOK /\ SizeInv /\ CopyInv

LEMMA PositionType == TypeOK => Position \in Nat /\ size \in Nat
BY LenProperties DEF TypeOK, Position

LEMMA SlotsTypes ==
  /\ \A rep \in Reps \cup {Explicit}, used \in BOOLEAN : Adjusted(rep, used) \in Slots
  /\ \A w \in 0 .. 7 : Span(w) \in Nat \ {0}
  /\ FirstLzQueue \in [Slots -> Nat \ {0}]
  /\ FirstDeltaQueue \in [Slots -> PairType]
<1>1. \A w \in 0 .. 7 : Span(w) \in Nat \ {0} BY DEF Span
<1>2. FirstDeltaQueue \in [Slots -> PairType]
  <2>1. \A i \in Slots : i + 1 \in Nat \ {0} BY DEF Slots
  <2>2. ASSUME NEW i \in Slots PROVE <<i + 1, 0>> \in PairType
    <3>1. 0 \in 0 .. 7 OBVIOUS
    <3> QED BY <2>1, <3>1 DEF PairType
  <2> QED BY <2>2 DEF FirstDeltaQueue
<1> QED BY <1>1, <1>2 DEF Adjusted, Reps, Explicit, Slots, FirstLzQueue

\* The queues hold what is put into them.
LEMMA QueueTypes ==
  ASSUME NEW T, NEW queue \in [Slots -> T]
  PROVE  /\ \A entry \in T : QueuePush(queue, entry) \in [Slots -> T]
         /\ \A used \in Slots : QueueMtf(queue, used) \in [Slots -> T]
<1>1. ASSUME NEW i \in Slots, i # 0 PROVE i - 1 \in Slots BY <1>1 DEF Slots
<1> QED BY <1>1 DEF QueuePush, QueueMtf

LEMMA InitIInv == Init => IInv
<1> SUFFICES ASSUME Init PROVE IInv OBVIOUS
<1>1. size \in Nat BY DecoderConstants DEF Init
<1>2. Position = 0 BY EmptySeq DEF Init, Position
<1>3. copy = NoCopy /\ result = "running" /\ output = <<>> BY DEF Init
<1>4. TypeOK
  BY <1>1, <1>3, SlotsTypes, EmptySeq DEF Init, TypeOK, NoCopy, PairType
<1> QED BY <1>1, <1>2, <1>3, <1>4 DEF IInv, SizeInv, CopyInv

-----------------------------------------------------------------------------
\* Taking up a match that fits establishes what its copying needs.
LEMMA StartCopyEstablishes ==
  ASSUME IInv, Reading, UNCHANGED <<size, output>>,
         NEW kind \in {"lz", "delta"}, NEW offset \in Nat \ {0}, NEW span \in Nat \ {0},
         NEW length \in Nat \ {0}, NEW fits \in BOOLEAN,
         kind = "lz" /\ fits => offset <= Position,
         kind = "delta" /\ fits => offset + span <= Position,
         StartCopy(kind, offset, span, length, fits)
  PROVE  /\ SizeInv' /\ CopyInv'
         /\ copy' \in [kind : {"none", "lz", "delta"}, start : Nat,
                       offset : Nat \ {0}, span : Nat \ {0}, length : Nat]
         /\ result' \in {"running", "ok", "empty", "malformed", "panic"}
         /\ prevType' \in {"literal", "lz", "delta"}
<1>1. Position \in Nat /\ size \in Nat /\ Position < size
  BY PositionType DEF IInv, Reading
<1>2. /\ Position' = Position /\ size' = size /\ output' = output
      /\ result = "running" /\ copy = NoCopy /\ prevType' = kind
  BY DEF Reading, Position, StartCopy
<1>3. Cut(length) \in 1 .. size - Position BY <1>1 DEF Cut
<1>4. CASE fits
  <2>1. /\ copy' = [kind |-> kind, start |-> Position, offset |-> offset,
                    span |-> span, length |-> Cut(length)]
        /\ result' = "running"
    BY <1>2, <1>4 DEF StartCopy
  <2>2. /\ copy'.kind = kind /\ copy'.start = Position /\ copy'.offset = offset
        /\ copy'.span = span /\ copy'.length = Cut(length)
    BY <2>1
  <2>3. Done' = 0 BY <1>1, <1>2, <2>2 DEF Done
  <2>4. Repeating(output, Position, Position, offset) BY <1>1 DEF Repeating
  <2>5. LzCopyInv' /\ DeltaCopyInv'
    BY <1>2, <1>4, <2>2, <2>3, <2>4 DEF LzCopyInv, DeltaCopyInv
  <2>6. CopyInv' BY <1>1, <1>2, <1>3, <2>2, <2>3, <2>5 DEF CopyInv
  <2>7. SizeInv' BY <1>1, <1>2, <2>1 DEF SizeInv
  <2> QED BY <1>1, <1>2, <1>3, <2>1, <2>6, <2>7
<1>5. CASE ~fits
  <2>1. copy' = copy /\ result' = "malformed" BY <1>2, <1>5 DEF StartCopy
  <2>2. SizeInv' BY <1>1, <1>2, <2>1 DEF SizeInv
  <2> QED BY <1>2, <2>1, <2>2 DEF CopyInv, NoCopy, IInv, TypeOK
<1> QED BY <1>4, <1>5

\* What an item of the alphabet consists of.
LEMMA ItemTypes ==
  ASSUME NEW item \in Items
  PROVE  /\ item.kind = "literal" => item.byte \in Byte
         /\ item.kind \in {"lz", "delta"} =>
              /\ item.rep \in Reps \cup {Explicit}
              /\ item.offset \in Nat \ {0} /\ item.length \in Nat \ {0}
         /\ item.kind = "delta" => item.power \in 0 .. 7
<1>1. CASE \E byte \in Byte : item = LiteralItem(byte) BY <1>1 DEF LiteralItem
<1>2. CASE \E rep \in Reps \cup {Explicit}, offset \in Offsets, length \in Lengths :
             item = LzItem(rep, offset, length)
  BY <1>2, DecoderConstants DEF LzItem
<1>3. CASE \E rep \in Reps \cup {Explicit}, offset \in Offsets, power \in Powers,
             length \in Lengths : item = DeltaItem(rep, offset, power, length)
  BY <1>3, DecoderConstants DEF DeltaItem
<1> QED BY <1>1, <1>2, <1>3 DEF Items

LEMMA LiteralKeepsInv ==
  ASSUME IInv, NEW byte \in Byte, Literal(byte)
  PROVE  IInv'
<1>1. /\ Position \in Nat /\ size \in Nat /\ Position < size /\ copy = NoCopy
      /\ result = "running" /\ output \in Seq(Byte)
  BY PositionType DEF IInv, TypeOK, Literal, Reading
<1>2. /\ output' = Append(output, byte) /\ prevType' = "literal"
      /\ UNCHANGED <<size, lzQueue, deltaQueue, copy, result>>
  BY DEF Literal
<1>3. output' \in Seq(Byte) /\ Position' = Position + 1
  BY <1>1, <1>2, AppendProperties DEF Position
<1> QED BY <1>1, <1>2, <1>3 DEF IInv, TypeOK, SizeInv, CopyInv

LEMMA LzMatchKeepsInv ==
  ASSUME IInv, NEW rep \in Reps \cup {Explicit}, NEW offset \in Nat \ {0},
         NEW length \in Nat \ {0}, LzMatch(rep, offset, length)
  PROVE  IInv'
<1> DEFINE stated == IF rep = Explicit THEN offset ELSE lzQueue[LzSlot(rep)]
           fits   == stated <= Position
<1>1. /\ Reading /\ lzQueue' = LzQueueAfter(rep, offset)
      /\ StartCopy("lz", stated, 1, length, fits)
      /\ UNCHANGED <<size, output, deltaQueue>>
  BY DEF LzMatch
<1>2. LzSlot(rep) \in Slots
  <2>1. (prevType = "lz") \in BOOLEAN OBVIOUS
  <2> QED BY <2>1, SlotsTypes DEF LzSlot
<1>3. lzQueue \in [Slots -> Nat \ {0}] BY DEF IInv, TypeOK
<1>4. stated \in Nat \ {0} BY <1>2, <1>3
<1>5. lzQueue' \in [Slots -> Nat \ {0}]
  BY <1>1, <1>2, <1>3, QueueTypes DEF LzQueueAfter
<1> HIDE DEF stated
<1>6. /\ SizeInv' /\ CopyInv'
      /\ copy' \in [kind : {"none", "lz", "delta"}, start : Nat,
                    offset : Nat \ {0}, span : Nat \ {0}, length : Nat]
      /\ result' \in {"running", "ok", "empty", "malformed", "panic"}
      /\ prevType' \in {"literal", "lz", "delta"}
  <2>1. fits \in BOOLEAN /\ (fits => stated <= Position) OBVIOUS
  <2> HIDE DEF fits
  <2> QED BY <1>1, <1>4, <2>1, StartCopyEstablishes
<1> QED BY <1>1, <1>5, <1>6 DEF IInv, TypeOK

LEMMA DeltaMatchKeepsInv ==
  ASSUME IInv, NEW rep \in Reps \cup {Explicit}, NEW offset \in Nat \ {0},
         NEW power \in 0 .. 7, NEW length \in Nat \ {0},
         DeltaMatch(rep, offset, power, length)
  PROVE  IInv'
<1> DEFINE pair  == IF rep = Explicit THEN <<offset, power>> ELSE deltaQueue[DeltaSlot(rep)]
           span  == Span(pair[2])
           bytes == pair[1] * span
           fits  == DeltaFits(bytes, span)
<1>1. /\ Reading
      /\ deltaQueue' = IF rep = Explicit THEN QueuePush(deltaQueue, pair)
                                         ELSE QueueMtf(deltaQueue, DeltaSlot(rep))
      /\ StartCopy("delta", bytes, span, length, fits)
      /\ UNCHANGED <<size, output, lzQueue>>
  BY DEF DeltaMatch
<1>2. DeltaSlot(rep) \in Slots
  <2>1. (prevType = "delta") \in BOOLEAN OBVIOUS
  <2> QED BY <2>1, SlotsTypes DEF DeltaSlot
<1>3. deltaQueue \in [Slots -> PairType] BY DEF IInv, TypeOK, PairType
<1>4. pair \in PairType
  <2>1. <<offset, power>> \in PairType BY DEF PairType
  <2> QED BY <1>2, <1>3, <2>1
<1> HIDE DEF pair
<1>5. deltaQueue' \in [Slots -> PairType] BY <1>1, <1>2, <1>3, <1>4, QueueTypes
<1>6. pair[1] \in Nat \ {0} /\ pair[2] \in 0 .. 7 BY <1>4 DEF PairType
<1>7. span \in Nat \ {0} BY <1>6, SlotsTypes
<1> HIDE DEF span
<1>8. bytes \in Nat \ {0} BY <1>6, <1>7
<1>9. fits \in BOOLEAN /\ (fits => bytes + span <= Position) BY DEF DeltaFits
<1> HIDE DEF bytes, fits
<1>10. /\ SizeInv' /\ CopyInv'
       /\ copy' \in [kind : {"none", "lz", "delta"}, start : Nat,
                     offset : Nat \ {0}, span : Nat \ {0}, length : Nat]
       /\ result' \in {"running", "ok", "empty", "malformed", "panic"}
       /\ prevType' \in {"literal", "lz", "delta"}
  BY <1>1, <1>7, <1>8, <1>9, StartCopyEstablishes
<1> QED BY <1>1, <1>5, <1>10 DEF IInv, TypeOK, PairType
-----------------------------------------------------------------------------
(***************************************************************************)
(* What one memmove does, as facts about sequences: t is s with count of   *)
(* its own bytes, those behind from, put behind its end.                   *)
(***************************************************************************)
MovedOn(s, t, from, count) ==
  /\ Len(t) = Len(s) + count
  /\ \A p \in 1 .. Len(s) : t[p] = s[p]
  /\ \A k \in 1 .. count : t[Len(s) + k] = s[from + k]

LEMMA MovedBytes ==
  ASSUME NEW T, NEW s \in Seq(T), NEW from \in Nat, NEW count \in Nat,
         from + count <= Len(s),
         NEW moved, moved = [k \in 1 .. count |-> s[from + k]]
  PROVE  /\ s \o moved \in Seq(T)
         /\ MovedOn(s, s \o moved, from, count)
<1>1. Len(s) \in Nat BY LenProperties
<1>2. \A k \in 1 .. count : s[from + k] \in T
  <2>1. \A k \in 1 .. count : from + k \in 1 .. Len(s) BY <1>1
  <2> QED BY <2>1, ElementOfSeq
<1>3. moved \in Seq(T) /\ Len(moved) = count BY <1>2
<1>4. \A k \in 1 .. count : moved[k] = s[from + k] OBVIOUS
<1>5. /\ s \o moved \in Seq(T) /\ Len(s \o moved) = Len(s) + count
      /\ \A i \in 1 .. Len(s) + count :
           (s \o moved)[i] = IF i <= Len(s) THEN s[i] ELSE moved[i - Len(s)]
  BY <1>3, ConcatProperties
<1>6. \A p \in 1 .. Len(s) : (s \o moved)[p] = s[p] BY <1>1, <1>5
<1>7. ASSUME NEW k \in 1 .. count PROVE (s \o moved)[Len(s) + k] = s[from + k]
  <2>1. Len(s) + k \in 1 .. Len(s) + count /\ ~(Len(s) + k <= Len(s))
        /\ (Len(s) + k) - Len(s) = k
    BY <1>1
  <2> QED BY <1>4, <1>5, <2>1
<1> QED BY <1>5, <1>6, <1>7 DEF MovedOn

\* The first memmove of a match: not more than one period, from its source.
LEMMA FirstMove ==
  ASSUME NEW T, NEW s \in Seq(T), NEW offset \in Nat \ {0}, offset <= Len(s),
         NEW count \in Nat, count <= offset,
         NEW t, MovedOn(s, t, Len(s) - offset, count)
  PROVE  /\ Repeating(t, Len(s), Len(s) + count, offset)
         /\ count = offset => Closed(t, Len(s), offset)
<1>1. Len(s) \in Nat BY LenProperties
<1>2. ASSUME NEW p \in Len(s) + 1 .. Len(s) + count PROVE t[p] = t[p - offset]
  <2>1. /\ p - Len(s) \in 1 .. count /\ Len(s) + (p - Len(s)) = p
        /\ Len(s) - offset + (p - Len(s)) = p - offset
        /\ p - offset \in 1 .. Len(s)
    BY <1>1
  <2>2. t[p] = s[p - offset] BY <2>1 DEF MovedOn
  <2> QED BY <2>1, <2>2 DEF MovedOn
<1>3. ASSUME count = offset, NEW k \in 1 .. offset
      PROVE  t[Len(t) - offset + k] = t[Len(s) + k]
  <2>1. Len(t) = Len(s) + count BY DEF MovedOn
  <2>2. Len(t) - offset + k = Len(s) + k BY <1>1, <1>3, <2>1
  <2> QED BY <2>2
<1> QED BY <1>2, <1>3 DEF Repeating, Closed

\* A later one: whole periods of the match are copied once more.
LEMMA LaterMove ==
  ASSUME NEW T, NEW s \in Seq(T), NEW start \in Nat, NEW offset \in Nat \ {0},
         offset <= start, start + offset <= Len(s),
         Repeating(s, start, Len(s), offset), Closed(s, start, offset),
         NEW count \in Nat, start + count <= Len(s),
         NEW t, MovedOn(s, t, start, count)
  PROVE  /\ Repeating(t, Len(s), Len(s) + count, offset)
         /\ start + count = Len(s) => Closed(t, start, offset)
<1>1. Len(s) \in Nat BY LenProperties
<1>2. /\ \A p \in 1 .. Len(s) : t[p] = s[p]
      /\ \A k \in 1 .. count : t[Len(s) + k] = s[start + k]
      /\ Len(t) = Len(s) + count
  BY DEF MovedOn
<1>3. ASSUME NEW p \in Len(s) + 1 .. Len(s) + count PROVE t[p] = t[p - offset]
  <2> DEFINE k == p - Len(s)
  <2>1. k \in 1 .. count /\ p = Len(s) + k BY <1>1
  <2> HIDE DEF k
  <2>2. t[p] = s[start + k] BY <1>2, <2>1
  <2>3. CASE k <= offset
    <3>1. k \in 1 .. offset /\ p - offset \in 1 .. Len(s)
          /\ p - offset = Len(s) - offset + k
      BY <1>1, <2>1, <2>3
    <3>2. t[p - offset] = s[Len(s) - offset + k] BY <1>2, <3>1
    <3> QED BY <2>2, <3>1, <3>2 DEF Closed
  <2>4. CASE ~(k <= offset)
    <3>1. /\ k - offset \in 1 .. count /\ p - offset = Len(s) + (k - offset)
          /\ start + k \in start + 1 .. Len(s)
          /\ start + (k - offset) = (start + k) - offset
      BY <1>1, <2>1, <2>4
    <3>2. t[p - offset] = s[start + (k - offset)] BY <1>2, <3>1
    <3>3. s[start + k] = s[(start + k) - offset] BY <3>1 DEF Repeating
    <3> QED BY <2>2, <3>1, <3>2, <3>3
  <2> QED BY <2>3, <2>4
<1>4. ASSUME start + count = Len(s), NEW k \in 1 .. offset
      PROVE  t[Len(t) - offset + k] = t[start + k]
  <2> DEFINE length == Len(s)
  <2>0. length \in Nat /\ start + count = length /\ k \in 1 .. offset
        /\ start + offset <= length
    BY <1>1, <1>4
  <2> HIDE DEF length
  <2>1. /\ count - offset + k \in 1 .. count
        /\ length + count - offset + k = length + (count - offset + k)
        /\ start + (count - offset + k) = length - offset + k
        /\ start + k \in 1 .. length
    BY <2>0
  <2> USE DEF length
  <2>2. t[Len(s) + count - offset + k] = s[Len(s) - offset + k] BY <1>2, <2>1
  <2>3. t[start + k] = s[start + k] BY <1>2, <2>1
  <2>4. s[Len(s) - offset + k] = s[start + k] BY DEF Closed
  <2> QED BY <1>2, <2>2, <2>3, <2>4
<1> QED BY <1>3, <1>4 DEF Repeating, Closed

-----------------------------------------------------------------------------
LEMMA CopyFacts ==
  ASSUME IInv, result = "running", copy # NoCopy
  PROVE  /\ Position \in Nat /\ size \in Nat /\ output \in Seq(Byte)
         /\ copy.start \in Nat /\ copy.offset \in Nat \ {0} /\ copy.span \in Nat \ {0}
         /\ copy.length \in Nat /\ copy.start <= Position
         /\ Done \in 0 .. copy.length - 1 /\ copy.start + copy.length <= size
         /\ copy.start + Done = Position
<1>1. TypeOK /\ CopyInv BY DEF IInv
<1>2. Position \in Nat /\ size \in Nat BY <1>1, PositionType
<1>3. /\ copy.start \in Nat /\ copy.offset \in Nat \ {0} /\ copy.span \in Nat \ {0}
      /\ copy.length \in Nat /\ output \in Seq(Byte)
  BY <1>1 DEF TypeOK
<1>4. /\ copy.start <= Position /\ Done < copy.length
      /\ copy.start + copy.length <= size
  BY <1>1 DEF CopyInv
<1> QED BY <1>2, <1>3, <1>4 DEF Done

(***************************************************************************)
(* Each of the memmoves adds at least a byte of the match and at most what *)
(* is left, repeats what lies one offset before, and leaves whole periods  *)
(* unless the match is over.                                               *)
(***************************************************************************)
LzStep(count) ==
  /\ output' \in Seq(Byte)
  /\ \E from \in Nat : MovedOn(output, output', from, count)
  /\ Repeating(output', Position, Position + count, copy.offset)
  /\ \/ Done + count = copy.length
     \/ copy.offset <= Done + count /\ Closed(output', copy.start, copy.offset)
  /\ copy' = IF Done + count = copy.length THEN NoCopy ELSE copy
  /\ UNCHANGED <<size, lzQueue, deltaQueue, prevType, result>>

LEMMA CopyLzEffect ==
  ASSUME IInv, CopyLz
  PROVE  \E count \in 1 .. copy.length - Done : LzStep(count)
<1> DEFINE from  == IF Done = 0 THEN copy.start - copy.offset ELSE copy.start
           count == Chunk(from)
           moved == [k \in 1 .. count |-> Buffered(from + k)]
<1>1. copy # NoCopy /\ result = "running" /\ copy.kind = "lz" BY DEF CopyLz, NoCopy
<1>2. /\ Position \in Nat /\ output \in Seq(Byte) /\ Position = Len(output)
      /\ copy.start \in Nat /\ copy.offset \in Nat \ {0} /\ copy.length \in Nat
      /\ Done \in 0 .. copy.length - 1 /\ copy.start + Done = Position
  BY <1>1, CopyFacts DEF Position
<1>3. /\ copy.offset <= copy.start
      /\ Repeating(output, copy.start, Position, copy.offset)
      /\ Done = 0 \/ (copy.offset <= Done /\ Closed(output, copy.start, copy.offset))
  BY <1>1 DEF IInv, CopyInv, LzCopyInv
<1>4. from \in Nat BY <1>2, <1>3
<1>5. Copied(moved) BY <1>4 DEF CopyLz
<1>6. /\ count \in 1 .. copy.length - Done /\ count <= Position - from
      /\ count = copy.length - Done \/ count = Position - from
  <2>1. count = IF copy.length - Done <= Position - from
                THEN copy.length - Done ELSE Position - from
    BY DEF Chunk, Least
  <2>2. Position - from \in Nat \ {0} BY <1>2, <1>3
  <2>3. copy.length - Done \in Nat \ {0} BY <1>2
  <2> HIDE DEF from, count
  <2> QED BY <2>1, <2>2, <2>3
<1>7. moved = [k \in 1 .. count |-> output[from + k]] /\ Len(moved) = count
  <2> HIDE DEF from, count
  <2>1. \A k \in 1 .. count : Buffered(from + k) = output[from + k]
    BY <1>2, <1>4, <1>6 DEF Buffered
  <2> QED BY <1>6, <2>1
<1>8. /\ output' = output \o moved
      /\ copy' = IF Done + count = copy.length THEN NoCopy ELSE copy
      /\ UNCHANGED <<size, lzQueue, deltaQueue, prevType, result>>
  <2> HIDE DEF moved
  <2> QED BY <1>5, <1>7 DEF Copied
<1>9. output' \in Seq(Byte) /\ MovedOn(output, output', from, count)
  <2>1. count \in Nat /\ from + count <= Len(output) BY <1>2, <1>4, <1>6
  <2> HIDE DEF from, count, moved
  <2> QED BY <1>2, <1>4, <1>7, <1>8, <2>1, MovedBytes
<1>10. /\ Repeating(output', Position, Position + count, copy.offset)
       /\ \/ Done + count = copy.length
          \/ copy.offset <= Done + count /\ Closed(output', copy.start, copy.offset)
  <2>1. CASE Done = 0
    <3>1. from = Position - copy.offset /\ copy.start = Position BY <1>2, <2>1
    <3>2. count \in Nat /\ count <= copy.offset /\ copy.offset <= Position
      BY <1>2, <1>3, <1>4, <1>6, <3>1
    <3> HIDE DEF from, count
    <3>3. MovedOn(output, output', Len(output) - copy.offset, count)
      BY <1>2, <1>9, <3>1
    <3>4. /\ Repeating(output', Len(output), Len(output) + count, copy.offset)
          /\ count = copy.offset => Closed(output', Len(output), copy.offset)
      BY <1>2, <3>2, <3>3, FirstMove
    <3>5. count = copy.length - Done \/ count = copy.offset BY <1>2, <1>6, <3>1
    <3>6. count = copy.length - Done => Done + count = copy.length BY <1>2
    <3> QED BY <1>2, <2>1, <3>1, <3>2, <3>4, <3>5, <3>6
  <2>2. CASE Done # 0
    <3>1. from = copy.start /\ copy.offset <= Done BY <1>3, <2>2
    <3>2. /\ count \in Nat /\ copy.start + count <= Position
          /\ copy.start + copy.offset <= Position
      BY <1>2, <1>6, <3>1
    <3> HIDE DEF from, count
    <3>3. MovedOn(output, output', copy.start, count) BY <1>9, <3>1
    <3>4. /\ Repeating(output, copy.start, Len(output), copy.offset)
          /\ Closed(output, copy.start, copy.offset)
      BY <1>2, <1>3, <2>2
    <3>5. /\ Repeating(output', Len(output), Len(output) + count, copy.offset)
          /\ copy.start + count = Len(output) =>
               Closed(output', copy.start, copy.offset)
      BY <1>2, <1>3, <3>2, <3>3, <3>4, LaterMove
    <3>6. count = copy.length - Done \/ copy.start + count = Position
      BY <1>2, <1>6, <3>1
    <3>7. /\ count = copy.length - Done => Done + count = copy.length
          /\ copy.offset <= Done + count
      BY <1>2, <3>1, <3>2
    <3> QED BY <1>2, <3>5, <3>6, <3>7
  <2> QED BY <2>1, <2>2
<1> HIDE DEF from, count
<1>11. LzStep(count) BY <1>4, <1>8, <1>9, <1>10 DEF LzStep
<1> QED BY <1>6, <1>11

LEMMA CopyLzKeepsInv ==
  ASSUME IInv, CopyLz
  PROVE  IInv'
<1>1. copy # NoCopy /\ result = "running" /\ copy.kind = "lz" BY DEF CopyLz, NoCopy
<1>2. /\ Position \in Nat /\ size \in Nat /\ Position = Len(output)
      /\ copy.start \in Nat /\ copy.offset \in Nat \ {0} /\ copy.length \in Nat
      /\ copy.start <= Position /\ copy.start + copy.length <= size
      /\ Done \in 0 .. copy.length - 1 /\ copy.start + Done = Position
  BY <1>1, CopyFacts DEF Position
<1>3. /\ copy.offset <= copy.start
      /\ Repeating(output, copy.start, Position, copy.offset)
  BY <1>1 DEF IInv, CopyInv, LzCopyInv
<1>4. PICK count \in 1 .. copy.length - Done : LzStep(count) BY CopyLzEffect
<1>5. /\ count \in Nat /\ count > 0 /\ Position + count <= size
      /\ (Position + count) - copy.start = Done + count
      /\ Done + count <= copy.length
  <2> DEFINE start == copy.start
             length == copy.length
             done == Done
  <2>1. /\ Position \in Nat /\ size \in Nat /\ start \in Nat /\ length \in Nat
        /\ start + length <= size /\ start + done = Position
        /\ done \in 0 .. length - 1 /\ count \in 1 .. length - done
    BY <1>2
  <2> HIDE DEF start, length, done
  <2>2. /\ count \in Nat /\ count > 0 /\ Position + count <= size
        /\ (Position + count) - start = done + count /\ done + count <= length
    BY <2>1
  <2> QED BY <2>2 DEF start, length, done
<1>6. /\ Position' = Position + count
      /\ \A p \in 1 .. Position : output'[p] = output[p]
  BY <1>2, <1>4 DEF LzStep, MovedOn, Position
<1>7. TypeOK'
  <2>1. copy' \in [kind : {"none", "lz", "delta"}, start : Nat, offset : Nat \ {0},
                   span : Nat \ {0}, length : Nat]
    BY <1>4 DEF IInv, TypeOK, NoCopy, LzStep
  <2> QED BY <1>4, <2>1 DEF IInv, TypeOK, LzStep
<1>8. SizeInv' BY <1>1, <1>2, <1>4, <1>5, <1>6 DEF SizeInv, LzStep
<1>9. CopyInv'
  <2>1. CASE Done + count = copy.length BY <1>4, <2>1 DEF CopyInv, LzStep
  <2>2. CASE Done + count # copy.length
    <3>1. copy' = copy /\ size' = size BY <1>4, <2>2 DEF LzStep
    <3>2. Done' = Done + count /\ Done + count < copy.length
      <4>1. Done' = (Position + count) - copy.start BY <1>6, <3>1 DEF Done
      <4> QED BY <1>2, <1>5, <2>2, <4>1
    <3>3. Repeating(output', copy.start, Position', copy.offset)
      <4>1. ASSUME NEW p \in copy.start + 1 .. Position + count
            PROVE  output'[p] = output'[p - copy.offset]
        <5>1. CASE p <= Position
          <6>0. /\ Position \in Nat /\ copy.start \in Nat /\ copy.offset \in Nat
                /\ copy.offset <= copy.start /\ count \in Int
            BY <1>2, <1>3
          <6>1. p \in 1 .. Position /\ p - copy.offset \in 1 .. Position
                /\ p \in copy.start + 1 .. Position
            BY <5>1, <6>0
          <6>2. output[p] = output[p - copy.offset] BY <1>3, <6>1 DEF Repeating
          <6> QED BY <1>6, <6>1, <6>2
        <5>2. CASE ~(p <= Position)
          <6>1. p \in Position + 1 .. Position + count BY <1>2, <1>5, <5>2
          <6> QED BY <1>4, <6>1 DEF LzStep, Repeating
        <5> QED BY <5>1, <5>2
      <4> QED BY <1>6, <4>1 DEF Repeating
    <3>4. copy.offset <= Done' /\ Closed(output', copy.start, copy.offset)
      BY <1>4, <2>2, <3>2 DEF LzStep
    <3>5. LzCopyInv' /\ DeltaCopyInv'
      BY <1>1, <1>3, <3>1, <3>3, <3>4 DEF LzCopyInv, DeltaCopyInv
    <3>6. copy.start <= Position' BY <1>2, <1>5, <1>6
    <3> QED BY <1>1, <1>2, <3>1, <3>2, <3>5, <3>6 DEF CopyInv
  <2> QED BY <2>1, <2>2
<1> QED BY <1>7, <1>8, <1>9 DEF IInv

LEMMA CopyDeltaKeepsInv ==
  ASSUME IInv, CopyDelta
  PROVE  IInv'
<1> DEFINE byte == Predicted(output, Position, copy.offset, copy.span)
<1>1. copy # NoCopy /\ result = "running" /\ copy.kind = "delta"
  BY DEF CopyDelta, NoCopy
<1>2. /\ Position \in Nat /\ size \in Nat /\ output \in Seq(Byte)
      /\ Position = Len(output)
      /\ copy.start \in Nat /\ copy.offset \in Nat \ {0} /\ copy.span \in Nat \ {0}
      /\ copy.length \in Nat /\ copy.start <= Position
      /\ Done \in 0 .. copy.length - 1 /\ copy.start + copy.length <= size
      /\ copy.start + Done = Position
  BY <1>1, CopyFacts DEF Position
<1>3. copy.offset + copy.span <= copy.start
  BY <1>1 DEF IInv, CopyInv, DeltaCopyInv
<1>4. copy.offset + copy.span <= Position BY <1>2, <1>3
<1>5. byte \in Byte
  <2>1. /\ Position - copy.offset + 1 \in 1 .. Len(output)
        /\ Position - copy.span + 1 \in 1 .. Len(output)
        /\ Position - copy.offset - copy.span + 1 \in 1 .. Len(output)
    <3> DEFINE offset == copy.offset
               span == copy.span
    <3>1. Position \in Nat /\ offset \in Nat \ {0} /\ span \in Nat \ {0}
          /\ offset + span <= Position
      BY <1>2, <1>4
    <3> HIDE DEF offset, span
    <3>2. /\ Position - offset + 1 \in 1 .. Position /\ Position - span + 1 \in 1 .. Position
          /\ Position - offset - span + 1 \in 1 .. Position
      BY <3>1
    <3> QED BY <1>2, <3>2 DEF offset, span
  <2>2. /\ output[Position - copy.offset + 1] \in Int
        /\ output[Position - copy.span + 1] \in Int
        /\ output[Position - copy.offset - copy.span + 1] \in Int
    <3>1. Byte \subseteq Int BY DecoderConstants DEF Byte
    <3> QED BY <1>2, <2>1, <3>1, ElementOfSeq
  <2> QED BY <2>2, DecoderConstants DEF Predicted, Byte
<1> HIDE DEF byte
<1>6. /\ output' = output \o <<byte>>
      /\ copy' = IF Done + 1 = copy.length THEN NoCopy ELSE copy
      /\ UNCHANGED <<size, lzQueue, deltaQueue, prevType, result>>
  <2>1. Copied(<<byte>>) BY <1>4 DEF CopyDelta, byte
  <2> QED BY <2>1 DEF Copied
<1>7. output' \in Seq(Byte) /\ Position' = Position + 1
  BY <1>2, <1>5, <1>6 DEF Position
<1>8. TypeOK'
  <2>1. copy' \in [kind : {"none", "lz", "delta"}, start : Nat, offset : Nat \ {0},
                   span : Nat \ {0}, length : Nat]
    BY <1>6 DEF IInv, TypeOK, NoCopy
  <2> QED BY <1>6, <1>7, <2>1 DEF IInv, TypeOK
<1>9. SizeInv' BY <1>1, <1>2, <1>6, <1>7 DEF SizeInv
<1>10. CopyInv'
  <2>1. CASE Done + 1 = copy.length BY <1>6, <2>1 DEF CopyInv
  <2>2. CASE Done + 1 # copy.length
    <3>1. copy' = copy BY <1>6, <2>2
    <3>2. Done' = (Position + 1) - copy.start BY <1>7, <3>1 DEF Done
    <3>3. LzCopyInv' /\ DeltaCopyInv'
      BY <1>1, <1>3, <3>1 DEF LzCopyInv, DeltaCopyInv
    <3>4. Done' = Done + 1 /\ Done + 1 < copy.length
      <4>1. Done + 1 = (Position + 1) - copy.start BY <1>2 DEF Done
      <4>2. Done \in Int /\ copy.length \in Int /\ Done < copy.length BY <1>2
      <4> QED BY <2>2, <3>2, <4>1, <4>2
    <3>5. copy.start <= Position' BY <1>2, <1>7
    <3>6. size' = size /\ copy.start + copy.length <= size BY <1>2, <1>6
    <3> QED BY <1>1, <3>1, <3>3, <3>4, <3>5, <3>6 DEF CopyInv
  <2> QED BY <2>1, <2>2
<1> QED BY <1>8, <1>9, <1>10 DEF IInv

-----------------------------------------------------------------------------
\* The steps that only settle the result, and those that change nothing.
LEMMA ReturnKeepsInv ==
  ASSUME IInv, UNCHANGED <<size, output, lzQueue, deltaQueue, prevType, copy>>,
         result' \in {"running", "ok", "empty", "malformed"},
         result' = "ok" => Position = size
  PROVE  IInv'
<1>1. Position' = Position /\ Done' = Done BY DEF Position, Done
<1>2. TypeOK' BY DEF IInv, TypeOK
<1>3. SizeInv' BY <1>1 DEF IInv, SizeInv
<1>4. CopyInv' BY <1>1 DEF IInv, CopyInv, LzCopyInv, DeltaCopyInv
<1> QED BY <1>2, <1>3, <1>4 DEF IInv

LEMMA NextIInv == IInv /\ [Next]_vars => IInv'
<1> SUFFICES ASSUME IInv, [Next]_vars PROVE IInv' OBVIOUS
<1>1. ASSUME NEW item \in Items, Decode(item) PROVE IInv'
  <2>1. CASE item.kind = "literal" /\ Literal(item.byte)
    BY <2>1, ItemTypes, LiteralKeepsInv
  <2>2. CASE item.kind = "lz" /\ LzMatch(item.rep, item.offset, item.length)
    BY <2>2, ItemTypes, LzMatchKeepsInv
  <2>3. CASE item.kind = "delta"
             /\ DeltaMatch(item.rep, item.offset, item.power, item.length)
    BY <2>3, ItemTypes, DeltaMatchKeepsInv
  <2> QED BY <1>1, <2>1, <2>2, <2>3 DEF Decode
<1>2. CASE EmptyStream BY <1>2, ReturnKeepsInv DEF EmptyStream
<1>3. CASE TooLarge BY <1>3, ReturnKeepsInv DEF TooLarge
<1>4. CASE ReadFails BY <1>4, ReturnKeepsInv DEF ReadFails
<1>5. CASE CopyLz BY <1>5, CopyLzKeepsInv
<1>6. CASE CopyDelta BY <1>6, CopyDeltaKeepsInv
<1>7. CASE Finish
  <2>1. Position = size
    <3>1. Position \in Nat /\ size \in Nat BY PositionType DEF IInv
    <3> QED BY <1>7, <3>1 DEF IInv, SizeInv, Finish
  <2> QED BY <1>7, <2>1, ReturnKeepsInv DEF Finish
<1>8. CASE UNCHANGED vars
  <2>1. result' \in {"running", "ok", "empty", "malformed", "panic"}
    BY <1>8 DEF vars, IInv, TypeOK
  <2>2. result' = result /\ result # "panic" BY <1>8 DEF vars, IInv, SizeInv
  <2>3. result' = "ok" => Position = size BY <2>2 DEF IInv, SizeInv
  <2> QED BY <1>8, <2>1, <2>2, <2>3, ReturnKeepsInv DEF vars
<1> QED BY <1>1, <1>2, <1>3, <1>4, <1>5, <1>6, <1>7, <1>8 DEF Next

LEMMA Invariance == Spec => []IInv
<1> QED BY InitIInv, NextIInv, PTL DEF Spec

-----------------------------------------------------------------------------
(***************************************************************************)
(* The output holds bytes, the queues hold offsets of at least one and     *)
(* powers below eight, and a match in copy is one of these (decompress,    *)
(* crates/lzms/src/lib.rs).                                                *)
(***************************************************************************)
THEOREM TypeCorrect == Spec => []TypeOK
<1>1. IInv => TypeOK BY DEF IInv
<1> QED BY <1>1, Invariance, PTL

(***************************************************************************)
(* No copy of the decoder leaves the buffer, whatever the stream, and an   *)
(* output returned has the announced size (the loops of decompress, which  *)
(* index the buffer).                                                      *)
(***************************************************************************)
THEOREM AlwaysInBuffer == Spec => []StaysInBuffer
<1>1. IInv => StaysInBuffer BY DEF IInv, SizeInv, CopyInv, StaysInBuffer
<1> QED BY <1>1, Invariance, PTL

(***************************************************************************)
(* Every memmove of an overlapping match copies what a byte-by-byte LZ     *)
(* copy would (the doubling loop of decompress).                           *)
(***************************************************************************)
THEOREM DoublingAlwaysRepeats == Spec => DoublingRepeats
<1> DEFINE Step == copy.kind = "lz" =>
             \A p \in Position + 1 .. Len(output') : output'[p] = output'[p - copy.offset]
<1>1. ASSUME IInv, [Next]_vars PROVE Step \/ UNCHANGED vars
  <2>1. CASE CopyLz
    <3>1. copy # NoCopy /\ result = "running" BY <2>1 DEF CopyLz, NoCopy
    <3>2. PICK count \in 1 .. copy.length - Done : LzStep(count)
      BY <1>1, <2>1, CopyLzEffect
    <3>3. Len(output') = Position + count BY <3>2 DEF LzStep, MovedOn, Position
    <3> QED BY <3>2, <3>3 DEF LzStep, Repeating
  <2>2. CASE output' = output
    <3>1. Position \in Nat /\ Len(output') = Position
      BY <1>1, <2>2, PositionType DEF IInv, Position
    <3> QED BY <3>1
  <2>3. CASE copy.kind # "lz" BY <2>3
  <2>4. ASSUME copy.kind = "lz", Next PROVE CopyLz \/ output' = output
    <3>1. copy # NoCopy BY <2>4 DEF NoCopy
    <3>2. ~Reading /\ ~CopyDelta /\ ~Finish
      BY <2>4, <3>1 DEF Reading, CopyDelta, Finish
    <3>3. \A item \in Items : ~Decode(item)
      BY <3>2 DEF Decode, Literal, LzMatch, DeltaMatch
    <3> QED BY <2>4, <3>2, <3>3 DEF Next, EmptyStream, TooLarge, ReadFails
  <2> QED BY <1>1, <2>1, <2>2, <2>3, <2>4 DEF vars
<1>2. IInv /\ [Next]_vars => [Step]_vars BY <1>1
<1> QED BY <1>2, Invariance, PTL DEF Spec, DoublingRepeats
=============================================================================
