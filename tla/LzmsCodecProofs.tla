---------------------------- MODULE LzmsCodecProofs ----------------------------
(***************************************************************************)
(* compress and decompress of LZMS agree, for all data, every choice of    *)
(* matches and every size of a byte: at each item the two streams go on    *)
(* with just one, the decoder has the queues it was written with, never    *)
(* rejects, and ends with the data.                                        *)
(*                                                                         *)
(* The decoder of LzmsCodec is an instance of LzmsDecoder, so what         *)
(* LzmsDecoderProofs proves for every stream holds here as well; D is the  *)
(* same instance of the module with the theorems.                          *)
(***************************************************************************)
EXTENDS LzmsCodec, FiniteSetTheorems, SequenceTheorems, WellFoundedInduction, TLAPS

D == INSTANCE LzmsDecoderProofs
       WITH size    <- Len(data),
            Offsets <- Nat \ {0},
            Lengths <- Nat \ {0},
            Sizes   <- Nat,
            MaxSize <- 64 * 1024 * 1024

-----------------------------------------------------------------------------
(***************************************************************************)
(* The inductive invariant.  Behind the two streams there is a trace: the  *)
(* items coded, and for each number of them the bytes they stand for, the  *)
(* queues and the last kind after them, and how far they reach into either *)
(* stream.  The encoder is at its end, and the decoder walks along it.     *)
(***************************************************************************)
Points ==
  [place : Nat, lz : [0 .. 3 -> Nat \ {0}], delta : [0 .. 3 -> (Nat \ {0}) \X (0 .. 7)],
   last : {"literal", "lz", "delta"}, decs : Nat, syms : Nat]

Start ==
  [place |-> 0, lz |-> D!FirstLzQueue, delta |-> D!FirstDeltaQueue,
   last |-> "literal", decs |-> 0, syms |-> 0]

\* An item as it is written: where an offset is named, none is stated.
IsLiteral(item) == \E byte \in 0 .. ByteSize - 1 : item = D!LiteralItem(byte)

IsLz(item) ==
  \/ \E rep \in 0 .. 2, length \in Nat \ {0} : item = D!LzItem(rep, 1, length)
  \/ \E offset \in Nat \ {0}, length \in Nat \ {0} :
       item = D!LzItem(D!Explicit, offset, length)

IsDelta(item) ==
  \/ \E rep \in 0 .. 2, length \in Nat \ {0} : item = D!DeltaItem(rep, 1, 0, length)
  \/ \E offset \in Nat \ {0}, power \in 0 .. 7, length \in Nat \ {0} :
       item = D!DeltaItem(D!Explicit, offset, power, length)

\* The offset an LZ match means, and the pair a delta match means.
LzStated(before, item) ==
  IF item.rep = D!Explicit THEN item.offset
  ELSE before.lz[D!Adjusted(item.rep, before.last = "lz")]

DeltaStated(before, item) ==
  IF item.rep = D!Explicit THEN <<item.offset, item.power>>
  ELSE before.delta[D!Adjusted(item.rep, before.last = "delta")]

\* The bytes behind place repeat those an offset before them.
Repeats(s, place, count, offset) ==
  \A k \in 1 .. count : s[place + k] = s[place + k - offset]

\* Or continue a delta.
Continues(s, place, count, offset, span) ==
  \A k \in 1 .. count :
    s[place + k] = D!Predicted(s, place + k - 1, offset, span)

LiteralLeads(before, item, after) ==
  /\ IsLiteral(item)
  /\ after.place = before.place + 1 /\ item.byte = data[after.place]
  /\ after.lz = before.lz /\ after.delta = before.delta

LzLeads(before, item, after) ==
  LET offset == LzStated(before, item)
  IN  /\ IsLz(item)
      /\ after.place = before.place + item.length
      /\ offset \in 1 .. before.place
      /\ Repeats(data, before.place, item.length, offset)
      /\ after.lz = IF item.rep = D!Explicit THEN D!QueuePush(before.lz, offset)
                    ELSE D!QueueMtf(before.lz, D!Adjusted(item.rep, before.last = "lz"))
      /\ after.delta = before.delta

DeltaLeads(before, item, after) ==
  LET pair  == DeltaStated(before, item)
      span  == D!Span(pair[2])
      bytes == pair[1] * span
  IN  /\ IsDelta(item)
      /\ after.place = before.place + item.length
      /\ pair \in (Nat \ {0}) \X (0 .. 7)
      /\ bytes + span <= before.place
      /\ Continues(data, before.place, item.length, bytes, span)
      /\ after.delta =
           IF item.rep = D!Explicit THEN D!QueuePush(before.delta, pair)
           ELSE D!QueueMtf(before.delta, D!Adjusted(item.rep, before.last = "delta"))
      /\ after.lz = before.lz

\* What is written of an item, behind what is written before it.
Written(before, item, after) ==
  /\ Follows(decisions, before.decs, D!Decisions(item))
  /\ Follows(symbols, before.syms, D!Symbols(item))
  /\ after.decs = before.decs + Len(D!Decisions(item))
  /\ after.syms = before.syms + Len(D!Symbols(item))

\* What an item makes of one point of the trace.
Leads(before, item, after) ==
  /\ Written(before, item, after)
  /\ after.last = item.kind
  /\ \/ LiteralLeads(before, item, after)
     \/ LzLeads(before, item, after)
     \/ DeltaLeads(before, item, after)

IsTrace(trace, items, n) ==
  /\ n \in Nat /\ trace \in [0 .. n -> Points] /\ trace[0] = Start
  /\ \A k \in 1 .. n : Leads(trace[k - 1], items[k], trace[k])
  /\ \A j, k \in 0 .. n : j < k => trace[j].place < trace[k].place

\* The encoder is at the end of the trace.
EncoderAt(trace, n) ==
  /\ coded \in 0 .. Len(data)
  /\ trace[n] = [place |-> coded, lz |-> lzRecent, delta |-> deltaRecent,
                 last |-> lastType, decs |-> Len(decisions), syms |-> Len(symbols)]

\* The copy in progress is that of the item read last.
Copying(before, item) ==
  /\ copy.kind = item.kind
  /\ copy.start = before.place
  /\ copy.length = item.length
  /\ item.kind = "lz" => copy.offset = LzStated(before, item)
  /\ item.kind = "delta" =>
       /\ copy.span = D!Span(DeltaStated(before, item)[2])
       /\ copy.offset = DeltaStated(before, item)[1] * copy.span

\* The decoder is at point k.
DecoderAt(trace, items, n, k) ==
  /\ k \in 0 .. n
  /\ lzQueue = trace[k].lz /\ deltaQueue = trace[k].delta /\ prevType = trace[k].last
  /\ decisionPos = trace[k].decs /\ symbolPos = trace[k].syms
  /\ result \in {"running", "ok"}
  /\ \A p \in 1 .. Len(output) : output[p] = data[p]
  /\ IF copy = D!NoCopy
     THEN Len(output) = trace[k].place
     ELSE k > 0 /\ items[k].kind # "literal" /\ Copying(trace[k - 1], items[k])
  /\ ~Encoded => k = 0 /\ copy = D!NoCopy /\ result = "running"

InStep(trace, items, n, k) ==
  IsTrace(trace, items, n) /\ EncoderAt(trace, n) /\ DecoderAt(trace, items, n, k)

\* What is coded, with the table of probabilities or the Huffman code it is coded by.
Names ==
  {"main", "match", "lz", "lzRep0", "lzRep1", "delta", "deltaRep0", "deltaRep1",
   "literal", "length", "lzOffset", "deltaPower", "deltaOffset"}

Stream == Seq(Names \X Nat)

CodecInv ==
  /\ data \in Data /\ decisions \in Stream /\ symbols \in Stream
  /\ \E trace, items, n, k : InStep(trace, items, n, k)

IInv == D!IInv /\ CodecInv

-----------------------------------------------------------------------------
(***************************************************************************)
(* Encoder, Decoder and D hold copies of the same operators.               *)
(***************************************************************************)
\* The theorems about the decoder ask of the constants what the codec's say.
LEMMA DecoderInputs == D!DecoderConstants
<1>1. 64 * 1024 * 1024 \in Nat OBVIOUS
<1> QED BY <1>1, CodecConstants DEF D!DecoderConstants

\* The encoder's queues.
LEMMA SameQueues ==
  /\ \A queue, entry : Encoder!QueuePush(queue, entry) = D!QueuePush(queue, entry)
  /\ \A queue, used : Encoder!QueueMtf(queue, used) = D!QueueMtf(queue, used)
  /\ \A rep, used : Encoder!Adjusted(rep, used) = D!Adjusted(rep, used)
  /\ \A power : Encoder!Span(power) = D!Span(power)
  /\ Encoder!FirstLzQueue = D!FirstLzQueue /\ Encoder!FirstDeltaQueue = D!FirstDeltaQueue
<1>1. Encoder!Slots = D!Slots BY DEF Encoder!Slots, D!Slots
<1>2. \A queue, entry : Encoder!QueuePush(queue, entry) = D!QueuePush(queue, entry)
  BY <1>1, Zenon DEF Encoder!QueuePush, D!QueuePush
<1>3. \A queue, used : Encoder!QueueMtf(queue, used) = D!QueueMtf(queue, used)
  BY <1>1, Zenon DEF Encoder!QueueMtf, D!QueueMtf
<1>4. \A rep, used : Encoder!Adjusted(rep, used) = D!Adjusted(rep, used)
  BY Zenon DEF Encoder!Adjusted, D!Adjusted
<1>5. \A power : Encoder!Span(power) = D!Span(power)
  BY Zenon DEF Encoder!Span, D!Span
<1>6. Encoder!FirstLzQueue = D!FirstLzQueue /\ Encoder!FirstDeltaQueue = D!FirstDeltaQueue
  BY <1>1, Zenon DEF Encoder!FirstLzQueue, D!FirstLzQueue,
                     Encoder!FirstDeltaQueue, D!FirstDeltaQueue
<1> QED BY <1>2, <1>3, <1>4, <1>5, <1>6

\* What an item is, and how it is laid out.
LEMMA SameItems ==
  /\ Decoder!Explicit = D!Explicit /\ Decoder!Reps = 0 .. 2 /\ D!Explicit = 3
  /\ \A byte : Decoder!LiteralItem(byte) = D!LiteralItem(byte)
  /\ \A rep, offset, length :
       Decoder!LzItem(rep, offset, length) = D!LzItem(rep, offset, length)
  /\ \A rep, offset, power, length :
       Decoder!DeltaItem(rep, offset, power, length) = D!DeltaItem(rep, offset, power, length)
  /\ \A item : Decoder!Decisions(item) = D!Decisions(item)
  /\ \A item : Decoder!Symbols(item) = D!Symbols(item)
  /\ Decoder!Reading = D!Reading
<1>1. Decoder!Explicit = D!Explicit /\ Decoder!Reps = 0 .. 2 /\ D!Explicit = 3
  BY DEF Decoder!Explicit, D!Explicit, Decoder!Reps
<1>2. \A byte : Decoder!LiteralItem(byte) = D!LiteralItem(byte)
  BY Zenon DEF Decoder!LiteralItem, D!LiteralItem
<1>3. \A rep, offset, length :
        Decoder!LzItem(rep, offset, length) = D!LzItem(rep, offset, length)
  BY Zenon DEF Decoder!LzItem, D!LzItem
<1>4. \A rep, offset, power, length :
        Decoder!DeltaItem(rep, offset, power, length) = D!DeltaItem(rep, offset, power, length)
  BY Zenon DEF Decoder!DeltaItem, D!DeltaItem
<1>5. \A item : Decoder!Decisions(item) = D!Decisions(item)
  <2>1. \A t1, t2, rep : Decoder!RepDecisions(t1, t2, rep) = D!RepDecisions(t1, t2, rep)
    BY Zenon DEF Decoder!RepDecisions, D!RepDecisions
  <2> QED BY <1>1, <2>1, Zenon DEF Decoder!Decisions, D!Decisions
<1>6. \A item : Decoder!Symbols(item) = D!Symbols(item)
  BY <1>1, Zenon DEF Decoder!Symbols, D!Symbols
<1>7. Decoder!Reading = D!Reading
  BY Zenon DEF Decoder!Reading, D!Reading, Decoder!NoCopy, D!NoCopy,
               Decoder!Position, D!Position
<1> QED BY <1>1, <1>2, <1>3, <1>4, <1>5, <1>6, <1>7

\* The decoder's initial states and actions.
LEMMA SameActions ==
  /\ Decoder!Init => D!Init
  /\ \A item : Decoder!Decode(item) =>
       \/ item.kind = "literal" /\ D!Literal(item.byte)
       \/ item.kind = "lz" /\ D!LzMatch(item.rep, item.offset, item.length)
       \/ item.kind = "delta"
            /\ D!DeltaMatch(item.rep, item.offset, item.power, item.length)
  /\ Decoder!CopyLz = D!CopyLz
  /\ Decoder!CopyDelta = D!CopyDelta
  /\ Decoder!Finish = D!Finish
<1>0. Decoder!Position = D!Position /\ Decoder!NoCopy = D!NoCopy /\ Decoder!Done = D!Done
  BY Zenon DEF Decoder!Position, D!Position, Decoder!NoCopy, D!NoCopy, Decoder!Done, D!Done
<1>1. Decoder!Init => D!Init
  BY <1>0, Zenon DEF Decoder!Init, D!Init, Decoder!FirstLzQueue, D!FirstLzQueue,
       Decoder!FirstDeltaQueue, D!FirstDeltaQueue, Decoder!Slots, D!Slots
<1>2. /\ \A queue, entry : Decoder!QueuePush(queue, entry) = D!QueuePush(queue, entry)
      /\ \A queue, used : Decoder!QueueMtf(queue, used) = D!QueueMtf(queue, used)
      /\ \A rep, used : Decoder!Adjusted(rep, used) = D!Adjusted(rep, used)
      /\ \A power : Decoder!Span(power) = D!Span(power)
  BY Zenon DEF Decoder!QueuePush, D!QueuePush, Decoder!QueueMtf, D!QueueMtf,
       Decoder!Adjusted, D!Adjusted, Decoder!Span, D!Span, Decoder!Slots, D!Slots
<1>3. \A kind, offset, span, length, fits :
        Decoder!StartCopy(kind, offset, span, length, fits)
          = D!StartCopy(kind, offset, span, length, fits)
  BY <1>0, Zenon DEF Decoder!StartCopy, D!StartCopy, Decoder!Cut, D!Cut
<1>4. \A byte : Decoder!Literal(byte) = D!Literal(byte)
  BY SameItems, Zenon DEF Decoder!Literal, D!Literal
<1>5. \A rep, offset, length :
        Decoder!LzMatch(rep, offset, length) = D!LzMatch(rep, offset, length)
  <2>1. \A rep : Decoder!LzSlot(rep) = D!LzSlot(rep)
    BY <1>2, Zenon DEF Decoder!LzSlot, D!LzSlot
  <2>2. \A rep, offset : Decoder!LzQueueAfter(rep, offset) = D!LzQueueAfter(rep, offset)
    BY <1>2, <2>1, SameItems, Zenon DEF Decoder!LzQueueAfter, D!LzQueueAfter
  <2> QED BY <1>0, <1>3, <2>1, <2>2, SameItems, Zenon DEF Decoder!LzMatch, D!LzMatch
<1>6. \A rep, offset, power, length :
        Decoder!DeltaMatch(rep, offset, power, length) = D!DeltaMatch(rep, offset, power, length)
  <2>1. \A rep : Decoder!DeltaSlot(rep) = D!DeltaSlot(rep)
    BY <1>2, Zenon DEF Decoder!DeltaSlot, D!DeltaSlot
  <2>2. \A offset, span : Decoder!DeltaFits(offset, span) = D!DeltaFits(offset, span)
    BY <1>0, Zenon DEF Decoder!DeltaFits, D!DeltaFits
  <2>3. Decoder!Explicit = D!Explicit /\ Decoder!Reading = D!Reading BY SameItems
  <2>4. ASSUME NEW rep, NEW offset, NEW power, NEW length
        PROVE  Decoder!DeltaMatch(rep, offset, power, length)
                 = D!DeltaMatch(rep, offset, power, length)
    <3> DEFINE pair == IF rep = D!Explicit THEN <<offset, power>>
                       ELSE deltaQueue[D!DeltaSlot(rep)]
    <3>1. pair = IF rep = Decoder!Explicit THEN <<offset, power>>
                 ELSE deltaQueue[Decoder!DeltaSlot(rep)]
      BY <2>1, <2>3
    <3>2. D!DeltaMatch(rep, offset, power, length) =
            /\ Decoder!Reading
            /\ deltaQueue' = IF rep = Decoder!Explicit THEN Decoder!QueuePush(deltaQueue, pair)
                             ELSE Decoder!QueueMtf(deltaQueue, Decoder!DeltaSlot(rep))
            /\ Decoder!StartCopy("delta", pair[1] * Decoder!Span(pair[2]),
                   Decoder!Span(pair[2]), length,
                   Decoder!DeltaFits(pair[1] * Decoder!Span(pair[2]), Decoder!Span(pair[2])))
            /\ UNCHANGED <<Len(data), output, lzQueue>>
      BY <1>2, <1>3, <2>1, <2>2, <2>3, Zenon DEF D!DeltaMatch
    <3> QED BY <3>1, <3>2, Zenon DEF Decoder!DeltaMatch
  <2> QED BY <2>4
<1>7. \A bytes : Decoder!Copied(bytes) = D!Copied(bytes)
  BY <1>0, Zenon DEF Decoder!Copied, D!Copied
<1>8. Decoder!CopyLz = D!CopyLz
  <2>1. \A from : Decoder!Chunk(from) = D!Chunk(from)
    BY <1>0, Zenon DEF Decoder!Chunk, D!Chunk, Decoder!Least, D!Least
  <2>2. \A p : Decoder!Buffered(p) = D!Buffered(p)
    BY <1>0, Zenon DEF Decoder!Buffered, D!Buffered
  <2> QED BY <1>0, <1>7, <2>1, <2>2, Zenon DEF Decoder!CopyLz, D!CopyLz
<1>9. Decoder!CopyDelta = D!CopyDelta
  <2>1. \A bytes, p, offset, span :
          Decoder!Predicted(bytes, p, offset, span) = D!Predicted(bytes, p, offset, span)
    BY Zenon DEF Decoder!Predicted, D!Predicted
  <2> QED BY <1>0, <1>7, <2>1, Zenon DEF Decoder!CopyDelta, D!CopyDelta
<1>10. Decoder!Finish = D!Finish
  BY <1>0 DEF Decoder!Finish, D!Finish
<1>11. \A item : Decoder!Decode(item) =>
       \/ item.kind = "literal" /\ D!Literal(item.byte)
       \/ item.kind = "lz" /\ D!LzMatch(item.rep, item.offset, item.length)
       \/ item.kind = "delta"
            /\ D!DeltaMatch(item.rep, item.offset, item.power, item.length)
  BY <1>4, <1>5, <1>6, Zenon DEF Decoder!Decode
<1> QED BY <1>1, <1>8, <1>9, <1>10, <1>11

-----------------------------------------------------------------------------
(***************************************************************************)
(* Streams: what is written behind is there to be read.                    *)
(***************************************************************************)
\* Place by place.
LEMMA FollowsPlaces ==
  ASSUME NEW X, NEW stream \in Seq(X), NEW pos \in Nat, NEW expected \in Seq(X)
  PROVE  Follows(stream, pos, expected) <=>
           /\ pos + Len(expected) <= Len(stream)
           /\ \A i \in 1 .. Len(expected) : stream[pos + i] = expected[i]
<1> DEFINE n == Len(expected)
           m == pos + 1
           l == pos + n
<1>0. n \in Nat /\ Len(stream) \in Nat BY LenProperties
<1>1. SUFFICES ASSUME l <= Len(stream)
      PROVE  SubSeq(stream, m, l) = expected
               <=> \A i \in 1 .. n : stream[pos + i] = expected[i]
  BY <1>1 DEF Follows
<1>2. \A i \in m .. l : stream[i] \in X
  <2>1. \A i \in m .. l : i \in 1 .. Len(stream) BY <1>0, <1>1
  <2> QED BY <2>1, ElementOfSeq
<1>3. m \in Int /\ l \in Int /\ l - m + 1 = n /\ (m <= l \/ n = 0) BY <1>0
<1>4. /\ SubSeq(stream, m, l) \in Seq(X)
      /\ Len(SubSeq(stream, m, l)) = IF m <= l THEN l - m + 1 ELSE 0
      /\ \A i \in 1 .. l - m + 1 : SubSeq(stream, m, l)[i] = stream[m + i - 1]
  BY <1>2, <1>3, SubSeqProperties
<1>5. Len(SubSeq(stream, m, l)) = n
  <2>1. ~(m <= l) => n = 0 BY <1>0
  <2> QED BY <1>3, <1>4, <2>1
<1>6. \A i \in 1 .. n : SubSeq(stream, m, l)[i] = stream[pos + i]
  <2>1. \A i \in 1 .. n : m + i - 1 = pos + i BY <1>0
  <2> QED BY <1>3, <1>4, <2>1
<1> DEFINE s == SubSeq(stream, m, l)
<1>7. s \in Seq(X) /\ Len(s) = n /\ \A i \in 1 .. n : s[i] = stream[pos + i]
  BY <1>4, <1>5, <1>6
<1> HIDE DEF s
<1>8. (\A i \in 1 .. n : stream[pos + i] = expected[i]) => s = expected
  BY <1>7, SeqEqual
<1> QED BY <1>7, <1>8 DEF s

\* What is written behind is there, and what was there stays.
LEMMA WrittenBehind ==
  ASSUME NEW X, NEW stream \in Seq(X), NEW written \in Seq(X)
  PROVE  /\ stream \o written \in Seq(X)
         /\ Len(stream \o written) = Len(stream) + Len(written)
         /\ Follows(stream \o written, Len(stream), written)
         /\ \A pos \in Nat : \A expected \in Seq(X) :
              Follows(stream, pos, expected) => Follows(stream \o written, pos, expected)
<1> DEFINE n == Len(stream)
           k == Len(written)
           s == stream \o written
<1>0. n \in Nat /\ k \in Nat BY LenProperties
<1>1. /\ s \in Seq(X) /\ Len(s) = n + k
      /\ \A i \in 1 .. n + k : s[i] = IF i <= n THEN stream[i] ELSE written[i - n]
  BY ConcatProperties
<1> HIDE DEF s, n, k
<1>2. \A i \in 1 .. n : s[i] = stream[i] BY <1>0, <1>1
<1>3. \A i \in 1 .. k : s[n + i] = written[i]
  <2>1. \A i \in 1 .. k : n + i \in 1 .. n + k /\ ~(n + i <= n) /\ (n + i) - n = i BY <1>0
  <2> QED BY <1>1, <2>1
<1>4. Follows(s, n, written)
  BY <1>0, <1>1, <1>3, FollowsPlaces DEF k
<1>5. ASSUME NEW pos \in Nat, NEW expected \in Seq(X), Follows(stream, pos, expected)
      PROVE  Follows(s, pos, expected)
  <2>0. Len(expected) \in Nat BY LenProperties
  <2>1. pos + Len(expected) <= n /\ \A i \in 1 .. Len(expected) : stream[pos + i] = expected[i]
    BY <1>5, FollowsPlaces DEF n
  <2>2. \A i \in 1 .. Len(expected) : pos + i \in 1 .. n BY <1>0, <2>0, <2>1
  <2>3. \A i \in 1 .. Len(expected) : s[pos + i] = expected[i] BY <1>2, <2>1, <2>2
  <2>4. pos + Len(expected) <= Len(s) BY <1>0, <1>1, <2>0, <2>1
  <2> QED BY <1>1, <2>3, <2>4, FollowsPlaces
<1> QED BY <1>1, <1>4, <1>5 DEF n, k, s

\* A sequence that holds two others, one behind the other, is the two joined.
LEMMA ConcatIs ==
  ASSUME NEW X, NEW s \in Seq(X), NEW t \in Seq(X), NEW u \in Seq(X),
         Len(u) = Len(s) + Len(t),
         \A i \in 1 .. Len(s) : u[i] = s[i],
         \A i \in 1 .. Len(t) : u[Len(s) + i] = t[i]
  PROVE  s \o t = u
<1> DEFINE st == s \o t
           n == Len(s)
           k == Len(t)
<1>1. /\ st \in Seq(X) /\ Len(st) = n + k
      /\ \A i \in 1 .. n + k : st[i] = IF i <= n THEN s[i] ELSE t[i - n]
  BY ConcatProperties
<1>2. n \in Nat /\ k \in Nat BY LenProperties
<1>0. Len(u) = n + k /\ (\A i \in 1 .. n : u[i] = s[i]) /\ (\A i \in 1 .. k : u[n + i] = t[i])
  OBVIOUS
<1> HIDE DEF st, n, k
<1>3. ASSUME NEW i \in 1 .. Len(u) PROVE st[i] = u[i]
  <2>1. CASE i <= n BY <1>0, <1>1, <1>2, <2>1
  <2>2. CASE i > n
    <3> DEFINE j == i - n
    <3>1. j \in 1 .. k /\ n + j = i BY <1>0, <1>2, <2>2
    <3>2. st[i] = t[j] BY <1>0, <1>1, <1>2, <2>2
    <3> HIDE DEF j
    <3>3. u[n + j] = t[j] BY <1>0, <3>1
    <3> QED BY <3>1, <3>2, <3>3
  <2> QED BY <1>0, <1>2, <2>1, <2>2
<1>4. Len(st) = Len(u) BY <1>0, <1>1
<1>5. st = u BY <1>1, <1>3, <1>4, SeqEqual
<1> QED BY <1>5 DEF st

\* Tuples joined.
LEMMA Joined11 ==
  ASSUME NEW X, NEW a \in X, NEW b \in X
  PROVE  <<a>> \o <<b>> = <<a, b>>
<1> DEFINE s == <<a>>
           t == <<b>>
           u == <<a, b>>
<1>1. s \in Seq(X) /\ Len(s) = 1 /\ s[1] = a OBVIOUS
<1>2. t \in Seq(X) /\ Len(t) = 1 /\ t[1] = b OBVIOUS
<1>3. u \in Seq(X) /\ Len(u) = 2
      /\ u[1] = a /\ u[2] = b
  OBVIOUS
<1> HIDE DEF s, t, u
<1>4. \A i \in 1 .. Len(s) : u[i] = s[i] BY <1>1, <1>3
<1>5. \A i \in 1 .. Len(t) : u[Len(s) + i] = t[i] BY <1>1, <1>2, <1>3
<1>6. Len(u) = Len(s) + Len(t) BY <1>1, <1>2, <1>3
<1>7. s \o t = u BY <1>1, <1>2, <1>3, <1>4, <1>5, <1>6, ConcatIs
<1> QED BY <1>7 DEF s, t, u

LEMMA Joined12 ==
  ASSUME NEW X, NEW a \in X, NEW b \in X, NEW c \in X
  PROVE  <<a>> \o <<b, c>> = <<a, b, c>>
<1> DEFINE s == <<a>>
           t == <<b, c>>
           u == <<a, b, c>>
<1>1. s \in Seq(X) /\ Len(s) = 1 /\ s[1] = a OBVIOUS
<1>2. t \in Seq(X) /\ Len(t) = 2 /\ t[1] = b /\ t[2] = c OBVIOUS
<1>3. u \in Seq(X) /\ Len(u) = 3
      /\ u[1] = a /\ u[2] = b /\ u[3] = c
  OBVIOUS
<1> HIDE DEF s, t, u
<1>4. \A i \in 1 .. Len(s) : u[i] = s[i] BY <1>1, <1>3
<1>5. \A i \in 1 .. Len(t) : u[Len(s) + i] = t[i] BY <1>1, <1>2, <1>3
<1>6. Len(u) = Len(s) + Len(t) BY <1>1, <1>2, <1>3
<1>7. s \o t = u BY <1>1, <1>2, <1>3, <1>4, <1>5, <1>6, ConcatIs
<1> QED BY <1>7 DEF s, t, u

LEMMA Joined21 ==
  ASSUME NEW X, NEW a \in X, NEW b \in X, NEW c \in X
  PROVE  <<a, b>> \o <<c>> = <<a, b, c>>
<1> DEFINE s == <<a, b>>
           t == <<c>>
           u == <<a, b, c>>
<1>1. s \in Seq(X) /\ Len(s) = 2 /\ s[1] = a /\ s[2] = b OBVIOUS
<1>2. t \in Seq(X) /\ Len(t) = 1 /\ t[1] = c OBVIOUS
<1>3. u \in Seq(X) /\ Len(u) = 3
      /\ u[1] = a /\ u[2] = b /\ u[3] = c
  OBVIOUS
<1> HIDE DEF s, t, u
<1>4. \A i \in 1 .. Len(s) : u[i] = s[i] BY <1>1, <1>3
<1>5. \A i \in 1 .. Len(t) : u[Len(s) + i] = t[i] BY <1>1, <1>2, <1>3
<1>6. Len(u) = Len(s) + Len(t) BY <1>1, <1>2, <1>3
<1>7. s \o t = u BY <1>1, <1>2, <1>3, <1>4, <1>5, <1>6, ConcatIs
<1> QED BY <1>7 DEF s, t, u

LEMMA Joined22 ==
  ASSUME NEW X, NEW a \in X, NEW b \in X, NEW c \in X, NEW d \in X
  PROVE  <<a, b>> \o <<c, d>> = <<a, b, c, d>>
<1> DEFINE s == <<a, b>>
           t == <<c, d>>
           u == <<a, b, c, d>>
<1>1. s \in Seq(X) /\ Len(s) = 2 /\ s[1] = a /\ s[2] = b OBVIOUS
<1>2. t \in Seq(X) /\ Len(t) = 2 /\ t[1] = c /\ t[2] = d OBVIOUS
<1>3. u \in Seq(X) /\ Len(u) = 4
      /\ u[1] = a /\ u[2] = b /\ u[3] = c /\ u[4] = d
  OBVIOUS
<1> HIDE DEF s, t, u
<1>4. \A i \in 1 .. Len(s) : u[i] = s[i] BY <1>1, <1>3
<1>5. \A i \in 1 .. Len(t) : u[Len(s) + i] = t[i] BY <1>1, <1>2, <1>3
<1>6. Len(u) = Len(s) + Len(t) BY <1>1, <1>2, <1>3
<1>7. s \o t = u BY <1>1, <1>2, <1>3, <1>4, <1>5, <1>6, ConcatIs
<1> QED BY <1>7 DEF s, t, u

LEMMA Joined23 ==
  ASSUME NEW X, NEW a \in X, NEW b \in X, NEW c \in X, NEW d \in X, NEW e \in X
  PROVE  <<a, b>> \o <<c, d, e>> = <<a, b, c, d, e>>
<1> DEFINE s == <<a, b>>
           t == <<c, d, e>>
           u == <<a, b, c, d, e>>
<1>1. s \in Seq(X) /\ Len(s) = 2 /\ s[1] = a /\ s[2] = b OBVIOUS
<1>2. t \in Seq(X) /\ Len(t) = 3 /\ t[1] = c /\ t[2] = d /\ t[3] = e OBVIOUS
<1>3. u \in Seq(X) /\ Len(u) = 5
      /\ u[1] = a /\ u[2] = b /\ u[3] = c /\ u[4] = d /\ u[5] = e
  OBVIOUS
<1> HIDE DEF s, t, u
<1>4. \A i \in 1 .. Len(s) : u[i] = s[i] BY <1>1, <1>3
<1>5. \A i \in 1 .. Len(t) : u[Len(s) + i] = t[i] BY <1>1, <1>2, <1>3
<1>6. Len(u) = Len(s) + Len(t) BY <1>1, <1>2, <1>3
<1>7. s \o t = u BY <1>1, <1>2, <1>3, <1>4, <1>5, <1>6, ConcatIs
<1> QED BY <1>7 DEF s, t, u

LEMMA Joined31 ==
  ASSUME NEW X, NEW a \in X, NEW b \in X, NEW c \in X, NEW d \in X
  PROVE  <<a, b, c>> \o <<d>> = <<a, b, c, d>>
<1> DEFINE s == <<a, b, c>>
           t == <<d>>
           u == <<a, b, c, d>>
<1>1. s \in Seq(X) /\ Len(s) = 3 /\ s[1] = a /\ s[2] = b /\ s[3] = c OBVIOUS
<1>2. t \in Seq(X) /\ Len(t) = 1 /\ t[1] = d OBVIOUS
<1>3. u \in Seq(X) /\ Len(u) = 4
      /\ u[1] = a /\ u[2] = b /\ u[3] = c /\ u[4] = d
  OBVIOUS
<1> HIDE DEF s, t, u
<1>4. \A i \in 1 .. Len(s) : u[i] = s[i] BY <1>1, <1>3
<1>5. \A i \in 1 .. Len(t) : u[Len(s) + i] = t[i] BY <1>1, <1>2, <1>3
<1>6. Len(u) = Len(s) + Len(t) BY <1>1, <1>2, <1>3
<1>7. s \o t = u BY <1>1, <1>2, <1>3, <1>4, <1>5, <1>6, ConcatIs
<1> QED BY <1>7 DEF s, t, u

LEMMA Joined32 ==
  ASSUME NEW X, NEW a \in X, NEW b \in X, NEW c \in X, NEW d \in X, NEW e \in X
  PROVE  <<a, b, c>> \o <<d, e>> = <<a, b, c, d, e>>
<1> DEFINE s == <<a, b, c>>
           t == <<d, e>>
           u == <<a, b, c, d, e>>
<1>1. s \in Seq(X) /\ Len(s) = 3 /\ s[1] = a /\ s[2] = b /\ s[3] = c OBVIOUS
<1>2. t \in Seq(X) /\ Len(t) = 2 /\ t[1] = d /\ t[2] = e OBVIOUS
<1>3. u \in Seq(X) /\ Len(u) = 5
      /\ u[1] = a /\ u[2] = b /\ u[3] = c /\ u[4] = d /\ u[5] = e
  OBVIOUS
<1> HIDE DEF s, t, u
<1>4. \A i \in 1 .. Len(s) : u[i] = s[i] BY <1>1, <1>3
<1>5. \A i \in 1 .. Len(t) : u[Len(s) + i] = t[i] BY <1>1, <1>2, <1>3
<1>6. Len(u) = Len(s) + Len(t) BY <1>1, <1>2, <1>3
<1>7. s \o t = u BY <1>1, <1>2, <1>3, <1>4, <1>5, <1>6, ConcatIs
<1> QED BY <1>7 DEF s, t, u

LEMMA Joined ==
  ASSUME NEW X, NEW a \in X, NEW b \in X, NEW c \in X, NEW d \in X, NEW e \in X
  PROVE  /\ <<a, b>> \o <<c>> = <<a, b, c>>
         /\ <<a, b>> \o (<<c>> \o <<d>>) = <<a, b, c, d>>
         /\ <<a, b>> \o (<<c>> \o <<d, e>>) = <<a, b, c, d, e>>
<1>1. <<c>> \o <<d>> = <<c, d>> BY Joined11
<1>2. <<c>> \o <<d, e>> = <<c, d, e>> BY Joined12
<1>3. <<a, b>> \o <<c, d>> = <<a, b, c, d>> BY Joined22
<1>4. <<a, b>> \o <<c, d, e>> = <<a, b, c, d, e>> BY Joined23
<1>5. <<a, b>> \o <<c>> = <<a, b, c>> BY Joined21
<1> QED BY <1>1, <1>2, <1>3, <1>4, <1>5

-----------------------------------------------------------------------------
(***************************************************************************)
(* Items: what is written of one tells it from every other.                *)
(***************************************************************************)
\* An item of any size.
Shaped(item) ==
  \/ \E byte \in Nat : item = D!LiteralItem(byte)
  \/ \E rep \in 0 .. 2, length \in Nat : item = D!LzItem(rep, 1, length)
  \/ \E offset, length \in Nat : item = D!LzItem(3, offset, length)
  \/ \E rep \in 0 .. 2, length \in Nat : item = D!DeltaItem(rep, 1, 0, length)
  \/ \E offset, power, length \in Nat : item = D!DeltaItem(3, offset, power, length)

\* The decisions of each.
LEMMA DecisionsOf ==
  /\ \A byte : D!Decisions(D!LiteralItem(byte)) = <<<<"main", 0>>>>
  /\ \A o, l : /\ D!Decisions(D!LzItem(3, o, l)) = <<<<"main", 1>>, <<"match", 0>>, <<"lz", 0>>>>
               /\ D!Decisions(D!LzItem(0, o, l)) =
                    <<<<"main", 1>>, <<"match", 0>>, <<"lz", 1>>, <<"lzRep0", 0>>>>
               /\ D!Decisions(D!LzItem(1, o, l)) =
                    <<<<"main", 1>>, <<"match", 0>>, <<"lz", 1>>, <<"lzRep0", 1>>,
                      <<"lzRep1", 0>>>>
               /\ D!Decisions(D!LzItem(2, o, l)) =
                    <<<<"main", 1>>, <<"match", 0>>, <<"lz", 1>>, <<"lzRep0", 1>>,
                      <<"lzRep1", 1>>>>
  /\ \A o, w, l :
       /\ D!Decisions(D!DeltaItem(3, o, w, l)) =
            <<<<"main", 1>>, <<"match", 1>>, <<"delta", 0>>>>
       /\ D!Decisions(D!DeltaItem(0, o, w, l)) =
            <<<<"main", 1>>, <<"match", 1>>, <<"delta", 1>>, <<"deltaRep0", 0>>>>
       /\ D!Decisions(D!DeltaItem(1, o, w, l)) =
            <<<<"main", 1>>, <<"match", 1>>, <<"delta", 1>>, <<"deltaRep0", 1>>,
              <<"deltaRep1", 0>>>>
       /\ D!Decisions(D!DeltaItem(2, o, w, l)) =
            <<<<"main", 1>>, <<"match", 1>>, <<"delta", 1>>, <<"deltaRep0", 1>>,
              <<"deltaRep1", 1>>>>
<1>1. \A byte : D!Decisions(D!LiteralItem(byte)) = <<<<"main", 0>>>>
  BY DEF D!Decisions, D!LiteralItem
<1>2. \A t1, t2 : /\ D!RepDecisions(t1, t2, 0) = <<<<t1, 0>>>>
                  /\ D!RepDecisions(t1, t2, 1) = <<<<t1, 1>>, <<t2, 0>>>>
                  /\ D!RepDecisions(t1, t2, 2) = <<<<t1, 1>>, <<t2, 1>>>>
  BY DEF D!RepDecisions
<1>3. D!Explicit = 3 BY DEF D!Explicit
<1>4. ASSUME NEW rep \in 0 .. 3, NEW o, NEW l
      PROVE  D!Decisions(D!LzItem(rep, o, l)) =
               <<<<"main", 1>>, <<"match", 0>>>> \o
                 (IF rep = 3 THEN <<<<"lz", 0>>>>
                  ELSE <<<<"lz", 1>>>> \o D!RepDecisions("lzRep0", "lzRep1", rep))
  <2> DEFINE item == D!LzItem(rep, o, l)
  <2>1. item.kind = "lz" /\ item.rep = rep BY DEF D!LzItem
  <2> HIDE DEF item
  <2> QED BY <1>3, <2>1 DEF D!Decisions, item
<1>5. ASSUME NEW rep \in 0 .. 3, NEW o, NEW w, NEW l
      PROVE  D!Decisions(D!DeltaItem(rep, o, w, l)) =
               <<<<"main", 1>>, <<"match", 1>>>> \o
                 (IF rep = 3 THEN <<<<"delta", 0>>>>
                  ELSE <<<<"delta", 1>>>> \o D!RepDecisions("deltaRep0", "deltaRep1", rep))
  <2> DEFINE item == D!DeltaItem(rep, o, w, l)
  <2>1. item.kind = "delta" /\ item.rep = rep BY DEF D!DeltaItem
  <2> HIDE DEF item
  <2> QED BY <1>3, <2>1 DEF D!Decisions, item
<1>6. 0 \in 0 .. 3 /\ 1 \in 0 .. 3 /\ 2 \in 0 .. 3 /\ 3 \in 0 .. 3
      /\ 0 # 3 /\ 1 # 3 /\ 2 # 3
  OBVIOUS
<1>9. \A name \in Names : <<name, 0>> \in Names \X Nat /\ <<name, 1>> \in Names \X Nat
  OBVIOUS
<1>10. /\ "main" \in Names /\ "match" \in Names
       /\ "lz" \in Names /\ "lzRep0" \in Names /\ "lzRep1" \in Names
       /\ "delta" \in Names /\ "deltaRep0" \in Names /\ "deltaRep1" \in Names
  BY DEF Names
<1>7. ASSUME NEW o, NEW l
      PROVE  /\ D!Decisions(D!LzItem(3, o, l)) =
                  <<<<"main", 1>>, <<"match", 0>>, <<"lz", 0>>>>
             /\ D!Decisions(D!LzItem(0, o, l)) =
                  <<<<"main", 1>>, <<"match", 0>>, <<"lz", 1>>, <<"lzRep0", 0>>>>
             /\ D!Decisions(D!LzItem(1, o, l)) =
                  <<<<"main", 1>>, <<"match", 0>>, <<"lz", 1>>, <<"lzRep0", 1>>,
                    <<"lzRep1", 0>>>>
             /\ D!Decisions(D!LzItem(2, o, l)) =
                  <<<<"main", 1>>, <<"match", 0>>, <<"lz", 1>>, <<"lzRep0", 1>>,
                    <<"lzRep1", 1>>>>
  <2>1. D!Decisions(D!LzItem(3, o, l)) = <<<<"main", 1>>, <<"match", 0>>>> \o
           (<<<<"lz", 0>>>>)
    BY <1>2, <1>4, <1>6, Zenon
  <2>2. D!Decisions(D!LzItem(0, o, l)) = <<<<"main", 1>>, <<"match", 0>>>> \o
           (<<<<"lz", 1>>>> \o <<<<"lzRep0", 0>>>>)
    BY <1>2, <1>4, <1>6, Zenon
  <2>3. D!Decisions(D!LzItem(1, o, l)) = <<<<"main", 1>>, <<"match", 0>>>> \o
           (<<<<"lz", 1>>>> \o <<<<"lzRep0", 1>>, <<"lzRep1", 0>>>>)
    BY <1>2, <1>4, <1>6, Zenon
  <2>4. D!Decisions(D!LzItem(2, o, l)) = <<<<"main", 1>>, <<"match", 0>>>> \o
           (<<<<"lz", 1>>>> \o <<<<"lzRep0", 1>>, <<"lzRep1", 1>>>>)
    BY <1>2, <1>4, <1>6, Zenon
  <2> QED BY <1>9, <1>10, <2>1, <2>2, <2>3, <2>4, Joined
<1>8. ASSUME NEW o, NEW w, NEW l
      PROVE  /\ D!Decisions(D!DeltaItem(3, o, w, l)) =
                  <<<<"main", 1>>, <<"match", 1>>, <<"delta", 0>>>>
             /\ D!Decisions(D!DeltaItem(0, o, w, l)) =
                  <<<<"main", 1>>, <<"match", 1>>, <<"delta", 1>>, <<"deltaRep0", 0>>>>
             /\ D!Decisions(D!DeltaItem(1, o, w, l)) =
                  <<<<"main", 1>>, <<"match", 1>>, <<"delta", 1>>, <<"deltaRep0", 1>>,
                    <<"deltaRep1", 0>>>>
             /\ D!Decisions(D!DeltaItem(2, o, w, l)) =
                  <<<<"main", 1>>, <<"match", 1>>, <<"delta", 1>>, <<"deltaRep0", 1>>,
                    <<"deltaRep1", 1>>>>
  <2>1. D!Decisions(D!DeltaItem(3, o, w, l)) = <<<<"main", 1>>, <<"match", 1>>>> \o
           (<<<<"delta", 0>>>>)
    BY <1>2, <1>5, <1>6, Zenon
  <2>2. D!Decisions(D!DeltaItem(0, o, w, l)) = <<<<"main", 1>>, <<"match", 1>>>> \o
           (<<<<"delta", 1>>>> \o <<<<"deltaRep0", 0>>>>)
    BY <1>2, <1>5, <1>6, Zenon
  <2>3. D!Decisions(D!DeltaItem(1, o, w, l)) = <<<<"main", 1>>, <<"match", 1>>>> \o
           (<<<<"delta", 1>>>> \o <<<<"deltaRep0", 1>>, <<"deltaRep1", 0>>>>)
    BY <1>2, <1>5, <1>6, Zenon
  <2>4. D!Decisions(D!DeltaItem(2, o, w, l)) = <<<<"main", 1>>, <<"match", 1>>>> \o
           (<<<<"delta", 1>>>> \o <<<<"deltaRep0", 1>>, <<"deltaRep1", 1>>>>)
    BY <1>2, <1>5, <1>6, Zenon
  <2> QED BY <1>9, <1>10, <2>1, <2>2, <2>3, <2>4, Joined
<1> QED BY <1>1, <1>7, <1>8

\* And the symbols.
LEMMA SymbolsOf ==
  /\ \A byte : D!Symbols(D!LiteralItem(byte)) = <<<<"literal", byte>>>>
  /\ \A rep \in 0 .. 2 : \A o, w, l :
       /\ D!Symbols(D!LzItem(rep, o, l)) = <<<<"length", l>>>>
       /\ D!Symbols(D!DeltaItem(rep, o, w, l)) = <<<<"length", l>>>>
  /\ \A o, w, l :
       /\ D!Symbols(D!LzItem(3, o, l)) = <<<<"lzOffset", o>>, <<"length", l>>>>
       /\ D!Symbols(D!DeltaItem(3, o, w, l)) =
            <<<<"deltaPower", w>>, <<"deltaOffset", o>>, <<"length", l>>>>
<1>1. \A byte : D!Symbols(D!LiteralItem(byte)) = <<<<"literal", byte>>>>
  BY DEF D!Symbols, D!LiteralItem
<1>2. D!Explicit = 3 BY DEF D!Explicit
<1>3. ASSUME NEW rep \in 0 .. 3, NEW o, NEW l
      PROVE  D!Symbols(D!LzItem(rep, o, l)) =
               IF rep = 3 THEN <<<<"lzOffset", o>>, <<"length", l>>>> ELSE <<<<"length", l>>>>
  <2> DEFINE item == D!LzItem(rep, o, l)
  <2>1. item.kind = "lz" /\ item.rep = rep /\ item.offset = o /\ item.length = l
    BY DEF D!LzItem
  <2> HIDE DEF item
  <2> QED BY <1>2, <2>1 DEF D!Symbols, item
<1>4. ASSUME NEW rep \in 0 .. 3, NEW o, NEW w, NEW l
      PROVE  D!Symbols(D!DeltaItem(rep, o, w, l)) =
               IF rep = 3 THEN <<<<"deltaPower", w>>, <<"deltaOffset", o>>, <<"length", l>>>>
               ELSE <<<<"length", l>>>>
  <2> DEFINE item == D!DeltaItem(rep, o, w, l)
  <2>1. item.kind = "delta" /\ item.rep = rep /\ item.offset = o /\ item.length = l
        /\ item.power = w
    BY DEF D!DeltaItem
  <2> HIDE DEF item
  <2> QED BY <1>2, <2>1 DEF D!Symbols, item
<1>5. 3 \in 0 .. 3 /\ \A rep \in 0 .. 2 : rep \in 0 .. 3 /\ rep # 3 OBVIOUS
<1> QED BY <1>1, <1>3, <1>4, <1>5

-----------------------------------------------------------------------------
\* What may be written.
LEMMA Writable ==
  ASSUME NEW v \in Nat
  PROVE  /\ <<"main", v>> \in Names \X Nat
         /\ <<"match", v>> \in Names \X Nat
         /\ <<"lz", v>> \in Names \X Nat
         /\ <<"lzRep0", v>> \in Names \X Nat
         /\ <<"lzRep1", v>> \in Names \X Nat
         /\ <<"delta", v>> \in Names \X Nat
         /\ <<"deltaRep0", v>> \in Names \X Nat
         /\ <<"deltaRep1", v>> \in Names \X Nat
         /\ <<"literal", v>> \in Names \X Nat
         /\ <<"length", v>> \in Names \X Nat
         /\ <<"lzOffset", v>> \in Names \X Nat
         /\ <<"deltaPower", v>> \in Names \X Nat
         /\ <<"deltaOffset", v>> \in Names \X Nat
BY DEF Names

\* The item the decisions and symbols behind these places stand for.
ItemAt(decs, decPos, syms, symPos) ==
  LET says(i)  == decs[decPos + i][2]
      value(i) == syms[symPos + i][2]
      rep      == IF says(4) = 0 THEN 0 ELSE IF says(5) = 0 THEN 1 ELSE 2
  IN  IF says(1) = 0 THEN D!LiteralItem(value(1))
      ELSE IF says(2) = 0
           THEN IF says(3) = 0 THEN D!LzItem(3, value(1), value(2))
                ELSE D!LzItem(rep, 1, value(1))
           ELSE IF says(3) = 0 THEN D!DeltaItem(3, value(2), value(1), value(3))
                ELSE D!DeltaItem(rep, 1, 0, value(1))

\* What is written of an item is a stretch of the streams, and where it can be
\* read, no other can.
LEMMA OnlyItem ==
  ASSUME NEW decs \in Stream, NEW decPos \in Nat, NEW syms \in Stream, NEW symPos \in Nat,
         NEW item, Shaped(item)
  PROVE  /\ D!Decisions(item) \in Stream /\ D!Symbols(item) \in Stream
         /\ Follows(decs, decPos, D!Decisions(item)) /\ Follows(syms, symPos, D!Symbols(item))
              => item = ItemAt(decs, decPos, syms, symPos)
<1> DEFINE X == Names \X Nat
<1>0. decs \in Seq(X) /\ syms \in Seq(X) /\ Stream = Seq(X) BY DEF Stream
<1>1. /\ \A t \in Seq(X) : Follows(decs, decPos, t) =>
           \A i \in 1 .. Len(t) : decs[decPos + i] = t[i]
      /\ \A t \in Seq(X) : Follows(syms, symPos, t) =>
           \A i \in 1 .. Len(t) : syms[symPos + i] = t[i]
  <2> HIDE DEF X
  <2> QED BY <1>0, FollowsPlaces
<1> DEFINE Goal ==
             /\ D!Decisions(item) \in Seq(X) /\ D!Symbols(item) \in Seq(X)
             /\ Follows(decs, decPos, D!Decisions(item))
                  /\ Follows(syms, symPos, D!Symbols(item))
                  => item = ItemAt(decs, decPos, syms, symPos)
<1>2. ASSUME NEW byte \in Nat, item = D!LiteralItem(byte) PROVE Goal
  <2>1. D!Decisions(item) = <<<<"main", 0>>>>
    BY <1>2, DecisionsOf
  <2>2. D!Symbols(item) = <<<<"literal", byte>>>>
    BY <1>2, SymbolsOf
  <2>3. <<"main", 0>> \in X
    BY Writable DEF X
  <2>4. <<"literal", byte>> \in X
    BY <1>2, Writable DEF X
  <2> HIDE DEF X
  <2>5. /\ D!Decisions(item) \in Seq(X) /\ Len(D!Decisions(item)) = 1
       /\ D!Decisions(item)[1] = <<"main", 0>>
    BY <2>1, <2>3
  <2>6. /\ D!Symbols(item) \in Seq(X) /\ Len(D!Symbols(item)) = 1
       /\ D!Symbols(item)[1] = <<"literal", byte>>
    BY <2>2, <2>4
  <2> SUFFICES ASSUME Follows(decs, decPos, D!Decisions(item)),
                     Follows(syms, symPos, D!Symbols(item))
              PROVE  item = ItemAt(decs, decPos, syms, symPos)
    BY <2>5, <2>6 DEF Goal
  <2>7. /\ \A i \in 1 .. 1 : decs[decPos + i] = D!Decisions(item)[i]
       /\ \A i \in 1 .. 1 : syms[symPos + i] = D!Symbols(item)[i]
    BY <1>1, <2>5, <2>6
  <2>8. decs[decPos + 1] = <<"main", 0>>
    BY <2>5, <2>7
  <2>9. syms[symPos + 1] = <<"literal", byte>>
    BY <2>6, <2>7, SMTT(30)
  <2>10. decs[decPos + 1][2] = 0
    BY <2>8
  <2>11. syms[symPos + 1][2] = byte
    BY <2>9
  <2> QED BY <1>2, <2>10, <2>11 DEF ItemAt
<1>3. ASSUME NEW rep \in 0 .. 2, NEW length \in Nat, item = D!LzItem(rep, 1, length)
      PROVE  Goal
  <2>1. CASE rep = 0
    <3>1. D!Decisions(item) = <<<<"main", 1>>, <<"match", 0>>, <<"lz", 1>>, <<"lzRep0", 0>>>>
      BY <1>3, <2>1, DecisionsOf
    <3>2. D!Symbols(item) = <<<<"length", length>>>>
      BY <1>3, <2>1, SymbolsOf
    <3>3. /\ <<"main", 1>> \in X /\ <<"match", 0>> \in X /\ <<"lz", 1>> \in X
          /\ <<"lzRep0", 0>> \in X
      BY Writable DEF X
    <3>4. <<"length", length>> \in X
      BY <1>3, <2>1, Writable DEF X
    <3> HIDE DEF X
    <3>5. /\ D!Decisions(item) \in Seq(X) /\ Len(D!Decisions(item)) = 4
         /\ D!Decisions(item)[1] = <<"main", 1>> /\ D!Decisions(item)[2] = <<"match", 0>>
         /\ D!Decisions(item)[3] = <<"lz", 1>> /\ D!Decisions(item)[4] = <<"lzRep0", 0>>
      BY <3>1, <3>3
    <3>6. /\ D!Symbols(item) \in Seq(X) /\ Len(D!Symbols(item)) = 1
         /\ D!Symbols(item)[1] = <<"length", length>>
      BY <3>2, <3>4
    <3> SUFFICES ASSUME Follows(decs, decPos, D!Decisions(item)),
                       Follows(syms, symPos, D!Symbols(item))
                PROVE  item = ItemAt(decs, decPos, syms, symPos)
      BY <3>5, <3>6 DEF Goal
    <3>7. /\ \A i \in 1 .. 4 : decs[decPos + i] = D!Decisions(item)[i]
         /\ \A i \in 1 .. 1 : syms[symPos + i] = D!Symbols(item)[i]
      BY <1>1, <3>5, <3>6
    <3>8. /\ decs[decPos + 1] = <<"main", 1>> /\ decs[decPos + 2] = <<"match", 0>>
          /\ decs[decPos + 3] = <<"lz", 1>> /\ decs[decPos + 4] = <<"lzRep0", 0>>
      BY <3>5, <3>7, SMTT(30)
    <3>9. syms[symPos + 1] = <<"length", length>>
      BY <3>6, <3>7
    <3>10. /\ decs[decPos + 1][2] = 1 /\ decs[decPos + 2][2] = 0
           /\ decs[decPos + 3][2] = 1 /\ decs[decPos + 4][2] = 0
      BY <3>8
    <3>11. syms[symPos + 1][2] = length
      BY <3>9
    <3> QED BY <1>3, <2>1, <3>10, <3>11 DEF ItemAt
  <2>2. CASE rep = 1
    <3>1. D!Decisions(item) = <<<<"main", 1>>, <<"match", 0>>, <<"lz", 1>>,
                              <<"lzRep0", 1>>, <<"lzRep1", 0>>>>
      BY <1>3, <2>2, DecisionsOf
    <3>2. D!Symbols(item) = <<<<"length", length>>>>
      BY <1>3, <2>2, SymbolsOf
    <3>3. /\ <<"main", 1>> \in X /\ <<"match", 0>> \in X /\ <<"lz", 1>> \in X
          /\ <<"lzRep0", 1>> \in X /\ <<"lzRep1", 0>> \in X
      BY Writable DEF X
    <3>4. <<"length", length>> \in X
      BY <1>3, <2>2, Writable DEF X
    <3> HIDE DEF X
    <3>5. /\ D!Decisions(item) \in Seq(X) /\ Len(D!Decisions(item)) = 5
         /\ D!Decisions(item)[1] = <<"main", 1>> /\ D!Decisions(item)[2] = <<"match", 0>>
         /\ D!Decisions(item)[3] = <<"lz", 1>> /\ D!Decisions(item)[4] = <<"lzRep0", 1>>
         /\ D!Decisions(item)[5] = <<"lzRep1", 0>>
      BY <3>1, <3>3
    <3>6. /\ D!Symbols(item) \in Seq(X) /\ Len(D!Symbols(item)) = 1
         /\ D!Symbols(item)[1] = <<"length", length>>
      BY <3>2, <3>4
    <3> SUFFICES ASSUME Follows(decs, decPos, D!Decisions(item)),
                       Follows(syms, symPos, D!Symbols(item))
                PROVE  item = ItemAt(decs, decPos, syms, symPos)
      BY <3>5, <3>6 DEF Goal
    <3>7. /\ \A i \in 1 .. 5 : decs[decPos + i] = D!Decisions(item)[i]
         /\ \A i \in 1 .. 1 : syms[symPos + i] = D!Symbols(item)[i]
      BY <1>1, <3>5, <3>6
    <3>8. /\ decs[decPos + 1] = <<"main", 1>> /\ decs[decPos + 2] = <<"match", 0>>
          /\ decs[decPos + 3] = <<"lz", 1>> /\ decs[decPos + 4] = <<"lzRep0", 1>>
          /\ decs[decPos + 5] = <<"lzRep1", 0>>
      BY <3>5, <3>7, SMTT(30)
    <3>9. syms[symPos + 1] = <<"length", length>>
      BY <3>6, <3>7
    <3>10. /\ decs[decPos + 1][2] = 1 /\ decs[decPos + 2][2] = 0
           /\ decs[decPos + 3][2] = 1 /\ decs[decPos + 4][2] = 1
           /\ decs[decPos + 5][2] = 0
      BY <3>8
    <3>11. syms[symPos + 1][2] = length
      BY <3>9
    <3> QED BY <1>3, <2>2, <3>10, <3>11 DEF ItemAt
  <2>3. CASE rep = 2
    <3>1. D!Decisions(item) = <<<<"main", 1>>, <<"match", 0>>, <<"lz", 1>>,
                              <<"lzRep0", 1>>, <<"lzRep1", 1>>>>
      BY <1>3, <2>3, DecisionsOf
    <3>2. D!Symbols(item) = <<<<"length", length>>>>
      BY <1>3, <2>3, SymbolsOf
    <3>3. /\ <<"main", 1>> \in X /\ <<"match", 0>> \in X /\ <<"lz", 1>> \in X
          /\ <<"lzRep0", 1>> \in X /\ <<"lzRep1", 1>> \in X
      BY Writable DEF X
    <3>4. <<"length", length>> \in X
      BY <1>3, <2>3, Writable DEF X
    <3> HIDE DEF X
    <3>5. /\ D!Decisions(item) \in Seq(X) /\ Len(D!Decisions(item)) = 5
         /\ D!Decisions(item)[1] = <<"main", 1>> /\ D!Decisions(item)[2] = <<"match", 0>>
         /\ D!Decisions(item)[3] = <<"lz", 1>> /\ D!Decisions(item)[4] = <<"lzRep0", 1>>
         /\ D!Decisions(item)[5] = <<"lzRep1", 1>>
      BY <3>1, <3>3
    <3>6. /\ D!Symbols(item) \in Seq(X) /\ Len(D!Symbols(item)) = 1
         /\ D!Symbols(item)[1] = <<"length", length>>
      BY <3>2, <3>4
    <3> SUFFICES ASSUME Follows(decs, decPos, D!Decisions(item)),
                       Follows(syms, symPos, D!Symbols(item))
                PROVE  item = ItemAt(decs, decPos, syms, symPos)
      BY <3>5, <3>6 DEF Goal
    <3>7. /\ \A i \in 1 .. 5 : decs[decPos + i] = D!Decisions(item)[i]
         /\ \A i \in 1 .. 1 : syms[symPos + i] = D!Symbols(item)[i]
      BY <1>1, <3>5, <3>6
    <3>8. /\ decs[decPos + 1] = <<"main", 1>> /\ decs[decPos + 2] = <<"match", 0>>
          /\ decs[decPos + 3] = <<"lz", 1>> /\ decs[decPos + 4] = <<"lzRep0", 1>>
          /\ decs[decPos + 5] = <<"lzRep1", 1>>
      BY <3>5, <3>7, SMTT(30)
    <3>9. syms[symPos + 1] = <<"length", length>>
      BY <3>6, <3>7
    <3>10. /\ decs[decPos + 1][2] = 1 /\ decs[decPos + 2][2] = 0
           /\ decs[decPos + 3][2] = 1 /\ decs[decPos + 4][2] = 1
           /\ decs[decPos + 5][2] = 1
      BY <3>8
    <3>11. syms[symPos + 1][2] = length
      BY <3>9
    <3> QED BY <1>3, <2>3, <3>10, <3>11 DEF ItemAt
  <2> QED BY <2>1, <2>2, <2>3
<1>4. ASSUME NEW offset \in Nat, NEW length \in Nat, item = D!LzItem(3, offset, length)
      PROVE  Goal
  <2>1. D!Decisions(item) = <<<<"main", 1>>, <<"match", 0>>, <<"lz", 0>>>>
    BY <1>4, DecisionsOf
  <2>2. D!Symbols(item) = <<<<"lzOffset", offset>>, <<"length", length>>>>
    BY <1>4, SymbolsOf
  <2>3. <<"main", 1>> \in X /\ <<"match", 0>> \in X /\ <<"lz", 0>> \in X
    BY Writable DEF X
  <2>4. <<"lzOffset", offset>> \in X /\ <<"length", length>> \in X
    BY <1>4, Writable DEF X
  <2> HIDE DEF X
  <2>5. /\ D!Decisions(item) \in Seq(X) /\ Len(D!Decisions(item)) = 3
       /\ D!Decisions(item)[1] = <<"main", 1>> /\ D!Decisions(item)[2] = <<"match", 0>>
       /\ D!Decisions(item)[3] = <<"lz", 0>>
    BY <2>1, <2>3
  <2>6. /\ D!Symbols(item) \in Seq(X) /\ Len(D!Symbols(item)) = 2
       /\ D!Symbols(item)[1] = <<"lzOffset", offset>>
       /\ D!Symbols(item)[2] = <<"length", length>>
    BY <2>2, <2>4
  <2> SUFFICES ASSUME Follows(decs, decPos, D!Decisions(item)),
                     Follows(syms, symPos, D!Symbols(item))
              PROVE  item = ItemAt(decs, decPos, syms, symPos)
    BY <2>5, <2>6 DEF Goal
  <2>7. /\ \A i \in 1 .. 3 : decs[decPos + i] = D!Decisions(item)[i]
       /\ \A i \in 1 .. 2 : syms[symPos + i] = D!Symbols(item)[i]
    BY <1>1, <2>5, <2>6
  <2>8. /\ decs[decPos + 1] = <<"main", 1>> /\ decs[decPos + 2] = <<"match", 0>>
        /\ decs[decPos + 3] = <<"lz", 0>>
    BY <2>5, <2>7
  <2>9. syms[symPos + 1] = <<"lzOffset", offset>> /\ syms[symPos + 2] = <<"length", length>>
    BY <2>6, <2>7, SMTT(30)
  <2>10. decs[decPos + 1][2] = 1 /\ decs[decPos + 2][2] = 0 /\ decs[decPos + 3][2] = 0
    BY <2>8
  <2>11. syms[symPos + 1][2] = offset /\ syms[symPos + 2][2] = length
    BY <2>9
  <2> QED BY <1>4, <2>10, <2>11 DEF ItemAt
<1>5. ASSUME NEW rep \in 0 .. 2, NEW length \in Nat, item = D!DeltaItem(rep, 1, 0, length)
      PROVE  Goal
  <2>1. CASE rep = 0
    <3>1. D!Decisions(item) = <<<<"main", 1>>, <<"match", 1>>, <<"delta", 1>>,
                              <<"deltaRep0", 0>>>>
      BY <1>5, <2>1, DecisionsOf
    <3>2. D!Symbols(item) = <<<<"length", length>>>>
      BY <1>5, <2>1, SymbolsOf
    <3>3. /\ <<"main", 1>> \in X /\ <<"match", 1>> \in X /\ <<"delta", 1>> \in X
          /\ <<"deltaRep0", 0>> \in X
      BY Writable DEF X
    <3>4. <<"length", length>> \in X
      BY <1>5, <2>1, Writable DEF X
    <3> HIDE DEF X
    <3>5. /\ D!Decisions(item) \in Seq(X) /\ Len(D!Decisions(item)) = 4
         /\ D!Decisions(item)[1] = <<"main", 1>> /\ D!Decisions(item)[2] = <<"match", 1>>
         /\ D!Decisions(item)[3] = <<"delta", 1>>
         /\ D!Decisions(item)[4] = <<"deltaRep0", 0>>
      BY <3>1, <3>3
    <3>6. /\ D!Symbols(item) \in Seq(X) /\ Len(D!Symbols(item)) = 1
         /\ D!Symbols(item)[1] = <<"length", length>>
      BY <3>2, <3>4
    <3> SUFFICES ASSUME Follows(decs, decPos, D!Decisions(item)),
                       Follows(syms, symPos, D!Symbols(item))
                PROVE  item = ItemAt(decs, decPos, syms, symPos)
      BY <3>5, <3>6 DEF Goal
    <3>7. /\ \A i \in 1 .. 4 : decs[decPos + i] = D!Decisions(item)[i]
         /\ \A i \in 1 .. 1 : syms[symPos + i] = D!Symbols(item)[i]
      BY <1>1, <3>5, <3>6
    <3>8. /\ decs[decPos + 1] = <<"main", 1>> /\ decs[decPos + 2] = <<"match", 1>>
          /\ decs[decPos + 3] = <<"delta", 1>> /\ decs[decPos + 4] = <<"deltaRep0", 0>>
      BY <3>5, <3>7, SMTT(30)
    <3>9. syms[symPos + 1] = <<"length", length>>
      BY <3>6, <3>7
    <3>10. /\ decs[decPos + 1][2] = 1 /\ decs[decPos + 2][2] = 1
           /\ decs[decPos + 3][2] = 1 /\ decs[decPos + 4][2] = 0
      BY <3>8
    <3>11. syms[symPos + 1][2] = length
      BY <3>9
    <3> QED BY <1>5, <2>1, <3>10, <3>11 DEF ItemAt
  <2>2. CASE rep = 1
    <3>1. D!Decisions(item) = <<<<"main", 1>>, <<"match", 1>>, <<"delta", 1>>,
                              <<"deltaRep0", 1>>, <<"deltaRep1", 0>>>>
      BY <1>5, <2>2, DecisionsOf
    <3>2. D!Symbols(item) = <<<<"length", length>>>>
      BY <1>5, <2>2, SymbolsOf
    <3>3. /\ <<"main", 1>> \in X /\ <<"match", 1>> \in X /\ <<"delta", 1>> \in X
          /\ <<"deltaRep0", 1>> \in X /\ <<"deltaRep1", 0>> \in X
      BY Writable DEF X
    <3>4. <<"length", length>> \in X
      BY <1>5, <2>2, Writable DEF X
    <3> HIDE DEF X
    <3>5. /\ D!Decisions(item) \in Seq(X) /\ Len(D!Decisions(item)) = 5
         /\ D!Decisions(item)[1] = <<"main", 1>> /\ D!Decisions(item)[2] = <<"match", 1>>
         /\ D!Decisions(item)[3] = <<"delta", 1>>
         /\ D!Decisions(item)[4] = <<"deltaRep0", 1>>
         /\ D!Decisions(item)[5] = <<"deltaRep1", 0>>
      BY <3>1, <3>3
    <3>6. /\ D!Symbols(item) \in Seq(X) /\ Len(D!Symbols(item)) = 1
         /\ D!Symbols(item)[1] = <<"length", length>>
      BY <3>2, <3>4
    <3> SUFFICES ASSUME Follows(decs, decPos, D!Decisions(item)),
                       Follows(syms, symPos, D!Symbols(item))
                PROVE  item = ItemAt(decs, decPos, syms, symPos)
      BY <3>5, <3>6 DEF Goal
    <3>7. /\ \A i \in 1 .. 5 : decs[decPos + i] = D!Decisions(item)[i]
         /\ \A i \in 1 .. 1 : syms[symPos + i] = D!Symbols(item)[i]
      BY <1>1, <3>5, <3>6
    <3>8. /\ decs[decPos + 1] = <<"main", 1>> /\ decs[decPos + 2] = <<"match", 1>>
          /\ decs[decPos + 3] = <<"delta", 1>> /\ decs[decPos + 4] = <<"deltaRep0", 1>>
          /\ decs[decPos + 5] = <<"deltaRep1", 0>>
      BY <3>5, <3>7, SMTT(30)
    <3>9. syms[symPos + 1] = <<"length", length>>
      BY <3>6, <3>7
    <3>10. /\ decs[decPos + 1][2] = 1 /\ decs[decPos + 2][2] = 1
           /\ decs[decPos + 3][2] = 1 /\ decs[decPos + 4][2] = 1
           /\ decs[decPos + 5][2] = 0
      BY <3>8
    <3>11. syms[symPos + 1][2] = length
      BY <3>9
    <3> QED BY <1>5, <2>2, <3>10, <3>11 DEF ItemAt
  <2>3. CASE rep = 2
    <3>1. D!Decisions(item) = <<<<"main", 1>>, <<"match", 1>>, <<"delta", 1>>,
                              <<"deltaRep0", 1>>, <<"deltaRep1", 1>>>>
      BY <1>5, <2>3, DecisionsOf
    <3>2. D!Symbols(item) = <<<<"length", length>>>>
      BY <1>5, <2>3, SymbolsOf
    <3>3. /\ <<"main", 1>> \in X /\ <<"match", 1>> \in X /\ <<"delta", 1>> \in X
          /\ <<"deltaRep0", 1>> \in X /\ <<"deltaRep1", 1>> \in X
      BY Writable DEF X
    <3>4. <<"length", length>> \in X
      BY <1>5, <2>3, Writable DEF X
    <3> HIDE DEF X
    <3>5. /\ D!Decisions(item) \in Seq(X) /\ Len(D!Decisions(item)) = 5
         /\ D!Decisions(item)[1] = <<"main", 1>> /\ D!Decisions(item)[2] = <<"match", 1>>
         /\ D!Decisions(item)[3] = <<"delta", 1>>
         /\ D!Decisions(item)[4] = <<"deltaRep0", 1>>
         /\ D!Decisions(item)[5] = <<"deltaRep1", 1>>
      BY <3>1, <3>3
    <3>6. /\ D!Symbols(item) \in Seq(X) /\ Len(D!Symbols(item)) = 1
         /\ D!Symbols(item)[1] = <<"length", length>>
      BY <3>2, <3>4
    <3> SUFFICES ASSUME Follows(decs, decPos, D!Decisions(item)),
                       Follows(syms, symPos, D!Symbols(item))
                PROVE  item = ItemAt(decs, decPos, syms, symPos)
      BY <3>5, <3>6 DEF Goal
    <3>7. /\ \A i \in 1 .. 5 : decs[decPos + i] = D!Decisions(item)[i]
         /\ \A i \in 1 .. 1 : syms[symPos + i] = D!Symbols(item)[i]
      BY <1>1, <3>5, <3>6
    <3>8. /\ decs[decPos + 1] = <<"main", 1>> /\ decs[decPos + 2] = <<"match", 1>>
          /\ decs[decPos + 3] = <<"delta", 1>> /\ decs[decPos + 4] = <<"deltaRep0", 1>>
          /\ decs[decPos + 5] = <<"deltaRep1", 1>>
      BY <3>5, <3>7, SMTT(30)
    <3>9. syms[symPos + 1] = <<"length", length>>
      BY <3>6, <3>7
    <3>10. /\ decs[decPos + 1][2] = 1 /\ decs[decPos + 2][2] = 1
           /\ decs[decPos + 3][2] = 1 /\ decs[decPos + 4][2] = 1
           /\ decs[decPos + 5][2] = 1
      BY <3>8
    <3>11. syms[symPos + 1][2] = length
      BY <3>9
    <3> QED BY <1>5, <2>3, <3>10, <3>11 DEF ItemAt
  <2> QED BY <2>1, <2>2, <2>3
<1>6. ASSUME NEW offset \in Nat, NEW power \in Nat, NEW length \in Nat,
             item = D!DeltaItem(3, offset, power, length)
      PROVE  Goal
  <2>1. D!Decisions(item) = <<<<"main", 1>>, <<"match", 1>>, <<"delta", 0>>>>
    BY <1>6, DecisionsOf
  <2>2. D!Symbols(item) =
          <<<<"deltaPower", power>>, <<"deltaOffset", offset>>, <<"length", length>>>>
    BY <1>6, SymbolsOf
  <2>3. <<"main", 1>> \in X /\ <<"match", 1>> \in X /\ <<"delta", 0>> \in X
    BY Writable DEF X
  <2>4. /\ <<"deltaPower", power>> \in X /\ <<"deltaOffset", offset>> \in X
        /\ <<"length", length>> \in X
    BY <1>6, Writable DEF X
  <2> HIDE DEF X
  <2>5. /\ D!Decisions(item) \in Seq(X) /\ Len(D!Decisions(item)) = 3
       /\ D!Decisions(item)[1] = <<"main", 1>> /\ D!Decisions(item)[2] = <<"match", 1>>
       /\ D!Decisions(item)[3] = <<"delta", 0>>
    BY <2>1, <2>3
  <2>6. /\ D!Symbols(item) \in Seq(X) /\ Len(D!Symbols(item)) = 3
       /\ D!Symbols(item)[1] = <<"deltaPower", power>>
       /\ D!Symbols(item)[2] = <<"deltaOffset", offset>>
       /\ D!Symbols(item)[3] = <<"length", length>>
    BY <2>2, <2>4
  <2> SUFFICES ASSUME Follows(decs, decPos, D!Decisions(item)),
                     Follows(syms, symPos, D!Symbols(item))
              PROVE  item = ItemAt(decs, decPos, syms, symPos)
    BY <2>5, <2>6 DEF Goal
  <2>7. /\ \A i \in 1 .. 3 : decs[decPos + i] = D!Decisions(item)[i]
       /\ \A i \in 1 .. 3 : syms[symPos + i] = D!Symbols(item)[i]
    BY <1>1, <2>5, <2>6
  <2>8. /\ decs[decPos + 1] = <<"main", 1>> /\ decs[decPos + 2] = <<"match", 1>>
        /\ decs[decPos + 3] = <<"delta", 0>>
    BY <2>5, <2>7
  <2>9. /\ syms[symPos + 1] = <<"deltaPower", power>>
        /\ syms[symPos + 2] = <<"deltaOffset", offset>>
        /\ syms[symPos + 3] = <<"length", length>>
    BY <2>6, <2>7, SMTT(30)
  <2>10. decs[decPos + 1][2] = 1 /\ decs[decPos + 2][2] = 1 /\ decs[decPos + 3][2] = 0
    BY <2>8
  <2>11. /\ syms[symPos + 1][2] = power /\ syms[symPos + 2][2] = offset
         /\ syms[symPos + 3][2] = length
    BY <2>9
  <2> QED BY <1>6, <2>10, <2>11 DEF ItemAt
<1> QED BY <1>0, <1>2, <1>3, <1>4, <1>5, <1>6 DEF Shaped, Goal

\* What the encoder writes is what an item is.
LEMMA WrittenShapes ==
  ASSUME NEW item, IsLiteral(item) \/ IsLz(item) \/ IsDelta(item)
  PROVE  Shaped(item)
<1>1. CASE IsLiteral(item)
  <2>1. \A byte \in 0 .. ByteSize - 1 : byte \in Nat OBVIOUS
  <2> QED BY <1>1, <2>1 DEF IsLiteral, Shaped
<1>2. CASE IsLz(item) BY <1>2, SameItems DEF IsLz, Shaped
<1>3. CASE IsDelta(item)
  <2>1. \A power \in 0 .. 7 : power \in Nat OBVIOUS
  <2> QED BY <1>3, <2>1, SameItems DEF IsDelta, Shaped
<1> QED BY <1>1, <1>2, <1>3

\* What the symbols state.
LEMMA StatedValues ==
  ASSUME symbols \in Stream, symbolPos \in Nat, NEW k \in Nat \ {0}
  PROVE  /\ \A class : Stated(class, k) \subseteq Nat
         /\ \A class, v : symbolPos + k <= Len(symbols) /\ symbols[symbolPos + k] = <<class, v>>
                            => v \in Stated(class, k)
<1>0. Len(symbols) \in Nat BY LenProperties DEF Stream
<1>1. symbolPos + k <= Len(symbols) => symbols[symbolPos + k] \in Names \X Nat
  <2>1. symbolPos + k >= 1 /\ symbolPos + k \in Nat OBVIOUS
  <2> QED BY <1>0, <2>1, ElementOfSeq DEF Stream
<1>2. symbolPos + k <= Len(symbols) => symbols[symbolPos + k][2] \in Nat BY <1>1
<1>3. \A class : Stated(class, k) \subseteq Nat BY <1>2 DEF Stated
<1>4. ASSUME NEW class, NEW v, symbolPos + k <= Len(symbols),
             symbols[symbolPos + k] = <<class, v>>
      PROVE  v \in Stated(class, k)
  BY <1>4 DEF Stated
<1> QED BY <1>3, <1>4

\* Where an item is written, it is the one that can be read.
LEMMA ItemIsRead ==
  ASSUME decisions \in Stream, symbols \in Stream, decisionPos \in Nat, symbolPos \in Nat,
         NEW item, IsLiteral(item) \/ IsLz(item) \/ IsDelta(item),
         Follows(decisions, decisionPos, D!Decisions(item)),
         Follows(symbols, symbolPos, D!Symbols(item))
  PROVE  Readable = {item}
<1> DEFINE literals == {D!LiteralItem(byte) : byte \in Stated("literal", 1)}
           lzNamed  == {D!LzItem(rep, 1, length) : rep \in 0 .. 2, length \in Stated("length", 1)}
           lzStated == {D!LzItem(3, offset, length) :
                          offset \in Stated("lzOffset", 1), length \in Stated("length", 2)}
           deltaNamed == {D!DeltaItem(rep, 1, 0, length) :
                            rep \in 0 .. 2, length \in Stated("length", 1)}
           deltaStated == {D!DeltaItem(3, offset, power, length) :
                             power \in Stated("deltaPower", 1),
                             offset \in Stated("deltaOffset", 2),
                             length \in Stated("length", 3)}
           items == literals \cup lzNamed \cup lzStated \cup deltaNamed \cup deltaStated
<1>1. Readable = {y \in items : /\ Follows(decisions, decisionPos, D!Decisions(y))
                                /\ Follows(symbols, symbolPos, D!Symbols(y))}
  <2>0. Decoder!Reps = 0 .. 2 /\ Decoder!Explicit = 3 BY SameItems
  <2>1. Literals = literals BY SameItems DEF Literals
  <2>2. Named = lzNamed \cup deltaNamed BY <2>0, SameItems DEF Named
  <2>3. Explicit = lzStated \cup deltaStated BY <2>0, SameItems DEF Explicit
  <2> HIDE DEF literals, lzNamed, deltaNamed, lzStated, deltaStated
  <2>4. Literals \cup Named \cup Explicit = items BY <2>1, <2>2, <2>3
  <2> HIDE DEF items
  <2>5. \A y : Decoder!Decisions(y) = D!Decisions(y) /\ Decoder!Symbols(y) = D!Symbols(y)
    BY SameItems
  <2> QED BY <2>4, <2>5 DEF Readable
<1>2. Shaped(item) BY WrittenShapes
<1>3. D!Symbols(item) \in Stream BY <1>2, OnlyItem
<1>4. /\ symbolPos + Len(D!Symbols(item)) <= Len(symbols)
      /\ \A i \in 1 .. Len(D!Symbols(item)) :
           symbols[symbolPos + i] = D!Symbols(item)[i]
  <2> DEFINE X == Names \X Nat
  <2>1. symbols \in Seq(X) /\ D!Symbols(item) \in Seq(X) BY <1>3 DEF Stream
  <2> HIDE DEF X
  <2> QED BY <2>1, FollowsPlaces
<1>5. /\ \A class, v : symbolPos + 1 <= Len(symbols) /\ symbols[symbolPos + 1] = <<class, v>>
                         => v \in Stated(class, 1)
      /\ \A class, v : symbolPos + 2 <= Len(symbols) /\ symbols[symbolPos + 2] = <<class, v>>
                         => v \in Stated(class, 2)
      /\ \A class, v : symbolPos + 3 <= Len(symbols) /\ symbols[symbolPos + 3] = <<class, v>>
                         => v \in Stated(class, 3)
  BY StatedValues
<1>6. item \in items
  <2> DEFINE syms == D!Symbols(item)
  <2>1. CASE \E byte \in Nat : item = D!LiteralItem(byte)
    <3>1. PICK byte \in Nat : item = D!LiteralItem(byte) BY <2>1
    <3>2. syms = <<<<"literal", byte>>>> BY <3>1, SymbolsOf
    <3>3. Len(syms) = 1 /\ syms[1] = <<"literal", byte>> BY <3>2
    <3> HIDE DEF syms
    <3>4. symbolPos + 1 <= Len(symbols) /\ symbols[symbolPos + 1] = <<"literal", byte>>
      BY <1>4, <3>3 DEF syms
    <3>5. byte \in Stated("literal", 1) BY <1>5, <3>4
    <3> QED BY <3>1, <3>5
  <2>2. CASE \E rep \in 0 .. 2, length \in Nat : item = D!LzItem(rep, 1, length)
    <3>1. PICK rep \in 0 .. 2, length \in Nat : item = D!LzItem(rep, 1, length) BY <2>2
    <3>2. syms = <<<<"length", length>>>> BY <3>1, SymbolsOf
    <3>3. Len(syms) = 1 /\ syms[1] = <<"length", length>> BY <3>2
    <3> HIDE DEF syms
    <3>4. symbolPos + 1 <= Len(symbols) /\ symbols[symbolPos + 1] = <<"length", length>>
      BY <1>4, <3>3 DEF syms
    <3>5. length \in Stated("length", 1) BY <1>5, <3>4
    <3> QED BY <3>1, <3>5
  <2>3. CASE \E offset, length \in Nat : item = D!LzItem(3, offset, length)
    <3>1. PICK offset, length \in Nat : item = D!LzItem(3, offset, length) BY <2>3
    <3>2. syms = <<<<"lzOffset", offset>>, <<"length", length>>>> BY <3>1, SymbolsOf
    <3>3. Len(syms) = 2 /\ syms[1] = <<"lzOffset", offset>> /\ syms[2] = <<"length", length>>
      BY <3>2
    <3>0. Len(symbols) \in Nat BY LenProperties DEF Stream
    <3> HIDE DEF syms
    <3>4. /\ symbolPos + 1 <= Len(symbols) /\ symbols[symbolPos + 1] = <<"lzOffset", offset>>
          /\ symbolPos + 2 <= Len(symbols) /\ symbols[symbolPos + 2] = <<"length", length>>
      BY <1>4, <3>0, <3>3, SMTT(30) DEF syms
    <3>5. offset \in Stated("lzOffset", 1) /\ length \in Stated("length", 2) BY <1>5, <3>4
    <3> QED BY <3>1, <3>5
  <2>4. CASE \E rep \in 0 .. 2, length \in Nat : item = D!DeltaItem(rep, 1, 0, length)
    <3>1. PICK rep \in 0 .. 2, length \in Nat : item = D!DeltaItem(rep, 1, 0, length) BY <2>4
    <3>2. syms = <<<<"length", length>>>> BY <3>1, SymbolsOf
    <3>3. Len(syms) = 1 /\ syms[1] = <<"length", length>> BY <3>2
    <3> HIDE DEF syms
    <3>4. symbolPos + 1 <= Len(symbols) /\ symbols[symbolPos + 1] = <<"length", length>>
      BY <1>4, <3>3 DEF syms
    <3>5. length \in Stated("length", 1) BY <1>5, <3>4
    <3> QED BY <3>1, <3>5
  <2>5. CASE \E offset, power, length \in Nat : item = D!DeltaItem(3, offset, power, length)
    <3>1. PICK offset, power, length \in Nat : item = D!DeltaItem(3, offset, power, length)
      BY <2>5
    <3>2. syms = <<<<"deltaPower", power>>, <<"deltaOffset", offset>>, <<"length", length>>>>
      BY <3>1, SymbolsOf
    <3>3. /\ Len(syms) = 3 /\ syms[1] = <<"deltaPower", power>>
          /\ syms[2] = <<"deltaOffset", offset>> /\ syms[3] = <<"length", length>>
      BY <3>2
    <3>0. Len(symbols) \in Nat BY LenProperties DEF Stream
    <3> HIDE DEF syms
    <3>4. /\ symbolPos + 1 <= Len(symbols) /\ symbols[symbolPos + 1] = <<"deltaPower", power>>
          /\ symbolPos + 2 <= Len(symbols)
          /\ symbols[symbolPos + 2] = <<"deltaOffset", offset>>
          /\ symbolPos + 3 <= Len(symbols) /\ symbols[symbolPos + 3] = <<"length", length>>
      BY <1>4, <3>0, <3>3, SMTT(30) DEF syms
    <3>5. /\ power \in Stated("deltaPower", 1) /\ offset \in Stated("deltaOffset", 2)
          /\ length \in Stated("length", 3)
      BY <1>5, <3>4
    <3> QED BY <3>1, <3>5
  <2> QED BY <1>2, <2>1, <2>2, <2>3, <2>4, <2>5 DEF Shaped
<1>7. ASSUME NEW y \in Readable PROVE y = item
  <2>1. /\ y \in items
        /\ Follows(decisions, decisionPos, D!Decisions(y))
        /\ Follows(symbols, symbolPos, D!Symbols(y))
    BY <1>1
  <2>2. \A class : /\ Stated(class, 1) \subseteq Nat /\ Stated(class, 2) \subseteq Nat
                   /\ Stated(class, 3) \subseteq Nat
    BY StatedValues
  <2>3. Shaped(y)
    <3>1. y \in literals \/ y \in lzNamed \/ y \in lzStated \/ y \in deltaNamed
            \/ y \in deltaStated
      BY <2>1
    <3>2. CASE y \in literals BY <2>2, <3>2 DEF Shaped
    <3>3. CASE y \in lzNamed BY <2>2, <3>3 DEF Shaped
    <3>4. CASE y \in lzStated BY <2>2, <3>4 DEF Shaped
    <3>5. CASE y \in deltaNamed BY <2>2, <3>5 DEF Shaped
    <3>6. CASE y \in deltaStated BY <2>2, <3>6 DEF Shaped
    <3> QED BY <3>1, <3>2, <3>3, <3>4, <3>5, <3>6
  <2>4. y = ItemAt(decisions, decisionPos, symbols, symbolPos) BY <2>1, <2>3, OnlyItem
  <2>5. item = ItemAt(decisions, decisionPos, symbols, symbolPos) BY <1>2, OnlyItem
  <2> QED BY <2>4, <2>5
<1>8. item \in Readable
  <2> HIDE DEF items
  <2> QED BY <1>1, <1>6
<1> QED BY <1>7, <1>8

-----------------------------------------------------------------------------
(***************************************************************************)
(* Largest and smallest members.                                           *)
(***************************************************************************)
\* Every nonempty set of indices has a largest element: otherwise the sets of
\* those from k on would be an infinite descending chain.
LEMMA LargestIndex ==
  ASSUME NEW n \in Nat, NEW S \in SUBSET (0 .. n), S # {}
  PROVE  \E m \in S : \A k \in S : k <= m
<1> DEFINE From(k) == {j \in S : j >= k}
           T == {From(k) : k \in S}
<1>1. IsFiniteSet(S)
  <2>1. IsFiniteSet(0 .. n) BY FS_Interval
  <2> QED BY <2>1, FS_Subset
<1>2. T \subseteq FiniteSubsetsOf(S) BY <1>1, FS_Subset DEF FiniteSubsetsOf
<1>3. T # {} OBVIOUS
<1>4. PICK x \in T : \A y \in T : ~ (<<y, x>> \in StrictSubsetOrdering(S))
  <2> HIDE DEF T
  <2> QED BY <1>2, <1>3, WFMin, <1>1, FS_StrictSubsetOrderingWellFounded
<1>5. PICK m \in S : x = From(m) OBVIOUS
<1>6. ASSUME NEW k \in S, k > m PROVE FALSE
  <2>1. k \in Int /\ m \in Int /\ \A j \in S : j \in Int OBVIOUS
  <2>2. From(k) \subseteq x
    <3>1. ASSUME NEW j \in S, j >= k PROVE j >= m BY <3>1, <1>6, <2>1
    <3> QED BY <3>1, <1>5
  <2>3. m \in x /\ m \notin From(k) BY <1>5, <1>6, <2>1
  <2>4. From(k) \in T OBVIOUS
  <2>5. <<From(k), x>> \in StrictSubsetOrdering(S)
    BY <2>2, <2>3, <1>5 DEF StrictSubsetOrdering
  <2> QED BY <1>4, <2>4, <2>5
<1> QED BY <1>6

\* Max and Min of a nonempty set of numbers up to n.
LEMMA MaxOfIndices ==
  ASSUME NEW n \in Nat, NEW S \in SUBSET (0 .. n), S # {}
  PROVE  Encoder!Max(S) \in S /\ \A k \in S : k <= Encoder!Max(S)
<1>1. \E x \in S : \A y \in S : x >= y BY LargestIndex
<1>2. Encoder!Max(S) \in S /\ \A k \in S : Encoder!Max(S) >= k BY <1>1 DEF Encoder!Max
<1> QED BY <1>2

LEMMA SmallestIndex ==
  ASSUME NEW n \in Nat, NEW S \in SUBSET (0 .. n), S # {}
  PROVE  \E m \in S : \A k \in S : m <= k
<1> DEFINE T == {k \in 0 .. n : n - k \in S}
<1>1. PICK j \in S : TRUE OBVIOUS
<1>2. j \in 0 .. n /\ n - j \in 0 .. n /\ n - (n - j) = j OBVIOUS
<1>3. n - j \in T BY <1>1, <1>2
<1>4. PICK m \in T : \A k \in T : k <= m
  <2>1. T \in SUBSET (0 .. n) OBVIOUS
  <2> HIDE DEF T
  <2> QED BY <1>3, <2>1, LargestIndex
<1>5. m \in 0 .. n /\ n - m \in S BY <1>4
<1>6. ASSUME NEW k \in S PROVE n - m <= k
  <2>1. k \in 0 .. n /\ n - k \in 0 .. n /\ n - (n - k) = k OBVIOUS
  <2>2. n - k \in T BY <2>1
  <2>3. n - k <= m BY <1>4, <2>2
  <2> QED BY <1>5, <2>1, <2>3
<1> QED BY <1>5, <1>6

LEMMA MinOfIndices ==
  ASSUME NEW n \in Nat, NEW S \in SUBSET (0 .. n), S # {}
  PROVE  Encoder!Min(S) \in S
<1>1. \E x \in S : \A y \in S : x <= y BY SmallestIndex
<1> QED BY <1>1 DEF Encoder!Min

-----------------------------------------------------------------------------
(***************************************************************************)
(* The encoder: each item it writes is one more of the trace.              *)
(***************************************************************************)
LEMMA InvTypes ==
  ASSUME IInv
  PROVE  /\ data \in Data /\ Len(data) \in Nat
         /\ \A p \in 1 .. Len(data) : data[p] \in 0 .. ByteSize - 1
         /\ decisions \in Stream /\ symbols \in Stream
         /\ Len(decisions) \in Nat /\ Len(symbols) \in Nat
         /\ coded \in 0 .. Len(data)
         /\ lzRecent \in [0 .. 3 -> Nat \ {0}]
         /\ deltaRecent \in [0 .. 3 -> (Nat \ {0}) \X (0 .. 7)]
         /\ lastType \in {"literal", "lz", "delta"}
<1>1. PICK trace, items, n, k : InStep(trace, items, n, k) BY DEF IInv, CodecInv
<1>2. data \in Data /\ decisions \in Stream /\ symbols \in Stream BY DEF IInv, CodecInv
<1>3. Len(decisions) \in Nat /\ Len(symbols) \in Nat BY <1>2, LenProperties DEF Stream
<1>4. Len(data) \in Nat /\ \A p \in 1 .. Len(data) : data[p] \in 0 .. ByteSize - 1
  <2>1. PICK m \in 0 .. MaxData : data \in [1 .. m -> 0 .. ByteSize - 1] BY <1>2 DEF Data
  <2>2. m \in Nat BY CodecConstants
  <2> DEFINE B == 0 .. ByteSize - 1
  <2>3. data \in Seq(B)
    <3> HIDE DEF B
    <3>1. data \in [1 .. m -> B] BY <2>1 DEF B
    <3> QED BY <2>2, <3>1, SeqDef
  <2>4. Len(data) \in Nat /\ \A p \in 1 .. Len(data) : data[p] \in B
    <3> HIDE DEF B
    <3> QED BY <2>3, LenProperties, ElementOfSeq
  <2> QED BY <2>4
<1>5. trace[n] \in Points /\ coded \in 0 .. Len(data)
  BY <1>1 DEF InStep, IsTrace, EncoderAt
<1>6. /\ trace[n].lz = lzRecent /\ trace[n].delta = deltaRecent /\ trace[n].last = lastType
  BY <1>1 DEF InStep, EncoderAt
<1> QED BY <1>2, <1>3, <1>4, <1>5, <1>6 DEF Points

\* The decoder's own invariant stays while it rests.
LEMMA DecoderRests ==
  ASSUME D!IInv, data' = data, UNCHANGED decoderVars
  PROVE  D!IInv'
<1>1. UNCHANGED <<Len(data), output, lzQueue, deltaQueue, prevType, copy>> /\ result' = result
  BY DEF decoderVars
<1>2. /\ result \in {"running", "ok", "empty", "malformed"}
      /\ result = "ok" => D!Position = Len(data)
  BY DEF D!IInv, D!TypeOK, D!SizeInv
<1> QED BY <1>1, <1>2, DecoderInputs, D!ReturnKeepsInv

\* Where a trace leads does not change while the data is what it is and the
\* streams grow.
LEMMA LeadsStays ==
  ASSUME data' = data, decisions \in Stream, symbols \in Stream,
         NEW decs \in Stream, NEW syms \in Stream,
         decisions' = decisions \o decs, symbols' = symbols \o syms,
         NEW before \in Points, NEW item, NEW after, Leads(before, item, after)
  PROVE  Leads(before, item, after)'
<1>1. (LiteralLeads(before, item, after) \/ LzLeads(before, item, after)
        \/ DeltaLeads(before, item, after))
      /\ Written(before, item, after) /\ after.last = item.kind
  BY DEF Leads
<1>2. IsLiteral(item) \/ IsLz(item) \/ IsDelta(item)
  BY <1>1 DEF LiteralLeads, LzLeads, DeltaLeads
<1>3. D!Decisions(item) \in Stream /\ D!Symbols(item) \in Stream
  BY <1>2, WrittenShapes, OnlyItem
<1>4. before.decs \in Nat /\ before.syms \in Nat BY DEF Points
<1>5. Follows(decisions', before.decs, D!Decisions(item))
  <2>1. Follows(decisions, before.decs, D!Decisions(item)) BY <1>1 DEF Written
  <2> QED BY <1>3, <1>4, <2>1, WrittenBehind DEF Stream
<1>6. Follows(symbols', before.syms, D!Symbols(item))
  <2>1. Follows(symbols, before.syms, D!Symbols(item)) BY <1>1 DEF Written
  <2> QED BY <1>3, <1>4, <2>1, WrittenBehind DEF Stream
<1>7. Written(before, item, after)' BY <1>1, <1>5, <1>6 DEF Written
<1>8. /\ LiteralLeads(before, item, after) => LiteralLeads(before, item, after)'
      /\ LzLeads(before, item, after) => LzLeads(before, item, after)'
      /\ DeltaLeads(before, item, after) => DeltaLeads(before, item, after)'
  BY Zenon DEF LiteralLeads, LzLeads, DeltaLeads
<1> QED BY <1>1, <1>7, <1>8 DEF Leads

\* One more item.
LEMMA ItemAdded ==
  ASSUME IInv, ~Encoded, UNCHANGED decoderVars, data' = data,
         NEW trace, NEW items, NEW n, InStep(trace, items, n, 0),
         NEW item, NEW point \in Points,
         point.place \in coded + 1 .. Len(data),
         \/ LiteralLeads(trace[n], item, point)
         \/ LzLeads(trace[n], item, point)
         \/ DeltaLeads(trace[n], item, point),
         point.last = item.kind,
         point.decs = Len(decisions) + Len(D!Decisions(item)),
         point.syms = Len(symbols) + Len(D!Symbols(item)),
         decisions' = decisions \o D!Decisions(item),
         symbols' = symbols \o D!Symbols(item),
         coded' = point.place, lzRecent' = point.lz, deltaRecent' = point.delta,
         lastType' = point.last
  PROVE  CodecInv'
<1>1. /\ IsTrace(trace, items, n) /\ EncoderAt(trace, n) /\ DecoderAt(trace, items, n, 0)
      /\ n \in Nat
  BY DEF InStep, IsTrace
<1>2. PICK trace2 : trace2 = [i \in 0 .. n + 1 |-> IF i = n + 1 THEN point ELSE trace[i]]
  OBVIOUS
<1>3. PICK items2 : items2 = [i \in 1 .. n + 1 |-> IF i = n + 1 THEN item ELSE items[i]]
  OBVIOUS
<1>4. /\ \A i \in 0 .. n : trace2[i] = trace[i] /\ i \in 0 .. n + 1 /\ i # n + 1
      /\ \A i \in 1 .. n : items2[i] = items[i]
      /\ trace2[n + 1] = point /\ items2[n + 1] = item
  BY <1>1, <1>2, <1>3
<1>5. trace2 \in [0 .. n + 1 -> Points]
  <2>1. \A i \in 0 .. n + 1 : i # n + 1 => i \in 0 .. n BY <1>1
  <2> QED BY <1>1, <1>2, <2>1 DEF IsTrace
<1>6. decisions \in Stream /\ symbols \in Stream /\ data \in Data /\ Len(data) \in Nat
      /\ Len(decisions) \in Nat /\ Len(symbols) \in Nat /\ coded \in 0 .. Len(data)
  BY InvTypes
<1>7. D!Decisions(item) \in Stream /\ D!Symbols(item) \in Stream
  <2>1. IsLiteral(item) \/ IsLz(item) \/ IsDelta(item)
    BY DEF LiteralLeads, LzLeads, DeltaLeads
  <2> QED BY <1>6, <2>1, WrittenShapes, OnlyItem
<1>8. /\ decisions' \in Stream /\ symbols' \in Stream
      /\ Len(decisions') = point.decs /\ Len(symbols') = point.syms
      /\ Follows(decisions', Len(decisions), D!Decisions(item))
      /\ Follows(symbols', Len(symbols), D!Symbols(item))
  BY <1>6, <1>7, WrittenBehind DEF Stream
<1>9. /\ trace[n].decs = Len(decisions) /\ trace[n].syms = Len(symbols)
      /\ trace[n].place = coded
  BY <1>1 DEF EncoderAt
<1>10. Leads(trace[n], item, point)'
  <2>1. Written(trace[n], item, point)' BY <1>8, <1>9 DEF Written
  <2>2. /\ LiteralLeads(trace[n], item, point) => LiteralLeads(trace[n], item, point)'
        /\ LzLeads(trace[n], item, point) => LzLeads(trace[n], item, point)'
        /\ DeltaLeads(trace[n], item, point) => DeltaLeads(trace[n], item, point)'
    BY Zenon DEF LiteralLeads, LzLeads, DeltaLeads
  <2> QED BY <2>1, <2>2 DEF Leads
<1>11. ASSUME NEW i \in 1 .. n + 1
       PROVE  Leads(trace2[i - 1], items2[i], trace2[i])'
  <2>1. CASE i = n + 1
    <3>1. i - 1 = n /\ n \in 0 .. n BY <1>1, <2>1
    <3>2. trace2[i - 1] = trace[n] /\ trace2[i] = point /\ items2[i] = item
      BY <1>4, <2>1, <3>1
    <3> QED BY <1>10, <3>2
  <2>2. CASE i # n + 1
    <3>1. i \in 1 .. n /\ i - 1 \in 0 .. n /\ i \in 0 .. n BY <1>1, <2>2
    <3>2. trace2[i - 1] = trace[i - 1] /\ trace2[i] = trace[i] /\ items2[i] = items[i]
      BY <1>4, <3>1
    <3>3. trace[i - 1] \in Points /\ Leads(trace[i - 1], items[i], trace[i])
      BY <1>1, <3>1 DEF IsTrace
    <3>4. Leads(trace[i - 1], items[i], trace[i])' BY <1>6, <1>7, <3>3, LeadsStays
    <3> QED BY <3>2, <3>4
  <2> QED BY <2>1, <2>2
<1>12. trace2[0] = Start
  <2>1. 0 \in 0 .. n BY <1>1
  <2> QED BY <1>1, <1>4, <2>1 DEF IsTrace
<1>13. ASSUME NEW i \in 0 .. n + 1, NEW j \in 0 .. n + 1, i < j
       PROVE  trace2[i].place < trace2[j].place
  <2>1. \A a, b \in 0 .. n : a < b => trace[a].place < trace[b].place BY <1>1 DEF IsTrace
  <2>2. i \in 0 .. n /\ trace2[i] = trace[i] BY <1>1, <1>4, <1>13
  <2>3. CASE j \in 0 .. n BY <1>4, <1>13, <2>1, <2>2, <2>3
  <2>4. CASE j = n + 1
    <3>1. trace[i].place <= coded
      <4>1. i = n => trace[i].place = coded BY <1>9
      <4>2. n \in 0 .. n /\ (i # n => i < n) BY <1>1, <2>2
      <4>3. i # n => trace[i].place < coded BY <1>9, <2>1, <2>2, <4>2
      <4>4. trace[i].place \in Nat BY <1>1, <2>2 DEF IsTrace, Points
      <4> QED BY <1>6, <4>1, <4>3, <4>4
    <3>2. trace[i].place \in Nat BY <1>1, <2>2 DEF IsTrace, Points
    <3>3. trace2[j].place = point.place BY <1>4, <2>4
    <3> QED BY <1>6, <2>2, <3>1, <3>2, <3>3
  <2> QED BY <1>1, <2>3, <2>4
<1>14. IsTrace(trace2, items2, n + 1)'
  <2>1. n + 1 \in Nat BY <1>1
  <2> QED BY <1>5, <1>11, <1>12, <1>13, <2>1 DEF IsTrace
<1>15. EncoderAt(trace2, n + 1)'
  <2>1. coded' \in 0 .. Len(data)' BY <1>6
  <2>2. point = [place |-> point.place, lz |-> point.lz, delta |-> point.delta,
                 last |-> point.last, decs |-> point.decs, syms |-> point.syms]
    BY DEF Points
  <2> QED BY <1>4, <1>8, <2>1, <2>2 DEF EncoderAt
<1>16. DecoderAt(trace2, items2, n + 1, 0)'
  <2>0. 0 \in 0 .. n /\ 0 \in 0 .. n + 1 BY <1>1
  <2>1. trace2[0] = trace[0] BY <1>4, <2>0
  <2>2. copy = D!NoCopy /\ result = "running" BY <1>1 DEF DecoderAt
  <2>3. /\ lzQueue = trace[0].lz /\ deltaQueue = trace[0].delta /\ prevType = trace[0].last
        /\ decisionPos = trace[0].decs /\ symbolPos = trace[0].syms
        /\ Len(output) = trace[0].place
        /\ \A p \in 1 .. Len(output) : output[p] = data[p]
    BY <1>1, <2>2 DEF DecoderAt
  <2>4. /\ output' = output /\ lzQueue' = lzQueue /\ deltaQueue' = deltaQueue
        /\ prevType' = prevType /\ copy' = copy /\ result' = result
        /\ decisionPos' = decisionPos /\ symbolPos' = symbolPos
    BY DEF decoderVars
  <2>5. D!NoCopy' = D!NoCopy BY DEF D!NoCopy
  <2> QED BY <2>0, <2>1, <2>2, <2>3, <2>4, <2>5 DEF DecoderAt
<1>17. InStep(trace2, items2, n + 1, 0)' BY <1>14, <1>15, <1>16 DEF InStep
<1>18. data' \in Data BY <1>6
<1> QED BY <1>8, <1>17, <1>18 DEF CodecInv

\* While the encoder is under way, the decoder is at the start.
LEMMA EncoderUnderWay ==
  ASSUME IInv, coded < Len(data)
  PROVE  /\ ~Encoded
         /\ \E trace, items, n : InStep(trace, items, n, 0) /\ n \in Nat /\ trace[n] \in Points
                                   /\ trace[n] = [place |-> coded, lz |-> lzRecent,
                                        delta |-> deltaRecent, last |-> lastType,
                                        decs |-> Len(decisions), syms |-> Len(symbols)]
<1>1. ~Encoded BY InvTypes DEF Encoded
<1>2. PICK trace, items, n, k : InStep(trace, items, n, k) BY DEF IInv, CodecInv
<1>3. k = 0 BY <1>1, <1>2 DEF InStep, DecoderAt
<1>4. n \in Nat /\ trace[n] \in Points BY <1>2 DEF InStep, IsTrace
<1>5. trace[n] = [place |-> coded, lz |-> lzRecent, delta |-> deltaRecent,
                  last |-> lastType, decs |-> Len(decisions), syms |-> Len(symbols)]
  BY <1>2 DEF InStep, EncoderAt
<1> QED BY <1>1, <1>2, <1>3, <1>4, <1>5

LEMMA LiteralKeeps ==
  ASSUME IInv, Encode, Encoder!EmitLiteral
  PROVE  CodecInv'
<1>1. /\ coded < Len(data)
      /\ decisions' = Append(decisions, <<"main", 0>>)
      /\ symbols' = Append(symbols, <<"literal", data[coded + 1]>>)
      /\ coded' = coded + 1 /\ lastType' = "literal"
      /\ UNCHANGED <<data, lzRecent, deltaRecent>>
  BY DEF Encoder!EmitLiteral, Encoder!ByteAt
<1>2. ~Encoded /\ UNCHANGED decoderVars BY <1>1, EncoderUnderWay DEF Encode
<1>3. PICK trace, items, n :
        /\ InStep(trace, items, n, 0) /\ n \in Nat
        /\ trace[n] = [place |-> coded, lz |-> lzRecent, delta |-> deltaRecent,
                       last |-> lastType, decs |-> Len(decisions), syms |-> Len(symbols)]
  BY <1>1, EncoderUnderWay
<1>4. coded + 1 \in 1 .. Len(data) /\ Len(data) \in Nat /\ coded \in Nat
  BY <1>1, InvTypes, SMTT(30)
<1>5. PICK byte : byte = data[coded + 1] OBVIOUS
<1>6. byte \in 0 .. ByteSize - 1 /\ byte \in Nat BY <1>4, <1>5, InvTypes
<1>7. PICK item : item = D!LiteralItem(byte) OBVIOUS
<1>8. D!Decisions(item) = <<<<"main", 0>>>> /\ D!Symbols(item) = <<<<"literal", byte>>>>
  BY <1>7, DecisionsOf, SymbolsOf
<1>9. Len(D!Decisions(item)) = 1 /\ Len(D!Symbols(item)) = 1 BY <1>8
<1>10. /\ decisions' = decisions \o D!Decisions(item)
       /\ symbols' = symbols \o D!Symbols(item)
  <2>1. decisions \in Seq(Names \X Nat) /\ symbols \in Seq(Names \X Nat)
    BY InvTypes DEF Stream
  <2>2. <<"main", 0>> \in Names \X Nat /\ <<"literal", byte>> \in Names \X Nat
    BY <1>6, Writable
  <2> DEFINE X == Names \X Nat
             d == <<"main", 0>>
             s == <<"literal", byte>>
  <2>3. decisions \in Seq(X) /\ symbols \in Seq(X) /\ d \in X /\ s \in X BY <2>1, <2>2
  <2>4. decisions' = Append(decisions, d) /\ symbols' = Append(symbols, s) BY <1>1, <1>5
  <2>5. D!Decisions(item) = <<d>> /\ D!Symbols(item) = <<s>> BY <1>8
  <2> HIDE DEF X, d, s
  <2>6. Append(decisions, d) = decisions \o <<d>> /\ Append(symbols, s) = symbols \o <<s>>
    BY <2>3, AppendIsConcat
  <2> QED BY <2>4, <2>5, <2>6
<1>11. PICK point : point = [place |-> coded + 1, lz |-> lzRecent, delta |-> deltaRecent,
                             last |-> "literal", decs |-> Len(decisions) + 1,
                             syms |-> Len(symbols) + 1]
  OBVIOUS
<1>12. point \in Points BY <1>4, <1>11, InvTypes DEF Points
<1>13. LiteralLeads(trace[n], item, point)
  <2>1. IsLiteral(item) BY <1>6, <1>7 DEF IsLiteral
  <2>2. item.byte = byte BY <1>7 DEF D!LiteralItem
  <2>3. /\ point.place = trace[n].place + 1 /\ point.place = coded + 1
        /\ point.lz = trace[n].lz /\ point.delta = trace[n].delta
    BY <1>3, <1>11
  <2> QED BY <1>5, <2>1, <2>2, <2>3 DEF LiteralLeads
<1>14. item.kind = "literal" BY <1>7 DEF D!LiteralItem
<1>15. /\ point.place \in coded + 1 .. Len(data) /\ point.last = item.kind
       /\ point.decs = Len(decisions) + Len(D!Decisions(item))
       /\ point.syms = Len(symbols) + Len(D!Symbols(item))
       /\ coded' = point.place /\ lzRecent' = point.lz /\ deltaRecent' = point.delta
       /\ lastType' = point.last
  BY <1>1, <1>4, <1>9, <1>11, <1>14
<1> QED BY <1>1, <1>2, <1>3, <1>10, <1>12, <1>13, <1>15, ItemAdded

-----------------------------------------------------------------------------
\* A match repeats as far as its length says.
LEMMA MatchLengths ==
  ASSUME IInv, NEW offset \in Int
  PROVE  /\ Encoder!MatchLength(offset) \in 0 .. Len(data) - coded
         /\ Repeats(data, coded, Encoder!MatchLength(offset), offset)
<1> DEFINE fits(n) == \A k \in 0 .. n - 1 :
                        Encoder!ByteAt(coded + k) = Encoder!ByteAt(coded + k - offset)
           S == {n \in 0 .. Len(data) - coded : fits(n)}
           length == Encoder!Max(S)
<1>1. Len(data) \in Nat /\ coded \in 0 .. Len(data) BY InvTypes
<1>2. length \in S
  <2>1. 0 \in S BY <1>1
  <2>2. Len(data) - coded \in Nat /\ S \in SUBSET (0 .. Len(data) - coded) BY <1>1
  <2> HIDE DEF S
  <2> QED BY <2>1, <2>2, MaxOfIndices
<1>3. length \in 0 .. Len(data) - coded /\ fits(length) BY <1>2
<1>4. Encoder!MatchLength(offset) = length BY DEF Encoder!MatchLength
<1> HIDE DEF length, S
<1>5. ASSUME NEW k \in 1 .. length PROVE data[coded + k] = data[coded + k - offset]
  <2>1. k - 1 \in 0 .. length - 1 BY <1>1, <1>3
  <2>2. data[coded + (k - 1) + 1] = data[coded + (k - 1) - offset + 1]
    BY <1>3, <2>1 DEF Encoder!ByteAt
  <2>3. coded + (k - 1) + 1 = coded + k /\ coded + (k - 1) - offset + 1 = coded + k - offset
    BY <1>1, <1>3
  <2> QED BY <2>2, <2>3
<1> QED BY <1>3, <1>4, <1>5 DEF Repeats

\* And a delta continues as far.
LEMMA DeltaLengths ==
  ASSUME IInv, NEW offset \in Int, NEW span \in Int
  PROVE  /\ Encoder!DeltaLength(offset, span) \in 0 .. Len(data) - coded
         /\ Continues(data, coded, Encoder!DeltaLength(offset, span), offset, span)
<1> DEFINE fits(n) == \A k \in 0 .. n - 1 :
                        LET p == coded + k
                        IN  Encoder!ByteAt(p) =
                              (Encoder!ByteAt(p - offset) + Encoder!ByteAt(p - span)
                                 - Encoder!ByteAt(p - offset - span)) % ByteSize
           S == {n \in 0 .. Len(data) - coded : fits(n)}
           length == Encoder!Max(S)
<1>1. Len(data) \in Nat /\ coded \in 0 .. Len(data) BY InvTypes
<1>2. length \in S
  <2>1. 0 \in S BY <1>1
  <2>2. Len(data) - coded \in Nat /\ S \in SUBSET (0 .. Len(data) - coded) BY <1>1
  <2> HIDE DEF S
  <2> QED BY <2>1, <2>2, MaxOfIndices
<1>3. length \in 0 .. Len(data) - coded /\ fits(length) BY <1>2
<1>4. Encoder!DeltaLength(offset, span) = length BY Zenon DEF Encoder!DeltaLength
<1> HIDE DEF length, S
<1>5. ASSUME NEW k \in 1 .. length
      PROVE  data[coded + k] = D!Predicted(data, coded + k - 1, offset, span)
  <2>1. k - 1 \in 0 .. length - 1 BY <1>1, <1>3
  <2> DEFINE p == coded + (k - 1)
  <2>2. Encoder!ByteAt(p) = (Encoder!ByteAt(p - offset) + Encoder!ByteAt(p - span)
                                 - Encoder!ByteAt(p - offset - span)) % ByteSize
    BY <1>3, <2>1
  <2>3. p = coded + k - 1 /\ p + 1 = coded + k BY <1>1, <1>3
  <2> HIDE DEF p
  <2>4. data[p + 1] = D!Predicted(data, p, offset, span)
    BY <2>2 DEF Encoder!ByteAt, D!Predicted
  <2> QED BY <2>3, <2>4
<1> QED BY <1>3, <1>4, <1>5 DEF Continues

\* The number an offset is named by is one that names it.
LEMMA NamedOffset ==
  ASSUME NEW queue, NEW entry, NEW used, Encoder!Nameable(queue, entry, used) # {}
  PROVE  /\ Encoder!Min(Encoder!Nameable(queue, entry, used)) \in 0 .. 2
         /\ queue[D!Adjusted(Encoder!Min(Encoder!Nameable(queue, entry, used)), used)] = entry
<1> DEFINE S == Encoder!Nameable(queue, entry, used)
<1>1. S \in SUBSET (0 .. 2)
      /\ \A rep \in S : queue[Encoder!Adjusted(rep, used)] = entry
  BY DEF Encoder!Nameable, Encoder!Reps
<1> HIDE DEF S
<1>2. Encoder!Min(S) \in S BY <1>1, MinOfIndices DEF S
<1>3. queue[D!Adjusted(Encoder!Min(S), used)] = entry BY <1>1, <1>2, SameQueues
<1> QED BY <1>1, <1>2, <1>3 DEF S

\* The slots numbers stand for.
LEMMA SlotTypes ==
  /\ \A rep \in 0 .. 2 : \A used \in BOOLEAN : D!Adjusted(rep, used) \in 0 .. 3
  /\ \A power \in 0 .. 7 : D!Span(power) \in Nat \ {0}
  /\ D!Slots = 0 .. 3
<1>1. \A power \in 0 .. 7 : D!Span(power) \in Nat \ {0} BY DecoderInputs, D!SlotsTypes
<1> QED BY <1>1 DEF D!Adjusted, D!Slots

\* The recent offset that is offered lies in the data, as does its match.
LEMMA BestRecentFits ==
  ASSUME IInv, Encoder!BestRecent # Encoder!NoMatch
  PROVE  /\ Encoder!BestRecent.offset \in 1 .. coded
         /\ Encoder!BestRecent.length = Encoder!MatchLength(Encoder!BestRecent.offset)
<1> DEFINE tried(qi) == lzRecent[Encoder!Adjusted(qi, lastType = "lz")]
           usable    == {qi \in Encoder!Slots :
                           tried(qi) <= coded /\ Encoder!MatchLength(tried(qi)) >= 2}
           longest   == {qi \in usable : \A other \in usable :
                           Encoder!MatchLength(tried(qi)) >= Encoder!MatchLength(tried(other))}
           first     == Encoder!Min(longest)
<1>1. Encoder!BestRecent =
        IF usable = {} THEN Encoder!NoMatch
        ELSE [offset |-> tried(first), length |-> Encoder!MatchLength(tried(first))]
  BY DEF Encoder!BestRecent
<1>2. usable # {} /\ Encoder!Slots = 0 .. 3 BY <1>1 DEF Encoder!Slots
<1>3. \A qi \in 0 .. 3 : tried(qi) \in Nat \ {0}
  <2>1. \A qi \in 0 .. 3 : \A used \in BOOLEAN : Encoder!Adjusted(qi, used) \in 0 .. 3
    BY DEF Encoder!Adjusted
  <2>2. (lastType = "lz") \in BOOLEAN OBVIOUS
  <2>3. lzRecent \in [0 .. 3 -> Nat \ {0}] BY InvTypes
  <2> QED BY <2>1, <2>2, <2>3
<1>4. \A qi \in 0 .. 3 : Encoder!MatchLength(tried(qi)) \in 0 .. Len(data)
  <2>1. Len(data) \in Nat /\ coded \in 0 .. Len(data) BY InvTypes
  <2>2. ASSUME NEW qi \in 0 .. 3 PROVE Encoder!MatchLength(tried(qi)) \in 0 .. Len(data)
    <3>1. tried(qi) \in Int BY <1>3
    <3>2. Encoder!MatchLength(tried(qi)) \in 0 .. Len(data) - coded BY <3>1, MatchLengths
    <3> QED BY <2>1, <3>2
  <2> QED BY <2>2
<1>5. usable \subseteq 0 .. 3 /\ longest \subseteq usable
      /\ \A qi \in usable : tried(qi) <= coded
  BY <1>2
<1>6. longest # {}
  <2> DEFINE lengths == {Encoder!MatchLength(tried(qi)) : qi \in usable}
  <2>1. lengths \in SUBSET (0 .. Len(data)) /\ lengths # {} BY <1>2, <1>4, <1>5
  <2>2. PICK most \in lengths : \A other \in lengths : other <= most
    <3>1. Len(data) \in Nat BY InvTypes
    <3> HIDE DEF lengths
    <3> QED BY <2>1, <3>1, LargestIndex
  <2>3. PICK qi \in usable : most = Encoder!MatchLength(tried(qi)) OBVIOUS
  <2>4. \A other \in usable : Encoder!MatchLength(tried(other)) <= most BY <2>2
  <2>5. \A other \in usable : Encoder!MatchLength(tried(other)) \in Int BY <1>4, <1>5
  <2> HIDE DEF tried, usable
  <2>6. qi \in longest BY <2>3, <2>4, <2>5
  <2> QED BY <2>6
<1>7. first \in longest
  <2>1. longest \in SUBSET (0 .. 3) BY <1>5
  <2> HIDE DEF longest
  <2> QED BY <1>6, <2>1, MinOfIndices
<1> HIDE DEF longest, first
<1>8. first \in usable /\ first \in 0 .. 3 BY <1>5, <1>7
<1>9. tried(first) <= coded /\ tried(first) \in Nat \ {0} BY <1>3, <1>5, <1>8
<1>10. tried(first) \in 1 .. coded
  <2>1. coded \in Nat BY InvTypes
  <2> HIDE DEF tried
  <2> QED BY <1>9, <2>1
<1> QED BY <1>1, <1>2, <1>10

\* And every match that is taken does.
LEMMA LzCandidateFits ==
  ASSUME IInv, NEW m \in Encoder!LzCandidates, m.length >= MinMatch
  PROVE  /\ m.offset \in 1 .. coded /\ m.length \in 1 .. Len(data) - coded
         /\ Repeats(data, coded, m.length, m.offset)
<1>1. Len(data) \in Nat /\ coded \in 0 .. Len(data) /\ MinMatch \in Nat \ {0}
  BY InvTypes, CodecConstants
<1>2. m # Encoder!NoMatch BY <1>1 DEF Encoder!NoMatch
<1>3. m.offset \in 1 .. coded /\ m.length = Encoder!MatchLength(m.offset)
  <2>1. m = Encoder!BestRecent \/ \E q \in 1 .. coded - 1 :
           m = [offset |-> coded - q, length |-> Encoder!MatchLength(coded - q)]
    BY <1>2 DEF Encoder!LzCandidates
  <2>2. CASE m = Encoder!BestRecent BY <1>2, <2>2, BestRecentFits
  <2>3. CASE \E q \in 1 .. coded - 1 :
           m = [offset |-> coded - q, length |-> Encoder!MatchLength(coded - q)]
    BY <1>1, <2>3
  <2> QED BY <2>1, <2>2, <2>3
<1>4. m.length \in 0 .. Len(data) - coded /\ Repeats(data, coded, m.length, m.offset)
  <2>1. m.offset \in Int BY <1>1, <1>3
  <2> QED BY <1>3, <2>1, MatchLengths
<1>5. m.length \in 1 .. Len(data) - coded BY <1>1, <1>4
<1> QED BY <1>3, <1>4, <1>5

\* The numbers are written as they are read.
LEMMA SameRepDecisions ==
  /\ \A rep \in 0 .. 2 : \A o, l :
       <<<<"main", 1>>, <<"match", 0>>, <<"lz", 1>>>>
         \o Encoder!RepDecisions(rep, "lzRep0", "lzRep1") = D!Decisions(D!LzItem(rep, o, l))
  /\ \A rep \in 0 .. 2 : \A o, w, l :
       <<<<"main", 1>>, <<"match", 1>>, <<"delta", 1>>>>
         \o Encoder!RepDecisions(rep, "deltaRep0", "deltaRep1")
         = D!Decisions(D!DeltaItem(rep, o, w, l))
  /\ \A rep \in 0 .. 2 : /\ Encoder!RepDecisions(rep, "lzRep0", "lzRep1") \in Stream
                         /\ Encoder!RepDecisions(rep, "deltaRep0", "deltaRep1") \in Stream
<1>1. \A t1, t2 : /\ Encoder!RepDecisions(0, t1, t2) = <<<<t1, 0>>>>
                  /\ Encoder!RepDecisions(1, t1, t2) = <<<<t1, 1>>, <<t2, 0>>>>
                  /\ Encoder!RepDecisions(2, t1, t2) = <<<<t1, 1>>, <<t2, 1>>>>
  BY DEF Encoder!RepDecisions
<1>2. 0 \in Nat /\ 1 \in Nat OBVIOUS
<1>3. ASSUME NEW rep \in 0 .. 2
      PROVE  /\ \A o, l : <<<<"main", 1>>, <<"match", 0>>, <<"lz", 1>>>>
                         \o Encoder!RepDecisions(rep, "lzRep0", "lzRep1")
                         = D!Decisions(D!LzItem(rep, o, l))
             /\ Encoder!RepDecisions(rep, "lzRep0", "lzRep1") \in Stream
  <2> DEFINE X == Names \X Nat
             a == <<"main", 1>>
             b == <<"match", 0>>
             c == <<"lz", 1>>
             d0 == <<"lzRep0", 0>>
             d1 == <<"lzRep0", 1>>
             e0 == <<"lzRep1", 0>>
             e1 == <<"lzRep1", 1>>
  <2>1. /\ a \in X /\ b \in X /\ c \in X /\ d0 \in X /\ d1 \in X /\ e0 \in X /\ e1 \in X
        /\ Stream = Seq(X)
    BY <1>2, Writable DEF Stream
  <2>2. /\ Encoder!RepDecisions(0, "lzRep0", "lzRep1") = <<d0>>
        /\ Encoder!RepDecisions(1, "lzRep0", "lzRep1") = <<d1, e0>>
        /\ Encoder!RepDecisions(2, "lzRep0", "lzRep1") = <<d1, e1>>
    BY <1>1
  <2>3. \A o, l : /\ D!Decisions(D!LzItem(0, o, l)) = <<a, b, c, d0>>
                /\ D!Decisions(D!LzItem(1, o, l)) = <<a, b, c, d1, e0>>
                /\ D!Decisions(D!LzItem(2, o, l)) = <<a, b, c, d1, e1>>
    BY DecisionsOf
  <2> HIDE DEF X, a, b, c, d0, d1, e0, e1
  <2>4. /\ <<a, b, c>> \o <<d0>> = <<a, b, c, d0>>
        /\ <<a, b, c>> \o <<d1, e0>> = <<a, b, c, d1, e0>>
        /\ <<a, b, c>> \o <<d1, e1>> = <<a, b, c, d1, e1>>
    <3>1. <<a, b, c>> \o <<d0>> = <<a, b, c, d0>> BY <2>1, Joined31
    <3>2. <<a, b, c>> \o <<d1, e0>> = <<a, b, c, d1, e0>> BY <2>1, Joined32
    <3>3. <<a, b, c>> \o <<d1, e1>> = <<a, b, c, d1, e1>> BY <2>1, Joined32
    <3> QED BY <3>1, <3>2, <3>3
  <2>5. <<d0>> \in Seq(X) /\ <<d1, e0>> \in Seq(X) /\ <<d1, e1>> \in Seq(X) BY <2>1
  <2>6. /\ \A o, l : <<a, b, c>> \o Encoder!RepDecisions(rep, "lzRep0", "lzRep1")
                      = D!Decisions(D!LzItem(rep, o, l))
        /\ Encoder!RepDecisions(rep, "lzRep0", "lzRep1") \in Stream
    <3>1. CASE rep = 0 BY <2>1, <2>2, <2>3, <2>4, <2>5, <3>1
    <3>2. CASE rep = 1 BY <2>1, <2>2, <2>3, <2>4, <2>5, <3>2
    <3>3. CASE rep = 2 BY <2>1, <2>2, <2>3, <2>4, <2>5, <3>3
    <3> QED BY <3>1, <3>2, <3>3
  <2> QED BY <2>6 DEF a, b, c
<1>4. ASSUME NEW rep \in 0 .. 2
      PROVE  /\ \A o, w, l : <<<<"main", 1>>, <<"match", 1>>, <<"delta", 1>>>>
                         \o Encoder!RepDecisions(rep, "deltaRep0", "deltaRep1")
                         = D!Decisions(D!DeltaItem(rep, o, w, l))
             /\ Encoder!RepDecisions(rep, "deltaRep0", "deltaRep1") \in Stream
  <2> DEFINE X == Names \X Nat
             a == <<"main", 1>>
             b == <<"match", 1>>
             c == <<"delta", 1>>
             d0 == <<"deltaRep0", 0>>
             d1 == <<"deltaRep0", 1>>
             e0 == <<"deltaRep1", 0>>
             e1 == <<"deltaRep1", 1>>
  <2>1. /\ a \in X /\ b \in X /\ c \in X /\ d0 \in X /\ d1 \in X /\ e0 \in X /\ e1 \in X
        /\ Stream = Seq(X)
    BY <1>2, Writable DEF Stream
  <2>2. /\ Encoder!RepDecisions(0, "deltaRep0", "deltaRep1") = <<d0>>
        /\ Encoder!RepDecisions(1, "deltaRep0", "deltaRep1") = <<d1, e0>>
        /\ Encoder!RepDecisions(2, "deltaRep0", "deltaRep1") = <<d1, e1>>
    BY <1>1
  <2>3. \A o, w, l : /\ D!Decisions(D!DeltaItem(0, o, w, l)) = <<a, b, c, d0>>
                /\ D!Decisions(D!DeltaItem(1, o, w, l)) = <<a, b, c, d1, e0>>
                /\ D!Decisions(D!DeltaItem(2, o, w, l)) = <<a, b, c, d1, e1>>
    BY DecisionsOf
  <2> HIDE DEF X, a, b, c, d0, d1, e0, e1
  <2>4. /\ <<a, b, c>> \o <<d0>> = <<a, b, c, d0>>
        /\ <<a, b, c>> \o <<d1, e0>> = <<a, b, c, d1, e0>>
        /\ <<a, b, c>> \o <<d1, e1>> = <<a, b, c, d1, e1>>
    <3>1. <<a, b, c>> \o <<d0>> = <<a, b, c, d0>> BY <2>1, Joined31
    <3>2. <<a, b, c>> \o <<d1, e0>> = <<a, b, c, d1, e0>> BY <2>1, Joined32
    <3>3. <<a, b, c>> \o <<d1, e1>> = <<a, b, c, d1, e1>> BY <2>1, Joined32
    <3> QED BY <3>1, <3>2, <3>3
  <2>5. <<d0>> \in Seq(X) /\ <<d1, e0>> \in Seq(X) /\ <<d1, e1>> \in Seq(X) BY <2>1
  <2>6. /\ \A o, w, l : <<a, b, c>> \o Encoder!RepDecisions(rep, "deltaRep0", "deltaRep1")
                      = D!Decisions(D!DeltaItem(rep, o, w, l))
        /\ Encoder!RepDecisions(rep, "deltaRep0", "deltaRep1") \in Stream
    <3>1. CASE rep = 0 BY <2>1, <2>2, <2>3, <2>4, <2>5, <3>1
    <3>2. CASE rep = 1 BY <2>1, <2>2, <2>3, <2>4, <2>5, <3>2
    <3>3. CASE rep = 2 BY <2>1, <2>2, <2>3, <2>4, <2>5, <3>3
    <3> QED BY <3>1, <3>2, <3>3
  <2> QED BY <2>6 DEF a, b, c
<1> QED BY <1>3, <1>4

\* Numbers added.
LEMMA NumbersAdded == \A a, b \in Nat : a + b \in Nat
OBVIOUS

LEMMA LengthsAdded ==
  ASSUME NEW a \in Nat, NEW b \in Nat, NEW c \in 1 .. b - a
  PROVE  c \in Nat /\ a + c \in a + 1 .. b
OBVIOUS

\* A match is one more item.
LEMMA MatchAdded ==
  ASSUME IInv, Encode, data' = data, NEW trace, NEW items, NEW n, InStep(trace, items, n, 0),
         ~Encoded, n \in Nat,
         NEW item, item.length \in 1 .. Len(data) - coded, item.kind \in {"lz", "delta"},
         NEW lz \in [0 .. 3 -> Nat \ {0}], NEW delta \in [0 .. 3 -> (Nat \ {0}) \X (0 .. 7)],
         NEW point,
         point = [place |-> coded + item.length, lz |-> lz, delta |-> delta,
                  last |-> item.kind, decs |-> Len(decisions) + Len(D!Decisions(item)),
                  syms |-> Len(symbols) + Len(D!Symbols(item))],
         LzLeads(trace[n], item, point) \/ DeltaLeads(trace[n], item, point),
         decisions' = decisions \o D!Decisions(item),
         symbols' = symbols \o D!Symbols(item),
         coded' = coded + item.length, lzRecent' = lz, deltaRecent' = delta,
         lastType' = item.kind
  PROVE  CodecInv'
<1>1. coded \in Nat /\ Len(data) \in Nat /\ Len(decisions) \in Nat /\ Len(symbols) \in Nat
      /\ decisions \in Stream /\ symbols \in Stream
  BY InvTypes
<1>2. IsLiteral(item) \/ IsLz(item) \/ IsDelta(item) BY DEF LzLeads, DeltaLeads
<1>3. D!Decisions(item) \in Stream /\ D!Symbols(item) \in Stream
  BY <1>1, <1>2, WrittenShapes, OnlyItem
<1>4. Len(D!Decisions(item)) \in Nat /\ Len(D!Symbols(item)) \in Nat
  BY <1>3, LenProperties DEF Stream
<1>0. item.length \in Nat /\ coded + item.length \in coded + 1 .. Len(data)
  <2>1. item.length \in 1 .. Len(data) - coded OBVIOUS
  <2> QED BY <1>1, <2>1, LengthsAdded
<1>5. point \in Points
  <2> DEFINE d == Len(decisions) + Len(D!Decisions(item))
             s == Len(symbols) + Len(D!Symbols(item))
             p == coded + item.length
  <2>1. d \in Nat /\ s \in Nat /\ p \in Nat
    <3>1. d \in Nat BY <1>1, <1>4, NumbersAdded
    <3>2. s \in Nat BY <1>1, <1>4, NumbersAdded
    <3>3. p \in Nat BY <1>0, <1>1, NumbersAdded
    <3> QED BY <3>1, <3>2, <3>3
  <2>2. item.kind \in {"literal", "lz", "delta"} OBVIOUS
  <2>3. point = [place |-> p, lz |-> lz, delta |-> delta, last |-> item.kind,
                 decs |-> d, syms |-> s]
    OBVIOUS
  <2> HIDE DEF d, s, p
  <2> QED BY <2>1, <2>2, <2>3, SMTT(30) DEF Points
<1>6. point.place \in coded + 1 .. Len(data)
  <2>1. point.place = coded + item.length OBVIOUS
  <2> QED BY <1>0, <2>1
<1>7. UNCHANGED decoderVars BY DEF Encode
<1>8. /\ point.last = item.kind
      /\ point.decs = Len(decisions) + Len(D!Decisions(item))
      /\ point.syms = Len(symbols) + Len(D!Symbols(item))
      /\ coded' = point.place /\ lzRecent' = point.lz /\ deltaRecent' = point.delta
      /\ lastType' = point.last
  OBVIOUS
<1> QED BY <1>5, <1>6, <1>7, <1>8, ItemAdded

\* What is put behind in parts.
LEMMA InParts ==
  ASSUME NEW stream \in Stream, NEW s \in Stream, NEW t \in Stream
  PROVE  (stream \o s) \o t = stream \o (s \o t)
<1>1. PICK X : X = Names \X Nat OBVIOUS
<1>2. Stream = Seq(X) BY <1>1 DEF Stream
<1> QED BY <1>2, ConcatAssociative

\* An LZ match.
LEMMA LzKeeps ==
  ASSUME IInv, Encode, Encoder!EmitLz
  PROVE  CodecInv'
<1> DEFINE justUsed == lastType = "lz"
<1>1. PICK m \in Encoder!LzCandidates :
        LET reps   == Encoder!Nameable(lzRecent, m.offset, justUsed)
            length == <<<<"length", m.length>>>>
        IN  /\ coded < Len(data)
            /\ m.length >= MinMatch
            /\ IF reps # {}
               THEN /\ decisions' = decisions \o <<<<"main", 1>>, <<"match", 0>>, <<"lz", 1>>>>
                          \o Encoder!RepDecisions(Encoder!Min(reps), "lzRep0", "lzRep1")
                    /\ symbols' = symbols \o length
                    /\ lzRecent' = Encoder!QueueMtf(lzRecent,
                                      Encoder!Adjusted(Encoder!Min(reps), justUsed))
               ELSE /\ decisions' = decisions \o <<<<"main", 1>>, <<"match", 0>>, <<"lz", 0>>>>
                    /\ symbols' = symbols \o <<<<"lzOffset", m.offset>>>> \o length
                    /\ lzRecent' = Encoder!QueuePush(lzRecent, m.offset)
            /\ coded' = coded + m.length
            /\ lastType' = "lz"
            /\ UNCHANGED <<data, deltaRecent>>
  BY Zenon DEF Encoder!EmitLz
<1> DEFINE entry == m.offset
<1>2. coded < Len(data) /\ m.length >= MinMatch /\ data' = data /\ deltaRecent' = deltaRecent
      /\ coded' = coded + m.length /\ lastType' = "lz"
  BY <1>1
<1>3. /\ m.offset \in 1 .. coded /\ m.length \in 1 .. Len(data) - coded
      /\ Repeats(data, coded, m.length, m.offset)
  BY <1>2, LzCandidateFits
<1>4. PICK trace, items, n :
        /\ InStep(trace, items, n, 0) /\ n \in Nat /\ ~Encoded
        /\ trace[n] = [place |-> coded, lz |-> lzRecent, delta |-> deltaRecent,
                       last |-> lastType, decs |-> Len(decisions), syms |-> Len(symbols)]
  BY <1>2, EncoderUnderWay
<1>5. /\ lzRecent \in [0 .. 3 -> Nat \ {0}]
      /\ deltaRecent \in [0 .. 3 -> (Nat \ {0}) \X (0 .. 7)]
      /\ decisions \in Stream /\ symbols \in Stream /\ coded \in Nat /\ Len(data) \in Nat
  BY InvTypes
<1>6. m.length \in Nat \ {0} /\ m.length \in Nat /\ m.offset \in Nat \ {0} /\ m.offset \in Nat
  <2>1. Len(data) - coded \in Int /\ coded \in Int BY <1>5
  <2> HIDE DEF entry
  <2> QED BY <1>3, <2>1
<1> DEFINE reps == Encoder!Nameable(lzRecent, entry, justUsed)
<1>7. CASE reps # {}
  <2>1. PICK rep \in 0 .. 2 : /\ rep = Encoder!Min(reps)
                              /\ lzRecent[D!Adjusted(rep, justUsed)] = entry
    BY <1>7, NamedOffset
  <2>2. PICK item : item = D!LzItem(rep, 1, m.length) OBVIOUS
  <2>3. item.kind = "lz" /\ item.rep = rep /\ item.length = m.length /\ item.rep # D!Explicit
    BY <2>2, SameItems DEF D!LzItem
  <2>4. PICK queue : queue = D!QueueMtf(lzRecent, D!Adjusted(rep, justUsed)) OBVIOUS
  <2>5. queue \in [0 .. 3 -> Nat \ {0}]
    <3>1. D!Adjusted(rep, justUsed) \in 0 .. 3
      <4>1. justUsed \in BOOLEAN OBVIOUS
      <4> HIDE DEF justUsed
      <4> QED BY <4>1, SlotTypes
    <3> DEFINE Ty == Nat \ {0}
    <3> HIDE DEF Ty, justUsed
    <3>2. lzRecent \in [D!Slots -> Ty] BY <1>5, SlotTypes DEF Ty
    <3>3. queue \in [D!Slots -> Ty]
      BY <2>4, <3>1, <3>2, SlotTypes, DecoderInputs, D!QueueTypes
    <3> QED BY <3>3, SlotTypes DEF Ty
  <2>6. decisions' = decisions \o D!Decisions(item)
    <3> DEFINE a == <<<<"main", 1>>, <<"match", 0>>, <<"lz", 1>>>>
               b == Encoder!RepDecisions(rep, "lzRep0", "lzRep1")
    <3>1. decisions' = (decisions \o a) \o b BY <1>1, <1>7, <2>1
    <3>2. a \in Stream /\ b \in Stream
      <4>1. 1 \in Nat /\ 0 \in Nat OBVIOUS
      <4>2. /\ <<"main", 1>> \in Names \X Nat /\ <<"match", 0>> \in Names \X Nat
            /\ <<"lz", 1>> \in Names \X Nat
        BY <4>1, Writable
      <4>3. a \in Stream BY <4>2 DEF Stream
      <4> QED BY <4>3, SameRepDecisions
    <3>3. a \o b = D!Decisions(item) BY <2>2, SameRepDecisions
    <3> HIDE DEF a, b
    <3>4. (decisions \o a) \o b = decisions \o (a \o b) BY <1>5, <3>2, InParts
    <3> QED BY <3>1, <3>3, <3>4
  <2>7. symbols' = symbols \o D!Symbols(item)
    <3>1. D!Symbols(item) = <<<<"length", m.length>>>> BY <2>2, SymbolsOf
    <3>2. symbols' = symbols \o <<<<"length", m.length>>>> BY <1>1, <1>7
    <3> QED BY <3>1, <3>2
  <2>8. lzRecent' = queue
    <3>1. lzRecent' = Encoder!QueueMtf(lzRecent, Encoder!Adjusted(rep, justUsed))
      BY <1>1, <1>7, <2>1
    <3> QED BY <2>4, <3>1, SameQueues
  <2>9. PICK point :
          point = [place |-> coded + item.length, lz |-> queue, delta |-> deltaRecent,
                   last |-> item.kind, decs |-> Len(decisions) + Len(D!Decisions(item)),
                   syms |-> Len(symbols) + Len(D!Symbols(item))]
    OBVIOUS
  <2>10. LzLeads(trace[n], item, point)
    <3>1. IsLz(item) BY <1>6, <2>2 DEF IsLz
    <3>2. LzStated(trace[n], item) = entry BY <1>4, <2>1, <2>3 DEF LzStated
    <3>3. point.place = trace[n].place + item.length /\ trace[n].place = coded
          /\ point.delta = trace[n].delta
      BY <1>4, <2>9
    <3>4. point.lz = D!QueueMtf(trace[n].lz, D!Adjusted(item.rep, trace[n].last = "lz"))
      BY <1>4, <2>3, <2>4, <2>9
    <3> QED BY <1>3, <2>3, <3>1, <3>2, <3>3, <3>4 DEF LzLeads
  <2>11. /\ item.length \in 1 .. Len(data) - coded /\ item.kind \in {"lz", "delta"}
         /\ coded' = coded + item.length /\ lastType' = item.kind
    BY <1>2, <1>3, <2>3
  <2> QED BY <1>2, <1>4, <1>5, <2>5, <2>6, <2>7, <2>8, <2>9, <2>10, <2>11, MatchAdded
<1>8. CASE reps = {}
  <2>2. PICK item : item = D!LzItem(D!Explicit, m.offset, m.length) OBVIOUS
  <2>3. item.kind = "lz" /\ item.rep = D!Explicit /\ item.length = m.length
        /\ item.offset = m.offset
    BY <2>2 DEF D!LzItem
  <2>4. PICK queue : queue = D!QueuePush(lzRecent, entry) OBVIOUS
  <2>5. queue \in [0 .. 3 -> Nat \ {0}]
    <3> DEFINE Ty == Nat \ {0}
    <3>1. entry \in Ty BY <1>3, <1>6
    <3> HIDE DEF Ty, entry
    <3>2. lzRecent \in [D!Slots -> Ty] BY <1>5, SlotTypes DEF Ty
    <3>3. queue \in [D!Slots -> Ty] BY <2>4, <3>1, <3>2, DecoderInputs, D!QueueTypes
    <3> QED BY <3>3, SlotTypes DEF Ty
  <2>6. decisions' = decisions \o D!Decisions(item)
    <3>1. decisions' = decisions \o <<<<"main", 1>>, <<"match", 0>>, <<"lz", 0>>>>
      BY <1>1, <1>8
    <3>2. D!Decisions(item) = <<<<"main", 1>>, <<"match", 0>>, <<"lz", 0>>>>
      BY <2>2, DecisionsOf, SameItems
    <3> QED BY <3>1, <3>2
  <2>7. symbols' = symbols \o D!Symbols(item)
    <3> DEFINE a == <<"lzOffset", m.offset>>
               b == <<"length", m.length>>
    <3>1. symbols' = (symbols \o <<a>>) \o <<b>> BY <1>1, <1>8
    <3>2. D!Symbols(item) = <<a, b>> BY <2>2, SymbolsOf, SameItems
    <3>3. a \in Names \X Nat /\ b \in Names \X Nat BY <1>6, Writable
    <3> HIDE DEF a, b
    <3>4. <<a>> \in Stream /\ <<b>> \in Stream BY <3>3 DEF Stream
    <3>5. <<a>> \o <<b>> = <<a, b>> BY <3>3, Joined11
    <3>6. (symbols \o <<a>>) \o <<b>> = symbols \o (<<a>> \o <<b>>)
      BY <1>5, <3>4, InParts
    <3> QED BY <3>1, <3>2, <3>5, <3>6
  <2>8. lzRecent' = queue
    <3>1. lzRecent' = Encoder!QueuePush(lzRecent, entry) BY <1>1, <1>8
    <3> QED BY <2>4, <3>1, SameQueues
  <2>9. PICK point :
          point = [place |-> coded + item.length, lz |-> queue, delta |-> deltaRecent,
                   last |-> item.kind, decs |-> Len(decisions) + Len(D!Decisions(item)),
                   syms |-> Len(symbols) + Len(D!Symbols(item))]
    OBVIOUS
  <2>10. LzLeads(trace[n], item, point)
    <3>1. IsLz(item) BY <1>3, <1>6, <2>2 DEF IsLz
    <3>2. LzStated(trace[n], item) = entry BY <2>3 DEF LzStated
    <3>3. point.place = trace[n].place + item.length /\ trace[n].place = coded
          /\ point.delta = trace[n].delta
      BY <1>4, <2>9
    <3>4. point.lz = D!QueuePush(trace[n].lz, entry)
      BY <1>4, <2>3, <2>4, <2>9
    <3> QED BY <1>3, <2>3, <3>1, <3>2, <3>3, <3>4 DEF LzLeads
  <2>11. /\ item.length \in 1 .. Len(data) - coded /\ item.kind \in {"lz", "delta"}
         /\ coded' = coded + item.length /\ lastType' = item.kind
    BY <1>2, <1>3, <2>3
  <2> QED BY <1>2, <1>4, <1>5, <2>5, <2>6, <2>7, <2>8, <2>9, <2>10, <2>11, MatchAdded
<1> QED BY <1>7, <1>8

\* The pairs that are offered lie in the data.
LEMMA DeltaCandidateFits ==
  ASSUME IInv, NEW m \in Encoder!DeltaCandidates, m.length >= MinMatch
  PROVE  /\ m.offset \in 1 .. coded /\ m.power \in 0 .. 7 /\ m.length \in 1 .. Len(data) - coded
         /\ m.offset * D!Span(m.power) + D!Span(m.power) <= coded
         /\ Continues(data, coded, m.length, m.offset * D!Span(m.power), D!Span(m.power))
<1>1. PICK qw \in (1 .. coded) \X Powers :
        /\ qw[1] * Encoder!Span(qw[2]) + Encoder!Span(qw[2]) <= coded
        /\ m = [offset |-> qw[1], power |-> qw[2],
                length |-> Encoder!DeltaLength(qw[1] * Encoder!Span(qw[2]), Encoder!Span(qw[2]))]
  BY DEF Encoder!DeltaCandidates
<1>2. m.offset = qw[1] /\ m.power = qw[2] /\ m.offset \in 1 .. coded /\ m.power \in 0 .. 7
  BY <1>1, CodecConstants
<1>3. Encoder!Span(m.power) = D!Span(m.power) BY SameQueues
<1>4. PICK span : span = D!Span(m.power) OBVIOUS
<1>5. span \in Nat \ {0} BY <1>2, <1>4, SlotTypes
<1>6. PICK bytes : bytes = m.offset * span OBVIOUS
<1>7. bytes \in Int
  <2>1. m.offset \in Int /\ span \in Int BY <1>2, <1>5, InvTypes
  <2> QED BY <1>6, <2>1
<1>8. bytes + span <= coded /\ m.length = Encoder!DeltaLength(bytes, span)
  BY <1>1, <1>2, <1>3, <1>4, <1>6
<1>9. m.length \in 0 .. Len(data) - coded /\ Continues(data, coded, m.length, bytes, span)
  <2>1. span \in Int BY <1>5
  <2> QED BY <1>7, <1>8, <2>1, DeltaLengths
<1>10. m.length \in 1 .. Len(data) - coded
  BY <1>9, InvTypes, CodecConstants, SMTT(30)
<1> QED BY <1>2, <1>4, <1>6, <1>8, <1>9, <1>10

\* A delta match.
LEMMA DeltaKeeps ==
  ASSUME IInv, Encode, Encoder!EmitDelta
  PROVE  CodecInv'
<1> DEFINE justUsed == lastType = "delta"
<1>1. PICK m \in Encoder!DeltaCandidates :
        LET entry  == <<m.offset, m.power>>
            reps   == Encoder!Nameable(deltaRecent, entry, justUsed)
            length == <<<<"length", m.length>>>>
        IN  /\ coded + MinMatch - 1 < Len(data)
            /\ m.length >= MinMatch
            /\ IF reps # {}
               THEN /\ decisions' = decisions \o <<<<"main", 1>>, <<"match", 1>>, <<"delta", 1>>>>
                          \o Encoder!RepDecisions(Encoder!Min(reps), "deltaRep0", "deltaRep1")
                    /\ symbols' = symbols \o length
                    /\ deltaRecent' = Encoder!QueueMtf(deltaRecent,
                                         Encoder!Adjusted(Encoder!Min(reps), justUsed))
               ELSE /\ decisions' = decisions \o <<<<"main", 1>>, <<"match", 1>>, <<"delta", 0>>>>
                    /\ symbols' = symbols \o Encoder!DeltaSymbols(m) \o length
                    /\ deltaRecent' = Encoder!QueuePush(deltaRecent, entry)
            /\ coded' = coded + m.length
            /\ lastType' = "delta"
            /\ UNCHANGED <<data, lzRecent>>
  BY Zenon DEF Encoder!EmitDelta
<1> DEFINE entry == <<m.offset, m.power>>
<1>2. coded < Len(data) /\ m.length >= MinMatch /\ data' = data /\ lzRecent' = lzRecent
      /\ coded' = coded + m.length /\ lastType' = "delta"
  <2>1. /\ coded \in Nat /\ Len(data) \in Nat /\ MinMatch \in Nat \ {0}
    BY InvTypes, CodecConstants
  <2> QED BY <1>1, <2>1
<1>3. /\ m.offset \in 1 .. coded /\ m.power \in 0 .. 7 /\ m.length \in 1 .. Len(data) - coded
      /\ m.offset * D!Span(m.power) + D!Span(m.power) <= coded
      /\ Continues(data, coded, m.length, m.offset * D!Span(m.power), D!Span(m.power))
  BY <1>2, DeltaCandidateFits
<1>4. PICK trace, items, n :
        /\ InStep(trace, items, n, 0) /\ n \in Nat /\ ~Encoded
        /\ trace[n] = [place |-> coded, lz |-> lzRecent, delta |-> deltaRecent,
                       last |-> lastType, decs |-> Len(decisions), syms |-> Len(symbols)]
  BY <1>2, EncoderUnderWay
<1>5. /\ lzRecent \in [0 .. 3 -> Nat \ {0}]
      /\ deltaRecent \in [0 .. 3 -> (Nat \ {0}) \X (0 .. 7)]
      /\ decisions \in Stream /\ symbols \in Stream /\ coded \in Nat /\ Len(data) \in Nat
  BY InvTypes
<1>6. m.length \in Nat \ {0} /\ m.length \in Nat /\ m.offset \in Nat \ {0} /\ m.offset \in Nat
      /\ m.power \in Nat
  <2>1. Len(data) - coded \in Int /\ coded \in Int BY <1>5
  <2> HIDE DEF entry
  <2> QED BY <1>3, <2>1
<1> DEFINE reps == Encoder!Nameable(deltaRecent, entry, justUsed)
<1>7. CASE reps # {}
  <2>1. PICK rep \in 0 .. 2 : /\ rep = Encoder!Min(reps)
                              /\ deltaRecent[D!Adjusted(rep, justUsed)] = entry
    BY <1>7, NamedOffset
  <2>2. PICK item : item = D!DeltaItem(rep, 1, 0, m.length) OBVIOUS
  <2>3. /\ item.kind = "delta" /\ item.rep = rep /\ item.length = m.length
        /\ item.rep # D!Explicit
    BY <2>2, SameItems DEF D!DeltaItem
  <2>4. PICK queue : queue = D!QueueMtf(deltaRecent, D!Adjusted(rep, justUsed)) OBVIOUS
  <2>5. queue \in [0 .. 3 -> (Nat \ {0}) \X (0 .. 7)]
    <3>1. D!Adjusted(rep, justUsed) \in 0 .. 3
      <4>1. justUsed \in BOOLEAN OBVIOUS
      <4> HIDE DEF justUsed
      <4> QED BY <4>1, SlotTypes
    <3> DEFINE Ty == (Nat \ {0}) \X (0 .. 7)
    <3> HIDE DEF Ty, justUsed
    <3>2. deltaRecent \in [D!Slots -> Ty] BY <1>5, SlotTypes DEF Ty
    <3>3. queue \in [D!Slots -> Ty]
      BY <2>4, <3>1, <3>2, SlotTypes, DecoderInputs, D!QueueTypes
    <3> QED BY <3>3, SlotTypes DEF Ty
  <2>6. decisions' = decisions \o D!Decisions(item)
    <3> DEFINE a == <<<<"main", 1>>, <<"match", 1>>, <<"delta", 1>>>>
               b == Encoder!RepDecisions(rep, "deltaRep0", "deltaRep1")
    <3>1. decisions' = (decisions \o a) \o b BY <1>1, <1>7, <2>1
    <3>2. a \in Stream /\ b \in Stream
      <4>1. 1 \in Nat /\ 1 \in Nat OBVIOUS
      <4>2. /\ <<"main", 1>> \in Names \X Nat /\ <<"match", 1>> \in Names \X Nat
            /\ <<"delta", 1>> \in Names \X Nat
        BY <4>1, Writable
      <4>3. a \in Stream BY <4>2 DEF Stream
      <4> QED BY <4>3, SameRepDecisions
    <3>3. a \o b = D!Decisions(item) BY <2>2, SameRepDecisions
    <3> HIDE DEF a, b
    <3>4. (decisions \o a) \o b = decisions \o (a \o b) BY <1>5, <3>2, InParts
    <3> QED BY <3>1, <3>3, <3>4
  <2>7. symbols' = symbols \o D!Symbols(item)
    <3>1. D!Symbols(item) = <<<<"length", m.length>>>> BY <2>2, SymbolsOf
    <3>2. symbols' = symbols \o <<<<"length", m.length>>>> BY <1>1, <1>7
    <3> QED BY <3>1, <3>2
  <2>8. deltaRecent' = queue
    <3>1. deltaRecent' = Encoder!QueueMtf(deltaRecent, Encoder!Adjusted(rep, justUsed))
      BY <1>1, <1>7, <2>1
    <3> QED BY <2>4, <3>1, SameQueues
  <2>9. PICK point :
          point = [place |-> coded + item.length, lz |-> lzRecent, delta |-> queue,
                   last |-> item.kind, decs |-> Len(decisions) + Len(D!Decisions(item)),
                   syms |-> Len(symbols) + Len(D!Symbols(item))]
    OBVIOUS
  <2>10. DeltaLeads(trace[n], item, point)
    <3>1. IsDelta(item) BY <1>6, <2>2 DEF IsDelta
    <3>2. DeltaStated(trace[n], item) = entry BY <1>4, <2>1, <2>3 DEF DeltaStated
    <3>3. point.place = trace[n].place + item.length /\ trace[n].place = coded
          /\ point.lz = trace[n].lz
      BY <1>4, <2>9
    <3>4. point.delta = D!QueueMtf(trace[n].delta, D!Adjusted(item.rep, trace[n].last = "delta"))
      BY <1>4, <2>3, <2>4, <2>9
    <3>5. entry \in (Nat \ {0}) \X (0 .. 7) /\ entry[1] = m.offset /\ entry[2] = m.power
      BY <1>3, <1>6
    <3> HIDE DEF entry
    <3> QED BY <1>3, <2>3, <3>1, <3>2, <3>3, <3>4, <3>5 DEF DeltaLeads
  <2>11. /\ item.length \in 1 .. Len(data) - coded /\ item.kind \in {"lz", "delta"}
         /\ coded' = coded + item.length /\ lastType' = item.kind
    BY <1>2, <1>3, <2>3
  <2> QED BY <1>2, <1>4, <1>5, <2>5, <2>6, <2>7, <2>8, <2>9, <2>10, <2>11, MatchAdded
<1>8. CASE reps = {}
  <2>2. PICK item : item = D!DeltaItem(D!Explicit, m.offset, m.power, m.length) OBVIOUS
  <2>3. item.kind = "delta" /\ item.rep = D!Explicit /\ item.length = m.length
        /\ item.offset = m.offset /\ item.power = m.power
    BY <2>2 DEF D!DeltaItem
  <2>4. PICK queue : queue = D!QueuePush(deltaRecent, entry) OBVIOUS
  <2>5. queue \in [0 .. 3 -> (Nat \ {0}) \X (0 .. 7)]
    <3> DEFINE Ty == (Nat \ {0}) \X (0 .. 7)
    <3>1. entry \in Ty BY <1>3, <1>6
    <3> HIDE DEF Ty, entry
    <3>2. deltaRecent \in [D!Slots -> Ty] BY <1>5, SlotTypes DEF Ty
    <3>3. queue \in [D!Slots -> Ty] BY <2>4, <3>1, <3>2, DecoderInputs, D!QueueTypes
    <3> QED BY <3>3, SlotTypes DEF Ty
  <2>6. decisions' = decisions \o D!Decisions(item)
    <3>1. decisions' = decisions \o <<<<"main", 1>>, <<"match", 1>>, <<"delta", 0>>>>
      BY <1>1, <1>8
    <3>2. D!Decisions(item) = <<<<"main", 1>>, <<"match", 1>>, <<"delta", 0>>>>
      BY <2>2, DecisionsOf, SameItems
    <3> QED BY <3>1, <3>2
  <2>7. symbols' = symbols \o D!Symbols(item)
    <3> DEFINE a == <<"deltaPower", m.power>>
               b == <<"deltaOffset", m.offset>>
               c == <<"length", m.length>>
    <3>1. symbols' = (symbols \o <<a, b>>) \o <<c>> BY <1>1, <1>8 DEF Encoder!DeltaSymbols
    <3>2. D!Symbols(item) = <<a, b, c>> BY <2>2, SymbolsOf, SameItems
    <3>3. a \in Names \X Nat /\ b \in Names \X Nat /\ c \in Names \X Nat BY <1>6, Writable
    <3> HIDE DEF a, b, c
    <3>4. <<a, b>> \in Stream /\ <<c>> \in Stream BY <3>3 DEF Stream
    <3>5. <<a, b>> \o <<c>> = <<a, b, c>> BY <3>3, Joined21
    <3>6. (symbols \o <<a, b>>) \o <<c>> = symbols \o (<<a, b>> \o <<c>>)
      BY <1>5, <3>4, InParts
    <3> QED BY <3>1, <3>2, <3>5, <3>6
  <2>8. deltaRecent' = queue
    <3>1. deltaRecent' = Encoder!QueuePush(deltaRecent, entry) BY <1>1, <1>8
    <3> QED BY <2>4, <3>1, SameQueues
  <2>9. PICK point :
          point = [place |-> coded + item.length, lz |-> lzRecent, delta |-> queue,
                   last |-> item.kind, decs |-> Len(decisions) + Len(D!Decisions(item)),
                   syms |-> Len(symbols) + Len(D!Symbols(item))]
    OBVIOUS
  <2>10. DeltaLeads(trace[n], item, point)
    <3>1. IsDelta(item) BY <1>3, <1>6, <2>2 DEF IsDelta
    <3>2. DeltaStated(trace[n], item) = entry BY <2>3 DEF DeltaStated
    <3>3. point.place = trace[n].place + item.length /\ trace[n].place = coded
          /\ point.lz = trace[n].lz
      BY <1>4, <2>9
    <3>4. point.delta = D!QueuePush(trace[n].delta, entry)
      BY <1>4, <2>3, <2>4, <2>9
    <3>5. entry \in (Nat \ {0}) \X (0 .. 7) /\ entry[1] = m.offset /\ entry[2] = m.power
      BY <1>3, <1>6
    <3> HIDE DEF entry
    <3> QED BY <1>3, <2>3, <3>1, <3>2, <3>3, <3>4, <3>5 DEF DeltaLeads
  <2>11. /\ item.length \in 1 .. Len(data) - coded /\ item.kind \in {"lz", "delta"}
         /\ coded' = coded + item.length /\ lastType' = item.kind
    BY <1>2, <1>3, <2>3
  <2> QED BY <1>2, <1>4, <1>5, <2>5, <2>6, <2>7, <2>8, <2>9, <2>10, <2>11, MatchAdded
<1> QED BY <1>7, <1>8

LEMMA EncodeKeeps ==
  ASSUME IInv, Encode
  PROVE  CodecInv'
BY LiteralKeeps, LzKeeps, DeltaKeeps DEF Encode, Encoder!Next

-----------------------------------------------------------------------------
(***************************************************************************)
(* The decoder: each step takes it along the trace.                        *)
(***************************************************************************)
\* The trace and its end stay while the decoder runs.
LEMMA TraceRests ==
  ASSUME IInv, UNCHANGED encoderVars, NEW trace, NEW items, NEW n, NEW k,
         InStep(trace, items, n, k)
  PROVE  /\ IsTrace(trace, items, n)' /\ EncoderAt(trace, n)'
         /\ data' \in Data /\ decisions' \in Stream /\ symbols' \in Stream
<1>1. /\ data' = data /\ decisions' = decisions /\ symbols' = symbols /\ coded' = coded
      /\ lzRecent' = lzRecent /\ deltaRecent' = deltaRecent /\ lastType' = lastType
  BY DEF encoderVars
<1>2. IsTrace(trace, items, n) /\ EncoderAt(trace, n) BY DEF InStep
<1>3. ASSUME NEW before, NEW item, NEW after, Leads(before, item, after)
      PROVE  Leads(before, item, after)'
  <2>1. /\ LiteralLeads(before, item, after) => LiteralLeads(before, item, after)'
        /\ LzLeads(before, item, after) => LzLeads(before, item, after)'
        /\ DeltaLeads(before, item, after) => DeltaLeads(before, item, after)'
    BY <1>1, Zenon DEF LiteralLeads, LzLeads, DeltaLeads
  <2>2. Written(before, item, after) => Written(before, item, after)'
    BY <1>1, Zenon DEF Written
  <2> QED BY <1>3, <2>1, <2>2 DEF Leads
<1>4. IsTrace(trace, items, n)' BY <1>2, <1>3 DEF IsTrace
<1>5. EncoderAt(trace, n)' BY <1>1, <1>2 DEF EncoderAt
<1> QED BY <1>1, <1>4, <1>5 DEF IInv, CodecInv

\* The places of a trace, the last of them behind the bytes coded.
LEMMA TracePlaces ==
  ASSUME IInv, NEW trace, NEW items, NEW n, NEW k, InStep(trace, items, n, k)
  PROVE  /\ n \in Nat /\ k \in 0 .. n
         /\ \A j \in 0 .. n : trace[j] \in Points /\ trace[j].place \in 0 .. coded
         /\ \A i, j \in 0 .. n : i < j => trace[i].place < trace[j].place
         /\ trace[n].place = coded
<1>1. IsTrace(trace, items, n) /\ EncoderAt(trace, n) /\ DecoderAt(trace, items, n, k)
  BY DEF InStep
<1>2. n \in Nat /\ k \in 0 .. n BY <1>1 DEF IsTrace, DecoderAt
<1>3. \A i, j \in 0 .. n : i < j => trace[i].place < trace[j].place BY <1>1 DEF IsTrace
<1>4. trace[n].place = coded BY <1>1 DEF EncoderAt
<1>5. ASSUME NEW j \in 0 .. n PROVE trace[j] \in Points /\ trace[j].place \in 0 .. coded
  <2>1. trace[j] \in Points BY <1>1 DEF IsTrace
  <2>2. trace[j].place \in Nat BY <2>1 DEF Points
  <2>3. coded \in Nat BY InvTypes
  <2>4. j = n \/ (j < n /\ n \in 0 .. n) BY <1>2
  <2>5. trace[j].place = coded \/ trace[j].place < coded BY <1>3, <1>4, <2>4
  <2> QED BY <2>1, <2>2, <2>3, <2>5
<1> QED BY <1>2, <1>3, <1>4, <1>5

\* Where output is missing, the trace goes on, and with what is read.
LEMMA NextItem ==
  ASSUME IInv, Encoded, D!Reading, NEW trace, NEW items, NEW n, NEW k,
         InStep(trace, items, n, k)
  PROVE  /\ k + 1 \in 1 .. n
         /\ trace[k] \in Points /\ trace[k + 1] \in Points
         /\ Leads(trace[k], items[k + 1], trace[k + 1])
         /\ trace[k].place = Len(output) /\ trace[k + 1].place <= Len(data)
         /\ Readable = {items[k + 1]}
<1>1. IsTrace(trace, items, n) /\ DecoderAt(trace, items, n, k) BY DEF InStep
<1>2. copy = D!NoCopy /\ Len(output) < Len(data) BY DEF D!Reading, D!Position
<1>3. trace[k].place = Len(output) BY <1>1, <1>2 DEF DecoderAt
<1>4. /\ n \in Nat /\ k \in 0 .. n /\ trace[n].place = coded
      /\ \A j \in 0 .. n : trace[j] \in Points /\ trace[j].place \in 0 .. coded
  BY TracePlaces
<1>5. coded = Len(data) /\ Len(data) \in Nat BY InvTypes DEF Encoded
<1>6. Len(output) \in Nat BY <1>3, <1>4
<1>7. k # n BY <1>2, <1>3, <1>4, <1>5, <1>6
<1>8. k + 1 \in 1 .. n /\ k + 1 \in 0 .. n /\ (k + 1) - 1 = k BY <1>4, <1>7
<1>9. Leads(trace[k], items[k + 1], trace[k + 1])
  <2>1. Leads(trace[(k + 1) - 1], items[k + 1], trace[k + 1])
    <3> DEFINE j == k + 1
    <3>1. j \in 1 .. n BY <1>8
    <3> HIDE DEF j
    <3>2. Leads(trace[j - 1], items[j], trace[j]) BY <1>1, <3>1 DEF IsTrace
    <3> QED BY <3>2 DEF j
  <2> QED BY <1>8, <2>1
<1>10. trace[k + 1].place <= Len(data) BY <1>4, <1>5, <1>8
<1>11. trace[k] \in Points /\ trace[k + 1] \in Points BY <1>4, <1>8
<1>12. Readable = {items[k + 1]}
  <2> DEFINE item == items[k + 1]
  <2>1. Written(trace[k], item, trace[k + 1]) BY <1>9 DEF Leads
  <2>2. IsLiteral(item) \/ IsLz(item) \/ IsDelta(item)
    BY <1>9 DEF Leads, LiteralLeads, LzLeads, DeltaLeads
  <2>3. decisionPos = trace[k].decs /\ symbolPos = trace[k].syms BY <1>1 DEF DecoderAt
  <2>4. decisionPos \in Nat /\ symbolPos \in Nat BY <1>11, <2>3 DEF Points
  <2> HIDE DEF item
  <2>5. /\ Follows(decisions, decisionPos, D!Decisions(item))
        /\ Follows(symbols, symbolPos, D!Symbols(item))
    BY <2>1, <2>3 DEF Written
  <2>6. decisions \in Stream /\ symbols \in Stream BY InvTypes
  <2>7. Readable = {item} BY <2>2, <2>4, <2>5, <2>6, ItemIsRead
  <2> QED BY <2>7 DEF item
<1> QED BY <1>3, <1>8, <1>9, <1>10, <1>11, <1>12

\* The step of the decoder to the next point of the trace.
LEMMA PointReached ==
  ASSUME IInv, Encoded, UNCHANGED encoderVars, D!Reading,
         NEW trace, NEW items, NEW n, NEW k, InStep(trace, items, n, k),
         NEW item, item = items[k + 1],
         decisionPos' = decisionPos + Len(D!Decisions(item)),
         symbolPos' = symbolPos + Len(D!Symbols(item)),
         lzQueue' = trace[k + 1].lz, deltaQueue' = trace[k + 1].delta,
         prevType' = item.kind, result' = "running",
         \A p \in 1 .. Len(output') : output'[p] = data[p],
         \/ copy' = D!NoCopy /\ Len(output') = trace[k + 1].place
         \/ copy' # D!NoCopy /\ item.kind # "literal" /\ Copying(trace[k], item)'
  PROVE  CodecInv'
<1>1. /\ k + 1 \in 1 .. n /\ Leads(trace[k], item, trace[k + 1]) BY NextItem
<1>2. k \in 0 .. n /\ n \in Nat BY TracePlaces
<1>3. /\ trace[k + 1].decs = decisionPos' /\ trace[k + 1].syms = symbolPos'
      /\ trace[k + 1].last = item.kind
  <2>1. decisionPos = trace[k].decs /\ symbolPos = trace[k].syms BY DEF InStep, DecoderAt
  <2> QED BY <1>1, <2>1 DEF Leads, Written
<1>4. data' = data /\ coded' = coded BY DEF encoderVars
<1>5. Encoded' BY <1>4 DEF Encoded
<1>6. D!NoCopy' = D!NoCopy BY DEF D!NoCopy
<1>7. DecoderAt(trace, items, n, k + 1)'
  <2>1. k + 1 \in 0 .. n /\ k + 1 > 0 /\ (k + 1) - 1 = k BY <1>1, <1>2
  <2>2. IF copy' = D!NoCopy
        THEN Len(output') = trace[k + 1].place
        ELSE /\ k + 1 > 0 /\ items[k + 1].kind # "literal"
             /\ Copying(trace[(k + 1) - 1], items[k + 1])'
    BY <2>1
  <2> QED BY <1>3, <1>4, <1>5, <1>6, <2>1, <2>2 DEF DecoderAt
<1>8. InStep(trace, items, n, k + 1)' BY <1>7, TraceRests DEF InStep
<1> QED BY <1>8, TraceRests DEF CodecInv

\* The item read, with what the decoder makes of it.
LEMMA KindOfItem ==
  /\ \A item : IsLiteral(item) => item.kind = "literal"
  /\ \A item : IsLz(item) => /\ item.kind = "lz" /\ item.rep \in 0 .. 3
                             /\ item.offset \in Nat \ {0} /\ item.length \in Nat \ {0}
  /\ \A item : IsDelta(item) => /\ item.kind = "delta" /\ item.rep \in 0 .. 3
                                /\ item.offset \in Nat \ {0} /\ item.length \in Nat \ {0}
                                /\ item.power \in 0 .. 7
<1>1. D!Explicit = 3 BY DEF D!Explicit
<1>2. ASSUME NEW item, IsLiteral(item) PROVE item.kind = "literal"
  BY <1>2 DEF IsLiteral, D!LiteralItem
<1>3. ASSUME NEW item, IsLz(item)
      PROVE  /\ item.kind = "lz" /\ item.rep \in 0 .. 3
             /\ item.offset \in Nat \ {0} /\ item.length \in Nat \ {0}
  BY <1>1, <1>3 DEF IsLz, D!LzItem
<1>4. ASSUME NEW item, IsDelta(item)
      PROVE  /\ item.kind = "delta" /\ item.rep \in 0 .. 3
             /\ item.offset \in Nat \ {0} /\ item.length \in Nat \ {0}
             /\ item.power \in 0 .. 7
  BY <1>1, <1>4 DEF IsDelta, D!DeltaItem
<1> QED BY <1>2, <1>3, <1>4

\* A literal is the byte of the data at its place.
LEMMA LiteralRead ==
  ASSUME IInv, Encoded, UNCHANGED encoderVars, D!Reading,
         NEW trace, NEW items, NEW n, NEW k, InStep(trace, items, n, k),
         NEW item, item = items[k + 1], item.kind = "literal", D!Literal(item.byte),
         decisionPos' = decisionPos + Len(D!Decisions(item)),
         symbolPos' = symbolPos + Len(D!Symbols(item))
  PROVE  IInv'
<1>1. /\ Leads(trace[k], item, trace[k + 1]) /\ trace[k].place = Len(output)
      /\ trace[k + 1].place <= Len(data) /\ trace[k] \in Points
  BY NextItem
<1>2. LiteralLeads(trace[k], item, trace[k + 1])
  BY <1>1, KindOfItem DEF Leads, LzLeads, DeltaLeads
<1>3. /\ trace[k + 1].place = Len(output) + 1 /\ item.byte = data[Len(output) + 1]
      /\ trace[k + 1].lz = trace[k].lz /\ trace[k + 1].delta = trace[k].delta
      /\ item.byte \in 0 .. ByteSize - 1
  <2>1. item.byte \in 0 .. ByteSize - 1 BY <1>2 DEF LiteralLeads, IsLiteral, D!LiteralItem
  <2> QED BY <1>1, <1>2, <2>1 DEF LiteralLeads
<1>4. D!IInv /\ lzQueue = trace[k].lz /\ deltaQueue = trace[k].delta
      /\ \A p \in 1 .. Len(output) : output[p] = data[p]
  BY DEF IInv, InStep, DecoderAt
<1>5. D!IInv'
  <2>1. item.byte \in D!Byte BY <1>3 DEF D!Byte
  <2> QED BY <1>4, <2>1, DecoderInputs, D!LiteralKeepsInv
<1>6. /\ output' = Append(output, item.byte) /\ prevType' = "literal" /\ lzQueue' = lzQueue
      /\ deltaQueue' = deltaQueue /\ copy' = D!NoCopy /\ result' = "running"
  BY DEF D!Literal, D!Reading
<1>7. /\ Len(output') = Len(output) + 1
      /\ \A p \in 1 .. Len(output') : output'[p] = data[p]
  <2>1. PICK B : B = D!Byte OBVIOUS
  <2>2. output \in Seq(B) /\ item.byte \in B BY <1>3, <1>4, <2>1 DEF D!IInv, D!TypeOK, D!Byte
  <2>3. Len(output) \in Nat BY <2>2, LenProperties
  <2>4. /\ Len(output') = Len(output) + 1
        /\ \A p \in 1 .. Len(output) : output'[p] = output[p]
        /\ output'[Len(output) + 1] = item.byte
    BY <1>6, <2>2, AppendProperties
  <2>5. \A p \in 1 .. Len(output') : p \in 1 .. Len(output) \/ p = Len(output) + 1
    BY <2>3, <2>4
  <2> QED BY <1>3, <1>4, <2>4, <2>5
<1>8. CodecInv' BY <1>3, <1>4, <1>6, <1>7, PointReached
<1> QED BY <1>5, <1>8 DEF IInv

\* The match of an item that fits is taken up as it is.
LEMMA CopyTakenUp ==
  ASSUME IInv, D!Reading, NEW kind, NEW offset, NEW span, NEW length \in Nat, NEW fits,
         D!StartCopy(kind, offset, span, length, fits), fits, Len(output) + length <= Len(data)
  PROVE  /\ copy' = [kind |-> kind, start |-> Len(output), offset |-> offset, span |-> span,
                     length |-> length]
         /\ result' = "running" /\ prevType' = kind
<1>1. Len(output) \in Nat /\ Len(data) \in Nat
  BY DecoderInputs, D!PositionType DEF IInv, D!IInv, D!Position
<1>2. D!Cut(length) = length
  <2>1. length <= Len(data) - Len(output) BY <1>1
  <2> QED BY <2>1 DEF D!Cut, D!Position
<1>3. result = "running" BY DEF D!Reading
<1> QED BY <1>2, <1>3 DEF D!StartCopy, D!Position

\* An LZ match is read as it was meant.
LEMMA LzRead ==
  ASSUME IInv, Encoded, UNCHANGED encoderVars, D!Reading,
         NEW trace, NEW items, NEW n, NEW k, InStep(trace, items, n, k),
         NEW item, item = items[k + 1], item.kind = "lz",
         D!LzMatch(item.rep, item.offset, item.length),
         decisionPos' = decisionPos + Len(D!Decisions(item)),
         symbolPos' = symbolPos + Len(D!Symbols(item))
  PROVE  IInv'
<1>1. /\ Leads(trace[k], item, trace[k + 1]) /\ trace[k].place = Len(output)
      /\ trace[k + 1].place <= Len(data) /\ trace[k] \in Points
  BY NextItem
<1>2. LzLeads(trace[k], item, trace[k + 1])
  BY <1>1, KindOfItem DEF Leads, LiteralLeads, DeltaLeads
<1>3. /\ item.rep \in 0 .. 3 /\ item.offset \in Nat \ {0} /\ item.length \in Nat \ {0}
      /\ item.length \in Nat
  BY <1>2, KindOfItem DEF LzLeads
<1>4. /\ D!IInv /\ lzQueue = trace[k].lz /\ deltaQueue = trace[k].delta
      /\ prevType = trace[k].last
      /\ \A p \in 1 .. Len(output) : output[p] = data[p]
  BY DEF IInv, InStep, DecoderAt
<1>5. D!IInv'
  <2>1. item.rep \in D!Reps \cup {D!Explicit} BY <1>3 DEF D!Reps, D!Explicit
  <2>2. PICK rep, offset, length :
          rep = item.rep /\ offset = item.offset /\ length = item.length
    OBVIOUS
  <2>3. /\ rep \in D!Reps \cup {D!Explicit} /\ offset \in Nat \ {0} /\ length \in Nat \ {0}
        /\ D!LzMatch(rep, offset, length)
    BY <1>3, <2>1, <2>2
  <2> QED BY <1>4, <2>3, DecoderInputs, D!LzMatchKeepsInv, ZenonT(60)
<1>6. PICK stated : stated = LzStated(trace[k], item) OBVIOUS
<1>7. stated \in 1 .. Len(output) BY <1>1, <1>2, <1>6 DEF LzLeads
<1>8. stated = IF item.rep = D!Explicit THEN item.offset ELSE lzQueue[D!LzSlot(item.rep)]
  BY <1>4, <1>6 DEF LzStated, D!LzSlot
<1>9. /\ lzQueue' = D!LzQueueAfter(item.rep, item.offset)
      /\ D!StartCopy("lz", stated, 1, item.length, stated <= Len(output))
      /\ output' = output /\ deltaQueue' = deltaQueue
  BY <1>8 DEF D!LzMatch, D!Position
<1>10. lzQueue' = trace[k + 1].lz /\ trace[k + 1].delta = trace[k].delta
  <2>1. trace[k + 1].lz =
          IF item.rep = D!Explicit THEN D!QueuePush(trace[k].lz, stated)
          ELSE D!QueueMtf(trace[k].lz, D!Adjusted(item.rep, trace[k].last = "lz"))
    BY <1>2, <1>6 DEF LzLeads
  <2>2. item.rep = D!Explicit => stated = item.offset BY <1>6 DEF LzStated
  <2>3. trace[k + 1].delta = trace[k].delta BY <1>2 DEF LzLeads
  <2> QED BY <1>4, <1>9, <2>1, <2>2, <2>3 DEF D!LzQueueAfter, D!LzSlot
<1>11. /\ copy' = [kind |-> "lz", start |-> Len(output), offset |-> stated, span |-> 1,
                   length |-> item.length]
       /\ result' = "running" /\ prevType' = "lz"
  <2>1. Len(output) + item.length <= Len(data) BY <1>1, <1>2 DEF LzLeads
  <2>2. stated <= Len(output) BY <1>7
  <2> QED BY <1>3, <1>9, <2>1, <2>2, CopyTakenUp
<1>12. copy' # D!NoCopy BY <1>11 DEF D!NoCopy
<1>13. Copying(trace[k], item)'
  <2>1. /\ copy'.kind = item.kind /\ copy'.start = trace[k].place
        /\ copy'.length = item.length /\ copy'.offset = LzStated(trace[k], item)
    BY <1>1, <1>6, <1>11
  <2> QED BY <2>1 DEF Copying
<1>14. CodecInv' BY <1>4, <1>9, <1>10, <1>11, <1>12, <1>13, PointReached
<1> QED BY <1>5, <1>14 DEF IInv

\* So is a delta match.
LEMMA DeltaRead ==
  ASSUME IInv, Encoded, UNCHANGED encoderVars, D!Reading,
         NEW trace, NEW items, NEW n, NEW k, InStep(trace, items, n, k),
         NEW item, item = items[k + 1], item.kind = "delta",
         D!DeltaMatch(item.rep, item.offset, item.power, item.length),
         decisionPos' = decisionPos + Len(D!Decisions(item)),
         symbolPos' = symbolPos + Len(D!Symbols(item))
  PROVE  IInv'
<1>1. /\ Leads(trace[k], item, trace[k + 1]) /\ trace[k].place = Len(output)
      /\ trace[k + 1].place <= Len(data) /\ trace[k] \in Points
  BY NextItem
<1>2. DeltaLeads(trace[k], item, trace[k + 1])
  BY <1>1, KindOfItem DEF Leads, LiteralLeads, LzLeads
<1>3. /\ item.rep \in 0 .. 3 /\ item.offset \in Nat \ {0} /\ item.length \in Nat \ {0}
      /\ item.power \in 0 .. 7 /\ item.length \in Nat
  BY <1>2, KindOfItem DEF DeltaLeads
<1>4. /\ D!IInv /\ lzQueue = trace[k].lz /\ deltaQueue = trace[k].delta
      /\ prevType = trace[k].last
      /\ \A p \in 1 .. Len(output) : output[p] = data[p]
  BY DEF IInv, InStep, DecoderAt
<1>5. D!IInv'
  <2>1. item.rep \in D!Reps \cup {D!Explicit} BY <1>3 DEF D!Reps, D!Explicit
  <2>2. PICK rep, offset, power, length :
          rep = item.rep /\ offset = item.offset /\ power = item.power /\ length = item.length
    OBVIOUS
  <2>3. /\ rep \in D!Reps \cup {D!Explicit} /\ offset \in Nat \ {0} /\ length \in Nat \ {0}
        /\ power \in 0 .. 7
        /\ D!DeltaMatch(rep, offset, power, length)
    BY <1>3, <2>1, <2>2
  <2> QED BY <1>4, <2>3, DecoderInputs, D!DeltaMatchKeepsInv, ZenonT(60)
<1>6. PICK pair : pair = DeltaStated(trace[k], item) OBVIOUS
<1>7. pair = IF item.rep = D!Explicit THEN <<item.offset, item.power>>
             ELSE deltaQueue[D!DeltaSlot(item.rep)]
  BY <1>4, <1>6, Zenon DEF DeltaStated, D!DeltaSlot
<1>8. PICK span : span = D!Span(pair[2]) OBVIOUS
<1>9. PICK bytes : bytes = pair[1] * span OBVIOUS
<1>10. bytes + span <= Len(output)
  <2>1. bytes + span <= trace[k].place BY <1>2, <1>6, <1>8, <1>9 DEF DeltaLeads
  <2> QED BY <1>1, <2>1
<1>11. /\ deltaQueue' = IF item.rep = D!Explicit THEN D!QueuePush(deltaQueue, pair)
                        ELSE D!QueueMtf(deltaQueue, D!DeltaSlot(item.rep))
       /\ D!StartCopy("delta", bytes, span, item.length, D!DeltaFits(bytes, span))
       /\ output' = output /\ lzQueue' = lzQueue
  BY <1>7, <1>8, <1>9, Zenon DEF D!DeltaMatch
<1>12. deltaQueue' = trace[k + 1].delta /\ trace[k + 1].lz = trace[k].lz
  <2>1. trace[k + 1].delta =
          IF item.rep = D!Explicit THEN D!QueuePush(trace[k].delta, pair)
          ELSE D!QueueMtf(trace[k].delta, D!Adjusted(item.rep, trace[k].last = "delta"))
    BY <1>2, <1>6 DEF DeltaLeads
  <2>2. trace[k + 1].lz = trace[k].lz BY <1>2 DEF DeltaLeads
  <2> QED BY <1>4, <1>11, <2>1, <2>2 DEF D!DeltaSlot
<1>13. /\ copy' = [kind |-> "delta", start |-> Len(output), offset |-> bytes, span |-> span,
                   length |-> item.length]
       /\ result' = "running" /\ prevType' = "delta"
  <2>1. Len(output) + item.length <= Len(data) BY <1>1, <1>2 DEF DeltaLeads
  <2>2. D!DeltaFits(bytes, span) BY <1>10 DEF D!DeltaFits, D!Position
  <2> QED BY <1>3, <1>11, <2>1, <2>2, CopyTakenUp
<1>14. copy' # D!NoCopy BY <1>13 DEF D!NoCopy
<1>15. Copying(trace[k], item)'
  <2>1. /\ copy'.kind = item.kind /\ copy'.start = trace[k].place
        /\ copy'.length = item.length /\ copy'.span = span /\ copy'.offset = bytes
    BY <1>1, <1>13
  <2>2. /\ copy'.span = D!Span(DeltaStated(trace[k], item)[2])
        /\ copy'.offset = DeltaStated(trace[k], item)[1] * copy'.span
    BY <1>6, <1>8, <1>9, <2>1
  <2> QED BY <2>1, <2>2 DEF Copying
<1>16. CodecInv' BY <1>4, <1>11, <1>12, <1>13, <1>14, <1>15, PointReached
<1> QED BY <1>5, <1>16 DEF IInv

-----------------------------------------------------------------------------
(***************************************************************************)
(* Copying.  Two sequences that agree up to some point, and from there on  *)
(* repeat at one distance, agree as far as the repetition goes: otherwise  *)
(* there were a first place at which they differ.                          *)
(***************************************************************************)
LEMMA RepetitionAgrees ==
  ASSUME NEW f, NEW g, NEW here \in Nat, NEW count \in Nat, NEW distance \in 1 .. here,
         \A i \in 1 .. here : f[i] = g[i],
         Repeats(f, here, count, distance), Repeats(g, here, count, distance)
  PROVE  \A i \in 1 .. here + count : f[i] = g[i]
<1> DEFINE Wrong == {i \in 0 .. here + count : i # 0 /\ f[i] # g[i]}
<1> SUFFICES ASSUME Wrong # {} PROVE FALSE OBVIOUS
<1>1. PICK i \in Wrong : \A k \in Wrong : i <= k
  <2>1. Wrong \in SUBSET (0 .. here + count) /\ here + count \in Nat OBVIOUS
  <2> HIDE DEF Wrong
  <2> QED BY <2>1, SmallestIndex
<1>2. i \in 1 .. here + count /\ f[i] # g[i] BY <1>1
<1>3. i > here BY <1>2
<1> DEFINE k == i - here
<1>4. k \in 1 .. count /\ here + k = i BY <1>2, <1>3
<1>5. i - distance \in 1 .. here + count /\ i - distance < i BY <1>2, <1>3
<1>6. f[i] = f[i - distance] /\ g[i] = g[i - distance]
  <2> HIDE DEF k
  <2>1. f[here + k] = f[here + k - distance] /\ g[here + k] = g[here + k - distance]
    BY <1>4 DEF Repeats
  <2> QED BY <1>4, <2>1
<1>7. i - distance \in Wrong BY <1>2, <1>5, <1>6
<1> HIDE DEF Wrong
<1> QED BY <1>1, <1>2, <1>5, <1>7

\* What a copy in progress is the copy of.
LEMMA CopyOfItem ==
  ASSUME IInv, copy # D!NoCopy, NEW trace, NEW items, NEW n, NEW k, InStep(trace, items, n, k)
  PROVE  /\ Encoded
         /\ k \in 1 .. n /\ Leads(trace[k - 1], items[k], trace[k])
         /\ trace[k - 1] \in Points /\ trace[k] \in Points
         /\ items[k].kind # "literal" /\ Copying(trace[k - 1], items[k])
         /\ trace[k].place = copy.start + copy.length
<1>1. IsTrace(trace, items, n) /\ DecoderAt(trace, items, n, k) BY DEF InStep
<1>2. /\ n \in Nat /\ k \in 0 .. n /\ \A j \in 0 .. n : trace[j] \in Points
  BY TracePlaces
<1>3. Encoded /\ k > 0 /\ items[k].kind # "literal" /\ Copying(trace[k - 1], items[k])
  BY <1>1 DEF DecoderAt
<1>4. k \in 1 .. n /\ k - 1 \in 0 .. n BY <1>2, <1>3
<1>5. Leads(trace[k - 1], items[k], trace[k]) BY <1>1, <1>4 DEF IsTrace
<1>6. trace[k].place = trace[k - 1].place + items[k].length
  BY <1>3, <1>5, KindOfItem DEF Leads, LiteralLeads, LzLeads, DeltaLeads
<1> QED BY <1>2, <1>3, <1>4, <1>5, <1>6 DEF Copying

\* The copy goes on, or ends at the point of the trace.
LEMMA CopyGoesOn ==
  ASSUME IInv, UNCHANGED encoderVars, copy # D!NoCopy,
         NEW trace, NEW items, NEW n, NEW k, InStep(trace, items, n, k),
         NEW count \in Nat, Len(output') = Len(output) + count,
         \A p \in 1 .. Len(output') : output'[p] = data[p],
         copy' = IF D!Done + count = copy.length THEN D!NoCopy ELSE copy,
         UNCHANGED <<lzQueue, deltaQueue, prevType, decisionPos, symbolPos>>,
         result = "running", result' = "running"
  PROVE  CodecInv'
<1>1. /\ Encoded /\ k \in 1 .. n /\ Copying(trace[k - 1], items[k])
      /\ items[k].kind # "literal" /\ trace[k].place = copy.start + copy.length
  BY CopyOfItem
<1>2. data' = data /\ coded' = coded BY DEF encoderVars
<1>3. Encoded' BY <1>1, <1>2 DEF Encoded
<1>4. D!NoCopy' = D!NoCopy BY DEF D!NoCopy
<1>5. copy' = D!NoCopy \/ copy' = copy OBVIOUS
<1>6. CASE copy' = D!NoCopy
  <2>1. D!Done + count = copy.length BY <1>6
  <2>2. Len(output) \in Nat /\ copy.start \in Nat /\ copy.length \in Nat
    BY DecoderInputs, D!CopyFacts DEF IInv, D!Position
  <2>3. Len(output') = trace[k].place BY <1>1, <2>1, <2>2 DEF D!Done, D!Position
  <2>4. DecoderAt(trace, items, n, k)'
    BY <1>1, <1>2, <1>3, <1>4, <1>6, <2>3 DEF InStep, DecoderAt
  <2> QED BY <2>4, TraceRests DEF InStep, CodecInv
<1>7. CASE copy' = copy
  <2>1. Copying(trace[k - 1], items[k])' BY <1>1, <1>7 DEF Copying
  <2>2. n \in Nat /\ k > 0 BY <1>1, TracePlaces
  <2>3. DecoderAt(trace, items, n, k)'
    BY <1>1, <1>2, <1>3, <1>4, <1>7, <2>1, <2>2 DEF InStep, DecoderAt
  <2> QED BY <2>3, TraceRests DEF InStep, CodecInv
<1> QED BY <1>5, <1>6, <1>7

\* A memmove of an LZ match.
LEMMA CopyLzKeeps ==
  ASSUME IInv, UNCHANGED encoderVars, D!CopyLz, UNCHANGED <<decisionPos, symbolPos>>
  PROVE  IInv'
<1>1. PICK trace, items, n, k : InStep(trace, items, n, k) BY DEF IInv, CodecInv
<1>2. D!IInv /\ D!IInv' BY DecoderInputs, D!CopyLzKeepsInv DEF IInv
<1>3. copy # D!NoCopy /\ result = "running" /\ copy.kind = "lz"
  BY DEF D!CopyLz, D!NoCopy
<1>4. /\ k \in 1 .. n /\ Leads(trace[k - 1], items[k], trace[k]) /\ trace[k - 1] \in Points
      /\ Copying(trace[k - 1], items[k])
  BY <1>1, <1>3, CopyOfItem
<1>5. PICK before, item, after : before = trace[k - 1] /\ item = items[k] /\ after = trace[k]
  OBVIOUS
<1>6. item.kind = "lz" /\ LzLeads(before, item, after)
  BY <1>3, <1>4, <1>5, KindOfItem DEF Copying, Leads, LiteralLeads, DeltaLeads
<1>7. PICK offset : offset = LzStated(before, item) OBVIOUS
<1>8. /\ copy.start = before.place /\ copy.length = item.length /\ copy.offset = offset
      /\ before.place \in Nat
  BY <1>4, <1>5, <1>6, <1>7 DEF Copying, Points
<1>9. offset \in 1 .. before.place /\ Repeats(data, before.place, item.length, offset)
  BY <1>6, <1>7 DEF LzLeads
<1>10. PICK count \in 1 .. copy.length - D!Done : D!LzStep(count)
  BY <1>2, DecoderInputs, D!CopyLzEffect
<1>11. PICK here, done : here = Len(output) /\ done = D!Done OBVIOUS
<1>12. /\ here \in Nat /\ done \in Nat /\ item.length \in Nat /\ before.place + done = here
       /\ count \in Nat /\ count <= item.length - done
  <2>1. /\ D!Position \in Nat /\ D!Done \in 0 .. copy.length - 1 /\ copy.length \in Nat
        /\ copy.start + D!Done = D!Position
    BY <1>2, <1>3, DecoderInputs, D!CopyFacts
  <2> QED BY <1>8, <1>10, <1>11, <2>1 DEF D!Position
<1>13. /\ Len(output') = here + count
       /\ \A p \in 1 .. here : output'[p] = output[p]
       /\ \A p \in here + 1 .. here + count : output'[p] = output'[p - offset]
       /\ copy' = IF done + count = copy.length THEN D!NoCopy ELSE copy
       /\ lzQueue' = lzQueue /\ deltaQueue' = deltaQueue /\ prevType' = prevType
       /\ result' = result
  BY <1>8, <1>10, <1>11 DEF D!LzStep, D!MovedOn, D!Repeating, D!Position
<1>14. \A p \in 1 .. here : output[p] = data[p] BY <1>1, <1>11 DEF InStep, DecoderAt
<1>15. Repeats(output', here, count, offset)
  <2>1. ASSUME NEW i \in 1 .. count PROVE output'[here + i] = output'[here + i - offset]
    <3>1. PICK p : p = here + i OBVIOUS
    <3>2. p \in here + 1 .. here + count BY <1>12, <3>1
    <3>3. output'[p] = output'[p - offset] BY <1>13, <3>2
    <3>4. here + i - offset = p - offset BY <1>8, <1>9, <1>12, <3>1
    <3> QED BY <3>1, <3>3, <3>4
  <2> QED BY <2>1 DEF Repeats
<1>16. Repeats(data, here, count, offset)
  <2>1. ASSUME NEW i \in 1 .. count PROVE data[here + i] = data[here + i - offset]
    <3>1. PICK j, p : j = done + i /\ p = here + i OBVIOUS
    <3>2. j \in 1 .. item.length /\ before.place + j = p BY <1>8, <1>12, <3>1
    <3>3. data[before.place + j] = data[before.place + j - offset] BY <1>9, <3>2 DEF Repeats
    <3>4. /\ before.place + j - offset = p - offset
          /\ here + i - offset = p - offset
      BY <1>8, <1>9, <1>12, <3>1, <3>2
    <3>5. data[p] = data[p - offset] BY <3>2, <3>3, <3>4
    <3> QED BY <3>1, <3>4, <3>5
  <2> QED BY <2>1 DEF Repeats
<1>17. \A p \in 1 .. here + count : output'[p] = data[p]
  <2>1. \A p \in 1 .. here : output'[p] = data[p] BY <1>13, <1>14
  <2>2. offset \in 1 .. here BY <1>8, <1>9, <1>12
  <2> QED BY <1>12, <1>15, <1>16, <2>1, <2>2, RepetitionAgrees
<1>18. CodecInv'
  <2>1. \A p \in 1 .. Len(output') : output'[p] = data[p] BY <1>13, <1>17
  <2>2. Len(output') = Len(output) + count BY <1>11, <1>13
  <2>3. copy' = IF D!Done + count = copy.length THEN D!NoCopy ELSE copy BY <1>11, <1>13
  <2>4. UNCHANGED <<lzQueue, deltaQueue, prevType, decisionPos, symbolPos>>
        /\ result' = "running"
    BY <1>3, <1>13
  <2> QED BY <1>1, <1>3, <1>12, <2>1, <2>2, <2>3, <2>4, CopyGoesOn
<1> QED BY <1>2, <1>18 DEF IInv

\* A byte of a delta match: what it is computed from is there.
LEMMA CopyDeltaKeeps ==
  ASSUME IInv, UNCHANGED encoderVars, D!CopyDelta, UNCHANGED <<decisionPos, symbolPos>>
  PROVE  IInv'
<1>1. PICK trace, items, n, k : InStep(trace, items, n, k) BY DEF IInv, CodecInv
<1>2. D!IInv /\ D!IInv' BY DecoderInputs, D!CopyDeltaKeepsInv DEF IInv
<1>3. copy # D!NoCopy /\ result = "running" /\ copy.kind = "delta"
  BY DEF D!CopyDelta, D!NoCopy
<1>4. /\ k \in 1 .. n /\ Leads(trace[k - 1], items[k], trace[k]) /\ trace[k - 1] \in Points
      /\ Copying(trace[k - 1], items[k])
  BY <1>1, <1>3, CopyOfItem
<1>5. PICK before, item, after : before = trace[k - 1] /\ item = items[k] /\ after = trace[k]
  OBVIOUS
<1>6. item.kind = "delta" /\ DeltaLeads(before, item, after)
  BY <1>3, <1>4, <1>5, KindOfItem DEF Copying, Leads, LiteralLeads, LzLeads
<1>7. PICK pair : pair = DeltaStated(before, item) OBVIOUS
<1>8. PICK span : span = D!Span(pair[2]) OBVIOUS
<1>9. PICK bytes : bytes = pair[1] * span OBVIOUS
<1>10. /\ copy.start = before.place /\ copy.length = item.length /\ copy.span = span
       /\ copy.offset = bytes /\ before.place \in Nat
  BY <1>4, <1>5, <1>6, <1>7, <1>8, <1>9 DEF Copying, Points
<1>11. bytes + span <= before.place /\ Continues(data, before.place, item.length, bytes, span)
  BY <1>6, <1>7, <1>8, <1>9 DEF DeltaLeads
<1>12. PICK here, done : here = Len(output) /\ done = D!Done OBVIOUS
<1>13. /\ here \in Nat /\ item.length \in Nat /\ before.place + done = here
       /\ done \in 0 .. item.length - 1 /\ bytes \in Nat \ {0} /\ span \in Nat \ {0}
  <2>1. /\ D!Position \in Nat /\ D!Done \in 0 .. copy.length - 1 /\ copy.length \in Nat
        /\ copy.start + D!Done = D!Position
        /\ copy.offset \in Nat \ {0} /\ copy.span \in Nat \ {0}
    BY <1>2, <1>3, DecoderInputs, D!CopyFacts
  <2> QED BY <1>10, <1>12, <2>1 DEF D!Position
<1>14. PICK byte : byte = D!Predicted(output, here, bytes, span) OBVIOUS
<1>15. D!Copied(<<byte>>)
  <2>1. copy.offset + copy.span <= D!Position
    BY <1>10, <1>11, <1>12, <1>13 DEF D!Position
  <2> QED BY <1>10, <1>12, <1>14, <2>1 DEF D!CopyDelta, D!Position
<1>16. \A p \in 1 .. here : output[p] = data[p] BY <1>1, <1>12 DEF InStep, DecoderAt
<1>17. byte = data[here + 1]
  <2>1. done + 1 \in 1 .. item.length /\ before.place + (done + 1) = here + 1
        /\ before.place + (done + 1) - 1 = here
    BY <1>10, <1>13
  <2>2. data[before.place + (done + 1)] =
          D!Predicted(data, before.place + (done + 1) - 1, bytes, span)
    BY <1>11, <2>1 DEF Continues
  <2>3. data[here + 1] = D!Predicted(data, here, bytes, span) BY <2>1, <2>2
  <2>4. /\ here - bytes + 1 \in 1 .. here /\ here - span + 1 \in 1 .. here
        /\ here - bytes - span + 1 \in 1 .. here
    BY <1>10, <1>11, <1>13
  <2>5. D!Predicted(output, here, bytes, span) = D!Predicted(data, here, bytes, span)
    BY <1>16, <2>4 DEF D!Predicted
  <2> QED BY <1>14, <2>3, <2>5
<1>18. byte \in 0 .. ByteSize - 1
  <2>1. before.place + item.length <= Len(data) /\ Len(data) \in Nat
    <3>1. after.place \in 0 .. coded /\ coded \in 0 .. Len(data) /\ Len(data) \in Nat
      BY <1>1, <1>4, <1>5, TracePlaces, InvTypes
    <3> QED BY <1>6, <3>1 DEF DeltaLeads
  <2>2. here + 1 \in 1 .. Len(data) BY <1>10, <1>13, <2>1
  <2> QED BY <1>17, <2>2, InvTypes
<1>19. Len(output') = here + 1 /\ \A p \in 1 .. here + 1 : output'[p] = data[p]
  <2>1. PICK B : B = D!Byte OBVIOUS
  <2>2. output \in Seq(B) /\ byte \in B BY <1>2, <1>18, <2>1 DEF D!IInv, D!TypeOK, D!Byte
  <2>3. PICK one : one = <<byte>> OBVIOUS
  <2>4. one \in Seq(B) /\ Len(one) = 1 /\ one[1] = byte BY <2>2, <2>3
  <2>5. output' = output \o one BY <1>15, <2>3 DEF D!Copied
  <2>6. /\ Len(output') = here + 1
        /\ \A i \in 1 .. here + 1 : output'[i] = IF i <= here THEN output[i] ELSE one[i - here]
    <3>1. /\ Len(output \o one) = Len(output) + Len(one)
          /\ \A i \in 1 .. Len(output) + Len(one) : (output \o one)[i] =
               IF i <= Len(output) THEN output[i] ELSE one[i - Len(output)]
      BY <2>2, <2>4, ConcatProperties
    <3>2. Len(output) = here /\ Len(one) = 1 BY <1>12, <2>4
    <3> QED BY <2>5, <3>1, <3>2
  <2>7. ASSUME NEW p \in 1 .. here + 1 PROVE output'[p] = data[p]
    <3>1. CASE p <= here BY <1>13, <1>16, <2>6, <3>1
    <3>2. CASE p = here + 1
      <4>1. ~(p <= here) /\ p - here = 1 BY <1>13, <3>2
      <4> QED BY <1>17, <2>4, <2>6, <3>2, <4>1
    <3> QED BY <1>13, <3>1, <3>2
  <2> QED BY <2>6, <2>7
<1>20. /\ copy' = IF done + 1 = copy.length THEN D!NoCopy ELSE copy
       /\ lzQueue' = lzQueue /\ deltaQueue' = deltaQueue /\ prevType' = prevType
       /\ result' = result
  BY <1>12, <1>15 DEF D!Copied
<1>21. CodecInv'
  <2>1. \A p \in 1 .. Len(output') : output'[p] = data[p] BY <1>19
  <2>2. Len(output') = Len(output) + 1 BY <1>12, <1>19
  <2>3. copy' = IF D!Done + 1 = copy.length THEN D!NoCopy ELSE copy BY <1>12, <1>20
  <2>4. UNCHANGED <<lzQueue, deltaQueue, prevType, decisionPos, symbolPos>>
        /\ result' = "running" /\ 1 \in Nat
    BY <1>3, <1>20
  <2> QED BY <1>1, <1>3, <2>1, <2>2, <2>3, <2>4, CopyGoesOn
<1> QED BY <1>2, <1>21 DEF IInv

\* The end of the loop.
LEMMA FinishKeeps ==
  ASSUME IInv, Encoded, UNCHANGED encoderVars, D!Finish, UNCHANGED <<decisionPos, symbolPos>>
  PROVE  IInv'
<1>1. PICK trace, items, n, k : InStep(trace, items, n, k) BY DEF IInv, CodecInv
<1>2. /\ copy = D!NoCopy /\ result' = "ok" /\ D!Position >= Len(data)
      /\ UNCHANGED <<Len(data), output, lzQueue, deltaQueue, prevType, copy>>
  BY DEF D!Finish
<1>3. D!IInv'
  <2>1. D!IInv /\ D!Position \in Nat /\ Len(data) \in Nat /\ D!Position <= Len(data)
    BY DecoderInputs, D!PositionType DEF IInv, D!IInv, D!SizeInv
  <2>2. D!Position = Len(data) BY <1>2, <2>1
  <2>3. result' \in {"running", "ok", "empty", "malformed"} BY <1>2
  <2> QED BY <1>2, <2>1, <2>2, <2>3, DecoderInputs, D!ReturnKeepsInv
<1>4. data' = data /\ coded' = coded BY DEF encoderVars
<1>5. Encoded' /\ D!NoCopy' = D!NoCopy BY <1>4 DEF Encoded, D!NoCopy
<1>6. DecoderAt(trace, items, n, k)' BY <1>1, <1>2, <1>4, <1>5 DEF InStep, DecoderAt
<1>7. CodecInv' BY <1>1, <1>6, TraceRests DEF InStep, CodecInv
<1> QED BY <1>3, <1>7 DEF IInv

-----------------------------------------------------------------------------
(***************************************************************************)
(* The invariant holds.                                                    *)
(***************************************************************************)
LEMMA InitKeeps == Init => IInv
<1> SUFFICES ASSUME Init PROVE IInv OBVIOUS
<1>1. /\ data \in Data /\ coded = 0 /\ lzRecent = D!FirstLzQueue
      /\ deltaRecent = D!FirstDeltaQueue /\ lastType = "literal"
      /\ decisions = <<>> /\ symbols = <<>> /\ decisionPos = 0 /\ symbolPos = 0
  BY SameQueues DEF Init, Encoder!Init
<1>2. D!Init BY SameActions DEF Init
<1>3. D!IInv BY <1>2, DecoderInputs, D!InitIInv
<1>4. /\ output = <<>> /\ lzQueue = D!FirstLzQueue /\ deltaQueue = D!FirstDeltaQueue
      /\ prevType = "literal" /\ copy = D!NoCopy /\ result = "running" /\ Len(data) \in Nat
  BY <1>2 DEF D!Init
<1>5. Len(output) = 0 /\ Len(decisions) = 0 /\ Len(symbols) = 0 BY <1>1, <1>4
<1>6. decisions \in Stream /\ symbols \in Stream
  <2>1. \A X : <<>> \in Seq(X) OBVIOUS
  <2> QED BY <1>1, <2>1 DEF Stream
<1>7. PICK trace : trace = [i \in 0 .. 0 |-> Start] OBVIOUS
<1>8. 0 \in 0 .. 0 /\ trace[0] = Start /\ 0 \in Nat BY <1>7
<1>9. Start \in Points
  <2>1. /\ D!FirstLzQueue \in [0 .. 3 -> Nat \ {0}]
        /\ D!FirstDeltaQueue \in [0 .. 3 -> (Nat \ {0}) \X (0 .. 7)]
    BY DecoderInputs, D!SlotsTypes, SlotTypes DEF D!PairType
  <2> QED BY <2>1 DEF Start, Points
<1>10. IsTrace(trace, <<>>, 0)
  <2>1. trace \in [0 .. 0 -> Points] BY <1>7, <1>9
  <2>2. \A j, k \in 0 .. 0 : ~(j < k) OBVIOUS
  <2>3. \A k \in 1 .. 0 : FALSE OBVIOUS
  <2> QED BY <1>8, <2>1, <2>2, <2>3 DEF IsTrace
<1>11. EncoderAt(trace, 0)
  <2>1. coded \in 0 .. Len(data) BY <1>1, <1>4
  <2> QED BY <1>1, <1>5, <1>8, <2>1 DEF EncoderAt, Start
<1>12. DecoderAt(trace, <<>>, 0, 0)
  <2>1. \A p \in 1 .. Len(output) : FALSE BY <1>5
  <2> QED BY <1>1, <1>4, <1>5, <1>8, <2>1 DEF DecoderAt, Start
<1>13. InStep(trace, <<>>, 0, 0) BY <1>10, <1>11, <1>12 DEF InStep
<1> QED BY <1>1, <1>3, <1>6, <1>13 DEF IInv, CodecInv

LEMMA DecodeKeeps ==
  ASSUME IInv, Decode
  PROVE  IInv'
<1>1. Encoded /\ UNCHANGED encoderVars BY DEF Decode
<1>2. ASSUME NEW item \in Readable, Decoder!Decode(item),
             decisionPos' = decisionPos + Len(Decoder!Decisions(item)),
             symbolPos' = symbolPos + Len(Decoder!Symbols(item))
      PROVE  IInv'
  <2>1. PICK trace, items, n, k : InStep(trace, items, n, k) BY DEF IInv, CodecInv
  <2>2. \/ item.kind = "literal" /\ D!Literal(item.byte)
        \/ item.kind = "lz" /\ D!LzMatch(item.rep, item.offset, item.length)
        \/ item.kind = "delta"
             /\ D!DeltaMatch(item.rep, item.offset, item.power, item.length)
    BY <1>2, SameActions
  <2>3. D!Reading BY <2>2 DEF D!Literal, D!LzMatch, D!DeltaMatch
  <2>4. item = items[k + 1] BY <1>1, <2>1, <2>3, NextItem
  <2>5. /\ decisionPos' = decisionPos + Len(D!Decisions(item))
        /\ symbolPos' = symbolPos + Len(D!Symbols(item))
    BY <1>2, SameItems
  <2>6. CASE item.kind = "literal" /\ D!Literal(item.byte)
    BY <1>1, <2>1, <2>3, <2>4, <2>5, <2>6, LiteralRead
  <2>7. CASE item.kind = "lz" /\ D!LzMatch(item.rep, item.offset, item.length)
    BY <1>1, <2>1, <2>3, <2>4, <2>5, <2>7, LzRead
  <2>8. CASE item.kind = "delta"
               /\ D!DeltaMatch(item.rep, item.offset, item.power, item.length)
    BY <1>1, <2>1, <2>3, <2>4, <2>5, <2>8, DeltaRead
  <2> QED BY <2>2, <2>6, <2>7, <2>8
<1>3. ASSUME Decoder!CopyLz \/ Decoder!CopyDelta \/ Decoder!Finish,
             UNCHANGED <<decisionPos, symbolPos>>
      PROVE  IInv'
  <2>1. D!CopyLz \/ D!CopyDelta \/ D!Finish BY <1>3, SameActions
  <2> QED BY <1>1, <1>3, <2>1, CopyLzKeeps, CopyDeltaKeeps, FinishKeeps
<1> QED BY <1>2, <1>3 DEF Decode, DecodeItem

LEMMA NextIInv == IInv /\ [Next]_vars => IInv'
<1> SUFFICES ASSUME IInv, [Next]_vars PROVE IInv' OBVIOUS
<1>1. CASE Encode
  <2>1. data' = data /\ UNCHANGED decoderVars
    BY <1>1 DEF Encode, Encoder!Next, Encoder!EmitLiteral, Encoder!EmitLz, Encoder!EmitDelta
  <2>2. D!IInv' BY <2>1, DecoderRests DEF IInv
  <2> QED BY <1>1, <2>2, EncodeKeeps DEF IInv
<1>2. CASE Decode BY <1>2, DecodeKeeps
<1>3. CASE UNCHANGED vars
  <2>1. UNCHANGED encoderVars /\ UNCHANGED decoderVars BY <1>3 DEF vars
  <2>2. D!IInv'
    <3>1. data' = data BY <2>1 DEF encoderVars
    <3> QED BY <2>1, <3>1, DecoderRests DEF IInv
  <2>3. PICK trace, items, n, k : InStep(trace, items, n, k) BY DEF IInv, CodecInv
  <2>4. /\ data' = data /\ coded' = coded /\ output' = output /\ lzQueue' = lzQueue
        /\ deltaQueue' = deltaQueue /\ prevType' = prevType /\ copy' = copy
        /\ result' = result /\ decisionPos' = decisionPos /\ symbolPos' = symbolPos
    BY <2>1 DEF encoderVars, decoderVars
  <2>5. Encoded' = Encoded /\ D!NoCopy' = D!NoCopy BY <2>4 DEF Encoded, D!NoCopy
  <2>6. ASSUME NEW before, NEW item, Copying(before, item) PROVE Copying(before, item)'
    BY <2>4, <2>6 DEF Copying
  <2>7. DecoderAt(trace, items, n, k)' BY <2>3, <2>4, <2>5, <2>6 DEF InStep, DecoderAt
  <2>8. CodecInv' BY <2>1, <2>3, <2>7, TraceRests DEF InStep, CodecInv
  <2> QED BY <2>2, <2>8 DEF IInv
<1> QED BY <1>1, <1>2, <1>3 DEF Next

LEMMA Invariance == Spec => []IInv
<1> QED BY InitKeeps, NextIInv, PTL DEF Spec

-----------------------------------------------------------------------------
(***************************************************************************)
(* While output is missing, the two streams go on with exactly one item,   *)
(* the one written at this place, and the decoder never rejects (compress  *)
(* and decompress, crates/lzms/src/lib.rs).                                *)
(***************************************************************************)
THEOREM OneItemAlwaysFollows == Spec => []OneItemFollows
<1>1. IInv => OneItemFollows
  <2> SUFFICES ASSUME IInv, Encoded
               PROVE  /\ result \in {"running", "ok"}
                      /\ Decoder!Reading => \E item \in Readable : Readable = {item}
    BY DEF OneItemFollows
  <2>1. PICK trace, items, n, k : InStep(trace, items, n, k) BY DEF IInv, CodecInv
  <2>2. result \in {"running", "ok"} BY <2>1 DEF InStep, DecoderAt
  <2>3. ASSUME Decoder!Reading PROVE \E item \in Readable : Readable = {item}
    <3>1. D!Reading BY <2>3, SameItems
    <3>2. Readable = {items[k + 1]} BY <2>1, <3>1, NextItem
    <3> QED BY <3>2
  <2> QED BY <2>2, <2>3
<1> QED BY <1>1, Invariance, PTL

(***************************************************************************)
(* When all the output is there, the queues and the last kind of the       *)
(* decoder are the encoder's, and both streams are read to their ends      *)
(* (queue_push, queue_mtf and prev_type of crates/lzms/src/lib.rs).        *)
(***************************************************************************)
THEOREM QueuesAlwaysInStep == Spec => []QueuesInStep
<1>1. IInv => QueuesInStep
  <2> SUFFICES ASSUME IInv, Encoded, Len(output) = Len(data)
               PROVE  /\ lzQueue = lzRecent /\ deltaQueue = deltaRecent
                      /\ prevType = lastType /\ decisionPos = Len(decisions)
                      /\ symbolPos = Len(symbols)
    BY DEF QueuesInStep
  <2>1. PICK trace, items, n, k : InStep(trace, items, n, k) BY DEF IInv, CodecInv
  <2>2. /\ n \in Nat /\ k \in 0 .. n
        /\ \A j \in 0 .. n : trace[j] \in Points /\ trace[j].place \in 0 .. coded
        /\ \A i, j \in 0 .. n : i < j => trace[i].place < trace[j].place
        /\ trace[n].place = coded
    BY <2>1, TracePlaces
  <2>3. coded = Len(data) /\ Len(data) \in Nat BY InvTypes DEF Encoded
  <2>4. copy = D!NoCopy
    <3> SUFFICES ASSUME copy # D!NoCopy PROVE FALSE OBVIOUS
    <3>1. trace[k].place = copy.start + copy.length BY <2>1, CopyOfItem
    <3>2. D!IInv BY DEF IInv
    <3>3. /\ copy.start \in Nat /\ copy.length \in Nat
          /\ Len(output) - copy.start < copy.length
      BY <3>2 DEF D!IInv, D!TypeOK, D!CopyInv, D!Done, D!Position
    <3>4. trace[k].place <= Len(data) BY <2>2, <2>3
    <3> QED BY <2>3, <3>1, <3>3, <3>4
  <2>5. trace[k].place = coded BY <2>1, <2>3, <2>4 DEF InStep, DecoderAt
  <2>6. k = n
    <3>1. k < n => trace[k].place < trace[n].place BY <2>2
    <3> QED BY <2>2, <2>3, <2>5, <3>1
  <2> QED BY <2>1, <2>6 DEF InStep, DecoderAt, EncoderAt
<1> QED BY <1>1, Invariance, PTL

(***************************************************************************)
(* What decompress returns is what compress was given: the safety half of  *)
(* RoundTrips, for all data and whatever matches are chosen.               *)
(***************************************************************************)
THEOREM ReturnsTheData == Spec => [](result = "ok" => output = data)
<1>1. IInv => (result = "ok" => output = data)
  <2> SUFFICES ASSUME IInv, result = "ok" PROVE output = data OBVIOUS
  <2>1. PICK trace, items, n, k : InStep(trace, items, n, k) BY DEF IInv, CodecInv
  <2>2. \A p \in 1 .. Len(output) : output[p] = data[p] BY <2>1 DEF InStep, DecoderAt
  <2>3. PICK B : B = 0 .. ByteSize - 1 OBVIOUS
  <2>4. output \in Seq(B) /\ Len(output) = Len(data)
    BY <2>3 DEF IInv, D!IInv, D!TypeOK, D!SizeInv, D!Position, D!Byte
  <2>5. data \in Seq(B)
    <3>1. PICK m \in 0 .. MaxData : data \in [1 .. m -> B]
      BY <2>3 DEF IInv, CodecInv, Data
    <3>2. m \in Nat BY CodecConstants
    <3> QED BY <3>1, <3>2, SeqDef
  <2> QED BY <2>2, <2>4, <2>5, SeqEqual
<1> QED BY <1>1, Invariance, PTL
====
