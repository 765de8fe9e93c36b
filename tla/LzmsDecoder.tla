------------------------------ MODULE LzmsDecoder ------------------------------
(***************************************************************************)
(* decompress (crates/lzms/src/lib.rs): the LZMS decoder, from the items   *)
(* of a stream to the output.  An item is a literal, an LZ match or a      *)
(* delta match; the offset of a match is explicit or named by its place in *)
(* a queue.  How an item is laid out in the two bit streams is Decisions   *)
(* and Symbols; their coding is that of LzmsRangeCoder and of adaptive.rs. *)
(*                                                                         *)
(* An overlapping match is copied by memmoves that double the bytes copied *)
(* (each a step here), a delta match byte by byte.  A shift of a 32-bit    *)
(* offset by a power below 8 does not overflow the code's usize, so "delta *)
(* offset overflow" is left out; the x86 filter works on the finished      *)
(* output and is left out too.                                             *)
(***************************************************************************)
EXTENDS LzmsQueue, Sequences

CONSTANTS
  ByteSize,       (* 256: bytes are the numbers below                      *)
  Offsets,        (* the offsets an item may state (all from 1 up)         *)
  Powers,         (* the powers a delta match may state                    *)
  Lengths,        (* the lengths                                           *)
  Sizes,          (* output_size                                           *)
  MaxSize         (* the size of a chunk the decoder accepts (64 MiB)      *)

Byte == 0 .. ByteSize - 1

ASSUME DecoderConstants ==
  /\ ByteSize \in Nat \ {0}
  /\ Offsets \subseteq Nat \ {0}
  /\ Powers \subseteq 0 .. 7
  /\ Lengths \subseteq Nat \ {0}
  /\ Sizes \subseteq Nat
  /\ MaxSize \in Nat

VARIABLES
  size,         (* output_size; never changes                              *)
  output,       (* out[..pos]                                              *)
  lzQueue, deltaQueue,
  prevType,     (* the kind of the last item                               *)
  copy,         (* the match being copied                                  *)
  result        (* "running", "ok", "empty", "malformed" or "panic"        *)

vars == <<size, output, lzQueue, deltaQueue, prevType, copy, result>>

Explicit == 3     (* in the place of a number of a queue *)

LiteralItem(byte) == [kind |-> "literal", byte |-> byte]

LzItem(rep, offset, length) ==
  [kind |-> "lz", rep |-> rep, offset |-> offset, length |-> length]

DeltaItem(rep, offset, power, length) ==
  [kind |-> "delta", rep |-> rep, offset |-> offset, power |-> power,
   length |-> length]

\* The decisions read for an item, each with the table of its probability.
RepDecisions(table1, table2, rep) ==
  CASE rep = 0 -> <<<<table1, 0>>>>
    [] rep = 1 -> <<<<table1, 1>>, <<table2, 0>>>>
    [] rep = 2 -> <<<<table1, 1>>, <<table2, 1>>>>

Decisions(item) ==
  CASE item.kind = "literal" -> <<<<"main", 0>>>>
    [] item.kind = "lz" ->
         <<<<"main", 1>>, <<"match", 0>>>> \o
           (IF item.rep = Explicit THEN <<<<"lz", 0>>>>
            ELSE <<<<"lz", 1>>>> \o RepDecisions("lzRep0", "lzRep1", item.rep))
    [] item.kind = "delta" ->
         <<<<"main", 1>>, <<"match", 1>>>> \o
           (IF item.rep = Explicit THEN <<<<"delta", 0>>>>
            ELSE <<<<"delta", 1>>>> \o RepDecisions("deltaRep0", "deltaRep1", item.rep))

\* The symbols read for an item, each with its Huffman code; the extra bits of
\* an offset or a length follow its slot and are part of it here.
Symbols(item) ==
  CASE item.kind = "literal" -> <<<<"literal", item.byte>>>>
    [] item.kind = "lz" /\ item.rep # Explicit -> <<<<"length", item.length>>>>
    [] item.kind = "lz" /\ item.rep = Explicit ->
         <<<<"lzOffset", item.offset>>, <<"length", item.length>>>>
    [] item.kind = "delta" /\ item.rep # Explicit -> <<<<"length", item.length>>>>
    [] item.kind = "delta" /\ item.rep = Explicit ->
         <<<<"deltaPower", item.power>>, <<"deltaOffset", item.offset>>,
           <<"length", item.length>>>>

NoCopy == [kind |-> "none", start |-> 0, offset |-> 1, span |-> 1, length |-> 0]

Init ==
  /\ size \in Sizes
  /\ output = <<>>
  /\ lzQueue = FirstLzQueue
  /\ deltaQueue = FirstDeltaQueue
  /\ prevType = "literal"
  /\ copy = NoCopy
  /\ result = "running"

Position == Len(output)

\* At the head of the loop, before the next item.
Reading ==
  result = "running" /\ copy = NoCopy /\ Position < size /\ size <= MaxSize

\* An empty stream gives an empty output, whatever size is asked for.
EmptyStream ==
  /\ result = "running" /\ output = <<>>
  /\ result' = "empty"
  /\ UNCHANGED <<size, output, lzQueue, deltaQueue, prevType, copy>>

TooLarge ==
  /\ result = "running" /\ size > MaxSize
  /\ result' = "malformed"
  /\ UNCHANGED <<size, output, lzQueue, deltaQueue, prevType, copy>>

Literal(byte) ==
  /\ Reading
  /\ output' = Append(output, byte)
  /\ prevType' = "literal"
  /\ UNCHANGED <<size, lzQueue, deltaQueue, copy, result>>

\* A match is cut at the end of the output.
Cut(length) == IF length <= size - Position THEN length ELSE size - Position

\* Takes up a match whose source lies in the output.
StartCopy(kind, offset, span, length, fits) ==
  /\ prevType' = kind
  /\ \/ /\ fits
        /\ copy' = [kind |-> kind, start |-> Position, offset |-> offset,
                    span |-> span, length |-> Cut(length)]
        /\ UNCHANGED result
     \/ /\ ~fits
        /\ result' = "malformed"
        /\ UNCHANGED copy

\* A mistake: the number is the slot.
LzSlotAsStated(rep) == rep

LzSlot(rep)    == Adjusted(rep, prevType = "lz")
DeltaSlot(rep) == Adjusted(rep, prevType = "delta")

\* A mistake: an offset named by its number stays where it is in the queue.
LzQueueUnmoved(rep, offset) ==
  IF rep = Explicit THEN QueuePush(lzQueue, offset) ELSE lzQueue

LzQueueAfter(rep, offset) ==
  IF rep = Explicit THEN QueuePush(lzQueue, offset) ELSE QueueMtf(lzQueue, LzSlot(rep))

LzMatch(rep, offset, length) ==
  LET stated == IF rep = Explicit THEN offset ELSE lzQueue[LzSlot(rep)]
  IN  /\ Reading
      /\ lzQueue' = LzQueueAfter(rep, offset)
      /\ StartCopy("lz", stated, 1, length, stated <= Position)
      /\ UNCHANGED <<size, output, deltaQueue>>

\* A mistake: the bytes the difference is taken over are forgotten.
DeltaFitsOffset(offset, span) == offset <= Position

\* The span in front of the source is read too.
DeltaFits(offset, span) == offset + span <= Position

DeltaMatch(rep, offset, power, length) ==
  LET pair  == IF rep = Explicit THEN <<offset, power>> ELSE deltaQueue[DeltaSlot(rep)]
      span  == Span(pair[2])
      bytes == pair[1] * span
  IN  /\ Reading
      /\ deltaQueue' = IF rep = Explicit THEN QueuePush(deltaQueue, pair)
                                         ELSE QueueMtf(deltaQueue, DeltaSlot(rep))
      /\ StartCopy("delta", bytes, span, length, DeltaFits(bytes, span))
      /\ UNCHANGED <<size, output, lzQueue>>

Decode(item) ==
  \/ item.kind = "literal" /\ Literal(item.byte)
  \/ item.kind = "lz" /\ LzMatch(item.rep, item.offset, item.length)
  \/ item.kind = "delta" /\ DeltaMatch(item.rep, item.offset, item.power, item.length)

\* No symbol has the bits read (decode_symbol); or, at the start, the stream is
\* short or odd.
ReadFails ==
  /\ Reading
  /\ result' = "malformed"
  /\ UNCHANGED <<size, output, lzQueue, deltaQueue, prevType, copy>>

Done == Position - copy.start     (* the bytes of the match copied *)

Least(a, b) == IF a <= b THEN a ELSE b

\* The match is over once all its bytes are there.
Copied(bytes) ==
  /\ output' = output \o bytes
  /\ copy' = IF Done + Len(bytes) = copy.length THEN NoCopy ELSE copy
  /\ UNCHANGED <<size, lzQueue, deltaQueue, prevType, result>>

\* A mistake: all that is left is moved at once.
ChunkOverlaps(from) == copy.length - Done

\* The bytes of one memmove: not more than lie between its source and its target.
Chunk(from) == Least(copy.length - Done, Position - from)

\* The buffer holds zeros where nothing is written yet.
Buffered(p) == IF p <= Position THEN output[p] ELSE 0

\* One memmove of a match: its source first, then what has been copied so far.
\* A source in front of the output would underflow.
CopyLz ==
  LET from == IF Done = 0 THEN copy.start - copy.offset ELSE copy.start
  IN  /\ result = "running" /\ copy.kind = "lz"
      /\ IF from >= 0
         THEN Copied([k \in 1 .. Chunk(from) |-> Buffered(from + k)])
         ELSE /\ result' = "panic"
              /\ UNCHANGED <<size, output, lzQueue, deltaQueue, prevType, copy>>

\* The byte a delta match continues with after p bytes.
Predicted(bytes, p, offset, span) ==
  (bytes[p - offset + 1] + bytes[p - span + 1] - bytes[p - offset - span + 1]) % ByteSize

\* One byte of a delta match; an index below the output would panic.
CopyDelta ==
  /\ result = "running" /\ copy.kind = "delta"
  /\ IF copy.offset + copy.span <= Position
     THEN Copied(<<Predicted(output, Position, copy.offset, copy.span)>>)
     ELSE /\ result' = "panic"
          /\ UNCHANGED <<size, output, lzQueue, deltaQueue, prevType, copy>>

Finish ==
  /\ result = "running" /\ copy = NoCopy /\ Position >= size /\ size <= MaxSize
  /\ result' = "ok"
  /\ UNCHANGED <<size, output, lzQueue, deltaQueue, prevType, copy>>

Items ==
  {LiteralItem(byte) : byte \in Byte}
    \cup {LzItem(rep, offset, length) :
            rep \in Reps \cup {Explicit}, offset \in Offsets, length \in Lengths}
    \cup {DeltaItem(rep, offset, power, length) :
            rep \in Reps \cup {Explicit}, offset \in Offsets, power \in Powers,
            length \in Lengths}

Next ==
  \/ \E item \in Items : Decode(item)
  \/ EmptyStream
  \/ TooLarge
  \/ ReadFails
  \/ CopyLz
  \/ CopyDelta
  \/ Finish

Spec     == Init /\ [][Next]_vars
FairSpec == Spec /\ WF_vars(Next)    (* a call, running until it returns *)

-----------------------------------------------------------------------------
TypeOK ==
  /\ size \in Nat
  /\ output \in Seq(Byte)
  /\ lzQueue \in [Slots -> Nat \ {0}]
  /\ deltaQueue \in [Slots -> (Nat \ {0}) \X (0 .. 7)]
  /\ prevType \in {"literal", "lz", "delta"}
  /\ copy \in [kind : {"none", "lz", "delta"}, start : Nat, offset : Nat \ {0},
               span : Nat \ {0}, length : Nat]
  /\ result \in {"running", "ok", "empty", "malformed", "panic"}

(***************************************************************************)
(* Whatever the stream holds, the output never passes the announced size   *)
(* and no copy reads in front of the output or behind what is written:     *)
(* output_size is the length of the buffer, indexed without a check by the *)
(* loops.                                                                  *)
(***************************************************************************)
StaysInBuffer ==
  /\ Position <= size
  /\ copy # NoCopy => Done < copy.length /\ copy.start + copy.length <= size
  /\ result # "panic"
  /\ result = "ok" => Position = size

(***************************************************************************)
(* The doubling memmoves copy what a byte-by-byte LZ copy would: each byte *)
(* a match adds is the byte one offset before it, however the match        *)
(* overlaps itself and wherever it is cut.                                 *)
(***************************************************************************)
DoublingRepeats ==
  [][copy.kind = "lz" =>
       \A p \in Position + 1 .. Len(output') : output'[p] = output'[p - copy.offset]]_vars

=============================================================================
