------------------------------ MODULE LzxDecoder ------------------------------
(***************************************************************************)
(* decompress_into (src/lzx/decode.rs): the PseudoLzx decoder, which       *)
(* rebuilds a target of targetSize bytes from a reference and a stream of  *)
(* symbols.  The stream is arbitrary here, as for a decoder that reads     *)
(* deltas it did not write: ReadLiteral and ReadMatch take any symbol      *)
(* read_symbol can return, and reading may fail at any point.  LzxCodec    *)
(* puts the encoder's own symbols in its place.                            *)
(*                                                                         *)
(* Positions are those of the combined buffer reference \o output, from 0; *)
(* sequences count from 1, hence the `+ 1' wherever one is indexed.        *)
(***************************************************************************)
EXTENDS LzxRift

CONSTANTS
  Bytes,         (* the values of a byte                                   *)
  References,    (* the references considered                              *)
  Rifts,         (* the rift entries considered: those read from the       *)
                 (* stream, then those the caller passes                   *)
  TargetSizes,   (* the target sizes the header may announce               *)
  RawOffsets,    (* the wire offsets of matches considered                 *)
  MatchLengths,  (* the lengths of matches considered                      *)
  OffsetBias     (* OFFSET_BIAS: half the width of the signed-delta band   *)

ASSUME DecoderConstants ==
  /\ References \subseteq Seq(Bytes)
  /\ Rifts \subseteq Seq(RiftEntry)
  /\ TargetSizes \subseteq Nat
  /\ RawOffsets \subseteq Nat
  /\ MatchLengths \subseteq Nat \ {0, 1}
  /\ OffsetBias \in Nat \ {0}

\* The wire classes of an offset: [0, SourceCopy) is the signed-delta band,
\* then SOURCE_COPY, the three LRU slots, and raw distances.  The last LRU
\* slot is the value a raw distance of 0 would have.
SourceCopy    == 2 * OffsetBias
LruBase       == SourceCopy + 1
RawOffsetBase == SourceCopy + 3

VARIABLES
  reference,
  rift,
  targetSize,
  ort,          (* the OffsetRiftTable, built when the header is read      *)
  output,
  copySrc,      (* per output byte: reference index it came from, or -1    *)
  pos,          (* combined position of the next symbol                    *)
  lru,          (* the three recent distances                              *)
  walk,         (* the copy in progress: its next position, the bytes      *)
                (* left, and whether its source follows the rift table     *)
  status        (* "header", "symbol", "copy", "ok" or "err"               *)

inputs == <<reference, rift, targetSize>>
vars   == <<inputs, ort, output, copySrc, pos, lru, walk, status>>

Statuses == {"header", "symbol", "copy", "ok", "err"}

NoWalk == [at |-> 0, left |-> 0, follow |-> FALSE, distance |-> 0]

End == Len(reference) + targetSize

Init ==
  /\ reference \in References
  /\ rift \in Rifts
  /\ targetSize \in TargetSizes
  /\ ort = <<>>
  /\ output = <<>>
  /\ copySrc = <<>>
  /\ pos = Len(reference)
  /\ lru = <<0, 0, 0>>
  /\ walk = NoWalk
  /\ status = "header"

\* An empty patch stands for an empty target, and for no other.
EmptyPatch ==
  /\ status = "header"
  /\ status' = IF targetSize = 0 THEN "ok" ELSE "err"
  /\ UNCHANGED <<inputs, ort, output, copySrc, pos, lru, walk>>

\* The rift and the code lengths are read, the lookup table is built.
ReadHeader ==
  /\ status = "header"
  /\ ort' = OffsetRiftTable(rift, Len(reference))
  /\ status' = "symbol"
  /\ UNCHANGED <<inputs, output, copySrc, pos, lru, walk>>

\* The header is malformed, the stream is exhausted, or a symbol is.
ReadFails ==
  /\ \/ status = "header"
     \/ status = "symbol" /\ pos < End
  /\ status' = "err"
  /\ UNCHANGED <<inputs, ort, output, copySrc, pos, lru, walk>>

ReadLiteral(byte) ==
  /\ status = "symbol"
  /\ pos < End
  /\ output' = Append(output, byte)
  /\ copySrc' = Append(copySrc, -1)
  /\ pos' = pos + 1
  /\ UNCHANGED <<inputs, ort, lru, walk, status>>

\* The distance a wire offset stands for at the current position.
DistanceOf(raw) ==
  CASE raw < SourceCopy                -> raw - OffsetBias - OffsetAt(ort, pos)
    [] raw = SourceCopy                -> -OffsetAt(ort, pos)
    [] raw \in LruBase .. LruBase + 2  -> lru[raw - LruBase + 1]
    [] raw > LruBase + 2               -> raw - RawOffsetBase

\* A mistake: a distance that was third is queued twice.
LruUpdateShifts(queue, distance) ==
  IF queue[1] = distance THEN queue ELSE <<distance, queue[1], queue[2]>>

\* The queue after a match at `distance'; every class of match updates it.
LruUpdate(queue, distance) ==
  IF queue[1] = distance
  THEN queue
  ELSE <<distance, queue[1], IF queue[2] = distance THEN queue[3] ELSE queue[2]>>

Smaller(a, b) == IF a <= b THEN a ELSE b
Larger(a, b)  == IF a <= b THEN b ELSE a

\* A mistake: the length is not cut at the end of the target.
ReadMatchUncut(raw, length) ==
  /\ status = "symbol"
  /\ pos < End
  /\ lru' = LruUpdate(lru, DistanceOf(raw))
  /\ walk' = [at |-> pos, left |-> length, follow |-> raw = SourceCopy,
              distance |-> DistanceOf(raw)]
  /\ status' = "copy"
  /\ UNCHANGED <<inputs, ort, output, copySrc, pos>>

\* A match: its length is cut at the end of the target; the bytes are copied
\* by CopyOne.
ReadMatch(raw, length) ==
  /\ status = "symbol"
  /\ pos < End
  /\ lru' = LruUpdate(lru, DistanceOf(raw))
  /\ walk' = [at       |-> pos,
              left     |-> Smaller(length, End - pos),
              follow   |-> raw = SourceCopy,
              distance |-> DistanceOf(raw)]
  /\ status' = "copy"
  /\ UNCHANGED <<inputs, ort, output, copySrc, pos>>

(***************************************************************************)
(* copy_one: the n values found from combined position src on, where `old' *)
(* holds the values of the reference and `new' those of the output so far. *)
(* Within the reference, within the output or across the end of the        *)
(* reference; in the last two the copy may run into bytes it pushes itself *)
(* and then repeats with its own distance.                                 *)
(***************************************************************************)
\* A mistake: a copy across the end of the reference starts over without the
\* output it has reached.
CopiedWithoutOutput(old, new, src, n) ==
  CASE src + n <= Len(old) -> [k \in 1 .. n |-> old[src + k]]
    [] src >= Len(old) ->
         [k \in 1 .. n |-> new[src - Len(old) + ((k - 1) % (Len(old) + Len(new) - src)) + 1]]
    [] src < Len(old) /\ src + n > Len(old) ->
         [k \in 1 .. n |-> old[src + ((k - 1) % (Len(old) - src)) + 1]]

Copied(old, new, src, n) ==
  LET period == Len(old) + Len(new) - src   \* the distance of the copy
      skip   == src - Len(old)              \* where it starts in the output
  IN  CASE src + n <= Len(old) ->
             [k \in 1 .. n |-> old[src + k]]
        [] src >= Len(old) ->
             [k \in 1 .. n |-> new[skip + ((k - 1) % period) + 1]]
        [] src < Len(old) /\ src + n > Len(old) ->
             [k \in 1 .. n |-> LET j == (k - 1) % period IN
                IF j < -skip THEN old[src + j + 1] ELSE new[j + skip + 1]]

\* A start before the reference wraps to a huge u64, and one at or behind the
\* end of the output has nothing to copy: both are errors.
CopySourceValid(src) == src >= 0 /\ src < Len(reference) + Len(output)

\* Mistakes: a SOURCE_COPY keeps the offset it started with; a chunk ends one
\* byte before the breakpoint, and may be empty.
ChunkLengthWhole == walk.left

ChunkLengthShort ==
  IF walk.follow THEN UpToBreak(ort, walk.at, walk.left) - 1 ELSE walk.left

\* How much the next copy_one covers: a SOURCE_COPY is re-anchored at every
\* breakpoint inside it, the other classes copy at one distance.
ChunkLength ==
  IF walk.follow THEN Larger(1, UpToBreak(ort, walk.at, walk.left)) ELSE walk.left

ChunkSource ==
  IF walk.follow THEN walk.at + OffsetAt(ort, walk.at) ELSE walk.at - walk.distance

\* A mistake: a copied byte is attributed to the position it was copied from,
\* not to the one that byte came from.
ChunkProvenanceByPosition == [k \in 1 .. ChunkLength |-> ChunkSource + k - 1]

\* Where the copied bytes came from: the index of a byte of the reference, the
\* provenance of a byte of the output.
ChunkProvenance ==
  Copied([i \in DOMAIN reference |-> i - 1], copySrc, ChunkSource, ChunkLength)

CopyOne ==
  /\ status = "copy"
  /\ CopySourceValid(ChunkSource)
  /\ output' = output \o Copied(reference, output, ChunkSource, ChunkLength)
  /\ copySrc' = copySrc \o ChunkProvenance
  /\ IF ChunkLength = walk.left
     THEN /\ walk' = NoWalk
          /\ pos' = walk.at + ChunkLength
          /\ status' = "symbol"
     ELSE /\ walk' = [walk EXCEPT !.at = @ + ChunkLength, !.left = @ - ChunkLength]
          /\ UNCHANGED <<pos, status>>
  /\ UNCHANGED <<inputs, ort, lru>>

CopyFails ==
  /\ status = "copy"
  /\ ~CopySourceValid(ChunkSource)
  /\ status' = "err"
  /\ UNCHANGED <<inputs, ort, output, copySrc, pos, lru, walk>>

Finish ==
  /\ status = "symbol"
  /\ pos >= End
  /\ status' = IF Len(output) = targetSize THEN "ok" ELSE "err"
  /\ UNCHANGED <<inputs, ort, output, copySrc, pos, lru, walk>>

Next ==
  \/ EmptyPatch
  \/ ReadHeader
  \/ ReadFails
  \/ \E byte \in Bytes : ReadLiteral(byte)
  \/ \E raw \in RawOffsets, length \in MatchLengths : ReadMatch(raw, length)
  \/ CopyOne
  \/ CopyFails
  \/ Finish

Spec == Init /\ [][Next]_vars

\* decompress_into is one call on one thread: it runs until it returns.
FairSpec == Spec /\ WF_vars(Next)

-----------------------------------------------------------------------------
\* The state of a decoder, as the sets its variables range over.
TypeOK ==
  /\ reference \in References /\ rift \in Rifts /\ targetSize \in TargetSizes
  /\ ort \in Seq([at : Int, offset : Int])
  /\ output \in Seq(Bytes)
  /\ copySrc \in Seq(Int)
  /\ pos \in Nat
  /\ lru \in [1 .. 3 -> Int]
  /\ walk \in [at : Nat, left : Nat, follow : BOOLEAN, distance : Int]
  /\ status \in Statuses

(***************************************************************************)
(* Whatever order the stream and the caller give the rift entries in, the  *)
(* table the symbols are decoded with is sorted, so that every lookup has  *)
(* one answer, the same for encoder and decoder.                           *)
(***************************************************************************)
TableIsSearchable == status \in {"symbol", "copy"} => IsLookupTable(ort)

(***************************************************************************)
(* The position and the output advance together: between symbols pos is    *)
(* the length of the combined buffer, inside a copy walk.at is, and what   *)
(* the walk still has to copy fits the announced size.  So no symbol, cut  *)
(* length or re-anchored chunk makes decompress_into overfill the target   *)
(* (end = pos + target_size; copy_len = min(match_len, end - pos)).        *)
(***************************************************************************)
PositionTracksOutput ==
  /\ Len(copySrc) = Len(output)
  /\ Len(output) <= targetSize
  /\ status = "header" => Len(output) = 0
  /\ status \in {"header", "symbol"} => pos = Len(reference) + Len(output)
  /\ status = "copy" => /\ walk.at = Len(reference) + Len(output)
                        /\ walk.left > 0
                        /\ walk.at + walk.left <= End
                        /\ pos <= walk.at

(***************************************************************************)
(* copy_src tells the truth: a byte it attributes to the reference is the  *)
(* byte of the reference at that index, even where it arrived through      *)
(* back-references, overlapping copies and copies across the end of the    *)
(* reference.  The transform marker of the PE pipeline trusts this.        *)
(***************************************************************************)
ProvenanceIsTrue ==
  \A i \in DOMAIN copySrc :
    \/ copySrc[i] = -1
    \/ copySrc[i] + 1 \in DOMAIN reference /\ output[i] = reference[copySrc[i] + 1]

(***************************************************************************)
(* Every byte a SOURCE_COPY produces is the byte of the combined buffer at *)
(* its own position plus the rift offset in force at that position,        *)
(* however many breakpoints the copy spans and wherever it starts: walking *)
(* the copy chunk by chunk loses no re-anchoring (decode.rs, 320-349).     *)
(***************************************************************************)
ReanchorsEveryByte ==
  [][(status = "copy" /\ walk.follow /\ status' # "err") =>
       LET buffer == reference \o output'
       IN  \A p \in walk.at .. Len(buffer) - 1 :
             buffer[p + 1] = buffer[p + OffsetAt(ort, p) + 1]]_vars

\* The decoder returns, with the target or with an error.
Returns == <>(status \in {"ok", "err"})

(***************************************************************************)
(* The decoder implements DeltaBuffer: whatever the symbols, the output    *)
(* only grows, by bytes supplied or repeated at one distance, and "ok" is  *)
(* reached at exactly the announced size.                                  *)
(***************************************************************************)
Verdict == IF status \in {"ok", "err"} THEN status ELSE "busy"

Abstract == INSTANCE DeltaBuffer WITH verdict <- Verdict

ImplementsDeltaBuffer == Abstract!Spec
=============================================================================
