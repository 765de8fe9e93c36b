------------------------------- MODULE LzxCodec -------------------------------
(***************************************************************************)
(* The PseudoLzx encoder and decoder together: compress_inner writes a     *)
(* delta, decompress_into reads it back with the same reference and rift.  *)
(* Neither talks to the other while it runs, so everything the meaning of  *)
(* a symbol depends on (the recent distances, the rift offset in force,    *)
(* the Huffman tables of the segment) is kept twice and has to agree.      *)
(***************************************************************************)
EXTENDS Integers, Sequences

CONSTANTS
  Bytes, References, Rifts, Targets,
  OffsetBias, MaxRawDistance, MaxMatch, SegmentSize, MaxSegments

ASSUME CodecConstants ==
  /\ References \subseteq Seq(Bytes)
  /\ Targets \subseteq Seq(Bytes)
  /\ Rifts \subseteq Seq([source : Int, target : Int])
  /\ OffsetBias \in Nat \ {0}
  /\ MaxRawDistance \in Nat
  /\ MaxMatch \in Nat \ {0, 1, 2}
  /\ SegmentSize \in Nat \ {0}
  /\ MaxSegments \in Nat \ {0}

VARIABLES
  reference, rift, target,
  offsets, parsed, recent, symbols, split, stream, boundaries, (* LzxEncoder *)
  ort, output, copySrc, pos, lru, walk, status,           (* LzxDecoder *)
  readPos,         (* symbols of the stream the decoder has read           *)
  segment          (* seg_idx: the segment whose tables it reads with      *)

encoderVars == <<offsets, parsed, recent, symbols, split, stream, boundaries>>
decoderVars == <<ort, output, copySrc, pos, lru, walk, status, readPos, segment>>
vars        == <<reference, rift, target, encoderVars, decoderVars>>

Encoder == INSTANCE LzxEncoder
Decoder == INSTANCE LzxDecoder
             WITH targetSize   <- Len(target),
                  TargetSizes  <- Nat,
                  RawOffsets   <- Nat,
                  MatchLengths <- Nat \ {0, 1}

Init ==
  /\ target \in Targets
  /\ Decoder!Init
  /\ Encoder!Init
  /\ readPos = 0
  /\ segment = 1

Encode == Encoder!Next /\ UNCHANGED decoderVars

Encoded == boundaries # <<>>

\* The segment the next symbol is read with: the boundaries are passed one
\* after the other, as long as the position has reached the next.
SegmentAt(from, position) ==
  CHOOSE s \in from .. Len(boundaries) :
    /\ \A t \in from + 1 .. s : position >= boundaries[t]
    /\ s < Len(boundaries) => position < boundaries[s + 1]

NextSymbol == stream[readPos + 1].symbol

\* One turn of the decoder's loop: the segment is advanced, a symbol is read.
ReadSymbol ==
  /\ readPos < Len(stream)
  /\ \/ NextSymbol.literal /\ Decoder!ReadLiteral(NextSymbol.raw)
     \/ ~NextSymbol.literal /\ Decoder!ReadMatch(NextSymbol.raw, NextSymbol.length)
  /\ segment' = SegmentAt(segment, pos)
  /\ readPos' = readPos + 1

Exhausted == readPos = Len(stream) /\ status = "symbol" /\ Decoder!ReadFails

Decode ==
  /\ Encoded
  /\ UNCHANGED <<target, encoderVars>>
  /\ \/ ReadSymbol
     \/ /\ Exhausted \/ Decoder!ReadHeader \/ Decoder!CopyOne
           \/ Decoder!CopyFails \/ Decoder!Finish
        /\ UNCHANGED <<readPos, segment>>

Next == Encode \/ Decode

Spec == Init /\ [][Next]_vars

\* Both are calls that run until they return.
FairSpec == Spec /\ WF_vars(Next)

-----------------------------------------------------------------------------
(***************************************************************************)
(* A symbol is read with the tables it was written with.  The encoder      *)
(* switches by symbol count, the decoder by output position (encode.rs     *)
(* 405-416, decode.rs 276-284).                                            *)
(***************************************************************************)
TablesInStep ==
  (Encoded /\ status = "symbol" /\ readPos < Len(stream)) =>
     SegmentAt(segment, pos) = stream[readPos + 1].tables

(***************************************************************************)
(* When the decoder has read all the encoder wrote and copied it out, both *)
(* hold the same three distances, so a symbol more would mean the same.    *)
(***************************************************************************)
LruInStep ==
  (Encoded /\ status \in {"symbol", "ok"} /\ readPos = Len(stream)) => lru = recent

(***************************************************************************)
(* A SOURCE_COPY the encoder emits stays within one rift segment ("so it   *)
(* stays single-segment", encode.rs 124-127): the decoder's walk over the  *)
(* segments is one chunk.                                                  *)
(***************************************************************************)
SourceCopyIsSingleSegment ==
  (status = "copy" /\ walk.follow) => Decoder!ChunkLength = walk.left

\* Every delta the encoder writes is read back, to the whole target.
RoundTrips == <>(status = "ok" /\ output = target)
=============================================================================
