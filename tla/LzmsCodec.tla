------------------------------- MODULE LzmsCodec -------------------------------
(***************************************************************************)
(* compress and decompress of crates/lzms/src/lib.rs together.  The        *)
(* decisions and the symbols travel in two streams without a mark between  *)
(* items, so the decoder finds its way only if each thing it reads depends *)
(* on what it has read before exactly as the encoder's writing did: the    *)
(* two queues of either side, and what the last item was, have to agree.   *)
(***************************************************************************)
EXTENDS Integers, Sequences

CONSTANTS
  ByteSize, Powers, MinMatch,
  MaxData         (* bound: the bytes coded *)

ASSUME CodecConstants ==
  /\ ByteSize \in Nat \ {0}
  /\ Powers \subseteq 0 .. 7
  /\ MinMatch \in Nat \ {0}
  /\ MaxData \in Nat

Data == UNION {[1 .. n -> 0 .. ByteSize - 1] : n \in 0 .. MaxData}

VARIABLES
  data, coded, lzRecent, deltaRecent, lastType, decisions, symbols, (* LzmsEncoder *)
  output, lzQueue, deltaQueue, prevType, copy, result,              (* LzmsDecoder *)
  decisionPos, symbolPos  (* the decisions and symbols read                *)

encoderVars == <<data, coded, lzRecent, deltaRecent, lastType, decisions, symbols>>
decoderVars == <<output, lzQueue, deltaQueue, prevType, copy, result,
                 decisionPos, symbolPos>>
vars        == <<encoderVars, decoderVars>>

Encoder == INSTANCE LzmsEncoder
Decoder == INSTANCE LzmsDecoder
             WITH size    <- Len(data),
                  Offsets <- Nat \ {0},
                  Lengths <- Nat \ {0},
                  Sizes   <- Nat,
                  MaxSize <- 64 * 1024 * 1024

Init ==
  /\ data \in Data
  /\ Encoder!Init
  /\ Decoder!Init
  /\ decisionPos = 0
  /\ symbolPos = 0

Encode == Encoder!Next /\ UNCHANGED decoderVars

Encoded == coded = Len(data)

\* The streams go on with these.
Follows(stream, pos, expected) ==
  /\ pos + Len(expected) <= Len(stream)
  /\ SubSeq(stream, pos + 1, pos + Len(expected)) = expected

\* The values of the symbols of a class still to come, the first of them: what a
\* symbol of that class can be.
Stated(class, k) ==
  IF symbolPos + k <= Len(symbols) /\ symbols[symbolPos + k][1] = class
  THEN {symbols[symbolPos + k][2]} ELSE {}

\* The items the symbols to come may be part of.
Named ==
  {Decoder!LzItem(rep, 1, length) : rep \in Decoder!Reps, length \in Stated("length", 1)}
    \cup {Decoder!DeltaItem(rep, 1, 0, length) :
            rep \in Decoder!Reps, length \in Stated("length", 1)}

Explicit ==
  {Decoder!LzItem(Decoder!Explicit, offset, length) :
     offset \in Stated("lzOffset", 1), length \in Stated("length", 2)}
    \cup {Decoder!DeltaItem(Decoder!Explicit, offset, power, length) :
            power \in Stated("deltaPower", 1), offset \in Stated("deltaOffset", 2),
            length \in Stated("length", 3)}

Literals == {Decoder!LiteralItem(byte) : byte \in Stated("literal", 1)}

\* The items the coming decisions and symbols can be read as.
Readable ==
  {item \in Literals \cup Named \cup Explicit :
     /\ Follows(decisions, decisionPos, Decoder!Decisions(item))
     /\ Follows(symbols, symbolPos, Decoder!Symbols(item))}

DecodeItem ==
  \E item \in Readable :
    /\ Decoder!Decode(item)
    /\ decisionPos' = decisionPos + Len(Decoder!Decisions(item))
    /\ symbolPos' = symbolPos + Len(Decoder!Symbols(item))

Decode ==
  /\ Encoded
  /\ UNCHANGED encoderVars
  /\ \/ DecodeItem
     \/ /\ Decoder!CopyLz \/ Decoder!CopyDelta \/ Decoder!Finish
        /\ UNCHANGED <<decisionPos, symbolPos>>

Next == Encode \/ Decode

Spec == Init /\ [][Next]_vars

\* Both are calls that run until they return.
FairSpec == Spec /\ WF_vars(Next)

-----------------------------------------------------------------------------
(***************************************************************************)
(* While output is missing, the streams go on with exactly one item, read  *)
(* with the probabilities and Huffman codes it was written with: the       *)
(* decoder never asks one stream for what the encoder put in another, and  *)
(* never rejects.                                                          *)
(***************************************************************************)
OneItemFollows ==
  Encoded =>
    /\ result \in {"running", "ok"}
    /\ Decoder!Reading => \E item \in Readable : Readable = {item}

(***************************************************************************)
(* When everything is read, both sides are where the other is: the queues, *)
(* the last kind, and the ends of both streams.                            *)
(***************************************************************************)
QueuesInStep ==
  (Encoded /\ Len(output) = Len(data)) =>
     /\ lzQueue = lzRecent
     /\ deltaQueue = deltaRecent
     /\ prevType = lastType
     /\ decisionPos = Len(decisions)
     /\ symbolPos = Len(symbols)

\* Whatever is compressed is decompressed to what it was.
RoundTrips == <>(result = "ok" /\ output = data)
=============================================================================
