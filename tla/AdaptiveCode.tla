----------------------------- MODULE AdaptiveCode -----------------------------
(***************************************************************************)
(* The adaptive Huffman codes of LZMS and the stream they are written to   *)
(* (crates/lzms/src/adaptive.rs and tables.rs): a value, an offset of a    *)
(* match, is coded as the symbol of its slot and the bits of its place in  *)
(* the slot.  Both ends count the symbols and build a new code from the    *)
(* counts at every RebuildFreq-th; the words are written to the end of the *)
(* buffer and read from there.                                             *)
(*                                                                         *)
(* The 15 bits of a codeword and the 16 of a word are constants; a         *)
(* sequence of bits is a sequence of 0 and 1.  Symbols and slots are       *)
(* numbered from 1.                                                        *)
(***************************************************************************)
EXTENDS CodeBasics, SequencesExt

CONSTANTS
  MaxCodewordLen,  (* MAX_CODEWORD_LEN                                     *)
  WordBits,        (* the bits of a word of the stream                     *)
  RebuildFreq,     (* rebuild_freq: symbols between two rebuilds           *)
  OffsetGroups,    (* OFFSET_GROUPS: <<slots, bits of a place>>            *)
  Sentinel,        (* the base behind the last slot                        *)
  OutputSizes,     (* bound: sizes of the output, which limit the slots    *)
  Offsets,         (* bound: the values coded                              *)
  MaxValues        (* bound: their number                                  *)

VARIABLES
  size,      (* the size of the output                                     *)
  values,    (* the values written                                         *)
  encoding,  (* the writer's AdaptiveCode: freqs, countdown, lens          *)
  writer,    (* BackBitsWriter: bits (buffered) and output (words)         *)
  finished,  (* the writer's words, as laid out in the buffer; or NotYet   *)
  decoding,  (* the reader's AdaptiveCode                                  *)
  reader,    (* BackBits: pos, the words in front, and bits (buffered)     *)
  read,      (* the values read                                            *)
  malformed  (* a read has failed                                          *)

adaptiveVars ==
  <<size, values, encoding, writer, finished, decoding, reader, read, malformed>>

NotYet == <<"not finished">>

-----------------------------------------------------------------------------
(***************************************************************************)
(* tables.rs: the slots of the offsets.                                    *)
(***************************************************************************)
Places == FlattenSeq([g \in DOMAIN OffsetGroups |->
                        [i \in 1 .. OffsetGroups[g][1] |-> 2 ^ OffsetGroups[g][2]]])
NumSlots == Len(Places)

\* OffsetTable::generate.
Base == [slot \in 1 .. NumSlots + 1 |->
           IF slot = NumSlots + 1 THEN Sentinel
           ELSE 1 + SumFunction(SubSeq(Places, 1, slot - 1))]

\* extra_bits: as many bits as the distance to the next base can use.
ExtraBits(slot) ==
  LET range == Base[slot + 1] - Base[slot]
  IN  CHOOSE e \in 0 .. range : 2 ^ e <= range /\ range < 2 ^ (e + 1)

\* num_offset_slots: the slots whose base an output of this size can reach.
NumOffsetSlots(outputSize) ==
  IF outputSize < 2 THEN 0
  ELSE Cardinality({slot \in 1 .. NumSlots : Base[slot] < outputSize})

\* find_offset_slot: the last whose base is not above the offset.
FindOffsetSlot(offset) ==
  CHOOSE slot \in 1 .. NumSlots :
    /\ Base[slot] <= offset
    /\ \A other \in slot + 1 .. NumSlots : Base[other] > offset

-----------------------------------------------------------------------------
(***************************************************************************)
(* CodeLenScratch::compute, build_codes and build_tables.                  *)
(***************************************************************************)
Halved(freqs) == [s \in DOMAIN freqs |-> (freqs[s] + 1) \div 2]

\* Frequencies are halved until the tree is no deeper than a codeword may be.
CodeLens(freqs) ==
  LET Retry[attempt \in Nat] ==
        IF attempt = 0 THEN freqs ELSE Halved(Retry[attempt - 1])
      fits(attempt) == MaxDepth(Depths(Retry[attempt])) <= MaxCodewordLen
      attempts == CHOOSE a \in 0 .. 31 : fits(a) /\ \A b \in 0 .. a - 1 : ~fits(b)
  IN  IF Cardinality(ActiveSymbols(freqs)) = 1
      THEN [s \in DOMAIN freqs |-> IF freqs[s] > 0 THEN 1 ELSE 0]
      ELSE Depths(Retry[attempts])

\* The codewords of a length follow those of all shorter ones, by symbol.
Codeword(lens, sym) ==
  LET shorter == SumFunction([s \in DOMAIN lens |->
                           IF lens[s] \in 1 .. lens[sym] - 1 THEN 2 ^ (lens[sym] - lens[s])
                           ELSE 0])
      before  == Cardinality({s \in 1 .. sym - 1 : lens[s] = lens[sym]})
  IN  Bits(shorter + before, lens[sym])

\* The direct table and the overflow trees behind it: the symbol whose codeword
\* the bits start with.  A short codeword has an entry for whatever follows it, a
\* longer one is walked to bit by bit.
Coded(lens, bits) ==
  {s \in DOMAIN lens : lens[s] > 0 /\ Codeword(lens, s) = SubSeq(bits, 1, lens[s])}

-----------------------------------------------------------------------------
(***************************************************************************)
(* AdaptiveCode.                                                           *)
(***************************************************************************)
Fresh(freqs) ==
  [freqs |-> freqs, countdown |-> RebuildFreq,
   lens |-> IF freqs = <<>> THEN <<>> ELSE CodeLens(freqs)]

NewCode(numSyms) == Fresh([s \in 1 .. numSyms |-> 1])

Diluted(freqs) == [s \in DOMAIN freqs |-> freqs[s] \div 2 + 1]

\* A mistake: the code is built from the diluted frequencies.
RebuiltDilutedFirst(freqs) == Fresh(Diluted(freqs))

\* rebuild_and_dilute: the code is built from all that was counted.
RebuiltAndDiluted(freqs) ==
  [Fresh(freqs) EXCEPT !.freqs = Diluted(freqs)]

Count(code, sym) ==
  LET freqs == [code.freqs EXCEPT ![sym] = @ + 1]
  IN  IF code.countdown = 1 THEN RebuiltAndDiluted(freqs)
      ELSE [code EXCEPT !.freqs = freqs, !.countdown = @ - 1]

-----------------------------------------------------------------------------
(***************************************************************************)
(* The two ends of the stream.                                             *)
(***************************************************************************)
Init ==
  /\ size \in OutputSizes
  /\ values = <<>>
  /\ encoding = NewCode(NumOffsetSlots(size))
  /\ writer = [bits |-> <<>>, output |-> <<>>]
  /\ finished = NotYet
  /\ decoding = NewCode(NumOffsetSlots(size))
  /\ reader = [pos |-> 0, bits |-> <<>>]
  /\ read = <<>>
  /\ malformed = FALSE

\* write_bits: whole words leave the buffer.
Written(w, bits) ==
  LET all   == w.bits \o bits
      whole == Len(all) \div WordBits
  IN  [bits   |-> SubSeq(all, whole * WordBits + 1, Len(all)),
       output |-> w.output \o [k \in 1 .. whole |->
                    SubSeq(all, (k - 1) * WordBits + 1, k * WordBits)]]

\* encode_symbol and encode_offset_extra.
EncodeOffset(offset) ==
  LET slot == FindOffsetSlot(offset)
  IN  /\ finished = NotYet /\ Len(values) < MaxValues
      /\ writer' = Written(writer, Codeword(encoding.lens, slot)
                                     \o Bits(offset - Base[slot], ExtraBits(slot)))
      /\ \E counted \in {Count(encoding, slot)} : encoding' = counted
      /\ values' = Append(values, offset)
      /\ UNCHANGED <<size, finished, decoding, reader, read, malformed>>

Padded(bits) == bits \o ZeroBits(WordBits - Len(bits))

\* A mistake: the words stay in the order they were written in.
LaidOutForward(w) == w.output \o IF w.bits = <<>> THEN <<>> ELSE <<Padded(w.bits)>>

\* finish: the last word, filled with zeros, comes first in the buffer.
LaidOut(w) == (IF w.bits = <<>> THEN <<>> ELSE <<Padded(w.bits)>>) \o Reverse(w.output)

Finish ==
  /\ finished = NotYet
  /\ finished' = LaidOut(writer)
  /\ reader' = [reader EXCEPT !.pos = Len(LaidOut(writer))]
  /\ UNCHANGED <<size, values, encoding, writer, decoding, read, malformed>>

\* ensure: words are taken from the end while there are fewer than n bits.
Ensured(r, n) ==
  LET missing == IF Len(r.bits) < n THEN (n - Len(r.bits) + WordBits - 1) \div WordBits ELSE 0
      taken   == IF missing < r.pos THEN missing ELSE r.pos
  IN  [pos  |-> r.pos - taken,
       bits |-> r.bits \o FlattenSeq(Reverse(SubSeq(finished, r.pos - taken + 1, r.pos)))]

\* peek: there are zeros behind the end.
Peek(r, n) == [i \in 1 .. n |-> IF i <= Len(r.bits) THEN r.bits[i] ELSE 0]

Consumed(r, n) == [r EXCEPT !.bits = SubSeq(@, n + 1, Len(@))]

\* decode_symbol and decode_offset.
DecodeOffset ==
  LET ready == Ensured(reader, MaxCodewordLen)
      coded == Coded(decoding.lens, Peek(ready, MaxCodewordLen))
  IN  /\ finished # NotYet /\ ~malformed /\ Len(read) < Len(values)
      /\ IF coded = {}
         THEN malformed' = TRUE /\ UNCHANGED <<decoding, reader, read>>
         ELSE LET slot  == CHOOSE s \in coded : TRUE
                  extra == ExtraBits(slot)
                  place == Ensured(Consumed(ready, decoding.lens[slot]), extra)
              IN  /\ \E counted \in {Count(decoding, slot)} : decoding' = counted
                  /\ reader' = Consumed(place, extra)
                  /\ read' = Append(read, Base[slot] + ValueOf(Peek(place, extra)))
                  /\ UNCHANGED malformed
      /\ UNCHANGED <<size, values, encoding, writer, finished>>

Next ==
  \/ \E offset \in Offsets \cap 1 .. size - 1 : EncodeOffset(offset)
  \/ Finish
  \/ DecodeOffset

Spec == Init /\ [][Next]_adaptiveVars

-----------------------------------------------------------------------------
(***************************************************************************)
(* The reader reads the values that were written, across rebuilds, from    *)
(* the other end of the buffer, and finds a symbol for every codeword.     *)
(***************************************************************************)
ReadsWhatWasWritten ==
  /\ ~malformed
  /\ read = SubSeq(values, 1, Len(read))
  /\ Len(read) = Len(values) => decoding = encoding

Kraft(lens) == SumFunction([s \in DOMAIN lens |-> 2 ^ (MaxCodewordLen - lens[s])])

Cost(lens, freqs) == SumFunction([s \in DOMAIN lens |-> lens[s] * freqs[s]])

\* The complete codes of an alphabet, of n symbols.
CompleteLens(n) ==
  {lens \in [1 .. n -> 1 .. MaxCodewordLen] : Kraft(lens) = 2 ^ MaxCodewordLen}

(***************************************************************************)
(* A new code is complete, and where the limit leaves it be it is the      *)
(* shortest there is for all the symbols counted so far: "the next code is *)
(* built from the accumulated (un-diluted) frequencies" (adaptive.rs).     *)
(***************************************************************************)
RebuiltForItsWindow ==
  encoding' # encoding /\ encoding.countdown = 1 /\ Len(encoding.lens) > 1 =>
    \A lens \in {encoding'.lens},
       freqs \in {[encoding.freqs EXCEPT ![FindOffsetSlot(Last(values'))] = @ + 1]} :
      /\ lens \in CompleteLens(Len(lens))
      /\ MaxDepth(Depths(freqs)) <= MaxCodewordLen =>
           \A other \in CompleteLens(Len(lens)) : Cost(lens, freqs) <= Cost(other, freqs)

RebuildsForItsWindow == [][RebuiltForItsWindow]_adaptiveVars
=============================================================================
