----------------------------- MODULE MatchSymbols -----------------------------
(***************************************************************************)
(* How a match is written as symbols and bits and read back: encode_match  *)
(* of src/lzx/encode.rs against read_symbol of src/lzx/decode.rs, with the *)
(* numbers of the code: the bands of a raw offset, the slots of a distance *)
(* that double every second slot, and the three forms of a length.         *)
(*                                                                         *)
(* What is written is a sequence of items: a symbol of one of the three    *)
(* codes of a segment, a field of some bits, or a number.  A reader that   *)
(* expects another item has lost its place in the stream.                  *)
(***************************************************************************)
EXTENDS CodeBasics

CONSTANTS
  RawOffsets,   (* bound: the raw offsets written                          *)
  MatchLengths  (* bound: the lengths written                              *)

\* Raw offsets are words of 32 bits, and no match is shorter than two (find_match).
ASSUME MatchesAssumption ==
  /\ \A raw \in RawOffsets : raw \in Nat /\ raw \div 4 < TwoTo[30]
  /\ \A length \in MatchLengths : length \in Nat /\ length >= 2

VARIABLES
  match,      (* the match written: raw (offset) and length                *)
  items,      (* the items written                                         *)
  counted,    (* the symbols counted for the tables                        *)
  matchPc,    (* "start", "count", "write", "refused", "read", "done",     *)
              (* or "lost"                                                 *)
  readMatch   (* the match read                                            *)

matchVars == <<match, items, counted, matchPc, readMatch>>

LiteralSymbols == 256        (* main symbols below are literal bytes       *)
MainSymbols    == 600
LengthSymbols  == 256
AlignedSymbols == 16
SourceCopy     == 344064     (* SOURCE_COPY, 0x54000: offset slot 3        *)
LruBase        == 344065     (* LRU_BASE: slots 4 to 6                     *)
RawOffsetBase  == 344067     (* RAW_OFFSET_BASE: distances, from slot 7    *)
OffsetBias     == 172032     (* OFFSET_BIAS: signed distances, slots 0..2  *)

None == [raw |-> 0, length |-> 0]

Symbol(code, number) == [kind |-> code, value |-> number, bits |-> 0]
BitField(value, bits)   == [kind |-> "field", value |-> value, bits |-> bits]
Number(value)        == [kind |-> "number", value |-> value, bits |-> 0]

-----------------------------------------------------------------------------
\* match_fits_table: the slot of the distance has a main symbol.  The last of the
\* recent distances shares its number with a distance of zero.
FitsTable(raw) ==
  raw \in SourceCopy .. LruBase + 2 \/
  (raw >= RawOffsetBase =>
     /\ raw # RawOffsetBase
     /\ LiteralSymbols + 8 * (SlotByBits(raw - RawOffsetBase) + 7) < MainSymbols)

\* The slots 0 to 2 of a signed distance, by its band.
SignedSlot(signed) ==
  IF signed >= -8192 /\ signed < 8192 THEN 0
  ELSE IF signed >= -40960 /\ signed < 40960 THEN 1 ELSE 2

\* compute_symbol_info's slot, counted before the tables are built.
CountedSlot(raw) ==
  IF raw \in SourceCopy .. LruBase + 2 THEN raw - SourceCopy + 3
  ELSE IF raw >= RawOffsetBase THEN SlotOf(raw - RawOffsetBase) + 7
  ELSE SignedSlot(raw - OffsetBias)

\* compute_length_slot: the lengths 2 to 8 are in the main symbol.
LengthSlot(length) == IF length \in 2 .. 8 THEN length - 1 ELSE 0

\* compute_length_extra: a symbol of its own up to 255, 0 for a number.
LengthSymbol(length) == IF length - 8 \in 1 .. LengthSymbols - 1 THEN length - 8 ELSE 0

-----------------------------------------------------------------------------
(***************************************************************************)
(* encode_match.                                                           *)
(***************************************************************************)
\* A mistake: the upper part of the second band is taken for the third's.
SignedItemsNarrow(signed) ==
  CASE signed \in -8192 .. 8191    -> <<BitField(signed + 8192, 14)>>
    [] signed \in -40960 .. -8193  -> <<BitField(signed + 40960, 16)>>
    [] signed \in 8192 .. 24575    -> <<BitField(signed + 24576, 16)>>
    [] signed < -40960             -> <<BitField((signed + 172032) % 262144, 18)>>
    [] signed >= 24576             -> <<BitField((signed + 90112) % 262144, 18)>>

\* A signed distance fills a field of its slot's width: the lower half of the
\* field are the distances below the band inside, the upper half those above.
SignedItems(signed) ==
  CASE SignedSlot(signed) = 0 -> <<BitField(signed + 8192, 14)>>
    [] SignedSlot(signed) = 1 ->
         <<BitField(signed + (IF signed < -8192 THEN 40960 ELSE 24576), 16)>>
    [] SignedSlot(signed) = 2 ->
         <<BitField((signed + (IF signed >= 24576 THEN 90112 ELSE 172032)) % 262144, 18)>>

\* The open bits of a distance: all in a field, or all but the lowest four.
DistanceItems(dist) ==
  LET half == OpenBits(SlotOf(dist))
  IN  IF dist <= 3 THEN <<>>
      ELSE IF half < 4 THEN <<BitField(dist - StartOf(SlotOf(dist)), half)>>
      ELSE (IF half = 4 THEN <<>> ELSE <<BitField((dist \div 16) % TwoTo[half - 4], half - 4)>>)
             \o <<Symbol("aligned", dist % 16)>>

OffsetItems(raw) ==
  IF raw \in SourceCopy .. LruBase + 2 THEN <<>>
  ELSE IF raw >= RawOffsetBase THEN DistanceItems(raw - RawOffsetBase)
  ELSE SignedItems(raw - OffsetBias)

LengthItems(length) ==
  IF LengthSlot(length) > 0 THEN <<>>
  ELSE IF LengthSymbol(length) > 0 THEN <<Symbol("length", LengthSymbol(length))>>
  ELSE <<Symbol("length", 0), Number(IF length - 8 > 256 THEN length - 8 ELSE 256)>>

MainSymbol(raw, length) == LiteralSymbols + 8 * CountedSlot(raw) + LengthSlot(length)

MatchInit ==
  /\ match \in [raw : RawOffsets, length : MatchLengths]
  /\ items = <<>> /\ counted = {} /\ readMatch = None
  /\ matchPc = "start"

\* The parser drops a match that does not fit the main table.
Offer ==
  /\ matchPc = "start"
  /\ matchPc' = IF FitsTable(match.raw) THEN "count" ELSE "refused"
  /\ UNCHANGED <<match, items, counted, readMatch>>

\* The symbols are counted before they are written, with the tables between.
CountedFor(raw, length) ==
  {Symbol("main", MainSymbol(raw, length))}
    \cup (IF raw > RawOffsetBase + 3 /\ OpenBits(SlotOf(raw - RawOffsetBase)) >= 4
          THEN {Symbol("aligned", (raw - RawOffsetBase) % 16)} ELSE {})
    \cup (IF LengthSlot(length) = 0 THEN {Symbol("length", LengthSymbol(length))} ELSE {})

CountSymbols ==
  /\ matchPc = "count"
  /\ counted' = CountedFor(match.raw, match.length)
  /\ matchPc' = "write"
  /\ UNCHANGED <<match, items, readMatch>>

WriteMatch ==
  /\ matchPc = "write"
  /\ items' = <<Symbol("main", MainSymbol(match.raw, match.length))>>
                \o (OffsetItems(match.raw) \o LengthItems(match.length))
  /\ matchPc' = "read"
  /\ UNCHANGED <<match, counted, readMatch>>

-----------------------------------------------------------------------------
(***************************************************************************)
(* read_symbol.                                                            *)
(***************************************************************************)
\* What a signed field stands for, by its slot.
SignedValue(slot, value) ==
  CASE slot = 0 -> value - 8192
    [] slot = 1 -> IF value < 32768 THEN value - 40960 ELSE value - 24576
    [] slot = 2 -> IF value >= 131072 THEN value - 90112 ELSE value - 172032

\* The items a reader expects behind the main symbol of an offset slot: the
\* kind of each and the width of a field.
OffsetForm(slot) ==
  LET half == OpenBits(slot - 7)
  IN  IF slot < 3 THEN <<[kind |-> "field", bits |-> 14 + 2 * slot]>>
      ELSE IF slot <= 10 THEN <<>>
      ELSE IF half < 4 THEN <<[kind |-> "field", bits |-> half]>>
      ELSE (IF half = 4 THEN <<>> ELSE <<[kind |-> "field", bits |-> half - 4]>>)
             \o <<[kind |-> "aligned", bits |-> 0]>>

LengthForm(slot, rest) ==
  IF slot > 0 THEN <<>>
  ELSE <<[kind |-> "length", bits |-> 0]>>
         \o IF rest # <<>> /\ rest[1].value = 0 THEN <<[kind |-> "number", bits |-> 0]>> ELSE <<>>

\* The offset the items behind the main symbol stand for.
OffsetValue(slot, fields) ==
  IF slot < 3 THEN OffsetBias + SignedValue(slot, fields[1].value)
  ELSE IF slot < 7 THEN slot - 3 + SourceCopy
  ELSE RawOffsetBase + StartOf(slot - 7)
       + (CASE Len(fields) = 0 -> 0
            [] Len(fields) = 1 -> fields[1].value
            [] Len(fields) = 2 -> 16 * fields[1].value + fields[2].value)

LengthValue(slot, fields) ==
  IF slot > 0 THEN slot + 1 ELSE IF Len(fields) = 1 THEN fields[1].value + 8
  ELSE fields[2].value + 8

FormOf(fields) == [i \in DOMAIN fields |-> [kind |-> fields[i].kind, bits |-> fields[i].bits]]

\* A slot of 7 has a form of its own that no writer uses.
ReadMatch ==
  LET main   == items[1].value - LiteralSymbols
      slot   == main \div 8
      count  == Len(OffsetForm(slot))
      rest   == SubSeq(items, count + 2, Len(items))
  IN  /\ matchPc = "read"
      /\ IF /\ slot # 7
            /\ FormOf(Tail(items)) = OffsetForm(slot) \o LengthForm(main % 8, rest)
         THEN /\ readMatch' = [raw    |-> OffsetValue(slot, SubSeq(items, 2, count + 1)),
                               length |-> LengthValue(main % 8, rest)]
              /\ matchPc' = "done"
         ELSE matchPc' = "lost" /\ UNCHANGED readMatch
      /\ UNCHANGED <<match, items, counted>>

MatchNext == Offer \/ CountSymbols \/ WriteMatch \/ ReadMatch

MatchSpec == MatchInit /\ [][MatchNext]_matchVars

-----------------------------------------------------------------------------
\* A symbol has a place in its table and a field fills no more than its bits; a
\* number has a form of its own from 256 on (write_u32_number).
IsWritable(item) ==
  CASE item.kind = "main"    -> item.value >= LiteralSymbols /\ item.value < MainSymbols
    [] item.kind = "length"  -> item.value \in 0 .. LengthSymbols - 1
    [] item.kind = "aligned" -> item.value \in 0 .. AlignedSymbols - 1
    [] item.kind = "field"   -> item.value \in 0 .. TwoTo[item.bits] - 1
    [] item.kind = "number"  -> item.value >= 256

(***************************************************************************)
(* A match that is accepted is read as it was written, item by item, to    *)
(* the last, with nothing cut off on the way: its fields are as wide as    *)
(* their values, and all its symbols are in the tables and have been       *)
(* counted there, so that each has a codeword.                             *)
(***************************************************************************)
ReadsTheMatch ==
  /\ matchPc # "lost"
  /\ matchPc = "read" =>
       /\ \A i \in DOMAIN items : IsWritable(items[i])
       /\ counted = {items[i] : i \in {j \in DOMAIN items :
                                         items[j].kind \notin {"field", "number"}}}
  /\ matchPc = "done" => readMatch = match
=============================================================================
