------------------------------ MODULE RiftSerial ------------------------------
(***************************************************************************)
(* Rift tables in a delta (src/lzx/rift.rs, to_writer and from_reader):    *)
(* each entry as its difference from the one before, in two integer        *)
(* formats (IntFormat) with a Huffman code each, one for sources and one   *)
(* for offsets.  A number is the symbol of its slot, the negative ones in  *)
(* the upper half of the alphabet, and a field of its place.               *)
(*                                                                         *)
(* A word has WordBits bits (64), for which the alphabet's half is just    *)
(* large enough (126).  The stream is a sequence of items: a format's      *)
(* counts and lengths, a number of entries, symbols and fields; a symbol   *)
(* is read right by a reader with the same lengths.                        *)
(***************************************************************************)
EXTENDS RiftTables, CodeBasics

LOCAL Seqs == INSTANCE SequencesExt

CONSTANTS
  WordBits,     (* Half is 2^(WordBits - 1)                                *)
  WrittenRifts, (* bound: the tables written                               *)
  FormatLengths (* bound: the codes from_frequencies may return            *)

VARIABLES
  rift,         (* the table written                                       *)
  lens,         (* the lengths of its two codes                            *)
  stream,       (* the items not read yet                                  *)
  serialPc,     (* "write", "read", "entries", "done" or "malformed"       *)
  readLens,     (* the lengths read                                        *)
  left,         (* the entries still to be read                            *)
  entries       (* the entries read                                        *)

serialVars == <<rift, lens, stream, serialPc, readLens, left, entries>>

FormatHalf    == 2 * (WordBits - 1)      (* INT_FORMAT_HALF    *)
FormatSymbols == 0 .. 2 * FormatHalf - 1 (* INT_FORMAT_SYMBOLS *)

Fld(value)         == [kind |-> "field", value |-> value, bits |-> 4]
Sym(code, symbol)  == [kind |-> "symbol", value |-> symbol, bits |-> code]
Place(value, n)    == [kind |-> "field", value |-> value, bits |-> n]
Num(value)         == [kind |-> "integer", value |-> value, bits |-> 0]

-----------------------------------------------------------------------------
(***************************************************************************)
(* IntFormat: value_to_symbol, write_number and read_number.               *)
(***************************************************************************)
\* A mistake: a negative number is coded by its absolute value.
MagnitudeAbsolute(n) == IF n < 0 THEN -n ELSE n

Magnitude(n) == IF n < 0 THEN -n - 1 ELSE n

NumberItems(code, n) ==
  LET slot == SlotByBits(Magnitude(n))
  IN  <<Sym(code, IF n < 0 THEN slot + FormatHalf ELSE slot)>>
        \o IF slot <= 3 THEN <<>>
           ELSE <<Place(Magnitude(n) - StartOf(slot), OpenBits(slot))>>

SlotIn(symbol) == IF symbol < FormatHalf THEN symbol ELSE symbol - FormatHalf

\* The items a number takes, by its symbol.
NumberLength(symbol) == IF SlotIn(symbol) <= 3 THEN 1 ELSE 2

\* Whether the next item is a number of this code: with the field its slot needs.
NumberAt(at, code) ==
  /\ stream[at].kind = "symbol" /\ readLens[code] = stream[at].bits
  /\ SlotIn(stream[at].value) > 3 =>
       /\ stream[at + 1].kind = "field"
       /\ stream[at + 1].bits = OpenBits(SlotIn(stream[at].value))

NumberValue(at) ==
  LET symbol    == stream[at].value
      magnitude == StartOf(SlotIn(symbol))
                     + IF SlotIn(symbol) <= 3 THEN 0 ELSE stream[at + 1].value
  IN  IF symbol < FormatHalf THEN magnitude ELSE -magnitude - 1

\* to_writer: every length is given, in four bits; none is left to the default.
FormatItems(code) ==
  <<Num(FormatHalf), Num(FormatHalf), Num(0)>>
    \o [i \in 1 .. 2 * FormatHalf |->
          Fld((IF code[i - 1] > 1 THEN code[i - 1] ELSE 1) - 1)]
    \o <<Fld(0)>>

\* from_reader: the lengths of a half that are not given start at the default;
\* where defaults run out, the length drops by one and the rest is counted anew.
Filled(from, to, default, count, again(_)) ==
  LET Fill[i \in from - 1 .. to] ==
        IF i = from - 1 THEN [len |-> default, remaining |-> count]
        ELSE LET before == Fill[i - 1]
                 empty  == before.remaining = 0
                 room   == IF empty THEN again(i) ELSE before.remaining
             IN  [len |-> IF empty /\ before.len > 0 THEN before.len - 1 ELSE before.len,
                  remaining |-> IF room > 0 THEN room - 1 ELSE 0]
  IN  [i \in from .. to |-> Fill[i].len]

Monus(a, b) == IF a > b THEN a - b ELSE 0

\* The lengths of a format at the head of the items; {} if it is malformed.
FormatRead(items) ==
  LET pos     == items[1].value
      neg     == items[2].value
      default == items[3].value
      rest    == 2 * FormatHalf - pos - neg
      given   == [i \in 1 .. pos + neg |-> items[3 + i].value + 1]
      last    == items[4 + pos + neg].value + 1
      upper   == Filled(pos, FormatHalf - 1, last, default, LAMBDA i : Monus(rest, i))
      lower   == Filled(FormatHalf + neg, 2 * FormatHalf - 1, last,
                        Monus(default, FormatHalf - pos),
                        LAMBDA i : Monus(FormatHalf, i - FormatHalf))
  IN  IF pos > FormatHalf \/ neg > FormatHalf \/ default > rest THEN {}
      ELSE {[s \in FormatSymbols |->
               IF s < pos THEN given[s + 1]
               ELSE IF s < FormatHalf THEN upper[s]
               ELSE IF s < FormatHalf + neg THEN given[pos + s - FormatHalf + 1]
               ELSE lower[s]]}

FormatSize(items) == 4 + items[1].value + items[2].value

-----------------------------------------------------------------------------
Init ==
  /\ rift \in WrittenRifts
  /\ lens \in [1 .. 2 -> FormatLengths]
  /\ stream = <<>> /\ serialPc = "write"
  /\ readLens = <<>> /\ left = 0 /\ entries = <<>>

\* The differences wrap at the word.
SourceStep(table, k) ==
  Wrap(table[k].source - IF k = 1 THEN 0 ELSE table[k - 1].source)
OffsetStep(table, k) ==
  Wrap(Wrap(Offset(table[k])) - IF k = 1 THEN 0 ELSE Wrap(Offset(table[k - 1])))

WriteRift ==
  /\ serialPc = "write"
  /\ stream' =
       IF rift = <<>> THEN <<Num(0)>>
       ELSE <<Num(1)>> \o FormatItems(lens[1]) \o FormatItems(lens[2]) \o <<Num(Len(rift))>>
              \o Seqs!FlattenSeq([k \in DOMAIN rift |->
                   NumberItems(lens[1], SourceStep(rift, k))
                     \o NumberItems(lens[2], OffsetStep(rift, k))])
  /\ serialPc' = "read"
  /\ UNCHANGED <<rift, lens, readLens, left, entries>>

\* The flag and the formats.  No entry takes less than a bit.
ReadFormats ==
  LET first  == Tail(stream)
      second == SubSeq(first, FormatSize(first) + 1, Len(first))
      rest   == SubSeq(second, FormatSize(second) + 1, Len(second))
  IN  /\ serialPc = "read"
      /\ IF stream[1].value = 0
         THEN serialPc' = "done" /\ UNCHANGED <<stream, readLens, left>>
         ELSE IF \/ FormatRead(first) = {} \/ FormatRead(second) = {}
                 \/ rest[1].value < 0 \/ rest[1].value > Len(rest)
         THEN serialPc' = "malformed" /\ UNCHANGED <<stream, readLens, left>>
         ELSE /\ \E one \in FormatRead(first), two \in FormatRead(second) :
                   readLens' = <<one, two>>
              /\ left' = rest[1].value
              /\ stream' = Tail(rest)
              /\ serialPc' = "entries"
      /\ UNCHANGED <<rift, lens, entries>>

ReadEntry ==
  LET second == 1 + NumberLength(stream[1].value)
      source == Wrap(NumberValue(1) + IF entries = <<>> THEN 0 ELSE Seqs!Last(entries).source)
      offset == Wrap(NumberValue(second)
                       + IF entries = <<>> THEN 0 ELSE Wrap(Offset(Seqs!Last(entries))))
  IN  /\ serialPc = "entries" /\ left > 0
      /\ IF NumberAt(1, 1) /\ NumberAt(second, 2)
         THEN /\ entries' = Append(entries, Entry(source, Wrap(offset + source)))
              /\ stream' = SubSeq(stream, second + NumberLength(stream[second].value),
                                  Len(stream))
              /\ left' = left - 1
              /\ UNCHANGED serialPc
         ELSE serialPc' = "malformed" /\ UNCHANGED <<entries, stream, left>>
      /\ UNCHANGED <<rift, lens, readLens>>

SortRead ==
  /\ serialPc = "entries" /\ left = 0
  /\ entries' = SortBySource(entries)
  /\ serialPc' = "done"
  /\ UNCHANGED <<rift, lens, stream, readLens, left>>

Next == WriteRift \/ ReadFormats \/ ReadEntry \/ SortRead

Spec == Init /\ [][Next]_serialVars

-----------------------------------------------------------------------------
(***************************************************************************)
(* The table is read as it was written, at the ends of the word, too: each *)
(* difference has a symbol in its half of the alphabet, and the lengths of *)
(* both codes arrive.                                                      *)
(***************************************************************************)
ReadsTheRift ==
  /\ serialPc # "malformed"
  /\ serialPc = "read" =>
       \A i \in DOMAIN stream : stream[i].kind = "symbol" => stream[i].value \in FormatSymbols
  /\ serialPc = "done" => entries = rift
=============================================================================
