----------------------------- MODULE XpressHuffman -----------------------------
(***************************************************************************)
(* The reader of XPRESS Huffman streams (xpress.rs), which the blobs of    *)
(* reversal data are packed with.  Codewords and the low bits of distances *)
(* are taken from words, highest bit first; long lengths lie between the   *)
(* words as numbers.  Where a number lies depends on when the words around *)
(* it were reserved, so a reader must take a word when its first bit is    *)
(* needed and no sooner.                                                   *)
(*                                                                         *)
(* The repository writes no such stream: the writer is external.  It keeps *)
(* places for two words open, and opens the next when a bit does not fit   *)
(* the first of them.  A stream is a sequence of cells: a word of WordBits *)
(* bits, a number of one of three widths, or the code lengths of a block.  *)
(***************************************************************************)
EXTENDS CodeBasics

CONSTANTS
  WordBits,     (* 16: the bits of a word                                  *)
  BlockSize,    (* BLOCK_SIZE                                              *)
  MinMatchLen,  (* MIN_MATCH                                               *)
  Literals,     (* the number of literals: 256                             *)
  LengthCap,    (* 15: a length from here on is continued in a byte,       *)
  ByteCap,      (* 255: which from here on is continued in a word,         *)
  ShortLimit,   (* 2^16: which, if it cannot hold it, is zero              *)
  CodeLengths,  (* bound: the code lengths of a block, by symbol           *)
  Distances,    (* bound: the distances of matches                         *)
  MatchLens,    (* bound: the lengths of matches                           *)
  MaxOps        (* bound: the literals and matches of a stream             *)

VARIABLES
  text,         (* what the writer has written                             *)
  ops,          (* in how many operations                                  *)
  xWriter,      (* its stream: cells, the two open slots, pending bits     *)
  blockEnd,     (* where the block ends, for the writer or the reader      *)
  xPc,          (* what comes next                                         *)
  xRead,        (* out                                                     *)
  pos,          (* the cells taken                                         *)
  held,         (* the bits taken and not used                             *)
  table,        (* the code lengths of the block                           *)
  walked,       (* the bits of the codeword so far: index                  *)
  matching      (* the match being read: length, distance, bits to come    *)

xpressVars ==
  <<text, ops, xWriter, blockEnd, xPc, xRead, pos, held, table, walked, matching>>
xReaderVars == <<xRead, pos, held, table, walked, matching>>

Cell(kind, value) == [kind |-> kind, value |-> value]
NoMatch == [length |-> 0, distance |-> 0, bits |-> 0]

-----------------------------------------------------------------------------
(***************************************************************************)
(* build_table: the canonical code, in the order of length and symbol.     *)
(***************************************************************************)
Before(lens, s, t) == lens[s] < lens[t] \/ (lens[s] = lens[t] /\ s < t)
Codeword(lens, s) ==
  LET earlier == {t \in DOMAIN lens : lens[t] > 0 /\ Before(lens, t, s)}
      Sum[T \in SUBSET earlier] ==
        IF T = {} THEN 0
        ELSE LET t == CHOOSE t \in T : TRUE IN 2 ^ (lens[s] - lens[t]) + Sum[T \ {t}]
  IN  Bits(Sum[earlier], lens[s])

\* The table of a block: the codeword of each symbol that has one.
TableOf(lens) == [s \in {s \in DOMAIN lens : lens[s] > 0} |-> Codeword(lens, s)]

\* A match's symbol holds the cut length and the number of the distance's low bits.
SymbolOf(lengthCode, distBits) == Literals + distBits * (LengthCap + 1) + lengthCode
LengthCode(s) == (s - Literals) % (LengthCap + 1)
DistBits(s)   == (s - Literals) \div (LengthCap + 1)
HighBitOf(n)  == CHOOSE k \in 0 .. n : 2 ^ k <= n /\ n < 2 ^ (k + 1)

-----------------------------------------------------------------------------
(***************************************************************************)
(* External: the writer.                                                   *)
(***************************************************************************)
Blank == Cell("word", <<>>)
Padded(word) == Cell("word", word \o [i \in 1 .. WordBits - Len(word) |-> 0])

PutBits(w, b) ==
  LET all == w.pending \o b
  IN  IF Len(all) <= WordBits THEN [w EXCEPT !.pending = all]
      ELSE [cells   |-> Append([w.cells EXCEPT ![w.slots[1]] = Padded(SubSeq(all, 1, WordBits))],
                               Blank),
            slots   |-> <<w.slots[2], Len(w.cells) + 1>>,
            pending |-> SubSeq(all, WordBits + 1, Len(all))]

PutNumbers(w, numbers) == [w EXCEPT !.cells = @ \o numbers]

Flushed(w) ==
  IF w.slots = <<>> THEN w.cells
  ELSE [w.cells EXCEPT ![w.slots[1]] = Padded(w.pending), ![w.slots[2]] = Padded(<<>>)]

OpenBlock(w, lens) ==
  LET cells == Flushed(w) \o <<Cell("table", lens), Blank, Blank>>
  IN  [cells |-> cells, slots |-> <<Len(cells) - 1, Len(cells)>>, pending |-> <<>>]

\* A length from LengthCap on, in a byte, a word or a double word.
LongLength(n) ==
  IF n < LengthCap THEN <<>>
  ELSE IF n - LengthCap < ByteCap THEN <<Cell("u8", n - LengthCap)>>
  ELSE IF n < ShortLimit THEN <<Cell("u8", ByteCap), Cell("u16", n)>>
  ELSE <<Cell("u8", ByteCap), Cell("u16", 0), Cell("u32", n)>>

XpressInit ==
  /\ text = <<>> /\ ops = 0 /\ blockEnd = 0 /\ xPc = "write"
  /\ xWriter = [cells |-> <<>>, slots |-> <<>>, pending |-> <<>>]
  /\ xRead = <<>> /\ pos = 0 /\ held = <<>> /\ table = <<>> /\ walked = <<>>
  /\ matching = NoMatch

BeginBlock ==
  /\ xPc = "write" /\ Len(text) >= blockEnd /\ ops < MaxOps
  /\ \E lens \in CodeLengths :
       xWriter' = OpenBlock(xWriter, lens) /\ table' = TableOf(lens)
  /\ blockEnd' = Len(text) + BlockSize
  /\ UNCHANGED <<text, ops, xPc, xRead, pos, held, walked, matching>>

WriteLiteral ==
  /\ xPc = "write" /\ Len(text) < blockEnd /\ ops < MaxOps
  /\ \E b \in 0 .. Literals - 1 :
       /\ b \in DOMAIN table
       /\ text' = Append(text, b) /\ xWriter' = PutBits(xWriter, table[b])
  /\ ops' = ops + 1
  /\ UNCHANGED <<blockEnd, xPc, xReaderVars>>

Repeated(s, distance, n) ==
  LET Grown[i \in 0 .. n] ==
        IF i = 0 THEN s
        ELSE Append(Grown[i - 1], Grown[i - 1][Len(s) - distance + i])
  IN  Grown[n]

WriteMatch ==
  /\ xPc = "write" /\ Len(text) < blockEnd /\ ops < MaxOps
  /\ \E distance \in Distances, len \in MatchLens :
       LET n        == len - MinMatchLen
           high     == HighBitOf(distance)
           symbol   == SymbolOf(IF n < LengthCap THEN n ELSE LengthCap, high)
           named    == PutNumbers(PutBits(xWriter, table[symbol]), LongLength(n))
       IN  /\ distance <= Len(text) /\ symbol \in DOMAIN table
           /\ text' = Repeated(text, distance, len)
           /\ xWriter' = PutBits(named, Bits(distance % 2 ^ high, high))
  /\ ops' = ops + 1
  /\ UNCHANGED <<blockEnd, xPc, xReaderVars>>

EndWrite ==
  /\ xPc = "write" /\ Len(text) > blockEnd - BlockSize /\ text # <<>>
  /\ xWriter' = [xWriter EXCEPT !.cells = Flushed(xWriter)]
  /\ xPc' = "read" /\ blockEnd' = 0 /\ table' = <<>>
  /\ UNCHANGED <<text, ops, xRead, pos, held, walked, matching>>

-----------------------------------------------------------------------------
(***************************************************************************)
(* decompress_block_stream.                                                *)
(***************************************************************************)
Stream     == xWriter.cells
Holds(p, kind) == p <= Len(Stream) /\ Stream[p].kind = kind
Fail       == xPc' = "malformed" /\ UNCHANGED xReaderVars
Unfinished == xPc = "read" /\ Len(xRead) < Len(text)

\* A block's table and its first two words; the block ends with the text.
ReadTable ==
  /\ Unfinished /\ Len(xRead) >= blockEnd
  /\ IF ~(Holds(pos + 1, "table") /\ Holds(pos + 2, "word") /\ Holds(pos + 3, "word")) THEN Fail
     ELSE /\ table' = TableOf(Stream[pos + 1].value)
          /\ held' = Stream[pos + 2].value \o Stream[pos + 3].value
          /\ pos' = pos + 3
          /\ UNCHANGED <<xPc, xRead, walked, matching>>
  /\ blockEnd' = IF Len(xRead) + BlockSize < Len(text) THEN Len(xRead) + BlockSize ELSE Len(text)
  /\ UNCHANGED <<text, ops, xWriter>>

\* A mistake: a word is taken as soon as there is room for it.
PullsEarly == Len(held) <= WordBits + 1

\* pull: a word is taken when the one held is needed next.
Pulls == Len(held) = WordBits
Pulled == IF Pulls THEN held \o Stream[pos + 1].value ELSE held
PulledTo == IF Pulls THEN pos + 1 ELSE pos

\* The end of a match, or the wait for the low bits of its distance.
CopyMatch(m) ==
  IF m.bits > 0 THEN matching' = m /\ UNCHANGED <<xRead, xPc>>
  ELSE IF m.distance > Len(xRead) THEN xPc' = "malformed" /\ UNCHANGED <<xRead, matching>>
  ELSE /\ xRead' = Repeated(xRead, m.distance, m.length)
       /\ matching' = NoMatch /\ UNCHANGED xPc

\* The length at the cells from p on: <<length, the cells it takes>>, or nothing.
LengthAt(p, code) ==
  IF code < LengthCap THEN {<<code, 0>>}
  ELSE IF ~Holds(p, "u8") THEN {}
  ELSE IF Stream[p].value # ByteCap THEN {<<code + Stream[p].value, 1>>}
  ELSE IF ~Holds(p + 1, "u16") THEN {}
  ELSE IF Stream[p + 1].value # 0 THEN {<<Stream[p + 1].value, 2>>}
  ELSE IF ~Holds(p + 2, "u32") THEN {} ELSE {<<Stream[p + 2].value, 3>>}

ReadSymbol(s) ==
  IF s < Literals
  THEN xRead' = Append(xRead, s) /\ pos' = PulledTo /\ UNCHANGED <<matching, xPc>>
  ELSE LET found == LengthAt(PulledTo + 1, LengthCode(s))
       IN  IF found = {} THEN xPc' = "malformed" /\ UNCHANGED <<xRead, pos, matching>>
           ELSE \E length \in found :
                  /\ CopyMatch([length   |-> length[1] + MinMatchLen,
                                distance |-> 2 ^ DistBits(s), bits |-> DistBits(s)])
                  /\ pos' = PulledTo + length[2]

\* A bit of a codeword: a symbol's last, one on the way to some symbol's, or neither.
WalkBit(code) ==
  LET named   == {s \in DOMAIN table : table[s] = code}
      through == {s \in DOMAIN table :
                    Len(table[s]) > Len(code) /\ SubSeq(table[s], 1, Len(code)) = code}
  IN  IF named # {} THEN \E s \in named : ReadSymbol(s) /\ walked' = <<>>
      ELSE IF through = {} THEN xPc' = "malformed" /\ UNCHANGED <<xRead, pos, walked, matching>>
      ELSE walked' = code /\ pos' = PulledTo /\ UNCHANGED <<xRead, matching, xPc>>

ReadBit ==
  /\ Unfinished /\ Len(xRead) < blockEnd
  /\ IF Pulls /\ ~Holds(pos + 1, "word") THEN Fail
     ELSE /\ held' = Tail(Pulled)
          /\ IF matching.length = 0 THEN WalkBit(Append(walked, Head(Pulled)))
             ELSE /\ CopyMatch([matching EXCEPT !.bits = @ - 1,
                          !.distance = @ + Head(Pulled) * 2 ^ (matching.bits - 1)])
                  /\ pos' = PulledTo /\ UNCHANGED walked
          /\ UNCHANGED table
  /\ UNCHANGED <<text, ops, xWriter, blockEnd>>

XpressNext ==
  BeginBlock \/ WriteLiteral \/ WriteMatch \/ EndWrite \/ ReadTable \/ ReadBit

-----------------------------------------------------------------------------
\* A stream is read as it was written, numbers between words, matches across the end
\* of a block and all, and to its last cell (decompress_block_stream).
ReadsTheStream ==
  /\ xPc # "malformed"
  /\ xPc = "read" => xRead = SubSeq(text, 1, Len(xRead))
  /\ xPc = "read" /\ Len(xRead) = Len(text) => pos = Len(Stream)
=============================================================================
