----------------------------- MODULE HuffmanTable -----------------------------
(***************************************************************************)
(* The static Huffman codes of PseudoLzx (src/huffman.rs).                 *)
(* from_frequencies cuts the lengths of a tree at MaxLen and repairs the   *)
(* numbers of codewords of each length until the code is complete again;   *)
(* from_lengths gives the codewords, and read_symbol finds a codeword by   *)
(* the zeros it starts with.                                               *)
(*                                                                         *)
(* Symbols are numbered from 1; a codeword is the sequence of its bits in  *)
(* the order they are written, which is the canonical code from its        *)
(* highest bit (the codes field holds it reversed, for writers that start  *)
(* with the lowest).                                                       *)
(***************************************************************************)
EXTENDS CodeBasics, SequencesExt

CONSTANTS
  MaxLen,       (* MAX_CODE_LEN, the max_len of every caller               *)
  Frequencies   (* bound: the frequencies of the calls                     *)

VARIABLES
  freqs,        (* the argument                                            *)
  lenCounts,    (* bl_count: how many codewords have each length           *)
  lengths,      (* the result's lengths, by symbol; 0 has no codeword      *)
  tablePc       (* "start", "lengthen", "shorten", "assign", "done"        *)

tableVars == <<freqs, lenCounts, lengths, tablePc>>

-----------------------------------------------------------------------------
(***************************************************************************)
(* from_lengths and read_symbol.                                           *)
(***************************************************************************)
\* The first codeword of each length, from the longest, which starts at 0.
BaseCode(lens) ==
  LET Base[len \in 1 .. MaxLen] ==
        IF len = MaxLen THEN 0
        ELSE (Base[len + 1]
              + Cardinality({s \in DOMAIN lens : lens[s] = len + 1})) \div 2
  IN  Base

Codeword(lens, sym) ==
  Bits(BaseCode(lens)[lens[sym]]
         + Cardinality({s \in 1 .. sym - 1 : lens[s] = lens[sym]}), lens[sym])

Zeros(bits) ==
  CHOOSE z \in 0 .. Len(bits) :
    /\ \A i \in 1 .. z : bits[i] = 0
    /\ z < Len(bits) => bits[z + 1] = 1

WithCodeword(lens) == {s \in DOMAIN lens : lens[s] > 0}

\* The symbols of a slot: their codewords have as many zeros and then a 1.
Slot(lens, z) == {s \in WithCodeword(lens) : Zeros(Codeword(lens, s)) = z /\ z < lens[s]}

\* A mistake: the longest codeword of a slot is taken for all of them.
SlotEntriesUnfilled(lens, z, after) ==
  {s \in Slot(lens, z) :
     /\ SubSeq(Codeword(lens, s), z + 2, lens[s]) = SubSeq(after, 1, lens[s] - z - 1)
     /\ \A t \in Slot(lens, z) : lens[t] <= lens[s]}

\* The entries of a slot: a codeword is found whatever follows it.
SlotEntries(lens, z, after) ==
  {s \in Slot(lens, z) :
     SubSeq(Codeword(lens, s), z + 2, lens[s]) = SubSeq(after, 1, lens[s] - z - 1)}

\* The entry behind all slots: the symbol of zeros only.
ZeroEntries(lens) == {s \in WithCodeword(lens) : Zeros(Codeword(lens, s)) = lens[s]}

\* max_slot_used: the most zeros in front of a 1.
LastSlot(lens) ==
  CHOOSE z \in 0 .. MaxLen :
    /\ z = 0 \/ Slot(lens, z) # {}
    /\ \A y \in z + 1 .. MaxLen : Slot(lens, y) = {}

\* The symbols the bits stand for: one at most if the code is complete, and none
\* is an error.
ReadSymbol(lens, bits) ==
  LET z == Zeros(bits)
  IN  IF z <= LastSlot(lens)
      THEN SlotEntries(lens, z, SubSeq(bits, z + 2, Len(bits)))
      ELSE ZeroEntries(lens)

-----------------------------------------------------------------------------
(***************************************************************************)
(* from_frequencies.                                                       *)
(***************************************************************************)
Init ==
  /\ freqs \in Frequencies
  /\ lenCounts = [len \in 1 .. MaxLen |-> 0]
  /\ lengths = [s \in DOMAIN freqs |-> 0]
  /\ tablePc = "start"

\* No codeword, or one: beside a lone symbol another gets a codeword as long, so
\* that the code is complete.
StartSmall ==
  /\ tablePc = "start" /\ Cardinality(ActiveSymbols(freqs)) <= 1
  /\ IF ActiveSymbols(freqs) = {} THEN UNCHANGED lengths
     ELSE LET lone    == CHOOSE s \in ActiveSymbols(freqs) : TRUE
              phantom == {s \in DOMAIN freqs : s # lone
                            /\ \A t \in 1 .. s - 1 : t = lone}
          IN  lengths' = [s \in DOMAIN freqs |-> IF s = lone \/ s \in phantom THEN 1 ELSE 0]
  /\ tablePc' = "done"
  /\ UNCHANGED <<freqs, lenCounts>>

\* The tree, its depths cut at MaxLen.
CutDepths ==
  /\ tablePc = "start" /\ Cardinality(ActiveSymbols(freqs)) > 1
  /\ LET depth == Depths(freqs)
         cut   == [s \in DOMAIN freqs |-> IF depth[s] < MaxLen THEN depth[s] ELSE MaxLen]
     IN  lenCounts' = [len \in 1 .. MaxLen |->
                         Cardinality({s \in ActiveSymbols(freqs) : cut[s] = len})]
  /\ tablePc' = "lengthen"
  /\ UNCHANGED <<freqs, lengths>>

Target == 2 ^ MaxLen

Kraft(counts) == SumFunction([len \in 1 .. MaxLen |-> counts[len] * 2 ^ (MaxLen - len)])

Shift(from, to) ==
  lenCounts' = [lenCounts EXCEPT ![from] = @ - 1, ![to] = @ + 1]

First(set) == CHOOSE len \in set : \A other \in set : len <= other
Final(set) == CHOOSE len \in set : \A other \in set : len >= other

\* The length to lengthen: the shortest whose step does not take too much, or
\* else the longest.
Lengthened ==
  LET excess == Kraft(lenCounts) - Target
      some   == {len \in 1 .. MaxLen - 1 : lenCounts[len] > 0}
      fits   == {len \in some : 2 ^ (MaxLen - len - 1) <= excess}
  IN  IF fits # {} THEN {First(fits)} ELSE IF some # {} THEN {Final(some)} ELSE {}

Lengthen ==
  /\ tablePc = "lengthen"
  /\ IF Kraft(lenCounts) > Target /\ Lengthened # {}
     THEN /\ \E len \in Lengthened : Shift(len, len + 1)
          /\ UNCHANGED tablePc
     ELSE tablePc' = "shorten" /\ UNCHANGED lenCounts
  /\ UNCHANGED <<freqs, lengths>>

\* A mistake: the step of the length it moves to is taken for the one it has.
ShortenedLate ==
  LET deficit == Target - Kraft(lenCounts)
      some    == {len \in 2 .. MaxLen : lenCounts[len] > 0}
      fits    == {len \in some : 2 ^ (MaxLen - len + 1) <= deficit}
  IN  IF fits # {} THEN {Final(fits)} ELSE IF some # {} THEN {First(some)} ELSE {}

\* The length to shorten: the longest whose step does not add too much, or else
\* the shortest.
Shortened ==
  LET deficit == Target - Kraft(lenCounts)
      some    == {len \in 2 .. MaxLen : lenCounts[len] > 0}
      fits    == {len \in some : 2 ^ (MaxLen - len) <= deficit}
  IN  IF fits # {} THEN {Final(fits)} ELSE IF some # {} THEN {First(some)} ELSE {}

Shorten ==
  /\ tablePc = "shorten"
  /\ IF Kraft(lenCounts) < Target /\ Shortened # {}
     THEN /\ \E len \in Shortened : Shift(len, len - 1)
          /\ UNCHANGED tablePc
     ELSE tablePc' = "assign" /\ UNCHANGED lenCounts
  /\ UNCHANGED <<freqs, lengths>>

\* The rank of a symbol among the active: the most frequent come first.
Rank(sym) ==
  1 + Cardinality({s \in ActiveSymbols(freqs) :
                     freqs[s] > freqs[sym] \/ (freqs[s] = freqs[sym] /\ s < sym)})

Assign ==
  LET upTo(len) == SumFunction([l \in 1 .. len |-> lenCounts[l]])
  IN  /\ tablePc = "assign"
      /\ lengths' = [s \in DOMAIN freqs |->
           IF s \notin ActiveSymbols(freqs) \/ Rank(s) > upTo(MaxLen) THEN 0
           ELSE First({len \in 1 .. MaxLen : Rank(s) <= upTo(len)})]
      /\ tablePc' = "done"
      /\ UNCHANGED <<freqs, lenCounts>>

Next == StartSmall \/ CutDepths \/ Lengthen \/ Shorten \/ Assign

Spec == Init /\ [][Next]_tableVars

-----------------------------------------------------------------------------
(***************************************************************************)
(* A code of two symbols or more is complete, with a codeword for every    *)
(* symbol that occurs and none longer than MaxLen or than that of a rarer  *)
(* symbol: "keeping the code COMPLETE ... each move preserves the total    *)
(* leaf count" (huffman.rs).                                               *)
(***************************************************************************)
CompleteForItsSymbols ==
  tablePc = "done" /\ ActiveSymbols(freqs) # {} /\ Len(lengths) > 1 =>
    /\ SumFunction([s \in WithCodeword(lengths) |-> 2 ^ (MaxLen - lengths[s])]) = Target
    /\ ActiveSymbols(freqs) \subseteq WithCodeword(lengths)
    /\ Cardinality(ActiveSymbols(freqs)) > 1 => WithCodeword(lengths) = ActiveSymbols(freqs)
    /\ \A s, t \in ActiveSymbols(freqs) : freqs[s] > freqs[t] => lengths[s] <= lengths[t]

(***************************************************************************)
(* A symbol that was written is read, whatever follows it in the stream.   *)
(***************************************************************************)
ReadsWhatIsWritten ==
  tablePc = "done" /\ Len(lengths) > 1 =>
    \A s \in WithCodeword(lengths) :
      \A tail \in [1 .. MaxLen -> {0, 1}] :
        ReadSymbol(lengths, Codeword(lengths, s) \o tail) = {s}
=============================================================================
