---------------------------- MODULE CompositeFormat ----------------------------
(***************************************************************************)
(* The tables at the head of a PseudoLzx stream: the boundaries of the     *)
(* segments, and for each segment the lengths of its codewords, coded      *)
(* against those of the segment before in single lengths, differences and  *)
(* runs (encode_compression_lengths in src/lzx/encode.rs and               *)
(* read_compression_lengths in src/lzx/decode.rs).                         *)
(*                                                                         *)
(* A symbol of the pre-tree is a record of its kind and number, with the   *)
(* value and the width of the bits behind it; the pre-tree's own codewords *)
(* are those of HuffmanTable.                                              *)
(***************************************************************************)
EXTENDS Integers, SequencesExt

CONSTANTS
  MaxRun,       (* 127: the longest run                                    *)
  MaxCodeLen,   (* 16: lengths above are malformed                         *)
  MaxSegments,  (* 1024                                                    *)
  Formats       (* bound: the formats written, [boundaries, segments]      *)

(***************************************************************************)
(* All segments have as many lengths, those of the three tables one behind *)
(* the other, and each ends at a boundary; a length is a byte, and no run  *)
(* is longer than its number can say.                                      *)
(***************************************************************************)
ASSUME FormatAssumption ==
  /\ MaxRun \in 1 .. 127 /\ MaxCodeLen \in 0 .. 255 /\ MaxSegments \in Nat
  /\ \A f \in Formats :
       /\ f = [boundaries |-> f.boundaries, segments |-> f.segments]
       /\ Len(f.segments) \in 1 .. MaxSegments
       /\ f.boundaries \in [1 .. Len(f.segments) -> Int]
       /\ \E n \in {Len(f.segments[1])} :
            n \in Nat \ {0} /\ f.segments \in [1 .. Len(f.segments) -> [1 .. n -> 0 .. MaxCodeLen]]

VARIABLES
  format,    (* the format written: boundaries, and lengths per segment    *)
  header,    (* the numbers in front: the count and the boundaries' steps  *)
  symbols,   (* the symbols written, by segment                            *)
  formatPc,  (* "write", "read", "done" or "malformed"                     *)
  segment,   (* the segment written or read                                *)
  at,        (* the lengths of it that have been written or read           *)
  result     (* what has been read: boundaries, and lengths per segment    *)

formatVars == <<format, header, symbols, formatPc, segment, at, result>>

Least(a, b) == IF a < b THEN a ELSE b

Zeros(lengths) == [i \in DOMAIN lengths |-> 0]

\* The lengths of the segment before; none before the first.
Previous(segments) ==
  IF segment = 1 THEN Zeros(format.segments[1]) ELSE segments[segment - 1]

Single(number) == [kind |-> "length", number |-> number, bits |-> 0, extra |-> 0]
Step(diff)     == [kind |-> "step", number |-> diff, bits |-> 0, extra |-> 0]

Powers == <<2, 4, 8, 16, 32, 64, 128>>

\* encode_run_count: the power of two below the count, and the rest as bits.
RunOf(kind, count) ==
  LET power == CHOOSE p \in 1 .. 6 : Powers[p] <= count /\ count < Powers[p + 1]
  IN  IF count < 4
      THEN [kind |-> kind, number |-> count - 1, bits |-> 0, extra |-> 0]
      ELSE [kind |-> kind, number |-> power + 1, bits |-> power, extra |-> count - Powers[power]]

\* What a reader takes a run for: a number of three or more stands for a power.
CountOf(run) ==
  IF run.number < 3 THEN run.number + 1 ELSE Powers[run.number - 1] + run.extra

-----------------------------------------------------------------------------
FormatInit ==
  /\ format \in Formats
  /\ header = <<>>
  /\ symbols = [s \in DOMAIN format.segments |-> <<>>]
  /\ formatPc = "write" /\ segment = 1 /\ at = 0
  /\ result = [boundaries |-> <<>>, segments |-> <<>>]

Lengths == format.segments[segment]

\* A mistake: a run may take the last length of all.
RunEndWhole == Len(Lengths)

\* msdelta does not accept a run that covers the last length.
RunEnd == Len(Lengths) - 1

\* The longest run from here on of lengths with Same, cut.
Run(Same(_)) ==
  LET fits == {n \in 0 .. Least(MaxRun, RunEnd - at) : \A i \in at + 1 .. at + n : Same(i)}
  IN  IF fits = {} THEN 0 ELSE CHOOSE n \in fits : \A m \in fits : m <= n

RunOfPrevious ==
  IF at + 3 < Len(Lengths)
  THEN Run(LAMBDA i : Lengths[i] = Previous(format.segments)[i]) ELSE 0

RunOfSame ==
  IF at > 0 THEN Run(LAMBDA i : Lengths[i] = Lengths[at]) ELSE 0

Write(symbol, count) ==
  /\ symbols' = [symbols EXCEPT ![segment] = Append(@, symbol)]
  /\ at' = at + count
  /\ UNCHANGED <<format, header, formatPc, segment, result>>

WriteLengths ==
  /\ formatPc = "write" /\ at < Len(Lengths)
  /\ LET diff == Lengths[at + 1] - Previous(format.segments)[at + 1]
     IN  IF RunOfPrevious >= 4
         THEN Write(RunOf("previous", RunOfPrevious), RunOfPrevious)
         ELSE IF RunOfSame >= 4 THEN Write(RunOf("same", RunOfSame), RunOfSame)
         ELSE IF diff \in -3 .. 3 \ {0} THEN Write(Step(diff), 1)
         ELSE Write(Single(Lengths[at + 1]), 1)

WriteNextSegment ==
  /\ formatPc = "write" /\ at = Len(Lengths) /\ segment < Len(format.segments)
  /\ segment' = segment + 1
  /\ at' = 0
  /\ UNCHANGED <<format, header, symbols, formatPc, result>>

\* The boundaries are written as steps from one to the next.
Steps(boundaries) ==
  [b \in DOMAIN boundaries |-> boundaries[b] - IF b = 1 THEN 0 ELSE boundaries[b - 1]]

WriteHeader ==
  /\ formatPc = "write" /\ at = Len(Lengths) /\ segment = Len(format.segments)
  /\ header' = <<Len(format.segments)>> \o Steps(format.boundaries)
  /\ formatPc' = "read"
  /\ segment' = 0 /\ at' = 0
  /\ UNCHANGED <<format, symbols, result>>

\* The sums of the steps.
Boundaries(steps) ==
  LET Sum[b \in 0 .. Len(steps)] == IF b = 0 THEN 0 ELSE Sum[b - 1] + steps[b]
  IN  [b \in DOMAIN steps |-> Sum[b]]

ReadHeader ==
  /\ formatPc = "read" /\ segment = 0
  /\ IF header[1] \in 1 .. MaxSegments
     THEN /\ result' = [boundaries |-> Boundaries(Tail(header)), segments |-> <<<<>>>>]
          /\ segment' = 1
          /\ UNCHANGED formatPc
     ELSE formatPc' = "malformed" /\ UNCHANGED <<result, segment>>
  /\ UNCHANGED <<format, header, symbols, at>>

\* The lengths a symbol stands for, behind those read; a length is a byte.
LengthsOf(symbol) ==
  LET read     == result.segments[segment]
      previous == Previous(result.segments)
  IN  CASE symbol.kind = "length"   -> <<symbol.number>>
        [] symbol.kind = "step"     -> <<(previous[Len(read) + 1] + symbol.number) % 256>>
        [] symbol.kind = "previous" ->
             SubSeq(previous, Len(read) + 1, Len(read) + CountOf(symbol))
        [] symbol.kind = "same"     -> [i \in 1 .. CountOf(symbol) |-> Last(read)]

IsRun(symbol) == symbol.kind \in {"previous", "same"}

ReadLengths ==
  LET symbol == symbols[segment][at + 1]
      known  == Len(result.segments[segment])
  IN  /\ formatPc = "read" /\ segment > 0 /\ known < Len(Lengths)
      /\ IF \/ IsRun(symbol) /\ known + CountOf(symbol) > Len(Lengths)
            \/ symbol.kind = "same" /\ known = 0
         THEN formatPc' = "malformed" /\ UNCHANGED <<result, at>>
         ELSE /\ result' = [result EXCEPT !.segments[segment] = @ \o LengthsOf(symbol)]
              /\ at' = at + 1
              /\ UNCHANGED formatPc
      /\ UNCHANGED <<format, header, symbols, segment>>

\* A table with a length above MaxCodeLen is refused once it is read.
ReadNextSegment ==
  LET read == result.segments[segment]
  IN  /\ formatPc = "read" /\ segment > 0 /\ Len(read) = Len(Lengths)
      /\ IF \E i \in DOMAIN read : read[i] > MaxCodeLen
         THEN formatPc' = "malformed" /\ UNCHANGED <<result, segment, at>>
         ELSE IF segment < header[1]
         THEN /\ segment' = segment + 1 /\ at' = 0
              /\ result' = [result EXCEPT !.segments = Append(@, <<>>)]
              /\ UNCHANGED formatPc
         ELSE formatPc' = "done" /\ UNCHANGED <<result, segment, at>>
      /\ UNCHANGED <<format, header, symbols>>

FormatNext ==
  \/ WriteLengths
  \/ WriteNextSegment
  \/ WriteHeader
  \/ ReadHeader
  \/ ReadLengths
  \/ ReadNextSegment

FormatSpec == FormatInit /\ [][FormatNext]_formatVars

-----------------------------------------------------------------------------
(***************************************************************************)
(* The reader arrives at the boundaries and lengths that were written, and *)
(* has used up the symbols of every segment.                               *)
(***************************************************************************)
ReadsTheFormat ==
  /\ formatPc # "malformed"
  /\ formatPc = "done" => result = format /\ at = Len(symbols[segment])

(***************************************************************************)
(* "a run may NOT cover the final length entry ... the encoder must cap    *)
(* runs ..., leaving the last entry to an individual code" (encode.rs).    *)
(***************************************************************************)
LastLengthIsSingle ==
  formatPc = "read" => \A s \in DOMAIN symbols : ~IsRun(symbols[s][Len(symbols[s])])

\* The tables at the head of a stream are read as they were written, and are such as
\* msdelta accepts (write_composite_format_multi, read_composite_format).
FormatArrives == ReadsTheFormat /\ LastLengthIsSingle
=============================================================================
