---------------------------- MODULE LzmsRangeCoder ----------------------------
(***************************************************************************)
(* The range coder of LZMS (crates/lzms/src/range_coder.rs): RangeEncoder  *)
(* codes a sequence of decision bits, RangeDecoder reads them back from    *)
(* the front of the same buffer, and both keep an adaptive probability for *)
(* each context, so that each decision is read with the probability it was *)
(* written with.  The code's 16-bit words, 32-bit range and 64-wide        *)
(* windows are the constants Word and Denominator.                         *)
(*                                                                         *)
(* Decisions are arbitrary bits but the first, which is 0: the compressor  *)
(* has nothing to match at the start of a chunk, so its first main         *)
(* decision is a literal (crates/lzms/src/lib.rs).                         *)
(***************************************************************************)
EXTENDS Integers, Sequences, FiniteSets

CONSTANTS
  Word,            (* 2^16: the unit written and read                      *)
  Denominator,     (* PROB_DENOMINATOR, and the bits of a recent window    *)
  NumContexts,     (* num_states of the table of probabilities             *)
  InitialWindows,  (* the windows a table may start with                   *)
  MaxDecisions     (* bound: the decisions coded                           *)

Bit == {0, 1}

ASSUME RangeCoderConstants ==
  /\ Denominator \in Nat /\ Denominator >= 2
  /\ Word \in Nat /\ Word >= Denominator
  /\ NumContexts \in Nat \ {0}
  /\ InitialWindows \subseteq [1 .. Denominator -> Bit]
  /\ MaxDecisions \in Nat

\* Every window to start from.
AllWindows == [1 .. Denominator -> Bit]

Code == Word * Word       (* the number of values of a u32 *)

-----------------------------------------------------------------------------
(***************************************************************************)
(* ProbEntry: the recent bits, oldest first, and how many of them are 0.   *)
(***************************************************************************)
Zeros(window) == {i \in DOMAIN window : window[i] = 0}

Entry(window) == [recent |-> window, numZeros |-> Cardinality(Zeros(window))]

\* get: never 0 nor 1, so that both bits keep a part of the range.
Probability(entry) ==
  CASE entry.numZeros < 1 -> 1
    [] entry.numZeros > Denominator - 1 -> Denominator - 1
    [] OTHER -> entry.numZeros

Updated(entry, bit) ==
  [recent   |-> [i \in 1 .. Denominator |->
                   IF i = Denominator THEN bit ELSE entry.recent[i + 1]],
   numZeros |-> entry.numZeros - (1 - entry.recent[1]) + (1 - bit)]

\* The adaptive state of one side: the entries and the context of the next bit.
Learned(model, bit) ==
  [probs   |-> [model.probs EXCEPT ![model.context] = Updated(@, bit)],
   context |-> (2 * model.context + bit) % NumContexts]

\* The part of a range that stands for 0.
Bound(range, model) ==
  (range \div Denominator) * Probability(model.probs[model.context])

-----------------------------------------------------------------------------
VARIABLES
  bits,      (* the decisions coded                                        *)
  model,     (* the encoder's probabilities and context                    *)
  enc,       (* RangeEncoder: low, range, cache, count (cache_count), first*)
  words,     (* its output                                                 *)
  flushed,   (* the shifts finish has made                                 *)
  decoded,   (* the decisions read back                                    *)
  dmodel,    (* the decoder's probabilities and context                    *)
  dec        (* RangeDecoder: range, code, pos (words read)                *)

vars == <<bits, model, enc, words, flushed, decoded, dmodel, dec>>

Init ==
  /\ bits = <<>>
  /\ \E windows \in [0 .. NumContexts - 1 -> InitialWindows] :
       model = [probs   |-> [c \in 0 .. NumContexts - 1 |-> Entry(windows[c])],
                context |-> 0]
  /\ enc = [low |-> 0, range |-> Code - 1, cache |-> 0, count |-> 0, first |-> TRUE]
  /\ words = <<>>
  /\ flushed = 0
  /\ decoded = <<>>
  /\ dmodel = model
  /\ dec = [range |-> Code - 1, code |-> 0, pos |-> 0]

\* shift_low: the top word of low is settled unless a carry may still reach
\* it; then it is counted (a word of all ones) and settled with the next.
Overflow(e)  == e.low >= Code
Settled(e)   == e.low < Code - Word \/ Overflow(e)

\* A mistake: a carry stops at the cached word.
EmittedByStopsCarry(e) ==
  IF ~Settled(e) \/ e.first
  THEN <<>>
  ELSE <<(e.cache + (IF Overflow(e) THEN 1 ELSE 0)) % Word>>
         \o [i \in 1 .. e.count |-> Word - 1]

EmittedBy(e) ==
  IF ~Settled(e) \/ e.first
  THEN <<>>
  ELSE <<(e.cache + (IF Overflow(e) THEN 1 ELSE 0)) % Word>>
         \o [i \in 1 .. e.count |-> IF Overflow(e) THEN 0 ELSE Word - 1]

\* A mistake: a word of all ones is settled at once.
ShiftedSettles(e) ==
  [low   |-> (e.low % Word) * Word,
   range |-> (e.range * Word) % Code,
   cache |-> (e.low \div Word) % Word,
   count |-> 0,
   first |-> FALSE]

Shifted(e) ==
  [low   |-> (e.low % Word) * Word,
   range |-> (e.range * Word) % Code,
   cache |-> IF Settled(e) THEN (e.low \div Word) % Word ELSE e.cache,
   count |-> IF Settled(e) THEN 0 ELSE e.count + 1,
   first |-> e.first /\ ~Settled(e)]

\* normalize, which loops while the range is short of a word: never more than
\* once, for the range is not empty (RangeIsNeverEmpty).
Normalized(e)      == IF e.range < Word THEN Shifted(e) ELSE e
NormalizeEmits(e)  == IF e.range < Word THEN EmittedBy(e) ELSE <<>>

Narrowed(e, bit, bound) ==
  IF bit = 0
  THEN [e EXCEPT !.range = bound]
  ELSE [e EXCEPT !.low = @ + bound, !.range = @ - bound]

\* A mistake: the first decision is any bit.
MayCodeAny(bit) == flushed = 0 /\ Len(bits) < MaxDecisions

MayCode(bit) ==
  /\ flushed = 0
  /\ Len(bits) < MaxDecisions
  /\ bits = <<>> => bit = 0

EncodeBit(bit) ==
  /\ MayCode(bit)
  /\ words' = words \o NormalizeEmits(enc)
  /\ enc' = Narrowed(Normalized(enc), bit, Bound(Normalized(enc).range, model))
  /\ model' = Learned(model, bit)
  /\ bits' = Append(bits, bit)
  /\ UNCHANGED <<flushed, decoded, dmodel, dec>>

\* A mistake: two words are flushed, those of low.
FlushesTwo == 2

Flushes == 4

\* finish: one of the shifts that flush the encoder.
Flush ==
  /\ bits # <<>>
  /\ flushed < Flushes
  /\ words' = words \o EmittedBy(enc)
  /\ enc' = Shifted(enc)
  /\ flushed' = flushed + 1
  /\ UNCHANGED <<bits, model, decoded, dmodel, dec>>

\* The word at a position of the stream.  What lies behind the encoder's words,
\* the backward bit stream, stands here as words of 0: ReadsOwnWords says that
\* no one of them is read.
WordAt(p) == IF p < Len(words) THEN words[p + 1] ELSE 0

\* RangeDecoder::new, once the stream is there.
OpenDecoder ==
  /\ flushed = Flushes
  /\ dec.pos = 0
  /\ dec' = [dec EXCEPT !.code = WordAt(0) * Word + WordAt(1), !.pos = 2]
  /\ UNCHANGED <<bits, model, enc, words, flushed, decoded, dmodel>>

\* The decoder's normalize: one word at most.
DecoderNormalized ==
  IF dec.range < Word
  THEN [range |-> (dec.range * Word) % Code,
        code  |-> ((dec.code * Word) % Code) + WordAt(dec.pos),
        pos   |-> dec.pos + 1]
  ELSE dec

\* The compressor and the decompressor make the same decisions, so the decoder
\* is asked for as many bits as were coded.
DecodeBit ==
  LET d     == DecoderNormalized
      bound == Bound(d.range, dmodel)
      bit   == IF d.code < bound THEN 0 ELSE 1
  IN  /\ dec.pos > 0
      /\ Len(decoded) < Len(bits)
      /\ dec' = IF bit = 0
                THEN [d EXCEPT !.range = bound]
                ELSE [d EXCEPT !.range = @ - bound, !.code = @ - bound]
      /\ dmodel' = Learned(dmodel, bit)
      /\ decoded' = Append(decoded, bit)
      /\ UNCHANGED <<bits, model, enc, words, flushed>>

Next ==
  \/ \E bit \in Bit : EncodeBit(bit)
  \/ Flush
  \/ OpenDecoder
  \/ DecodeBit

Spec == Init /\ [][Next]_vars

-----------------------------------------------------------------------------
Models ==
  [probs   : [0 .. NumContexts - 1 ->
                [recent : [1 .. Denominator -> Bit], numZeros : 0 .. Denominator]],
   context : 0 .. NumContexts - 1]

TypeOK ==
  /\ bits \in Seq(Bit) /\ decoded \in Seq(Bit)
  /\ model \in Models /\ dmodel \in Models
  /\ enc \in [low : Nat, range : 0 .. Code - 1, cache : 0 .. Word - 1,
              count : Nat, first : BOOLEAN]
  /\ words \in Seq(0 .. Word - 1)
  /\ flushed \in 0 .. Flushes
  /\ dec \in [range : 0 .. Code - 1, code : 0 .. Code - 1, pos : Nat]

(***************************************************************************)
(* The decoder reads the decisions that were coded, though it sees words   *)
(* the encoder settled later, after carries had run through them.          *)
(***************************************************************************)
DecodesWhatWasCoded == decoded = SubSeq(bits, 1, Len(decoded))

(***************************************************************************)
(* A carry always finds room: the cached word it is added to               *)
(* (wrapping_add, line 68) is never all ones, so it does not wrap and lose *)
(* the carry to the words already written; and no word is counted before   *)
(* one is cached, when shift_low would drop it (`if !self.first').         *)
(***************************************************************************)
CarryHasRoom ==
  /\ enc.cache + 1 < Word
  /\ enc.first => enc.count = 0

\* The range is never empty, so both normalize loops end after one turn (the
\* decoder's is an `if') and both bits keep a part of it.
RangeIsNeverEmpty ==
  /\ flushed = 0 => enc.range > 0
  /\ dec.range > 0

\* The decoder stays inside the part of the range it is told.
CodeStaysInRange == dec.pos > 0 => dec.code < dec.range

(***************************************************************************)
(* The decoder never reads a word the encoder did not write: behind it, in *)
(* the same buffer, lie the words of the backward bit stream.              *)
(***************************************************************************)
ReadsOwnWords == dec.pos <= Len(words)

\* num_zeros is kept incrementally and stays the number of zeros of the window.
CountsTheWindow ==
  \A m \in {model, dmodel} : \A c \in DOMAIN m.probs :
    m.probs[c].numZeros = Cardinality(Zeros(m.probs[c].recent))
=============================================================================
