------------------------------ MODULE LzxEncoder ------------------------------
(***************************************************************************)
(* compress_inner (src/lzx/encode.rs): the PseudoLzx encoder.  It parses   *)
(* the target into literals and matches against reference \o target, then  *)
(* writes the symbols, switching Huffman tables at segment boundaries.     *)
(*                                                                         *)
(* best_match_at returns some match of the hash chain, or none: which one  *)
(* depends on hash collisions, the chain's depth limit and a score in      *)
(* bits, and lazy matching may put a literal before it.  None of that      *)
(* decides whether the delta is right ("any valid parse round-trips", 237) *)
(* so the parse is any sequence of literals and usable matches.  How a     *)
(* match is classed, capped and admitted is as in the code.                *)
(***************************************************************************)
EXTENDS LzxRift, FiniteSetsExt

CONSTANTS
  OffsetBias,      (* OFFSET_BIAS                                          *)
  MaxRawDistance,  (* the largest raw distance with a main symbol          *)
  MaxMatch,        (* MAX_MATCH: where the search for a longer match stops *)
  SegmentSize,     (* SEGMENT_SIZE: output per set of Huffman tables       *)
  MaxSegments      (* segments the splitter stops at (8)                   *)

SourceCopy    == 2 * OffsetBias
LruBase       == SourceCopy + 1
RawOffsetBase == SourceCopy + 3

VARIABLES
  reference, rift, target,   (* the inputs; never change                   *)
  offsets,                   (* the OffsetRiftTable, as the decoder's      *)
  parsed,                    (* i: the bytes of the target parsed          *)
  recent,                    (* lru: the three recent distances            *)
  symbols,                   (* the symbols collected                      *)
  split,                     (* the segments found                         *)
  stream,                    (* the symbols written, with their tables     *)
  boundaries                 (* the segment boundaries written             *)

inputs == <<reference, rift, target>>
vars   == <<inputs, offsets, parsed, recent, symbols, split, stream, boundaries>>

Combined == reference \o target
ByteAt(p) == Combined[p + 1]

\* The combined position of the next byte to parse.
Here == Len(reference) + parsed

\* The positions in the hash chains when p is looked up: of the reference all
\* but its last two, of the target those passed that three bytes follow.
Indexed(p) ==
  {q \in 0 .. p - 1 : /\ q + 2 < Len(Combined)
                      /\ q < Len(reference) => q + 2 < Len(reference)}

\* How far the bytes at q and at p agree: to the end of the target or MaxMatch.
AgreedLength(q, p) ==
  LET c == Combined
  IN  Max({n \in 0 .. Min({MaxMatch, Len(c) - p}) :
             \A k \in 1 .. n : c[q + k] = c[p + k]})

(***************************************************************************)
(* The wire offset of a match at q, cheapest class first.                  *)
(***************************************************************************)
\* A mistake: the rift offset is forgotten.
SignedDeltaWithoutRift(distance) == distance + OffsetBias

SignedDelta(distance) == distance + OffsetBias + OffsetAt(offsets, Here)

WireOffset(q) ==
  LET distance == Here - q
      slots    == {i \in 1 .. 3 : recent[i] = distance}
  IN  IF q < Len(reference) /\ distance = -OffsetAt(offsets, Here)
      THEN SourceCopy
      ELSE IF slots # {}
      THEN LruBase + Min(slots) - 1
      ELSE IF SignedDelta(distance) \in 0 .. SourceCopy - 1
      THEN SignedDelta(distance)
      ELSE RawOffsetBase + distance

\* match_fits_table: a raw distance needs a main symbol; the rest have one.
FitsTable(raw) == raw > LruBase + 2 => raw - RawOffsetBase \in 1 .. MaxRawDistance

\* A mistake: a SOURCE_COPY is as long as the bytes agree.
CappedLengthNot(raw, n) == n

\* A SOURCE_COPY stops at the next breakpoint, where the decoder re-anchors it
\* (if there is anything before the breakpoint: `cap > 0').
CappedLength(raw, n) ==
  IF raw = SourceCopy /\ UpToBreak(offsets, Here, n) > 0
  THEN UpToBreak(offsets, Here, n)
  ELSE n

\* What best_match_at may return at the current position.
UsableMatches ==
  {m \in {[raw      |-> WireOffset(q),
           length   |-> CappedLength(WireOffset(q), AgreedLength(q, Here)),
           distance |-> Here - q] :
            q \in {q \in Indexed(Here) : AgreedLength(q, Here) >= 3}} :
     m.length >= 2 /\ FitsTable(m.raw)}

LruUpdate(queue, distance) ==
  IF queue[1] = distance
  THEN queue
  ELSE <<distance, queue[1], IF queue[2] = distance THEN queue[3] ELSE queue[2]>>

EmitLiteral ==
  /\ parsed < Len(target)
  /\ symbols' = Append(symbols, [literal |-> TRUE, raw |-> target[parsed + 1], length |-> 1])
  /\ parsed' = parsed + 1
  /\ UNCHANGED <<inputs, offsets, recent, split, stream, boundaries>>

EmitMatch(m) ==
  /\ parsed < Len(target)
  /\ symbols' = Append(symbols, [literal |-> FALSE, raw |-> m.raw, length |-> m.length])
  /\ recent' = LruUpdate(recent, m.distance)
  /\ parsed' = parsed + m.length
  /\ UNCHANGED <<inputs, offsets, split, stream, boundaries>>

(***************************************************************************)
(* The segment splitter, one symbol at a time: a segment ends with the     *)
(* symbol that brings it to SegmentSize bytes, unless MaxSegments is       *)
(* reached.  starts holds the index of the first symbol of each segment,   *)
(* bounds its position.  Targets of at most two segments are not split.    *)
(***************************************************************************)
OneSegment ==
  [bounds |-> <<Len(reference)>>, starts |-> <<1>>, total |-> 0, filled |-> 0, seen |-> 0]

Init ==
  /\ offsets = OffsetRiftTable(rift, Len(reference))
  /\ parsed = 0
  /\ recent = <<0, 0, 0>>
  /\ symbols = <<>>
  /\ split = OneSegment
  /\ stream = <<>>
  /\ boundaries = <<>>

Parsed == parsed = Len(target)

\* A mistake: a boundary is put before the symbol that fills the segment.
SplitBeforeSymbol ==
  LET n      == split.seen + 1
      total  == split.total + symbols[n].length
      filled == split.filled + symbols[n].length
  IN  /\ Parsed
      /\ Len(target) > 2 * SegmentSize /\ split.seen < Len(symbols)
      /\ split' = IF filled >= SegmentSize /\ Len(split.starts) < MaxSegments
                  THEN [bounds |-> Append(split.bounds, Len(reference) + split.total),
                        starts |-> Append(split.starts, n + 1),
                        total |-> total, filled |-> 0, seen |-> n]
                  ELSE [split EXCEPT !.total = total, !.filled = filled, !.seen = n]
      /\ UNCHANGED <<inputs, offsets, parsed, recent, symbols, stream, boundaries>>

ToSplit == Len(target) > 2 * SegmentSize /\ split.seen < Len(symbols)

SplitAtSymbol ==
  LET n      == split.seen + 1
      total  == split.total + symbols[n].length
      filled == split.filled + symbols[n].length
  IN  /\ Parsed
      /\ ToSplit
      /\ split' = IF filled >= SegmentSize /\ Len(split.starts) < MaxSegments
                  THEN [bounds |-> Append(split.bounds, Len(reference) + total),
                        starts |-> Append(split.starts, n + 1),
                        total |-> total, filled |-> 0, seen |-> n]
                  ELSE [split EXCEPT !.total = total, !.filled = filled, !.seen = n]
      /\ UNCHANGED <<inputs, offsets, parsed, recent, symbols, stream, boundaries>>

\* The segment whose tables symbol number n is written with.
SegmentOf(n) == Max({s \in DOMAIN split.starts : split.starts[s] <= n})

Write ==
  /\ Parsed
  /\ ~ToSplit
  /\ boundaries = <<>>
  /\ boundaries' = split.bounds
  /\ stream' = [n \in DOMAIN symbols |->
                  [symbol |-> symbols[n], tables |-> SegmentOf(n)]]
  /\ UNCHANGED <<inputs, offsets, parsed, recent, symbols, split>>

Next ==
  \/ EmitLiteral
  \/ \E m \in UsableMatches : EmitMatch(m)
  \/ SplitAtSymbol
  \/ Write
=============================================================================
