------------------------------- MODULE LzxRift -------------------------------
(***************************************************************************)
(* Rift tables as the PseudoLzx codec uses them (src/lzx/rift.rs,          *)
(* OffsetRiftTable).  A rift entry [source, target] says that from         *)
(* position `source' on, data that was at x is found at x + target -       *)
(* source.  Both directions of the codec turn the entries they hold into   *)
(* one lookup table over the positions of the combined buffer              *)
(* reference \o output, so the meaning of a symbol depends on it.          *)
(*                                                                         *)
(* Positions and offsets are unbounded integers here; the code holds them  *)
(* in i64 and subtracts with wrapping_sub.  A source may be negative: those*)
(* of a folded PE rift are, and a stream may hold any.                     *)
(***************************************************************************)
EXTENDS Integers, Sequences, FiniteSets

RiftEntry == [source : Int, target : Int]

(***************************************************************************)
(* sort_by_key(|e| e.source): stable, so equal sources keep their order.   *)
(***************************************************************************)
Before(entries, i, j) ==
  \/ entries[i].source < entries[j].source
  \/ entries[i].source = entries[j].source /\ i <= j

Rank(entries, j) == Cardinality({i \in DOMAIN entries : Before(entries, i, j)})

SortBySource(entries) ==
  [k \in DOMAIN entries |->
     entries[CHOOSE i \in DOMAIN entries : Rank(entries, i) = k]]

(***************************************************************************)
(* The table of a codec run: the entries, the boundary {ref_len, 0} pushed *)
(* behind them, sorted; in front of it an entry at 0 with the offset of    *)
(* the last one, because the region before the first breakpoint wraps to   *)
(* the final segment.                                                      *)
(***************************************************************************)
Offset(entry) == entry.target - entry.source

OffsetRiftTable(entries, refLen) ==
  LET sorted  == SortBySource(Append(entries, [source |-> refLen, target |-> 0]))
      initial == [at |-> 0, offset |-> Offset(sorted[Len(sorted)])]
  IN  <<initial>> \o [k \in DOMAIN sorted |->
                        [at |-> sorted[k].source, offset |-> Offset(sorted[k])]]

\* What binary_search_by_key needs of a table, and every lookup an answer: it
\* starts at position 0, and behind that entry it is sorted.  Entries with a
\* negative source are out of order there, but at no position of the buffer does
\* that show: all of them lie at or before it, as the first does.
IsLookupTable(ort) ==
  /\ ort \in Seq([at : Int, offset : Int])
  /\ Len(ort) > 0
  /\ ort[1].at = 0
  /\ \A i, j \in 2 .. Len(ort) : i <= j => ort[i].at <= ort[j].at

(***************************************************************************)
(* segment_at's index: the last entry at or before pos.  Where several     *)
(* entries share a position, binary_search_by_key may by its documentation *)
(* return any of them; the library the crate builds with returns the last. *)
(***************************************************************************)
SegmentIndex(ort, pos) ==
  CHOOSE i \in DOMAIN ort :
    /\ ort[i].at <= pos
    /\ \A j \in DOMAIN ort : ort[j].at <= pos => j <= i

OffsetAt(ort, pos) == ort[SegmentIndex(ort, pos)].offset

\* The number of positions from pos to the next breakpoint, at most `limit'
\* (next_bp is i64::MAX behind the last entry).
UpToBreak(ort, pos, limit) ==
  LET i == SegmentIndex(ort, pos)
  IN  IF i = Len(ort) \/ ort[i + 1].at - pos > limit
      THEN limit
      ELSE ort[i + 1].at - pos
=============================================================================
