------------------------------ MODULE RiftTables ------------------------------
(***************************************************************************)
(* Rift tables as piecewise maps (src/lzx/rift.rs, RiftTable): from the    *)
(* source of an entry on, a position x is mapped to x + target - source.   *)
(* Positions are signed words (i64 in the code) and every sum wraps; the   *)
(* few plain subtractions of the code wrap in a release build, too.        *)
(***************************************************************************)
EXTENDS LzxRift

CONSTANT Half     (* half the words: positions are -Half .. Half - 1 *)

ASSUME HalfAssumption == Half \in Nat \ {0}

Word == -Half .. Half - 1
Min  == -Half
Max  == Half - 1

Wrap(n)     == ((n + Half) % (2 * Half)) - Half
Unsigned(n) == (n % (2 * Half))

Entry(source, target) == [source |-> source, target |-> target]

Table == Seq([source : Word, target : Word])

Sorted(table) ==
  \A i, j \in DOMAIN table : i <= j => table[i].source <= table[j].source

StrictlySorted(table) ==
  \A i, j \in DOMAIN table : i < j => table[i].source < table[j].source

\* The entry of the segment pos lies in: the last with a source at or before
\* pos; before the first entry, the last of the table (0 if there is none).
SegmentOf(table, pos) ==
  LET before == {i \in DOMAIN table : table[i].source <= pos}
  IN  IF before = {} THEN Len(table) ELSE CHOOSE i \in before : \A j \in before : j <= i

\* get_rift: the offset that applies at pos ...
RiftOffset(table, pos) ==
  IF table = <<>> THEN 0 ELSE Wrap(Offset(table[SegmentOf(table, pos)]))

\* ... and the last position it applies to.
NextBreak(table, pos) ==
  LET after == {i \in DOMAIN table : table[i].source > pos}
  IN  IF after = {} THEN Max
      ELSE table[CHOOSE i \in after : \A j \in after : i <= j].source - 1

\* Where the table maps a position.
Mapped(table, pos) == Wrap(pos + RiftOffset(table, pos))
=============================================================================
