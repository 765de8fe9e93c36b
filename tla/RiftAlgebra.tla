------------------------------ MODULE RiftAlgebra ------------------------------
(***************************************************************************)
(* The two operations on rift tables of which the rest is made             *)
(* (src/lzx/rift.rs): the table of b after a, and the inverse of a table.  *)
(***************************************************************************)
EXTENDS RiftTables

-----------------------------------------------------------------------------
(***************************************************************************)
(* RiftTable::multiply: the table of b after a.  Each segment of a - and   *)
(* the region in front of the first, which wraps to the last - is split    *)
(* wherever its image reaches a breakpoint of b.                           *)
(***************************************************************************)
CONSTANT Multiplied      (* the operands: sorted by source *)

MultipliedAreTables == \A operand \in Multiplied : operand \in Table /\ Sorted(operand)

VARIABLES
  a, b,
  out,
  pc,               (* "start", "next", "split" or "done"                  *)
  segment,          (* of a; 0 is the region in front of the first         *)
  source, image,    (* where the piece just emitted starts, and its image  *)
  nextBreak         (* the last position of b's segment the image lies in  *)

multiplyVars == <<a, b, out, pc, segment, source, image, nextBreak>>

MultiplyInit ==
  /\ a \in Multiplied /\ b \in Multiplied
  /\ out = <<>>
  /\ pc = "start"
  /\ segment = 0
  /\ source = 0 /\ image = 0 /\ nextBreak = 0

\* An empty operand is the identity.
StartMultiply ==
  /\ pc = "start"
  /\ IF a = <<>> \/ b = <<>>
     THEN out' = (IF a = <<>> THEN b ELSE a) /\ pc' = "done"
     ELSE pc' = "next" /\ UNCHANGED out
  /\ UNCHANGED <<a, b, segment, source, image, nextBreak>>

SegmentSource == IF segment = 0 THEN Min ELSE a[segment].source
SegmentEnd    == IF segment < Len(a) THEN a[segment + 1].source - 1 ELSE Max
SegmentImage ==
  IF segment = 0 THEN Wrap(Offset(a[Len(a)]) + Min) ELSE a[segment].target

\* No position in front of a first source of Min, nor between equal sources.
EmptySegment == segment < Len(a) /\ a[segment + 1].source = SegmentSource

\* Emits the piece that starts at src with image img.
Emit(src, img) ==
  /\ out' = Append(out, Entry(src, Mapped(b, img)))
  /\ source' = src
  /\ image' = img
  /\ nextBreak' = NextBreak(b, img)

FollowingSegment == segment + 1

SkipSegment ==
  /\ pc = "next" /\ segment <= Len(a) /\ EmptySegment
  /\ segment' = FollowingSegment
  /\ UNCHANGED <<a, b, out, pc, source, image, nextBreak>>

EnterSegment ==
  /\ pc = "next" /\ segment <= Len(a) /\ ~EmptySegment
  /\ Emit(SegmentSource, SegmentImage)
  /\ pc' = "split"
  /\ UNCHANGED <<a, b, segment>>

\* A mistake: a piece is not split whose last position is b's last one but one.
SplitsLate == Unsigned(nextBreak - image) + 1 < Unsigned(SegmentEnd - source)

\* b's segment ends before a's: both widths are unsigned.
Splits == Unsigned(nextBreak - image) < Unsigned(SegmentEnd - source)

Split ==
  /\ pc = "split" /\ Splits
  /\ Emit(Wrap(source + 1 + nextBreak - image), Wrap(nextBreak + 1))
  /\ UNCHANGED <<a, b, pc, segment>>

LeaveSegment ==
  /\ pc = "split" /\ ~Splits
  /\ pc' = "next"
  /\ segment' = FollowingSegment
  /\ UNCHANGED <<a, b, out, source, image, nextBreak>>

Sort ==
  /\ pc = "next" /\ segment > Len(a)
  /\ out' = SortBySource(out)
  /\ pc' = "done"
  /\ UNCHANGED <<a, b, segment, source, image, nextBreak>>

MultiplyNext ==
  \/ StartMultiply
  \/ SkipSegment
  \/ EnterSegment
  \/ Split
  \/ LeaveSegment
  \/ Sort

MultiplySpec == MultiplyInit /\ [][MultiplyNext]_multiplyVars

-----------------------------------------------------------------------------
(***************************************************************************)
(* multiply's promise, result.f(x) == B.f(A.f(x)), at every position of    *)
(* the wrapped number line, the region in front of the first entries       *)
(* included.                                                               *)
(***************************************************************************)
ReturnsProduct ==
  pc = "done" => \A x \in Word : Mapped(out, x) = Mapped(b, Mapped(a, x))

-----------------------------------------------------------------------------
(***************************************************************************)
(* RiftTable::reverse: the inverse of a table.  The segments are walked in *)
(* the order of their positions from 0 on, around the end of the number    *)
(* line; the images met so far are kept as intervals, and an entry of the  *)
(* inverse is emitted where a new image starts and where one continues     *)
(* behind an interval that was there before.                               *)
(*                                                                         *)
(* An interval is [first, end): an end of Min stands for the end of the    *)
(* number line.  The code keeps the intervals in two parallel arrays of    *)
(* twice as many places as there are entries, and would panic beyond.      *)
(***************************************************************************)
CONSTANT Reversed      (* the tables: sorted by source *)

ReversedAreTables == \A operand \in Reversed : operand \in Table /\ Sorted(operand)

VARIABLES
  table,
  inverse,
  reversing,         (* "start", "walk", "clean", "done" or "panic"        *)
  active,            (* the entry whose segment is walked                  *)
  boundary,          (* the entry at which it ends                         *)
  cursor,            (* the position reached                               *)
  intervals

reverseVars == <<table, inverse, reversing, active, boundary, cursor, intervals>>

Source(i) == table[i].source

ReverseInit ==
  /\ table \in Reversed
  /\ inverse = <<>>
  /\ reversing = "start"
  /\ active = 0 /\ boundary = 0
  /\ cursor = 0
  /\ intervals = <<>>

OneSource == \A i \in DOMAIN table : Source(i) = Source(1)

\* The first entry with a positive source.
Positive      == {i \in DOMAIN table : Source(i) > 0}
FirstPositive == CHOOSE i \in Positive : \A j \in Positive : i <= j

\* The segment the walk starts and stops in.
StopSegment ==
  IF Positive = {} \/ FirstPositive = 1 THEN Len(table) ELSE FirstPositive - 1

Following(i) == IF i < Len(table) THEN i + 1 ELSE 1

\* A table of one segment is turned into one entry at 0.
StartReverse ==
  /\ reversing = "start"
  /\ IF table = <<>>
     THEN reversing' = "done" /\ UNCHANGED <<inverse, active, boundary>>
     ELSE IF OneSource
     THEN /\ inverse' = <<Entry(0, Wrap(Offset(table[1])))>>
          /\ reversing' = "done"
          /\ UNCHANGED <<active, boundary>>
     ELSE /\ reversing' = "walk"
          /\ active' = StopSegment
          /\ boundary' = Following(StopSegment)
          /\ UNCHANGED inverse
  /\ UNCHANGED <<table, cursor, intervals>>

SegmentOffset == Wrap(Offset(table[active]))

ImageStart == Wrap(SegmentOffset + cursor)

\* The positions walked at once: up to the end of the segment, but not across
\* the end of the number line in the image.
Span ==
  LET toBoundary == Unsigned(Source(boundary) - cursor)
      toWrap     == Unsigned(Min - SegmentOffset - cursor)
  IN  IF ImageStart # Min /\ toWrap < toBoundary THEN toWrap ELSE toBoundary
ImageEnd == Wrap(ImageStart + Span)

FirstOf(set, otherwise) ==
  IF set = {} THEN otherwise ELSE CHOOSE i \in set : \A j \in set : i <= j

\* The intervals the image touches are those from Touched up to Behind - 1.

\* A mistake: an interval that ends where the image starts is not touched.
TouchedInside ==
  FirstOf({i \in DOMAIN intervals : ImageStart < intervals[i].end \/ intervals[i].end = Min},
          Len(intervals) + 1)

Touched ==
  FirstOf({i \in DOMAIN intervals : ImageStart <= intervals[i].end \/ intervals[i].end = Min},
          Len(intervals) + 1)
Behind ==
  FirstOf({i \in DOMAIN intervals :
             i >= Touched /\ ImageEnd # Min /\ ImageEnd < intervals[i].first},
          Len(intervals) + 1)

\* The entries for the parts of the image no interval holds: in front of the
\* touched ones, between them, and behind the last.
InFront == IF ImageStart < intervals[Touched].first
           THEN <<Entry(ImageStart, cursor)>> ELSE <<>>

\* A mistake: the image is resumed at the position the piece started from.
ResumedAtCursor(e) == Entry(e, cursor)

Resumed(e) == Entry(e, Wrap(e - SegmentOffset))
Between == [k \in 1 .. Behind - 1 - Touched |-> Resumed(intervals[Touched + k - 1].end)]
LastEnd == intervals[Behind - 1].end
AtEnd   == IF LastEnd # Min /\ (ImageEnd = Min \/ LastEnd < ImageEnd)
           THEN <<Resumed(LastEnd)>> ELSE <<>>

Emitted ==
  IF Touched = Behind THEN <<Entry(ImageStart, cursor)>>
  ELSE InFront \o Between \o AtEnd

\* The interval the touched ones and the image become.
Merged ==
  IF Touched = Behind THEN [first |-> ImageStart, end |-> ImageEnd]
  ELSE [first |-> IF ImageStart < intervals[Touched].first
                  THEN ImageStart ELSE intervals[Touched].first,
        end   |-> IF AtEnd = <<>> THEN LastEnd ELSE ImageEnd]

\* replace_reverse_interval, with shift_for_insert.
ReplacedIntervals ==
  SubSeq(intervals, 1, Touched - 1) \o <<Merged>>
    \o SubSeq(intervals, Behind, Len(intervals))

\* A mistake: room for one interval less than there are entries.
CapacityShort == Len(table) - 1

Capacity == 2 * Len(table)

\* The walk is over when the segment it started in is next, or goes on there.
AtBoundary ==
  IF boundary = StopSegment
  THEN reversing' = "clean" /\ UNCHANGED <<active, boundary>>
  ELSE active' = boundary /\ boundary' = Following(boundary) /\ UNCHANGED reversing

Walk ==
  /\ reversing = "walk"
  /\ cursor' = Wrap(cursor + Span)
  /\ IF Span = 0
     THEN UNCHANGED <<inverse, intervals>>
     ELSE inverse' = inverse \o Emitted /\ intervals' = ReplacedIntervals
  /\ IF Len(intervals') > Capacity
     THEN reversing' = "panic" /\ UNCHANGED <<active, boundary>>
     ELSE IF cursor' = Source(boundary)
     THEN AtBoundary
     ELSE UNCHANGED <<reversing, active, boundary>>
  /\ UNCHANGED table

\* What is left: no entry at or to the smallest word, and of those that share a
\* source the last; sorted by their sources, which are all different.
Proper(entry) == entry.source # Min /\ entry.target # Min

Left(entries) ==
  {i \in DOMAIN entries :
     /\ Proper(entries[i])
     /\ \A j \in DOMAIN entries :
          j > i /\ Proper(entries[j]) => entries[j].source # entries[i].source}

Place(entries, i) ==
  Cardinality({j \in Left(entries) : entries[j].source <= entries[i].source})

Cleaned(entries) ==
  [k \in 1 .. Cardinality(Left(entries)) |->
     entries[CHOOSE i \in Left(entries) : Place(entries, i) = k]]

Clean ==
  /\ reversing = "clean"
  /\ inverse' = Cleaned(inverse)
  /\ reversing' = "done"
  /\ UNCHANGED <<table, active, boundary, cursor, intervals>>

ReverseNext == StartReverse \/ Walk \/ Clean

ReverseSpec == ReverseInit /\ [][ReverseNext]_reverseVars

-----------------------------------------------------------------------------
TypeOK ==
  /\ table \in Table /\ inverse \in Table
  /\ reversing \in {"start", "walk", "clean", "done", "panic"}
  /\ active \in 0 .. Len(table) /\ boundary \in 0 .. Len(table)
  /\ cursor \in Word
  /\ intervals \in Seq([first : Word, end : Word])

Apart(ivs) ==
  /\ \A i \in DOMAIN ivs : ivs[i].end = Min \/ ivs[i].first < ivs[i].end
  /\ \A i, j \in DOMAIN ivs : i < j => ivs[i].end # Min /\ ivs[i].end < ivs[j].first

(***************************************************************************)
(* The images met so far are kept as intervals in order, none empty, none  *)
(* touching the next, and only the last reaching the end of the number     *)
(* line: the search for the first interval at an image, which looks at the *)
(* ends alone, and the search for the last, which looks at the starts,     *)
(* both depend on it.  And the arrays that hold them never run full, which *)
(* would be an index out of bounds.                                        *)
(***************************************************************************)
IntervalsApart ==
  TypeOK /\ Apart(intervals) /\ Len(intervals) <= Capacity /\ reversing # "panic"

Preimages(y) == {x \in 0 .. Max : Mapped(table, x) = y}

InvertsFirst ==
  \A y \in 0 .. Max : Preimages(y) # {} =>
    LET x == Mapped(inverse, y)
    IN  x \in Preimages(y) /\ \A other \in Preimages(y) : x <= other

(***************************************************************************)
(* What reverse is for: of a table that starts at 0, a position that is    *)
(* the image of several positions - where segments overlap - is mapped     *)
(* back to the lowest of them, whichever segment that lies in.             *)
(***************************************************************************)
ReturnsInverse ==
  reversing = "done" /\ (\E i \in DOMAIN table : Source(i) = 0) /\ ~OneSource => InvertsFirst

(***************************************************************************)
(* "the inverse map A^-1" (the comment on reverse): a table of one segment *)
(* moves every position by the same distance, and its inverse moves them   *)
(* all back.                                                               *)
(***************************************************************************)
InvertsSingle ==
  reversing = "done" /\ table # <<>> /\ OneSource =>
    \A x \in Word : Mapped(inverse, Mapped(table, x)) = x
=============================================================================
