----------------------------- MODULE ReverseDelta -----------------------------
(***************************************************************************)
(* The reversal data of a delta and its application (pa30/reverse.rs): the *)
(* source is rebuilt from the target by sections that copy runs of the     *)
(* target, put deleted runs back from a blob and set single bytes.         *)
(*                                                                         *)
(* The repository applies reversal data and writes none: the writer is     *)
(* external.  It copies up to two runs, which need agree only here and     *)
(* there and may be longer than a buffer, puts back what no run covers and *)
(* sets the bytes the runs got wrong.  A blob that is compressed is read   *)
(* by XpressHuffman.  Positions count from 0.                              *)
(***************************************************************************)
EXTENDS Integers, Sequences, SequencesExt, FiniteSetsExt

CONSTANTS
  RevSources,   (* bound: the sources to rebuild                           *)
  RevTargets,   (* bound: the targets they are rebuilt from                *)
  RunStarts,    (* bound: where a run starts in either buffer              *)
  RunLengths,   (* bound: the length a run is given                        *)
  Damages       (* bound: what can be wrong with the data                  *)

VARIABLES
  base,         (* the source to rebuild                                   *)
  target,       (* the reference of the reversal                           *)
  sections,     (* the sections of the data                                *)
  damage,       (* what is wrong with the data                             *)
  revOut,       (* out                                                     *)
  sectionAt,    (* the sections read                                       *)
  revPc         (* what comes next                                         *)

revVars == <<base, target, sections, damage, revOut, sectionAt, revPc>>

Cell(buffer, p) == buffer[p + 1]
Indices(buffer) == 0 .. Len(buffer) - 1
Least(S)        == Min(S)

RevInit ==
  /\ base \in RevSources /\ target \in RevTargets
  /\ sections = <<>> /\ damage = "none" /\ revOut = <<>> /\ sectionAt = 0
  /\ revPc = "write"

-----------------------------------------------------------------------------
(***************************************************************************)
(* External: the writer.  A table's entries are in the order of their left *)
(* ends, and the lengths of a copy section follow in the same order.       *)
(***************************************************************************)
Runs == [left : RunStarts, right : RunStarts, len : RunLengths]

\* What apply_copy makes of a run, seen by the writer: the bytes both buffers hold.
Reach(run) ==
  IF run.left < 0 \/ run.right < 0 THEN 0
  ELSE Max({0, Least({run.len, Len(base) - run.left, Len(target) - run.right})})
Covered(run) == run.left .. run.left + Reach(run) - 1

Copied(runs, p) ==
  LET last == Max({i \in DOMAIN runs : p \in Covered(runs[i])})
  IN  Cell(target, runs[last].right + p - runs[last].left)

\* The maximal intervals of a set of positions, from the left.
Intervals(S) ==
  LET starts == {p \in S : p - 1 \notin S}
      size(p) == Least({n \in 1 .. Cardinality(S) : p + n \notin S})
  IN  SetToSortSeq({<<p, size(p)>> : p \in starts}, LAMBDA a, b : a[1] < b[1])

DeletesOf(gaps) ==
  LET at(i) == SubSeq(base, gaps[i][1] + 1, gaps[i][1] + gaps[i][2])
  IN  [entries |-> [i \in DOMAIN gaps |-> [source |-> gaps[i][1], target |-> gaps[i][2]]],
       blob |-> FlattenSeq([i \in DOMAIN gaps |-> at(i)])]

\* A byte may be set twice: its first entry is the one that counts.
PatchesOf(wrong, twice) ==
  LET entry(p) == [source |-> p, target |-> Cell(base, p)]
      again(p) == [source |-> p, target |-> 1 - Cell(base, p)]
  IN  FlattenSeq([i \in DOMAIN wrong |->
        IF twice THEN <<entry(wrong[i]), again(wrong[i])>> ELSE <<entry(wrong[i])>>])

WriteReversal ==
  /\ revPc = "write"
  /\ \E runs \in {<<>>} \cup {<<a>> : a \in Runs}
                  \cup {<<a, b>> : a, b \in Runs} :
       /\ Len(runs) = 2 => runs[1].left <= runs[2].left
       /\ LET covered == UNION {Covered(runs[i]) : i \in DOMAIN runs}
              gaps    == Intervals(Indices(base) \ covered)
              wrong   == SetToSortSeq({p \in covered : Copied(runs, p) # Cell(base, p)},
                                      LAMBDA a, b : a < b)
          IN  \E twice, deletesFirst \in BOOLEAN :
                LET copies  == [type |-> 0,
                                entries |-> [i \in DOMAIN runs |->
                                  [source |-> runs[i].left, target |-> runs[i].right]],
                                lengths |-> [i \in DOMAIN runs |-> runs[i].len]]
                    deletes == [type |-> 1] @@ DeletesOf(gaps)
                    patches == [type |-> 2, entries |-> PatchesOf(wrong, twice)]
                IN  sections' = (IF deletesFirst THEN <<deletes, copies>> ELSE <<copies, deletes>>)
                                \o <<patches>>
  /\ revPc' = "send"
  /\ UNCHANGED <<base, target, damage, revOut, sectionAt>>

\* External: the data arrives, and one thing may be wrong with it.
Damaged(how, data) ==
  [i \in DOMAIN data |->
     CASE how = "type" /\ i = 2 -> [data[i] EXCEPT !.type = 3]
       [] how = "blob" /\ data[i].type = 1 /\ data[i].blob # <<>> ->
            [data[i] EXCEPT !.blob = Tail(@)]
       [] how = "place" /\ data[i].type = 1 /\ data[i].entries # <<>> ->
            [data[i] EXCEPT !.entries[Len(data[i].entries)].source = Len(base)]
       [] how = "length" /\ data[i].type = 1 /\ data[i].entries # <<>> ->
            [data[i] EXCEPT !.entries[1].target = -1]
       [] OTHER -> data[i]]

Send ==
  /\ revPc = "send"
  /\ damage' \in Damages
  /\ sections' = Damaged(damage', sections)
  /\ revPc' = "begin"
  /\ UNCHANGED <<base, target, revOut, sectionAt>>

-----------------------------------------------------------------------------
(***************************************************************************)
(* apply_reversal: a section at a time while there is data left; the count *)
(* of the sections is not looked at.                                       *)
(***************************************************************************)
Begin ==
  /\ revPc = "begin"
  /\ IF damage = "magic" THEN revPc' = "refused" /\ UNCHANGED revOut
     ELSE revPc' = "apply" /\ revOut' = [i \in 1 .. Len(base) |-> 0]
  /\ UNCHANGED <<base, target, sections, damage, sectionAt>>

\* checked_range.
InRange(start, len, size) == start >= 0 /\ len >= 0 /\ start + len <= size

Overwritten(out, start, bytes) ==
  [i \in DOMAIN out |-> IF i \in start + 1 .. start + Len(bytes) THEN bytes[i - start] ELSE out[i]]

\* A value after each of the entries 1, 2, ... of a list.
AfterEach(n, first, Step(_, _)) ==
  LET After[i \in 0 .. n] == IF i = 0 THEN first ELSE Step(After[i - 1], i)
  IN  After[n]

NotNegative(n) == IF n < 0 THEN 0 ELSE n

\* A mistake: a run is not cut where the target ends.
ClampedToOut(run, len) == Least({len, Len(revOut) - NotNegative(run.source)})

\* apply_copy: a run is cut to both buffers; one that starts before either is skipped.
Clamped(run, len) ==
  Least({len, Len(revOut) - NotNegative(run.source), Len(target) - NotNegative(run.target)})
CopyRun(out, run, len) ==
  LET n == Clamped(run, len)
  IN  IF n > 0 /\ InRange(run.source, n, Len(out)) /\ InRange(run.target, n, Len(target))
      THEN Overwritten(out, run.source, SubSeq(target, run.target + 1, run.target + n))
      ELSE out

ApplyCopy(section) ==
  /\ section.type = 0
  /\ revOut' = AfterEach(Len(section.entries), revOut,
                 LAMBDA out, i : CopyRun(out, section.entries[i], section.lengths[i]))
  /\ revPc' = revPc

\* apply_deletes: a run behind the one before it in the blob, where both must fit.
Cursor(entries, i) ==
  AfterEach(i - 1, 0, LAMBDA cursor, j : cursor + entries[j].target)
DeleteFits(section, i) ==
  LET entry == section.entries[i]
  IN  /\ entry.target >= 0
      /\ Cursor(section.entries, i) + entry.target <= Len(section.blob)
      /\ InRange(entry.source, entry.target, Len(revOut))

ApplyDeletes(section) ==
  /\ section.type = 1
  /\ IF \A i \in DOMAIN section.entries : DeleteFits(section, i)
     THEN /\ revOut' = AfterEach(Len(section.entries), revOut,
                LAMBDA out, i :
                  LET cursor == Cursor(section.entries, i)
                  IN  Overwritten(out, section.entries[i].source,
                        SubSeq(section.blob, cursor + 1, cursor + section.entries[i].target)))
          /\ revPc' = revPc
     ELSE revPc' = "refused" /\ UNCHANGED revOut

\* apply_patches: from the last entry to the first; one that is out of place is skipped.
ApplyPatches(section) ==
  LET n == Len(section.entries)
  IN  /\ section.type = 2
      /\ revOut' = AfterEach(n, revOut,
           LAMBDA out, i :
             LET entry == section.entries[n + 1 - i]
             IN  IF entry.source \in Indices(out)
                 THEN Overwritten(out, entry.source, <<entry.target>>) ELSE out)
      /\ revPc' = revPc

InvalidType(section) == section.type \notin 0 .. 2 /\ revPc' = "refused" /\ UNCHANGED revOut

ReadSection ==
  /\ revPc = "apply" /\ sectionAt < Len(sections)
  /\ LET section == sections[sectionAt + 1]
     IN  \/ ApplyCopy(section) \/ ApplyDeletes(section)
         \/ ApplyPatches(section) \/ InvalidType(section)
  /\ sectionAt' = sectionAt + 1
  /\ UNCHANGED <<base, target, sections, damage>>

RevNext == WriteReversal \/ Send \/ Begin \/ ReadSection

-----------------------------------------------------------------------------
\* Reversal data the writer made for a pair rebuilds the source, whatever runs it
\* took, and only damaged data is refused (apply_reversal).
ReversalRebuilds ==
  /\ revPc = "apply" /\ sectionAt = Len(sections) /\ damage = "none" => revOut = base
  /\ revPc = "refused" => damage # "none"
=============================================================================
