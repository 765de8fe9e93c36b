------------------------------ MODULE PeCopyRift ------------------------------
(***************************************************************************)
(* The rift a PE delta is copied with (src/pa30/mod.rs,                    *)
(* build_pe_copy_rift_with_cli_rift): the map of the source's file offsets *)
(* to RVAs, multiplied by the map of RVAs to the target's and by the       *)
(* target's map of RVAs to file offsets, reversed, merged with the rift of *)
(* the metadata, and moved behind the reference, where the decoder copies  *)
(* to.  Composes multiply (twice) and reverse of RiftAlgebra; the          *)
(* decoder's lookup is that of LzxRift.                                    *)
(***************************************************************************)
EXTENDS RiftAlgebra

CONSTANTS
  Io2Rvas,           (* build_pe_io2rva of the sources considered           *)
  PreprocessRifts, PeRifts, CliRifts,      (* from the preprocess of a delta *)
  RefLens

ASSUME PeAssumption ==
  /\ \A t \in Io2Rvas \cup PreprocessRifts \cup PeRifts \cup CliRifts :
       t \in Table /\ Sorted(t)
  /\ RefLens \subseteq 0 .. Max

\* build_pe_io2rva puts [0, 0] in front of the sections, none of which starts at 0.
ASSUME HeaderAssumption ==
  \A t \in Io2Rvas :
    /\ \E i \in DOMAIN t : t[i].source = 0
    /\ \A i \in DOMAIN t : t[i].source = 0 => t[i].target = 0

VARIABLES
  io2rva, preprocessRift, peRift, cliRift, refLen,
  parses,            (* whether the reference is a PE image                *)
  phase,             (* "start", "preprocess", "pe", "reverse", "fold" or "done" *)
  copyRift           (* the result                                         *)

inputs == <<io2rva, preprocessRift, peRift, cliRift, refLen, parses>>
vars   == <<inputs, phase, copyRift, multiplyVars, reverseVars>>

Init ==
  /\ io2rva \in Io2Rvas
  /\ preprocessRift \in PreprocessRifts /\ peRift \in PeRifts /\ cliRift \in CliRifts
  /\ refLen \in RefLens
  /\ parses \in BOOLEAN
  /\ phase = "start"
  /\ copyRift = <<>>
  /\ a = io2rva /\ b = preprocessRift
  /\ out = <<>> /\ pc = "start" /\ segment = 0
  /\ source = 0 /\ image = 0 /\ nextBreak = 0
  /\ table = <<>> /\ inverse = <<>> /\ reversing = "start"
  /\ active = 0 /\ boundary = 0 /\ cursor = 0 /\ intervals = <<>>

\* build_pe_copy_rift_fallback: a reference that is no image has no offsets to
\* map from, and the rifts of the delta are used as they are.
FallBack ==
  /\ phase = "start" /\ ~parses
  /\ copyRift' = SortBySource(peRift \o preprocessRift)
  /\ phase' = "done"
  /\ UNCHANGED <<inputs, multiplyVars, reverseVars>>

Begin ==
  /\ phase = "start" /\ parses
  /\ phase' = "preprocess"
  /\ UNCHANGED <<inputs, copyRift, multiplyVars, reverseVars>>

MultiplyStep ==
  /\ phase \in {"preprocess", "pe"}
  /\ MultiplyNext
  /\ UNCHANGED <<inputs, phase, copyRift, reverseVars>>

\* A mistake: the target's map is applied before the RVAs are mapped to its own.
OrderSwapped(product) == a' = peRift /\ b' = product

Order(product) == a' = product /\ b' = peRift

\* The first product is multiplied by the target's map.
MultiplyByPe ==
  /\ phase = "preprocess" /\ pc = "done"
  /\ phase' = "pe"
  /\ Order(out)
  /\ out' = <<>> /\ pc' = "start" /\ segment' = 0
  /\ source' = 0 /\ image' = 0 /\ nextBreak' = 0
  /\ UNCHANGED <<inputs, copyRift, reverseVars>>

BeginReverse ==
  /\ phase = "pe" /\ pc = "done"
  /\ phase' = "reverse"
  /\ table' = out
  /\ UNCHANGED <<inputs, copyRift, multiplyVars, inverse, reversing, active, boundary,
                 cursor, intervals>>

ReverseStep ==
  /\ phase = "reverse"
  /\ ReverseNext
  /\ UNCHANGED <<inputs, phase, copyRift, multiplyVars>>

\* A target's offset is one behind the reference in the decoder's buffer.
Folded(entry) == Entry(Wrap(refLen + entry.source), entry.target)

\* A mistake: the metadata's rift is put in front.
MergedBehind == SortBySource(cliRift \o inverse)

\* merge_rift_entries: of two entries at one offset the metadata's is the last.
MergedRift == SortBySource(inverse \o cliRift)

\* fold_target_to_source_rift_for_decompressor.
Fold ==
  /\ phase = "reverse" /\ reversing = "done"
  /\ copyRift' = SortBySource([k \in DOMAIN MergedRift |-> Folded(MergedRift[k])])
  /\ phase' = "done"
  /\ UNCHANGED <<inputs, multiplyVars, reverseVars>>

Next ==
  \/ FallBack
  \/ Begin
  \/ MultiplyStep
  \/ MultiplyByPe
  \/ BeginReverse
  \/ ReverseStep
  \/ Fold

Spec     == Init /\ [][Next]_vars
FairSpec == Spec /\ WF_vars(Next)     (* a call, running until it returns *)

-----------------------------------------------------------------------------
\* Where the decoder, which pushes its boundary entry behind the copy rift, copies
\* the byte at the target's file offset y from.
CopiedFrom(y) ==
  Wrap(refLen + y + OffsetAt(OffsetRiftTable(copyRift, refLen), refLen + y))

TargetOffsets == 0 .. Max - refLen

\* Where a file offset of the source is found in the target.
MovedTo(x) == Mapped(peRift, Mapped(preprocessRift, Mapped(io2rva, x)))

Origins(y) == {x \in 0 .. Max : MovedTo(x) = y}

CopiesFromOrigin ==
  \A y \in TargetOffsets : Origins(y) # {} =>
    CopiedFrom(y) \in Origins(y) /\ \A x \in Origins(y) : CopiedFrom(y) <= x

(***************************************************************************)
(* What the whole chain is for: a SOURCE_COPY at a file offset of the      *)
(* target that some file offset of the source moves to reads from there -  *)
(* from the lowest, where sections overlap in the target's file.  Two      *)
(* products, the inverse, the fold, the boundary entry and the decoder's   *)
(* lookup, which does not know of the entries in front of the buffer, take *)
(* part in it.  The boundary entry sends the target's beginning to the     *)
(* source's, so it is asked of a delta that leaves the header in place.    *)
(***************************************************************************)
ReturnsCopyRift ==
  phase = "done" /\ parses /\ cliRift = <<>> /\ MovedTo(0) = 0 => CopiesFromOrigin

(***************************************************************************)
(* Where the metadata has an entry of its own, behind the header, the      *)
(* decoder copies by it, whatever the map of the sections says there; of   *)
(* several at one offset by the last.                                      *)
(***************************************************************************)
CliOverrides ==
  phase = "done" /\ parses =>
    \A y \in TargetOffsets \ {0} :
      LET entry == cliRift[SegmentOf(cliRift, y)] IN
      (\E i \in DOMAIN cliRift : cliRift[i].source = y) => CopiedFrom(y) = entry.target

\* Both: the copy rift leads back through the moves of the sections, and the managed
\* rift has the last word where it has one.
CopiesFromOrigins == ReturnsCopyRift /\ CliOverrides

\* The chain comes to its end.
Returns == <>(phase = "done")
=============================================================================
