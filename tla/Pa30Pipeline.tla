----------------------------- MODULE Pa30Pipeline -----------------------------
(***************************************************************************)
(* The two ends of a delta (src/pa30): execute writes one for a reference  *)
(* and a target, apply rebuilds the target from a reference and a delta,   *)
(* and apply_get_reverse writes the delta that leads back.  Both ends      *)
(* transform the reference before the codec sees it, and the delta is      *)
(* right only as long as they arrive at the same bytes.                    *)
(*                                                                         *)
(* A file is a record of the parts the two ends treat differently; what    *)
(* the codec does with each part is to copy it from the transformed        *)
(* reference or to carry it.  That a codec returns what it was given under *)
(* one reference and one rift is LzxCodec's property and is used here.     *)
(***************************************************************************)
EXTENDS Integers

CONSTANTS
  Images,            (* the files references and targets are taken from    *)
  CopyParts,         (* sets of parts a writer may find worth a copy       *)
  MaxTargetSize,     (* MAX_TARGET_SIZE, in units of 64 MiB                *)
  Words              (* the operands of an image are words below this      *)

\* The parts of a file the codec may copy.  "site" is the timestamp of an export
\* directory or of a debug entry, "operand" an absolute address a relocation
\* names, "bound" a thunk array bound to the module it imports from, "token" an
\* operand of managed code, "body" everything else.
Parts == {"stamp", "site", "checksum", "base", "operand", "bound", "sections", "token", "body"}

Machines == {"none", "i386", "amd64", "arm64"}        \* "none": not a PE image
Image ==
  [machine: Machines, clr: {"none", "sound", "broken"}, size: Nat \ {0},
   stamp: Nat, site: Nat, checksum: Nat, base: 0 .. Words - 1, operand: 0 .. Words - 1,
   bound: 0 .. 1, sections: Nat, token: 0 .. Words - 1, body: 0 .. 3]

ASSUME PipelineAssumption ==
  /\ Words \in Nat \ {0}
  /\ MaxTargetSize \in Nat \ {0}
  /\ Images \subseteq Image
  /\ CopyParts \subseteq SUBSET Parts

VARIABLES
  phase,             (* where the caller, and apply, are                   *)
  delta,             (* the delta at hand                                  *)
  made,              (* what it was made from: [ref, tgt, own, back]       *)
  reference,         (* the file apply was given                           *)
  branch,            (* "raw", "native" or "classic" (managed code)        *)
  source,            (* decode_ref: the bytes the codec copies from        *)
  rift,              (* the caller's rift                                  *)
  output,
  result             (* what apply returned: [ok, error]                   *)

vars == <<phase, delta, made, reference, branch, source, rift, output, result>>

(***************************************************************************)
(* Images (src/pe).                                                        *)
(***************************************************************************)
IsPe(image) == image.machine # "none"
IsManagedPe(image) == IsPe(image) /\ image.clr # "none"

\* A managed image whose metadata has no "#~" stream (an edited one has "#-") is
\* "broken": it is an image, and parse_cli_metadata_from_pe takes it for none.
MetadataParses(image) == image.clr = "sound"

ManagedBranch(type) ==
  CASE type \in {"i386", "ia64", "amd64"} -> "classic"
    [] type = "cli4" -> "cli4"
    [] OTHER -> "unknown"

ZeroChecksum(image) == IF IsPe(image) THEN [image EXCEPT !.checksum = 0] ELSE image

Unbind(image, flags) == [image EXCEPT !.bound = IF "unbind" \in flags THEN 0 ELSE @]

\* transform_source_relocs, and the transforms next to it where the preprocess
\* rift is empty: addresses are restated against the target's base.
Relocate(image, flags, base) ==
  [image EXCEPT !.operand = IF "relocs" \in flags THEN (@ + base - image.base) % Words ELSE @]

BuildTransformedSource(image, flags, pp) ==
  IF IsPe(image)
    THEN [Relocate(Unbind(image, flags), flags, pp.base)
            EXCEPT !.stamp = pp.stamp, !.base = pp.base]
    ELSE image

\* The tokens of managed code, moved by the delta's map of the metadata.
RemapTokens(image, flags, pp) ==
  [image EXCEPT !.token = IF "cli" \in flags THEN (@ + pp.cli) % Words ELSE @]

\* apply_pe_timestamp_fixup: wherever the output has a timestamp and it is the
\* reference's, it becomes the target's.
FixTimestamps(ref, pp, image) ==
  LET stale == IF IsPe(ref) THEN ref.stamp ELSE 0
      fixed(stamp) == IF stamp = stale THEN pp.stamp ELSE stamp
  IN IF stale \in {0, pp.stamp} \/ ~IsPe(image)
       THEN image
       ELSE [image EXCEPT !.stamp = fixed(@), !.site = fixed(@)]

Junk == -1           (* what a copy out of place finds                     *)

\* undo_x86_e8_translation, of native i386 images alone.  A body of 2 or 3 is
\* the translated form of 0 or 1, and the other way round.
UndoE8(flags, image) ==
  IF "e8" \in flags /\ image.machine = "i386" /\ image.clr = "none" /\ image.body # Junk
    THEN [image EXCEPT !.body = (@ + 2) % 4]
    ELSE image

(***************************************************************************)
(* The codec, and the rift its copies are stated against.  Without a       *)
(* parseable reference the rifts of the delta are used as they are.        *)
(***************************************************************************)
NoRift == [io |-> Junk, pe |-> Junk, cli |-> 0]
CopyRift(ref, pp, cli) ==
  IF IsPe(ref) THEN [io |-> ref.sections, pe |-> pp.sections, cli |-> cli]
               ELSE [io |-> Junk, pe |-> pp.sections, cli |-> 0]

Compress(src, tgt, under, worth) ==
  [copied |-> {p \in Parts \cap worth : src[p] = tgt[p]}, carried |-> tgt, rift |-> under]

Decompress(src, patch, under) ==
  [p \in DOMAIN patch.carried |->
     IF p \notin patch.copied THEN patch.carried[p]
     ELSE IF under = patch.rift THEN src[p] ELSE Junk]

(***************************************************************************)
(* Creating a delta.                                                       *)
(***************************************************************************)
NoPreprocess == [full |-> FALSE, stamp |-> 0, base |-> 0, sections |-> 0, cli |-> 0]
BuildPreprocess(tgt) ==
  [full |-> TRUE, stamp |-> tgt.stamp, base |-> tgt.base, sections |-> tgt.sections, cli |-> 0]

\* A mistake: only the reference tells whether a delta is of managed code.
LeftToTheReference(pp) == FALSE

HasManagedCliState(pp) == pp.cli # 0

\* The hash of a file is the file: two that differ have different ones.
NoHash(tgt) == [kept |-> FALSE, of |-> tgt]
Hash(tgt)   == [kept |-> TRUE, of |-> tgt]

\* create_pe_file_type
PePair(ref, tgt) == ref.machine = tgt.machine /\ ref.machine \in {"i386", "amd64"}

PeFlags == {"unbind", "relocs", "cli"}     \* in both 0xe1fe and 0xe63e

\* A mistake, and the encoder's former way: the copies are stated against the
\* reference with nothing but its checksum zeroed.
PeSourceUntransformed(ref, pp) == ZeroChecksum(ref)

PeSource(ref, pp) == BuildTransformedSource(ZeroChecksum(ref), PeFlags, pp)

PeDelta(ref, tgt, worth) ==
  LET pp == BuildPreprocess(tgt)
  IN [form |-> "forward", type |-> tgt.machine, flags |-> PeFlags,
      size |-> tgt.size, oldSize |-> ref.size, hash |-> Hash(tgt), pp |-> pp, codec |-> "lzx",
      patch |-> Compress(PeSource(ref, pp), tgt, CopyRift(ref, pp, 0), worth)]

RawDelta(ref, tgt, hash, worth) ==
  [form |-> "forward", type |-> "raw", flags |-> {},
   size |-> tgt.size, oldSize |-> ref.size, hash |-> hash, pp |-> NoPreprocess, codec |-> "lzx",
   patch |-> Compress(ref, tgt, NoRift, worth)]

\* execute: a pair of images of one supported machine becomes a PE delta where
\* the caller left the file type to be detected, everything else a raw one.
\* Both codecs a caller may name write LZX.
Create ==
  /\ phase = "idle"
  /\ \E ref, tgt \in Images, worth \in CopyParts :
       /\ made' = [ref |-> ref, tgt |-> tgt, own |-> TRUE, back |-> FALSE]
       /\ \/ PePair(ref, tgt) /\ delta' = PeDelta(ref, tgt, worth)
          \/ \E hash \in {NoHash(tgt), Hash(tgt)} : delta' = RawDelta(ref, tgt, hash, worth)
  /\ phase' = "delta"
  /\ UNCHANGED <<reference, branch, source, rift, output, result>>

\* The deltas other writers make for this pair: for managed images with a map
\* of the metadata or of a type this crate does not apply, with translated
\* calls, with the other codecs and of the other formats.
GenuineDeltas(ref, tgt, worth) ==
  LET raw == RawDelta(ref, tgt, NoHash(tgt), worth)
      pp == [BuildPreprocess(tgt) EXCEPT !.cli = 1]
      transformed == RemapTokens(PeSource(ref, pp), PeFlags, pp)
      managed ==
        [PeDelta(ref, tgt, worth) EXCEPT
           !.pp = pp, !.hash = NoHash(tgt),
           !.patch = Compress(transformed, tgt, CopyRift(ref, pp, pp.cli), worth)]
  IN {[raw EXCEPT !.codec = "lzms"], [raw EXCEPT !.codec = "bsdiff"],
      [raw EXCEPT !.form = "reversal", !.hash = Hash(tgt)],
      [raw EXCEPT !.form = "pa19", !.hash = Hash(tgt)]}
     \cup (IF PePair(ref, tgt) /\ ref.clr = "sound"
             THEN {managed, [managed EXCEPT !.type = "cli4"]} ELSE {})
     \cup (IF tgt.machine = "i386" /\ tgt.clr = "none"
             THEN {[RawDelta(ref, UndoE8({"e8"}, tgt), Hash(tgt), worth) EXCEPT !.flags = {"e8"}]}
             ELSE {})

Receive ==
  /\ phase = "idle"
  /\ \E ref, tgt \in Images, worth \in CopyParts :
       /\ made' = [ref |-> ref, tgt |-> tgt, own |-> FALSE, back |-> FALSE]
       /\ delta' \in GenuineDeltas(ref, tgt, worth)
  /\ phase' = "delta"
  /\ UNCHANGED <<reference, branch, source, rift, output, result>>

(***************************************************************************)
(* Applying it: apply_impl, in its order.                                  *)
(***************************************************************************)
Return(image, ok, error) ==
  /\ output' = image
  /\ result' = [ok |-> ok, error |-> error]
  /\ phase' = "returned"

Apply ==
  /\ phase = "delta"
  /\ reference' \in Images
  /\ phase' = "apply"
  /\ UNCHANGED <<delta, made, branch, source, rift, output, result>>

\* pa19::apply holds the file it is given against the size the delta names, and
\* what it makes against a checksum.  The limit of the other formats is not its.
ApplyPa19 ==
  /\ phase = "apply" /\ delta.form = "pa19"
  /\ LET made19 == Decompress(reference, delta.patch, NoRift)
     IN IF reference.size # delta.oldSize THEN Return(output, FALSE, "old size")
        ELSE Return(made19, made19 = delta.hash.of, "hash")
  /\ UNCHANGED <<delta, made, reference, branch, source, rift>>

RefuseOversize ==
  /\ phase = "apply" /\ delta.form # "pa19"
  /\ delta.size > MaxTargetSize
  /\ Return(output, FALSE, "exceeds limit")
  /\ UNCHANGED <<delta, made, reference, branch, source, rift>>

Admitted == phase = "apply" /\ delta.form # "pa19" /\ delta.size <= MaxTargetSize

\* A mistake: only forward deltas are verified.
VerifiedForward(image) ==
  delta.form = "forward" /\ delta.hash.kept => image = delta.hash.of

\* verify: a delta without a hash passes.
Verified(image) == delta.hash.kept => image = delta.hash.of

\* A reverse delta replays its copies, deletes and patches on the file itself.
ApplyReversal ==
  /\ Admitted /\ delta.form = "reversal"
  /\ LET replayed == Decompress(reference, delta.patch, NoRift)
     IN Return(replayed, Verified(replayed), "hash")
  /\ UNCHANGED <<delta, made, reference, branch, source, rift>>

HasPreprocess == delta.type # "raw" /\ delta.pp.full

Managed == HasPreprocess /\ IsManagedPe(reference)

\* Managed code is applied on the branch of its file type or not at all, and a
\* delta that carries a map of metadata only to a reference that has some.
Unsupported ==
  \/ Managed /\ ManagedBranch(delta.type) # "classic"
  \/ HasPreprocess /\ ~Managed /\ HasManagedCliState(delta.pp)

RefuseUnsupported ==
  /\ Admitted /\ delta.form = "forward"
  /\ Unsupported
  /\ Return(output, FALSE, "unsupported")
  /\ UNCHANGED <<delta, made, reference, branch, source, rift>>

ChooseBranch ==
  /\ Admitted /\ delta.form = "forward"
  /\ ~Unsupported
  /\ branch' = IF Managed THEN "classic" ELSE IF HasPreprocess THEN "native" ELSE "raw"
  /\ phase' = "source"
  /\ UNCHANGED <<delta, made, reference, source, rift, output, result>>

RefuseMetadata ==
  /\ phase = "source" /\ branch = "classic"
  /\ ~MetadataParses(reference)
  /\ Return(output, FALSE, "metadata")
  /\ UNCHANGED <<delta, made, reference, branch, source, rift>>

TransformSource ==
  /\ phase = "source"
  /\ branch = "classic" => MetadataParses(reference)
  /\ LET native == BuildTransformedSource(ZeroChecksum(reference), delta.flags, delta.pp)
     IN source' = CASE branch = "raw" -> reference
                    [] branch = "native" -> native
                    [] branch = "classic" -> RemapTokens(native, delta.flags, delta.pp)
  /\ rift' = CASE branch = "raw" -> NoRift
               [] branch = "native" -> CopyRift(reference, delta.pp, 0)
               [] branch = "classic" -> CopyRift(reference, delta.pp, delta.pp.cli)
  /\ phase' = "decode"
  /\ UNCHANGED <<delta, made, reference, branch, output, result>>

\* The codec is told by the patch's first bytes.  An LZMS container holds the
\* target, or a bsdiff stream against the reference as it was given.
Decode ==
  /\ phase = "decode"
  /\ output' = CASE delta.codec = "lzms" -> delta.patch.carried
                 [] delta.codec = "bsdiff" -> Decompress(reference, delta.patch, NoRift)
                 [] delta.codec = "lzx" -> Decompress(source, delta.patch, rift)
  /\ phase' = "finish"
  /\ UNCHANGED <<delta, made, reference, branch, source, rift, result>>

Finished ==
  UndoE8(delta.flags, IF HasPreprocess THEN FixTimestamps(reference, delta.pp, output) ELSE output)

Finish ==
  /\ phase = "finish"
  /\ Return(Finished, Verified(Finished), "hash")
  /\ UNCHANGED <<delta, made, reference, branch, source, rift>>

\* apply_get_reverse: create with its defaults, raw and without a hash.  A
\* caller here asks for one reverse delta and not for the reverse of that.
GetReverse ==
  /\ phase = "returned" /\ result.ok
  /\ ~made.back
  /\ made' = [ref |-> output, tgt |-> reference, own |-> TRUE, back |-> TRUE]
  /\ \E worth \in CopyParts : delta' = RawDelta(output, reference, NoHash(reference), worth)
  /\ phase' = "delta"
  /\ UNCHANGED <<reference, branch, source, rift, output, result>>

Nothing ==
  [machine |-> "none", clr |-> "none", size |-> 1, stamp |-> 0, site |-> 0, checksum |-> 0,
   base |-> 0, operand |-> 0, bound |-> 0, sections |-> 0, token |-> 0, body |-> 0]

Init ==
  /\ phase = "idle"
  /\ delta = RawDelta(Nothing, Nothing, NoHash(Nothing), {})
  /\ made = [ref |-> Nothing, tgt |-> Nothing, own |-> TRUE, back |-> FALSE]
  /\ reference = Nothing /\ branch = "raw" /\ source = Nothing
  /\ rift = NoRift /\ output = Nothing
  /\ result = [ok |-> FALSE, error |-> "none"]

Next ==
  \/ Create \/ Receive
  \/ Apply \/ ApplyPa19 \/ RefuseOversize \/ ApplyReversal
  \/ RefuseUnsupported \/ ChooseBranch \/ RefuseMetadata \/ TransformSource
  \/ Decode \/ Finish
  \/ GetReverse

Spec == Init /\ [][Next]_vars

(***************************************************************************)
(* Properties.                                                             *)
(***************************************************************************)
OnItsReference == phase = "returned" /\ reference = made.ref
Reconstructed  == result.ok /\ output = made.tgt

\* apply returns the target the delta was made for or an error, never another
\* file: always where the delta carries a hash, whatever reference it is given,
\* and on its own reference where a raw delta carries none.
ReturnsTargetOrRefuses ==
  /\ phase = "returned" /\ result.ok
  /\ delta.hash.kept \/ (reference = made.ref /\ delta.type = "raw")
  => output = made.tgt

\* The target holds, outside its header, the timestamp of the reference's
\* header, and its own header another.
StampCollides ==
  /\ HasPreprocess /\ IsPe(made.ref)
  /\ made.ref.stamp \notin {0, made.tgt.stamp}
  /\ made.tgt.site = made.ref.stamp

\* On its own reference every delta is applied and gives its target, the one
\* that leads back included, unless it is over the limit, of a type apply does
\* not support, made of metadata that does not parse, or its timestamps
\* collide: the two ends otherwise arrive at the same source and the same rift.
ReconstructsUnlessExcused ==
  OnItsReference =>
    \/ Reconstructed
    \/ delta.form # "pa19" /\ delta.size > MaxTargetSize
    \/ HasPreprocess /\ (delta.type = "cli4" \/ reference.clr = "broken")
    \/ StampCollides

\* A delta that carries a map of metadata is never applied as if it did not:
\* where apply succeeds the tokens were moved and the rift is the managed one.
ManagedStateNeverDropped ==
  phase = "returned" /\ result.ok /\ delta.form = "forward" /\ HasPreprocess /\ delta.pp.cli # 0
    => /\ branch = "classic" /\ rift.cli = delta.pp.cli
       /\ source.token = (reference.token + delta.pp.cli) % Words

\* What the encoder says of its own deltas: the delta reconstructs.
OwnDeltaReconstructs == OnItsReference /\ made.own => Reconstructed
=============================================================================
