-------------------------- MODULE Pa30PipelineProofs --------------------------
(***************************************************************************)
(* What apply returns, for every set of files, every choice of copies and  *)
(* every limit: the target of the delta or an error, and never a managed   *)
(* delta applied as a native one; then, that on its own reference every    *)
(* delta gives its target, but for the excuses named.                      *)
(***************************************************************************)
EXTENDS Pa30Pipeline, TLAPS

\* What a writer put into the delta: the hash is the target's, and a raw delta
\* without one copies only what the two files share and changes nothing after.
DeltaOfPair ==
  /\ delta.hash.of = made.tgt
  /\ delta.type = "raw" /\ ~delta.hash.kept =>
       /\ delta.form = "forward" /\ delta.flags = {}
       /\ delta.patch.carried = made.tgt /\ delta.patch.rift = NoRift
       /\ \A p \in delta.patch.copied : made.ref[p] = made.tgt[p]
  /\ delta.pp.cli # 0 => "cli" \in delta.flags
  /\ delta.codec \in {"lzx", "lzms", "bsdiff"}

\* The branch is chosen by the delta and the reference, both of which stay.
ChosenBranch ==
  /\ delta.form = "forward" /\ ~Unsupported
  /\ branch = IF Managed THEN "classic" ELSE IF HasPreprocess THEN "native" ELSE "raw"

Decoding ==
  \/ phase \in {"decode", "finish"}
  \/ phase = "returned" /\ result.ok /\ delta.form = "forward"

\* From the transforms on the source and the rift are those of the branch, and
\* a managed delta is on the managed one.
SourceOfBranch ==
  Decoding =>
    /\ delta.form = "forward"
    /\ delta.type = "raw" => source = reference /\ rift = NoRift
    /\ HasPreprocess /\ delta.pp.cli # 0 =>
         /\ branch = "classic" /\ rift.cli = delta.pp.cli
         /\ source.token = (reference.token + delta.pp.cli) % Words

\* The codec gives a raw delta's target back on its own reference.
OutputOfCodec ==
  phase = "finish" /\ delta.type = "raw" /\ ~delta.hash.kept /\ reference = made.ref
    => output = made.tgt

Safe ==
  /\ reference \in Image /\ made.tgt \in Image
  /\ DeltaOfPair
  /\ (phase = "source" => ChosenBranch)
  /\ SourceOfBranch
  /\ OutputOfCodec
  /\ ReturnsTargetOrRefuses

-----------------------------------------------------------------------------
(***************************************************************************)
(* What writers and codecs return.                                         *)
(***************************************************************************)

\* A patch made without a rift gives its target back on a source that agrees
\* with it in every part it copies.
LEMMA CodecReturns ==
  ASSUME NEW src, NEW tgt \in Image, NEW patch,
         patch.carried = tgt, patch.rift = NoRift,
         \A p \in patch.copied : src[p] = tgt[p]
  PROVE  Decompress(src, patch, NoRift) = tgt
<1>1. Decompress(src, patch, NoRift) = [p \in DOMAIN tgt |-> tgt[p]]
  BY DEF Decompress
<1>2. tgt = [p \in DOMAIN tgt |-> tgt[p]] BY DEF Image
<1> QED BY <1>1, <1>2

\* The facts of a delta that DeltaOfPair states, of any delta of a pair.
OfPair(d, ref, tgt) ==
  /\ d.hash.of = tgt
  /\ d.type = "raw" /\ ~d.hash.kept =>
       /\ d.form = "forward" /\ d.flags = {}
       /\ d.patch.carried = tgt /\ d.patch.rift = NoRift
       /\ \A p \in d.patch.copied : ref[p] = tgt[p]
  /\ d.pp.cli # 0 => "cli" \in d.flags
  /\ d.codec \in {"lzx", "lzms", "bsdiff"}

LEMMA RawDeltaOfPair ==
  ASSUME NEW ref, NEW tgt, NEW worth, NEW hash \in {NoHash(tgt), Hash(tgt)}
  PROVE  OfPair(RawDelta(ref, tgt, hash, worth), ref, tgt)
BY DEF OfPair, RawDelta, NoHash, Hash, Compress, NoPreprocess

LEMMA PeDeltaOfPair ==
  ASSUME NEW ref, NEW tgt, NEW worth, PePair(ref, tgt)
  PROVE  OfPair(PeDelta(ref, tgt, worth), ref, tgt)
BY DEF OfPair, PeDelta, PePair, Hash, BuildPreprocess

LEMMA GenuineDeltaOfPair ==
  ASSUME NEW ref, NEW tgt, NEW worth, NEW d \in GenuineDeltas(ref, tgt, worth)
  PROVE  OfPair(d, ref, tgt)
<1> DEFINE raw == RawDelta(ref, tgt, NoHash(tgt), worth)
<1> DEFINE pp == [BuildPreprocess(tgt) EXCEPT !.cli = 1]
<1> DEFINE transformed == RemapTokens(PeSource(ref, pp), PeFlags, pp)
<1> DEFINE managed ==
      [PeDelta(ref, tgt, worth) EXCEPT
         !.pp = pp, !.hash = NoHash(tgt),
         !.patch = Compress(transformed, tgt, CopyRift(ref, pp, pp.cli), worth)]
<1>1. CASE d \in {[raw EXCEPT !.codec = "lzms"], [raw EXCEPT !.codec = "bsdiff"]}
  <2>1. OfPair(raw, ref, tgt) BY RawDeltaOfPair
  <2>2. /\ d.hash = raw.hash /\ d.type = raw.type /\ d.form = raw.form
        /\ d.flags = raw.flags /\ d.patch = raw.patch /\ d.pp = raw.pp
        /\ d.codec \in {"lzms", "bsdiff"}
    BY <1>1 DEF RawDelta
  <2> QED BY <2>1, <2>2 DEF OfPair
<1>2. CASE d \in {[raw EXCEPT !.form = "reversal", !.hash = Hash(tgt)],
                  [raw EXCEPT !.form = "pa19", !.hash = Hash(tgt)]}
  <2>1. d.hash = Hash(tgt) /\ d.pp = NoPreprocess /\ d.codec = "lzx" BY <1>2 DEF RawDelta
  <2> QED BY <2>1 DEF OfPair, Hash, NoPreprocess
<1>3. CASE PePair(ref, tgt) /\ d \in {managed, [managed EXCEPT !.type = "cli4"]}
  <2>1. d.hash = NoHash(tgt) /\ d.flags = PeFlags /\ d.type # "raw" /\ d.codec = "lzx"
    BY <1>3 DEF PeDelta, PePair
  <2> QED BY <2>1 DEF OfPair, NoHash, PeFlags
<1>4. CASE d = [RawDelta(ref, UndoE8({"e8"}, tgt), Hash(tgt), worth) EXCEPT !.flags = {"e8"}]
  <2>1. d.hash = Hash(tgt) /\ d.pp = NoPreprocess /\ d.codec = "lzx" BY <1>4 DEF RawDelta
  <2> QED BY <2>1 DEF OfPair, Hash, NoPreprocess
<1> QED BY <1>1, <1>2, <1>3, <1>4 DEF GenuineDeltas

-----------------------------------------------------------------------------
(***************************************************************************)
(* Every step keeps Safe.                                                  *)
(***************************************************************************)
LEMMA InitSafe == Init => Safe
<1> SUFFICES ASSUME Init PROVE Safe OBVIOUS
<1>1. Nothing \in Image BY PipelineAssumption DEF Nothing, Image, Machines
<1>2. OfPair(delta, made.ref, made.tgt)
  BY RawDeltaOfPair DEF Init
<1>3. DeltaOfPair BY <1>2 DEF OfPair, DeltaOfPair
<1>4. ReturnsTargetOrRefuses /\ SourceOfBranch /\ OutputOfCodec /\ phase # "source"
  BY DEF Init, ReturnsTargetOrRefuses, SourceOfBranch, Decoding, OutputOfCodec
<1> QED BY <1>1, <1>3, <1>4 DEF Safe, Init

\* A delta of the pair at hand, before anything is applied.
LEMMA DeltaSafe ==
  ASSUME reference' \in Image, made'.tgt \in Image,
         OfPair(delta', made'.ref, made'.tgt), phase' = "delta"
  PROVE  Safe'
BY DEF Safe, DeltaOfPair, OfPair, SourceOfBranch, Decoding, OutputOfCodec, ReturnsTargetOrRefuses

LEMMA CreateSafe == Safe /\ Create => Safe'
<1> SUFFICES ASSUME Safe, Create PROVE Safe' OBVIOUS
<1>1. PICK ref \in Images, tgt \in Images, worth \in CopyParts :
        /\ made' = [ref |-> ref, tgt |-> tgt, own |-> TRUE, back |-> FALSE]
        /\ \/ PePair(ref, tgt) /\ delta' = PeDelta(ref, tgt, worth)
           \/ \E hash \in {NoHash(tgt), Hash(tgt)} : delta' = RawDelta(ref, tgt, hash, worth)
  BY DEF Create
<1>2. OfPair(delta', ref, tgt) BY <1>1, RawDeltaOfPair, PeDeltaOfPair
<1> QED BY <1>1, <1>2, DeltaSafe, PipelineAssumption DEF Create, Safe

LEMMA ReceiveSafe == Safe /\ Receive => Safe'
<1> SUFFICES ASSUME Safe, Receive PROVE Safe' OBVIOUS
<1>1. PICK ref \in Images, tgt \in Images, worth \in CopyParts :
        /\ made' = [ref |-> ref, tgt |-> tgt, own |-> FALSE, back |-> FALSE]
        /\ delta' \in GenuineDeltas(ref, tgt, worth)
  BY DEF Receive
<1>2. OfPair(delta', ref, tgt) BY <1>1, GenuineDeltaOfPair
<1> QED BY <1>1, <1>2, DeltaSafe, PipelineAssumption DEF Receive, Safe

LEMMA GetReverseSafe == Safe /\ GetReverse => Safe'
<1> SUFFICES ASSUME Safe, GetReverse PROVE Safe' OBVIOUS
<1>1. PICK worth \in CopyParts : delta' = RawDelta(output, reference, NoHash(reference), worth)
  BY DEF GetReverse
<1>2. OfPair(delta', output, reference) BY <1>1, RawDeltaOfPair
<1> QED BY <1>2, DeltaSafe DEF GetReverse, Safe

\* Returning an error says nothing of the output.
LEMMA RefusalSafe ==
  ASSUME Safe, UNCHANGED <<delta, made, reference, branch, source, rift>>,
         phase' = "returned", ~result'.ok
  PROVE  Safe'
BY DEF Safe, DeltaOfPair, SourceOfBranch, Decoding, OutputOfCodec, ReturnsTargetOrRefuses

LEMMA ApplySafe == Safe /\ Apply => Safe'
BY PipelineAssumption
   DEF Apply, Safe, DeltaOfPair, SourceOfBranch, Decoding, OutputOfCodec, ReturnsTargetOrRefuses

LEMMA RefuseSafe == Safe /\ (RefuseOversize \/ RefuseUnsupported \/ RefuseMetadata) => Safe'
<1> SUFFICES ASSUME Safe, RefuseOversize \/ RefuseUnsupported \/ RefuseMetadata PROVE Safe'
  OBVIOUS
<1>1. UNCHANGED <<delta, made, reference, branch, source, rift>>
  BY DEF RefuseOversize, RefuseUnsupported, RefuseMetadata
<1>2. \E error : Return(output, FALSE, error)
  BY DEF RefuseOversize, RefuseUnsupported, RefuseMetadata
<1>3. phase' = "returned" /\ ~result'.ok BY <1>2 DEF Return
<1> QED BY <1>1, <1>3, RefusalSafe

LEMMA ApplyPa19Safe == Safe /\ ApplyPa19 => Safe'
<1> SUFFICES ASSUME Safe, ApplyPa19 PROVE Safe' OBVIOUS
<1>1. phase' = "returned" /\ delta.form = "pa19" /\ UNCHANGED <<delta, made, reference>>
  BY DEF ApplyPa19, Return
<1>2. ASSUME result'.ok PROVE output' = made.tgt
  <2> DEFINE made19 == Decompress(reference, delta.patch, NoRift)
  <2>1. reference.size = delta.oldSize
    <3>1. CASE reference.size # delta.oldSize
      <4>1. Return(output, FALSE, "old size") BY <3>1 DEF ApplyPa19
      <4> QED BY <4>1, <1>2 DEF Return
    <3> QED BY <3>1
  <2>2. output' = made19 /\ result'.ok = (made19 = delta.hash.of)
    <3> HIDE DEF made19
    <3>1. Return(made19, made19 = delta.hash.of, "hash") BY <2>1 DEF ApplyPa19, made19
    <3> QED BY <3>1, Zenon DEF Return
  <2>3. made19 = delta.hash.of BY <1>2, <2>2, Zenon
  <2> QED BY <2>2, <2>3 DEF Safe, DeltaOfPair
<1> QED BY <1>1, <1>2
    DEF Safe, DeltaOfPair, SourceOfBranch, Decoding, OutputOfCodec, ReturnsTargetOrRefuses

LEMMA ApplyReversalSafe == Safe /\ ApplyReversal => Safe'
<1> SUFFICES ASSUME Safe, ApplyReversal PROVE Safe' OBVIOUS
<1>1. phase' = "returned" /\ delta.form = "reversal" /\ UNCHANGED <<delta, made, reference>>
  BY DEF ApplyReversal, Return
<1>2. result'.ok /\ delta.hash.kept => output' = made.tgt
  BY DEF ApplyReversal, Return, Verified, Safe, DeltaOfPair
<1>3. ~(delta.type = "raw" /\ ~delta.hash.kept)
  BY <1>1 DEF Safe, DeltaOfPair
<1> QED BY <1>1, <1>2, <1>3
    DEF Safe, DeltaOfPair, SourceOfBranch, Decoding, OutputOfCodec, ReturnsTargetOrRefuses

LEMMA ChooseBranchSafe == Safe /\ ChooseBranch => Safe'
<1> SUFFICES ASSUME Safe, ChooseBranch PROVE Safe' OBVIOUS
<1>1. phase' = "source" /\ UNCHANGED <<delta, made, reference>> BY DEF ChooseBranch
<1>2. ChosenBranch'
  BY <1>1 DEF ChooseBranch, ChosenBranch, Unsupported, Managed, HasPreprocess
<1> QED BY <1>1, <1>2
    DEF Safe, DeltaOfPair, SourceOfBranch, Decoding, OutputOfCodec, ReturnsTargetOrRefuses

\* The transforms of an image leave its tokens to the map of the metadata.
LEMMA TokensMoved ==
  ASSUME NEW image \in Image, IsPe(image), NEW flags, NEW pp, "cli" \in flags
  PROVE  RemapTokens(BuildTransformedSource(ZeroChecksum(image), flags, pp), flags, pp).token
           = (image.token + pp.cli) % Words
<1> DEFINE zeroed == ZeroChecksum(image)
<1> DEFINE unbound == Unbind(zeroed, flags)
<1> DEFINE moved == Relocate(unbound, flags, pp.base)
<1> DEFINE native == BuildTransformedSource(zeroed, flags, pp)
<1>1. zeroed.token = image.token /\ "token" \in DOMAIN zeroed /\ IsPe(zeroed)
  BY DEF ZeroChecksum, IsPe, Image
<1>2. unbound.token = image.token /\ "token" \in DOMAIN unbound
  <2> HIDE DEF zeroed
  <2> QED BY <1>1 DEF Unbind
<1>3. moved.token = image.token /\ "token" \in DOMAIN moved
  <2> HIDE DEF unbound
  <2> QED BY <1>2 DEF Relocate
<1>4. native = [moved EXCEPT !.stamp = pp.stamp, !.base = pp.base]
  <2> HIDE DEF zeroed
  <2> QED BY <1>1 DEF BuildTransformedSource
<1>5. native.token = image.token /\ "token" \in DOMAIN native
  <2> HIDE DEF moved, native
  <2> QED BY <1>3, <1>4
<1>6. RemapTokens(native, flags, pp).token = (image.token + pp.cli) % Words
  <2> HIDE DEF native
  <2> QED BY <1>5 DEF RemapTokens
<1> QED BY <1>6

LEMMA TransformSourceSafe == Safe /\ TransformSource => Safe'
<1> SUFFICES ASSUME Safe, TransformSource PROVE Safe' OBVIOUS
<1>1. phase' = "decode" /\ UNCHANGED <<delta, made, reference, branch>>
  BY DEF TransformSource
<1>2. ChosenBranch BY DEF TransformSource, Safe
<1>3. ASSUME delta.type = "raw" PROVE source' = reference /\ rift' = NoRift
  BY <1>2, <1>3 DEF TransformSource, ChosenBranch, Managed, HasPreprocess
<1>4. ASSUME HasPreprocess, delta.pp.cli # 0
      PROVE  /\ branch = "classic" /\ rift'.cli = delta.pp.cli
             /\ source'.token = (reference.token + delta.pp.cli) % Words
  <2>1. Managed BY <1>2, <1>4 DEF ChosenBranch, Unsupported, HasManagedCliState
  <2>2. branch = "classic" BY <1>2, <2>1 DEF ChosenBranch
  <2>3. IsPe(reference) BY <2>1 DEF Managed, IsManagedPe
  <2>4. "cli" \in delta.flags BY <1>4 DEF Safe, DeltaOfPair
  <2>5. rift' = CopyRift(reference, delta.pp, delta.pp.cli) BY <2>2 DEF TransformSource
  <2>6. rift'.cli = delta.pp.cli BY <2>3, <2>5 DEF CopyRift
  <2>7. source' = RemapTokens(BuildTransformedSource(ZeroChecksum(reference), delta.flags,
                                                     delta.pp), delta.flags, delta.pp)
    BY <2>2 DEF TransformSource
  <2>8. reference \in Image BY DEF Safe
  <2>9. source'.token = (reference.token + delta.pp.cli) % Words
    BY <2>3, <2>4, <2>7, <2>8, TokensMoved
  <2> QED BY <2>2, <2>6, <2>9
<1>5. SourceOfBranch'
  BY <1>1, <1>2, <1>3, <1>4 DEF SourceOfBranch, ChosenBranch, HasPreprocess
<1> QED BY <1>1, <1>5
    DEF Safe, DeltaOfPair, Decoding, OutputOfCodec, ReturnsTargetOrRefuses

LEMMA DecodeSafe == Safe /\ Decode => Safe'
<1> SUFFICES ASSUME Safe, Decode PROVE Safe' OBVIOUS
<1>1. phase = "decode" /\ phase' = "finish"
      /\ UNCHANGED <<delta, made, reference, branch, source, rift>>
  BY DEF Decode
<1>2. SourceOfBranch' BY <1>1 DEF Safe, SourceOfBranch, Decoding, HasPreprocess
<1>3. ASSUME delta.type = "raw", ~delta.hash.kept, reference = made.ref
      PROVE  output' = made.tgt
  <2>1. source = reference /\ rift = NoRift
    BY <1>1, <1>3 DEF Safe, SourceOfBranch, Decoding
  <2>2. delta.patch.carried = made.tgt BY <1>3 DEF Safe, DeltaOfPair
  <2>3. Decompress(reference, delta.patch, NoRift) = made.tgt
    <3>1. made.tgt \in Image BY DEF Safe
    <3>2. delta.patch.rift = NoRift /\ \A p \in delta.patch.copied : reference[p] = made.tgt[p]
      BY <1>3 DEF Safe, DeltaOfPair
    <3> QED BY <2>2, <3>1, <3>2, CodecReturns
  <2>4. CASE delta.codec = "lzms" BY <2>2, <2>4 DEF Decode
  <2>5. CASE delta.codec = "bsdiff" BY <2>3, <2>5 DEF Decode
  <2>6. CASE delta.codec = "lzx" BY <2>1, <2>3, <2>6 DEF Decode
  <2> QED BY <2>4, <2>5, <2>6 DEF Safe, DeltaOfPair
<1> QED BY <1>1, <1>2, <1>3
    DEF Safe, DeltaOfPair, OutputOfCodec, ReturnsTargetOrRefuses

LEMMA FinishSafe == Safe /\ Finish => Safe'
<1> SUFFICES ASSUME Safe, Finish PROVE Safe' OBVIOUS
<1>1. phase = "finish" /\ phase' = "returned"
      /\ UNCHANGED <<delta, made, reference, branch, source, rift>>
      /\ output' = Finished /\ result'.ok = Verified(Finished)
  BY DEF Finish, Return
<1>2. SourceOfBranch' BY <1>1 DEF Safe, SourceOfBranch, Decoding, HasPreprocess
<1>3. ASSUME result'.ok, delta.hash.kept PROVE output' = made.tgt
  BY <1>1, <1>3 DEF Verified, Safe, DeltaOfPair
<1>4. ASSUME delta.type = "raw", ~delta.hash.kept, reference = made.ref
      PROVE  output' = made.tgt
  <2>1. output = made.tgt BY <1>1, <1>4 DEF Safe, OutputOfCodec
  <2>2. delta.flags = {} BY <1>4 DEF Safe, DeltaOfPair
  <2>3. Finished = output BY <1>4, <2>2 DEF Finished, HasPreprocess, UndoE8
  <2> QED BY <1>1, <2>1, <2>3
<1>5. ReturnsTargetOrRefuses' BY <1>1, <1>3, <1>4 DEF ReturnsTargetOrRefuses
<1> QED BY <1>1, <1>2, <1>5 DEF Safe, DeltaOfPair, OutputOfCodec

-----------------------------------------------------------------------------
(***************************************************************************)
(* What apply never returns.                                               *)
(***************************************************************************)
LEMMA StepSafe == Safe /\ [Next]_vars => Safe'
<1> SUFFICES ASSUME Safe, [Next]_vars PROVE Safe' OBVIOUS
<1>1. CASE UNCHANGED vars
  BY <1>1 DEF vars, Safe, DeltaOfPair, ChosenBranch, Unsupported, Managed, HasPreprocess,
              SourceOfBranch, Decoding, OutputOfCodec, ReturnsTargetOrRefuses
<1>2. CASE Next
  BY <1>2, CreateSafe, ReceiveSafe, ApplySafe, ApplyPa19Safe, RefuseSafe, ApplyReversalSafe,
     ChooseBranchSafe, TransformSourceSafe, DecodeSafe, FinishSafe, GetReverseSafe DEF Next
<1> QED BY <1>1, <1>2

LEMMA AlwaysSafe == Spec => []Safe
BY InitSafe, StepSafe, PTL DEF Spec

\* Whatever file apply is given, it returns the target the delta was made for
\* or an error: always with a hash, on its own reference where a raw delta
\* carries none.
THEOREM ApplyReturnsTargetOrRefuses == Spec => []ReturnsTargetOrRefuses
<1>1. Safe => ReturnsTargetOrRefuses BY DEF Safe
<1> QED BY <1>1, AlwaysSafe, PTL

\* A delta with a map of metadata is applied on the managed branch or refused.
THEOREM ManagedStateAlwaysUsed == Spec => []ManagedStateNeverDropped
<1>1. Safe => ManagedStateNeverDropped
  BY DEF Safe, SourceOfBranch, Decoding, ManagedStateNeverDropped
<1> QED BY <1>1, AlwaysSafe, PTL

-----------------------------------------------------------------------------
(***************************************************************************)
(* Why a delta gives its target back.  A writer states its copies against  *)
(* a source and under a rift; on the writer's own reference apply arrives  *)
(* at the same source and the same rift.  A reference without a map of     *)
(* metadata is the case where the map moves nothing.                       *)
(***************************************************************************)
SourceFor(d, ref) ==
  IF d.type = "raw" THEN ref
  ELSE RemapTokens(BuildTransformedSource(ZeroChecksum(ref), d.flags, d.pp), d.flags, d.pp)

RiftFor(d, ref) == IF d.type = "raw" THEN NoRift ELSE CopyRift(ref, d.pp, d.pp.cli)

\* Deltas with a preprocess are of images of one machine, for the codec of the crate.
PeShape(d, ref, tgt) ==
  /\ ref \in Image /\ PePair(ref, tgt)
  /\ d.form = "forward" /\ d.codec = "lzx" /\ d.flags = PeFlags
  /\ d.type \in {tgt.machine, "cli4"}
  /\ d.pp.full /\ d.pp.stamp = tgt.stamp
  /\ d.pp.cli # 0 => ref.clr = "sound"

\* Only forward deltas have calls to translate back.
RawShape(d) ==
  /\ d.type = "raw"
  /\ d.codec \in {"lzx", "lzms", "bsdiff"}
  /\ d.form \in {"forward", "reversal", "pa19"}
  /\ d.form # "forward" => d.flags = {}

Faithful(d, ref, tgt) ==
  /\ d.patch.carried = UndoE8(d.flags, tgt)
  /\ d.patch.rift = RiftFor(d, ref)
  /\ \A p \in d.patch.copied : SourceFor(d, ref)[p] = d.patch.carried[p]
  /\ d.hash.of = tgt /\ d.oldSize = ref.size
  /\ RawShape(d) \/ PeShape(d, ref, tgt)

\* What apply has reached on the delta's own reference, phase by phase.
OnTheWay ==
  reference = made.ref =>
    /\ phase = "decode" => source = SourceFor(delta, reference) /\ rift = RiftFor(delta, reference)
    /\ phase = "finish" => output = UndoE8(delta.flags, made.tgt)
    /\ ReconstructsUnlessExcused

Reconstructing == Faithful(delta, made.ref, made.tgt) /\ OnTheWay

-----------------------------------------------------------------------------
\* The two translations of calls undo one another.
LEMMA UndoTwice ==
  ASSUME NEW flags, NEW image \in Image
  PROVE  /\ UndoE8(flags, image) \in Image
         /\ UndoE8(flags, UndoE8(flags, image)) = image
<1> DEFINE there == [image EXCEPT !.body = (@ + 2) % 4]
           back  == [there EXCEPT !.body = (@ + 2) % 4]
<1>1. image.body \in 0 .. 3 BY DEF Image
<1>2. (image.body + 2) % 4 \in 0 .. 3 /\ (((image.body + 2) % 4) + 2) % 4 = image.body
  BY <1>1
<1>3. /\ there \in Image /\ there.body = (image.body + 2) % 4
      /\ there.machine = image.machine /\ there.clr = image.clr
  BY <1>2 DEF Image
<1>4. back = image
  <2>1. back = [image EXCEPT !.body = (((image.body + 2) % 4) + 2) % 4] BY DEF Image
  <2> QED BY <1>2, <2>1 DEF Image
<1>5. CASE "e8" \in flags /\ image.machine = "i386" /\ image.clr = "none"
  <2>1. image.body # Junk /\ there.body # Junk BY <1>1, <1>2, <1>3 DEF Junk
  <2>2. UndoE8(flags, image) = there BY <1>5, <2>1, Zenon DEF UndoE8
  <2>3. UndoE8(flags, there) = back
    <3> HIDE DEF there
    <3> QED BY <1>3, <1>5, <2>1, Zenon DEF UndoE8
  <2> QED BY <1>3, <1>4, <2>2, <2>3, Zenon
<1>6. CASE ~("e8" \in flags /\ image.machine = "i386" /\ image.clr = "none")
  <2>1. UndoE8(flags, image) = image BY <1>6, Zenon DEF UndoE8
  <2> QED BY <2>1, Zenon
<1> QED BY <1>5, <1>6

\* A patch made under the rift at hand gives its file back on a source that agrees
\* with it in every part it copies.
LEMMA CodecRebuilds ==
  ASSUME NEW src, NEW patch, NEW under,
         patch.carried \in Image, patch.rift = under,
         \A p \in patch.copied : src[p] = patch.carried[p]
  PROVE  Decompress(src, patch, under) = patch.carried
<1>1. Decompress(src, patch, under) = [p \in DOMAIN patch.carried |-> patch.carried[p]]
  BY DEF Decompress
<1>2. patch.carried = [p \in DOMAIN patch.carried |-> patch.carried[p]] BY DEF Image
<1> QED BY <1>1, <1>2

\* Where there is no map of metadata its step changes nothing.
LEMMA NothingRemapped ==
  ASSUME NEW image \in Image, IsPe(image), NEW flags, NEW pp, pp.cli = 0
  PROVE  LET native == BuildTransformedSource(ZeroChecksum(image), flags, pp)
         IN  RemapTokens(native, flags, pp) = native
<1> DEFINE zeroed  == ZeroChecksum(image)
           unbound == Unbind(zeroed, flags)
           moved   == Relocate(unbound, flags, pp.base)
           native  == BuildTransformedSource(zeroed, flags, pp)
<1>1. zeroed.token = image.token /\ "token" \in DOMAIN zeroed /\ IsPe(zeroed)
  BY DEF ZeroChecksum, IsPe, Image
<1>2. unbound.token = image.token /\ "token" \in DOMAIN unbound
  <2> HIDE DEF zeroed
  <2> QED BY <1>1 DEF Unbind
<1>3. moved.token = image.token /\ "token" \in DOMAIN moved
  <2> HIDE DEF unbound
  <2> QED BY <1>2 DEF Relocate
<1>4. native = [moved EXCEPT !.stamp = pp.stamp, !.base = pp.base]
  <2> HIDE DEF zeroed
  <2> QED BY <1>1 DEF BuildTransformedSource
<1>5. /\ native.token = image.token /\ "token" \in DOMAIN native
      /\ native = [p \in DOMAIN native |-> native[p]]
  <2> HIDE DEF moved, native
  <2> QED BY <1>3, <1>4
<1>6. image.token \in 0 .. Words - 1 /\ Words \in Nat \ {0}
  BY PipelineAssumption DEF Image
<1>7. (image.token + pp.cli) % Words = image.token BY <1>6
<1>8. [native EXCEPT !.token = (@ + pp.cli) % Words] = native
  <2> HIDE DEF native
  <2> QED BY <1>5, <1>7
<1>9. RemapTokens(native, flags, pp) = native
  <2>1. CASE "cli" \in flags
    <3> HIDE DEF native
    <3> QED BY <1>8, <2>1, Zenon DEF RemapTokens
  <2>2. CASE "cli" \notin flags
    <3> HIDE DEF native
    <3>1. [native EXCEPT !.token = @] = native BY <1>5
    <3> QED BY <2>2, <3>1, <1>5 DEF RemapTokens
  <2> QED BY <2>1, <2>2
<1> QED BY <1>9, Zenon

-----------------------------------------------------------------------------
(***************************************************************************)
(* Every writer's delta is faithful to its pair.                           *)
(***************************************************************************)
LEMMA RawDeltaFaithful ==
  ASSUME NEW ref, NEW tgt \in Image, NEW worth, NEW hash \in {NoHash(tgt), Hash(tgt)}
  PROVE  Faithful(RawDelta(ref, tgt, hash, worth), ref, tgt)
<1> DEFINE d == RawDelta(ref, tgt, hash, worth)
<1>1. /\ d.form = "forward" /\ d.type = "raw" /\ d.codec = "lzx" /\ d.flags = {}
      /\ d.oldSize = ref.size /\ d.hash = hash
      /\ d.patch = Compress(ref, tgt, NoRift, worth)
  BY DEF RawDelta
<1>2. hash.of = tgt BY DEF NoHash, Hash
<1>3. UndoE8(d.flags, tgt) = tgt BY <1>1 DEF UndoE8
<1>4. /\ d.patch.carried = tgt /\ d.patch.rift = NoRift
      /\ \A p \in d.patch.copied : ref[p] = tgt[p]
  BY <1>1 DEF Compress
<1> SUFFICES Faithful(d, ref, tgt) OBVIOUS
<1> HIDE DEF d
<1> QED BY <1>1, <1>2, <1>3, <1>4 DEF Faithful, RawShape, SourceFor, RiftFor

LEMMA PeDeltaFaithful ==
  ASSUME NEW ref \in Image, NEW tgt \in Image, NEW worth, PePair(ref, tgt)
  PROVE  Faithful(PeDelta(ref, tgt, worth), ref, tgt)
<1> DEFINE d  == PeDelta(ref, tgt, worth)
           pp == BuildPreprocess(tgt)
<1>1. /\ d.form = "forward" /\ d.type = tgt.machine /\ d.codec = "lzx" /\ d.flags = PeFlags
      /\ d.oldSize = ref.size /\ d.hash = Hash(tgt) /\ d.pp = pp
      /\ d.patch = Compress(PeSource(ref, pp), tgt, CopyRift(ref, pp, 0), worth)
  BY DEF PeDelta
<1>2. pp.full /\ pp.stamp = tgt.stamp /\ pp.cli = 0 BY DEF BuildPreprocess
<1>3. tgt.machine # "raw" /\ IsPe(ref) BY DEF PePair, IsPe
<1>4. UndoE8(PeFlags, tgt) = tgt BY DEF UndoE8, PeFlags
<1>5. PeSource(ref, pp) = SourceFor(d, ref)
  <2> HIDE DEF pp, d
  <2>1. RemapTokens(PeSource(ref, pp), PeFlags, pp) = PeSource(ref, pp)
    BY <1>2, <1>3, NothingRemapped DEF PeSource
  <2> QED BY <1>1, <1>3, <2>1 DEF SourceFor, PeSource
<1>6. RiftFor(d, ref) = CopyRift(ref, pp, 0)
  <2> HIDE DEF pp, d
  <2> QED BY <1>1, <1>2, <1>3 DEF RiftFor
<1>7. /\ d.patch.carried = tgt /\ d.patch.rift = CopyRift(ref, pp, 0)
      /\ \A p \in d.patch.copied : PeSource(ref, pp)[p] = tgt[p]
  <2> HIDE DEF pp, d
  <2> QED BY <1>1 DEF Compress
<1>8. Hash(tgt).of = tgt BY DEF Hash
<1> SUFFICES Faithful(d, ref, tgt) OBVIOUS
<1> HIDE DEF d, pp
<1>9. PeShape(d, ref, tgt) BY <1>1, <1>2 DEF PeShape
<1> QED BY <1>1, <1>4, <1>5, <1>6, <1>7, <1>8, <1>9 DEF Faithful

\* A delta of managed code, whichever of the two types it names.
LEMMA ManagedDeltaFaithful ==
  ASSUME NEW ref \in Image, NEW tgt \in Image, NEW worth, PePair(ref, tgt), ref.clr = "sound",
         NEW pp, pp = [BuildPreprocess(tgt) EXCEPT !.cli = 1],
         NEW d,
         d.form = "forward", d.codec = "lzx", d.type \in {tgt.machine, "cli4"}, d.flags = PeFlags,
         d.oldSize = ref.size, d.hash = NoHash(tgt), d.pp = pp,
         d.patch = Compress(RemapTokens(PeSource(ref, pp), PeFlags, pp), tgt,
                            CopyRift(ref, pp, pp.cli), worth)
  PROVE  Faithful(d, ref, tgt)
<1>2. pp.full /\ pp.stamp = tgt.stamp BY DEF BuildPreprocess
<1>3. d.type # "raw" BY DEF PePair
<1>4. UndoE8(PeFlags, tgt) = tgt BY DEF UndoE8, PeFlags
<1>5. SourceFor(d, ref) = RemapTokens(PeSource(ref, pp), PeFlags, pp)
  BY <1>3, Zenon DEF SourceFor, PeSource
<1>6. RiftFor(d, ref) = CopyRift(ref, pp, pp.cli) BY <1>3, Zenon DEF RiftFor
<1>7. /\ d.patch.carried = tgt /\ d.patch.rift = CopyRift(ref, pp, pp.cli)
      /\ \A p \in d.patch.copied : RemapTokens(PeSource(ref, pp), PeFlags, pp)[p] = tgt[p]
  BY DEF Compress
<1>8. d.hash.of = tgt BY DEF NoHash
<1>9. PeShape(d, ref, tgt) BY <1>2 DEF PeShape
<1> QED BY <1>4, <1>5, <1>6, <1>7, <1>8, <1>9 DEF Faithful

LEMMA GenuineDeltaFaithful ==
  ASSUME NEW ref \in Image, NEW tgt \in Image, NEW worth, NEW d \in GenuineDeltas(ref, tgt, worth)
  PROVE  Faithful(d, ref, tgt)
<1> DEFINE raw == RawDelta(ref, tgt, NoHash(tgt), worth)
           pp == [BuildPreprocess(tgt) EXCEPT !.cli = 1]
           transformed == RemapTokens(PeSource(ref, pp), PeFlags, pp)
           managed ==
             [PeDelta(ref, tgt, worth) EXCEPT
                !.pp = pp, !.hash = NoHash(tgt),
                !.patch = Compress(transformed, tgt, CopyRift(ref, pp, pp.cli), worth)]
           translated == RawDelta(ref, UndoE8({"e8"}, tgt), Hash(tgt), worth)
<1>0. Faithful(raw, ref, tgt) BY RawDeltaFaithful
<1>1. CASE d \in {[raw EXCEPT !.codec = "lzms"], [raw EXCEPT !.codec = "bsdiff"]}
  <2>1. /\ d.hash = raw.hash /\ d.type = "raw" /\ d.form = raw.form /\ d.form = "forward"
        /\ d.flags = raw.flags /\ d.patch = raw.patch /\ d.oldSize = raw.oldSize
        /\ d.codec \in {"lzms", "bsdiff"} /\ raw.type = "raw"
    BY <1>1 DEF RawDelta
  <2> HIDE DEF raw
  <2> QED BY <1>0, <2>1 DEF Faithful, SourceFor, RiftFor, RawShape
<1>2. CASE d \in {[raw EXCEPT !.form = "reversal", !.hash = Hash(tgt)],
                  [raw EXCEPT !.form = "pa19", !.hash = Hash(tgt)]}
  <2>1. /\ raw.type = "raw" /\ raw.flags = {} /\ raw.codec = "lzx"
        /\ {"form", "type", "flags", "oldSize", "hash", "patch", "codec"} \subseteq DOMAIN raw
    BY DEF RawDelta
  <2>2. /\ d.type = raw.type /\ d.flags = raw.flags /\ d.patch = raw.patch
        /\ d.oldSize = raw.oldSize /\ d.codec = raw.codec
    <3> HIDE DEF raw
    <3> QED BY <1>2, <2>1
  <2>3. d.hash = Hash(tgt) /\ d.form \in {"reversal", "pa19"}
    <3> HIDE DEF raw
    <3> QED BY <1>2, <2>1
  <2>4. d.hash.of = tgt BY <2>3 DEF Hash
  <2> HIDE DEF raw
  <2> QED BY <1>0, <2>1, <2>2, <2>3, <2>4 DEF Faithful, SourceFor, RiftFor, RawShape
<1>3. CASE /\ PePair(ref, tgt) /\ ref.clr = "sound"
          /\ d \in {managed, [managed EXCEPT !.type = "cli4"]}
  <2>1. /\ d.form = "forward" /\ d.codec = "lzx" /\ d.type \in {tgt.machine, "cli4"}
        /\ d.flags = PeFlags /\ d.oldSize = ref.size
        /\ d.hash = NoHash(tgt) /\ d.pp = pp
        /\ d.patch = Compress(transformed, tgt, CopyRift(ref, pp, pp.cli), worth)
    <3> HIDE DEF pp, transformed
    <3> QED BY <1>3 DEF PeDelta
  <2>2. PICK q : q = pp OBVIOUS
  <2> HIDE DEF pp
  <2> QED BY <1>3, <2>1, ManagedDeltaFaithful DEF pp
<1>4. CASE d = [translated EXCEPT !.flags = {"e8"}]
  <2>1. /\ d.hash.of = tgt /\ d.type = "raw" /\ d.form = "forward" /\ d.codec = "lzx"
        /\ d.flags = {"e8"} /\ d.oldSize = ref.size
        /\ d.patch = Compress(ref, UndoE8({"e8"}, tgt), NoRift, worth)
    BY <1>4 DEF RawDelta, Hash
  <2>2. /\ d.patch.carried = UndoE8({"e8"}, tgt) /\ d.patch.rift = NoRift
        /\ \A p \in d.patch.copied : ref[p] = d.patch.carried[p]
    BY <2>1 DEF Compress
  <2> QED BY <2>1, <2>2 DEF Faithful, SourceFor, RiftFor, RawShape
<1> QED BY <1>1, <1>2, <1>3, <1>4 DEF GenuineDeltas

-----------------------------------------------------------------------------
(***************************************************************************)
(* The end of apply, on the delta's own reference.                         *)
(***************************************************************************)

\* The target's timestamps are left as they are, unless one of them collides.
LEMMA TimestampsStay ==
  ASSUME NEW ref, IsPe(ref), NEW tgt \in Image, NEW pp, pp.stamp = tgt.stamp,
         ref.stamp \in {0, tgt.stamp} \/ tgt.site # ref.stamp
  PROVE  FixTimestamps(ref, pp, tgt) = tgt
<1>1. CASE ref.stamp \in {0, pp.stamp} \/ ~IsPe(tgt)
  BY <1>1, Zenon DEF FixTimestamps
<1>2. CASE ~(ref.stamp \in {0, pp.stamp} \/ ~IsPe(tgt))
  <2>1. tgt.stamp # ref.stamp /\ tgt.site # ref.stamp BY <1>2
  <2> DEFINE fixed == [tgt EXCEPT !.stamp = IF @ = ref.stamp THEN pp.stamp ELSE @,
                                  !.site = IF @ = ref.stamp THEN pp.stamp ELSE @]
  <2>2. FixTimestamps(ref, pp, tgt) = fixed
    BY <1>2, Zenon DEF FixTimestamps
  <2>3. fixed = tgt BY <2>1 DEF Image
  <2> HIDE DEF fixed
  <2> QED BY <2>2, <2>3, Zenon
<1> QED BY <1>1, <1>2

\* Apply reaches the writer's source and rift.
LEMMA TransformReaches ==
  ASSUME Safe, Faithful(delta, made.ref, made.tgt), TransformSource, reference = made.ref
  PROVE  source' = SourceFor(delta, reference) /\ rift' = RiftFor(delta, reference)
<1> DEFINE native == BuildTransformedSource(ZeroChecksum(reference), delta.flags, delta.pp)
<1>1. ChosenBranch BY DEF TransformSource, Safe
<1>2. CASE RawShape(delta)
  <2>1. branch = "raw" BY <1>1, <1>2 DEF RawShape, ChosenBranch, Managed, HasPreprocess
  <2>2. source' = reference /\ rift' = NoRift BY <2>1 DEF TransformSource
  <2> QED BY <1>2, <2>2 DEF RawShape, SourceFor, RiftFor
<1>3. CASE PeShape(delta, made.ref, made.tgt)
  <2>1. /\ reference \in Image /\ IsPe(reference) /\ delta.type # "raw" /\ HasPreprocess
    BY <1>3 DEF PeShape, PePair, IsPe, HasPreprocess
  <2>2. CASE branch = "classic"
    <3>1. /\ source' = RemapTokens(native, delta.flags, delta.pp)
          /\ rift' = CopyRift(reference, delta.pp, delta.pp.cli)
      BY <2>2 DEF TransformSource
    <3> QED BY <2>1, <3>1, Zenon DEF SourceFor, RiftFor
  <2>3. CASE branch # "classic"
    <3>1. ~Managed /\ branch = "native" BY <1>1, <2>1, <2>3 DEF ChosenBranch
    <3>2. delta.pp.cli = 0 BY <1>1, <2>1, <3>1 DEF ChosenBranch, Unsupported, HasManagedCliState
    <3>3. source' = native /\ rift' = CopyRift(reference, delta.pp, 0)
      BY <3>1 DEF TransformSource
    <3>4. RemapTokens(native, delta.flags, delta.pp) = native
      BY <2>1, <3>2, NothingRemapped
    <3> QED BY <2>1, <3>2, <3>3, <3>4, Zenon DEF SourceFor, RiftFor
  <2> QED BY <2>2, <2>3
<1> QED BY <1>2, <1>3 DEF Faithful

\* On the writer's source and rift the codec gives back the file it was given.
LEMMA DecodeReaches ==
  ASSUME Safe, Faithful(delta, made.ref, made.tgt), OnTheWay, Decode, reference = made.ref
  PROVE  output' = UndoE8(delta.flags, made.tgt)
<1>1. source = SourceFor(delta, reference) /\ rift = RiftFor(delta, reference)
  BY DEF OnTheWay, Decode
<1>2. /\ delta.patch.carried = UndoE8(delta.flags, made.tgt)
      /\ delta.patch.rift = rift
      /\ \A p \in delta.patch.copied : source[p] = delta.patch.carried[p]
  BY <1>1 DEF Faithful
<1>3. delta.patch.carried \in Image BY <1>2, UndoTwice DEF Safe
<1>4. Decompress(source, delta.patch, rift) = delta.patch.carried
  BY <1>2, <1>3, CodecRebuilds
<1>5. CASE delta.codec = "lzx" BY <1>2, <1>4, <1>5 DEF Decode
<1>6. CASE delta.codec = "lzms" BY <1>2, <1>6 DEF Decode
<1>7. CASE delta.codec = "bsdiff"
  <2>1. RawShape(delta) BY <1>7 DEF Faithful, PeShape
  <2>2. source = reference /\ rift = NoRift BY <1>1, <2>1 DEF RawShape, SourceFor, RiftFor
  <2> QED BY <1>2, <1>4, <1>7, <2>2 DEF Decode
<1> QED BY <1>5, <1>6, <1>7 DEF Faithful, RawShape, PeShape

\* What is done after the codec leads to the target, or its timestamps collide.
LEMMA FinishReaches ==
  ASSUME Safe, Faithful(delta, made.ref, made.tgt), OnTheWay, Finish, reference = made.ref
  PROVE  Reconstructed' \/ StampCollides
<1>1. output = UndoE8(delta.flags, made.tgt) BY DEF OnTheWay, Finish
<1>2. made.tgt \in Image BY DEF Safe
<1>3. delta.hash.of = made.tgt BY DEF Faithful
<1>4. ASSUME Finished = made.tgt PROVE Reconstructed'
  <2>1. Verified(Finished) BY <1>3, <1>4 DEF Verified
  <2>2. output' = made.tgt /\ result'.ok /\ made' = made BY <1>4, <2>1 DEF Finish, Return
  <2> QED BY <2>2 DEF Reconstructed
<1>5. CASE RawShape(delta)
  <2>1. Finished = UndoE8(delta.flags, output) BY <1>5 DEF RawShape, Finished, HasPreprocess
  <2> QED BY <1>1, <1>2, <1>4, <2>1, UndoTwice
<1>6. CASE PeShape(delta, made.ref, made.tgt) /\ ~StampCollides
  <2>1. /\ HasPreprocess /\ IsPe(made.ref) /\ delta.flags = PeFlags
        /\ delta.pp.stamp = made.tgt.stamp
    BY <1>6 DEF PeShape, PePair, IsPe, HasPreprocess
  <2>2. made.ref.stamp \in {0, made.tgt.stamp} \/ made.tgt.site # made.ref.stamp
    BY <1>6, <2>1 DEF StampCollides
  <2>3. \A image : UndoE8(PeFlags, image) = image BY DEF UndoE8, PeFlags
  <2>4. FixTimestamps(made.ref, delta.pp, made.tgt) = made.tgt
    BY <1>2, <2>1, <2>2, TimestampsStay
  <2>5. Finished = made.tgt BY <1>1, <2>1, <2>3, <2>4 DEF Finished
  <2> QED BY <1>4, <2>5
<1> QED BY <1>5, <1>6 DEF Faithful

-----------------------------------------------------------------------------
(***************************************************************************)
(* Every step keeps Reconstructing.                                        *)
(***************************************************************************)
LEMMA InitReconstructing == Init => Reconstructing
<1> SUFFICES ASSUME Init PROVE Reconstructing OBVIOUS
<1>1. Nothing \in Image BY PipelineAssumption DEF Nothing, Image, Machines
<1>2. Faithful(delta, made.ref, made.tgt) BY <1>1, RawDeltaFaithful DEF Init
<1> QED BY <1>2 DEF Reconstructing, OnTheWay, ReconstructsUnlessExcused, OnItsReference, Init

\* Where a delta has just been made nothing is on its way.
LEMMA DeltaReconstructing ==
  ASSUME Faithful(delta', made'.ref, made'.tgt), phase' = "delta"
  PROVE  Reconstructing'
BY DEF Reconstructing, OnTheWay, ReconstructsUnlessExcused, OnItsReference

LEMMA MakersReconstructing ==
  Safe /\ Reconstructing /\ (Create \/ Receive \/ GetReverse) => Reconstructing'
<1> SUFFICES ASSUME Safe, Reconstructing, Create \/ Receive \/ GetReverse PROVE Reconstructing'
  OBVIOUS
<1>1. CASE Create
  <2>1. PICK ref \in Images, tgt \in Images, worth \in CopyParts :
          /\ made' = [ref |-> ref, tgt |-> tgt, own |-> TRUE, back |-> FALSE]
          /\ \/ PePair(ref, tgt) /\ delta' = PeDelta(ref, tgt, worth)
             \/ \E hash \in {NoHash(tgt), Hash(tgt)} : delta' = RawDelta(ref, tgt, hash, worth)
    BY <1>1 DEF Create
  <2>2. ref \in Image /\ tgt \in Image BY PipelineAssumption
  <2>3. Faithful(delta', ref, tgt) BY <2>1, <2>2, PeDeltaFaithful, RawDeltaFaithful
  <2> QED BY <1>1, <2>1, <2>3, DeltaReconstructing DEF Create
<1>2. CASE Receive
  <2>1. PICK ref \in Images, tgt \in Images, worth \in CopyParts :
          /\ made' = [ref |-> ref, tgt |-> tgt, own |-> FALSE, back |-> FALSE]
          /\ delta' \in GenuineDeltas(ref, tgt, worth)
    BY <1>2 DEF Receive
  <2>2. ref \in Image /\ tgt \in Image BY PipelineAssumption
  <2>3. Faithful(delta', ref, tgt) BY <2>1, <2>2, GenuineDeltaFaithful
  <2> QED BY <1>2, <2>1, <2>3, DeltaReconstructing DEF Receive
<1>3. CASE GetReverse
  <2>1. PICK worth \in CopyParts : delta' = RawDelta(output, reference, NoHash(reference), worth)
    BY <1>3 DEF GetReverse
  <2>2. Faithful(delta', output, reference) BY <2>1, RawDeltaFaithful DEF Safe
  <2> QED BY <1>3, <2>2, DeltaReconstructing DEF GetReverse
<1> QED BY <1>1, <1>2, <1>3

\* The delta and its reference stay while it is applied: what is left is OnTheWay.
LEMMA AppliersReconstructing ==
  ASSUME Reconstructing, UNCHANGED <<delta, made>>, OnTheWay'
  PROVE  Reconstructing'
BY DEF Reconstructing

\* A returned delta gave its target or has an excuse.
LEMMA ReturnReconstructing ==
  ASSUME Reconstructing, UNCHANGED <<delta, made, reference>>, phase' = "returned",
         reference = made.ref =>
           \/ Reconstructed'
           \/ delta.form # "pa19" /\ delta.size > MaxTargetSize
           \/ HasPreprocess /\ (delta.type = "cli4" \/ reference.clr = "broken")
           \/ StampCollides
  PROVE  Reconstructing'
<1>1. OnTheWay'
  BY DEF OnTheWay, ReconstructsUnlessExcused, OnItsReference, StampCollides, HasPreprocess
<1> QED BY <1>1, AppliersReconstructing

LEMMA RefusalsReconstructing ==
  Safe /\ Reconstructing /\ (RefuseOversize \/ RefuseUnsupported \/ RefuseMetadata)
    => Reconstructing'
<1> SUFFICES ASSUME Safe, Reconstructing,
                    RefuseOversize \/ RefuseUnsupported \/ RefuseMetadata
             PROVE Reconstructing'
  OBVIOUS
<1>1. UNCHANGED <<delta, made, reference>> /\ phase' = "returned"
  BY DEF RefuseOversize, RefuseUnsupported, RefuseMetadata, Return
<1>2. CASE RefuseOversize
  <2>1. delta.form # "pa19" /\ delta.size > MaxTargetSize BY <1>2 DEF RefuseOversize
  <2> QED BY <1>1, <2>1, ReturnReconstructing
<1>3. CASE RefuseMetadata
  <2>1. ChosenBranch /\ branch = "classic" /\ ~MetadataParses(reference)
    BY <1>3 DEF RefuseMetadata, Safe
  <2>2. Managed BY <2>1 DEF ChosenBranch
  <2>3. HasPreprocess /\ reference.clr = "broken"
    BY <2>1, <2>2 DEF Managed, IsManagedPe, MetadataParses, Safe, Image
  <2> QED BY <1>1, <2>3, ReturnReconstructing
<1>4. CASE RefuseUnsupported
  <2>1. Unsupported BY <1>4 DEF RefuseUnsupported
  <2>2. HasPreprocess BY <2>1 DEF Unsupported, Managed
  <2>3. ASSUME reference = made.ref PROVE delta.type = "cli4"
    <3>1. PeShape(delta, made.ref, made.tgt)
      BY <2>2 DEF Reconstructing, Faithful, RawShape, HasPreprocess
    <3>2. IsPe(reference) /\ made.tgt.machine \in {"i386", "amd64"}
      BY <2>3, <3>1 DEF PeShape, PePair, IsPe
    <3>3. delta.pp.cli # 0 => Managed
      BY <2>2, <2>3, <3>1, <3>2 DEF PeShape, Managed, IsManagedPe
    <3>4. ManagedBranch(delta.type) # "classic"
      BY <2>1, <3>3 DEF Unsupported, HasManagedCliState
    <3> QED BY <3>1, <3>2, <3>4 DEF PeShape, ManagedBranch
  <2> QED BY <1>1, <2>2, <2>3, ReturnReconstructing
<1> QED BY <1>2, <1>3, <1>4

\* A patch without a rift is replayed on the file itself.
LEMMA ReplayReaches ==
  ASSUME Safe, Reconstructing, delta.form # "forward", reference = made.ref
  PROVE  /\ Decompress(reference, delta.patch, NoRift) = made.tgt
         /\ delta.hash.of = made.tgt /\ reference.size = delta.oldSize
<1>1. RawShape(delta) /\ delta.flags = {}
  BY DEF Reconstructing, Faithful, PeShape, RawShape
<1>2. UndoE8({}, made.tgt) = made.tgt BY DEF UndoE8
<1>3. /\ delta.patch.carried = made.tgt /\ delta.patch.rift = NoRift
      /\ \A p \in delta.patch.copied : reference[p] = delta.patch.carried[p]
      /\ delta.hash.of = made.tgt /\ reference.size = delta.oldSize
  BY <1>1, <1>2 DEF Reconstructing, Faithful, RawShape, SourceFor, RiftFor
<1>4. made.tgt \in Image BY DEF Safe
<1> QED BY <1>3, <1>4, CodecRebuilds

LEMMA ReplaysReconstructing ==
  Safe /\ Reconstructing /\ (ApplyPa19 \/ ApplyReversal) => Reconstructing'
<1> SUFFICES ASSUME Safe, Reconstructing, ApplyPa19 \/ ApplyReversal PROVE Reconstructing'
  OBVIOUS
<1>1. UNCHANGED <<delta, made, reference>> /\ phase' = "returned" /\ delta.form # "forward"
  BY DEF ApplyPa19, ApplyReversal, Return
<1>2. ASSUME reference = made.ref PROVE Reconstructed'
  <2> DEFINE replayed == Decompress(reference, delta.patch, NoRift)
  <2>1. replayed = made.tgt /\ delta.hash.of = made.tgt /\ reference.size = delta.oldSize
    BY <1>1, <1>2, ReplayReaches
  <2>2. output' = replayed /\ result'.ok
    <3>1. CASE ApplyPa19
      <4>1. Return(replayed, replayed = delta.hash.of, "hash")
        BY <2>1, <3>1, Zenon DEF ApplyPa19
      <4> HIDE DEF replayed
      <4> QED BY <2>1, <4>1 DEF Return
    <3>2. CASE ApplyReversal
      <4>1. Return(replayed, Verified(replayed), "hash") BY <3>2, Zenon DEF ApplyReversal
      <4> HIDE DEF replayed
      <4>2. Verified(replayed) BY <2>1 DEF Verified
      <4> QED BY <4>1, <4>2 DEF Return
    <3> QED BY <3>1, <3>2
  <2> HIDE DEF replayed
  <2> QED BY <1>1, <2>1, <2>2 DEF Reconstructed
<1> QED BY <1>1, <1>2, ReturnReconstructing

LEMMA StepReconstructing == Safe /\ Reconstructing /\ [Next]_vars => Reconstructing'
<1> SUFFICES ASSUME Safe, Reconstructing, [Next]_vars PROVE Reconstructing' OBVIOUS
<1>1. CASE UNCHANGED vars
  BY <1>1 DEF vars, Reconstructing, OnTheWay, ReconstructsUnlessExcused, OnItsReference,
              Reconstructed, StampCollides, HasPreprocess
<1>2. CASE Create \/ Receive \/ GetReverse BY <1>2, MakersReconstructing
<1>3. CASE RefuseOversize \/ RefuseUnsupported \/ RefuseMetadata BY <1>3, RefusalsReconstructing
<1>4. CASE ApplyPa19 \/ ApplyReversal BY <1>4, ReplaysReconstructing
<1>5. CASE Apply \/ ChooseBranch
  <2>1. UNCHANGED <<delta, made>> /\ phase' \in {"apply", "source"}
    BY <1>5 DEF Apply, ChooseBranch
  <2>2. OnTheWay' BY <2>1 DEF OnTheWay, ReconstructsUnlessExcused, OnItsReference
  <2> QED BY <2>1, <2>2, AppliersReconstructing
<1>6. CASE TransformSource
  <2>1. UNCHANGED <<delta, made, reference>> /\ phase' = "decode" BY <1>6 DEF TransformSource
  <2>2. reference = made.ref =>
          source' = SourceFor(delta, reference) /\ rift' = RiftFor(delta, reference)
    BY <1>6, TransformReaches DEF Reconstructing
  <2>3. OnTheWay'
    BY <2>1, <2>2 DEF OnTheWay, ReconstructsUnlessExcused, OnItsReference
  <2> QED BY <2>1, <2>3, AppliersReconstructing
<1>7. CASE Decode
  <2>1. UNCHANGED <<delta, made, reference>> /\ phase' = "finish" BY <1>7 DEF Decode
  <2>2. reference = made.ref => output' = UndoE8(delta.flags, made.tgt)
    BY <1>7, DecodeReaches DEF Reconstructing
  <2>3. OnTheWay'
    BY <2>1, <2>2 DEF OnTheWay, ReconstructsUnlessExcused, OnItsReference
  <2> QED BY <2>1, <2>3, AppliersReconstructing
<1>8. CASE Finish
  <2>1. UNCHANGED <<delta, made, reference>> /\ phase' = "returned" BY <1>8 DEF Finish, Return
  <2>2. reference = made.ref => Reconstructed' \/ StampCollides
    BY <1>8, FinishReaches DEF Reconstructing
  <2> QED BY <2>1, <2>2, ReturnReconstructing
<1> QED BY <1>1, <1>2, <1>3, <1>4, <1>5, <1>6, <1>7, <1>8 DEF Next

\* On its own reference every delta gives its target, unless it is over the limit,
\* of a type apply does not support, of metadata that does not parse, or its
\* timestamps collide: for all files, copies and limits, the delta back included.
THEOREM DeltaAlwaysReconstructs == Spec => []ReconstructsUnlessExcused
<1>1. Safe /\ Reconstructing => ReconstructsUnlessExcused
  BY DEF Reconstructing, OnTheWay, ReconstructsUnlessExcused, OnItsReference
<1> QED BY <1>1, InitSafe, StepSafe, InitReconstructing, StepReconstructing, PTL DEF Spec
=============================================================================
