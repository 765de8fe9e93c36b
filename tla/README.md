# msdelta in TLA+

A model of `msdelta`, a Rust implementation of Microsoft's delta formats (PA30
and PA31, PA19) with its own LZMS codec: TLA+ modules for the codecs, the codes
below them, the rift tables, the transforms of native and managed images and
the creation and application of a delta; TLC configurations that check them on
small instances; and TLAPS proofs for every instance.

The crate is sequential: no threads, no async, nothing persisted between calls
but the cache of base manifests, which processes share. What is hard in it is
agreement. A delta is right only when two programs, run years apart, keep the
same state step by step: the same table at the same symbol, the same recent
distances, the same offset at the same position, the same transformed bytes to
copy from. A round-trip test says that one pair of runs agreed. The modules
here say why every pair does, where it does not, and which checks and guards
that rests on.

## 1. The system

Paths are relative to the repository's `src`. "Operations" change state.

### Codecs and codes

| Component | State | Operations | Correct when |
|---|---|---|---|
| PseudoLzx decoder `lzx/decode.rs` | output, position, three recent distances, rift lookup table, current segment's tables | literal, match, SOURCE_COPY walk, every error return | every byte comes from where its distance says, a SOURCE_COPY follows its segment at every byte, nothing is written past the target, it returns |
| PseudoLzx encoder `lzx/encode.rs` | hash chains, recent distances, pending lazy match, symbols, segment splits | best match, lazy step, split, encoding of a match and of the tables | the decoder, fed its symbols, is in the same state after each and gives the target |
| Rift tables `lzx/rift.rs` | sorted arrays of (source, target) with wrapping offsets; working intervals of a reversal | multiply, reverse, reduce, lookup, write and read | a product maps as its factors in turn; a reversal leads back; a reduction keeps what the map says; a table arrives as it was written |
| Bit stream `bitstream/mod.rs` | 64-bit accumulator, position, padding | put and take fields, numbers, buffers | what is taken is what was put, and no more |
| Static codes `huffman.rs` | lengths, codes | tree, cut, repair of the Kraft sum, lookup | complete codes for exactly the symbols that occur |
| bsdiff `bsdiff/mod.rs` | scan position, last match, control triples | scan, extend, split an overlap, patch | the triples rebuild the target |
| LZMS core `crates/lzms/src/lib.rs` | output, two queues of four recent offsets, type of the last item | literal, LZ match, delta match; in the encoder hash chains, match finders, a choice by cost | no read before the start or write past the end, overlapping copies repeat, the queues of both ends agree |
| LZMS range coder `range_coder.rs` | low, range, held-back words; range, code; a 64-decision window per context | encode a decision, flush, open, decode a decision | the decisions decoded are those coded, whatever lies behind the coder's words |
| LZMS adaptive codes `adaptive.rs`, `tables.rs` | frequencies, code, countdown to the next rebuild | code a symbol, rebuild and halve | both ends rebuild at the same symbol from the same frequencies |
| LZMS x86 filter `x86_filter.rs` | table of last usages, last position | translate, undo | the second pass decides as the first did |
| Containers `container.rs`, `wim.rs` | tables of chunks | store or compress a chunk, read all or a part | lengths of chunks add up, offsets are read as wide as written |
| XPRESS `xpress.rs` | two cursors over one input | literal, match, block | it takes a word exactly when a bit of it is needed |

### Deltas and images

| Component | State | Operations | Correct when |
|---|---|---|---|
| Create `pa30/encode.rs` | flags, preprocess data, transformed reference, copy rift | `execute`, `apply_get_reverse` | `apply` gives the target back |
| Apply `pa30/mod.rs` | the branch (raw, native, managed), T(source), copy rift, output | parse, transform, decode, fix up, verify | the target of the delta or an error |
| Preprocess, headers `pa30/preprocess.rs`, `header.rs`, `pa19` | the fields of a delta | lay out, read twice, fix timestamps up | both ends read the same fields |
| Reverse deltas `pa30/reverse.rs` | output overwritten by copies, deletes, patches | one per section type | the source comes back |
| PE transforms `pe/transform.rs`, `x64.rs`, `atom.rs` | the image rewritten, a marker of owned bytes | unbind, imports, exports, resources, relocations, calls, jumps, unwind tables | every reference leads to where it has moved and nothing else is touched |
| CLI `pe/cli` | metadata tables, maps of rows and heaps, bodies, signatures | pair, vote, reduce; rewrite code, cells, signatures; build the rift | a row both images have is paired with itself and led to from everywhere |
| Command line `main.rs` | a directory of base manifests | list, read, extract, write | a manifest is decoded with its own base |

`apply` calls the header parser, then by the form of the delta the reversal,
PA19 or the forward path: preprocess parser, PE or CLI transforms, rift algebra,
one codec, timestamp fixup, hash. `execute` makes the same calls up to the
codec's encoder. Everything passes by value or `&mut` within one call; the only
messages are the bytes of the delta, and the only other party is a foreign
writer or reader of the format. The one thing shared is the cache directory.
The oracle crate, the fuzz targets and the lab directories call the library and
are no part of the program.

### What is hard

- Two ends in step: recent distances, repeat queues, segment tables, adaptive
  codes, two bit streams read from both sides of one buffer, a filter that must
  decide alike on bytes it has changed.
- A value looked up and used after it went stale: a rift offset across a
  breakpoint, timestamps found by value in the finished output, tokens found
  through rows that are rewritten.
- Order: the product of rifts, transforms of the source, table before table in
  the pairing of rows, fields that nothing in the stream names.
- Boundaries: equal breakpoints, wrapping offsets, carries, eight segments, a
  match cut by the end, overlapping moves, cells of another width, the size limit.
- One step of several failing: metadata that cannot be parsed at one end.
- Processes: a cache without a lock, written under the final name, killed midway.

`PROJECT.json` lists each at its line, with the properties aimed at it. One has
none: apply takes an LZMS payload as long as the target for the target, so a
bsdiff stream of just that length would be mistaken. The model's streams carry
their codec as a label; the hash is what catches a wrong guess.

## 2. The modules

One module per component; the `MC...` modules give constants their values where
a configuration cannot.

```
CodeBasics ── BitStream, HuffmanTable, MatchSymbols, RiftSerial, AdaptiveCode, XpressHuffman
LzxRift ── LzxDecoder ──(implements)── DeltaBuffer
   ├────── LzxEncoder ── LzxCodec            encoder and decoder in lockstep
   └────── RiftTables ── RiftAlgebra ── PeCopyRift;  RiftReduce, RiftSerial
LzmsQueue ── LzmsDecoder, LzmsEncoder ── LzmsCodec
LzmsRangeCoder                               encoder, then decoder, on one buffer
CliMapBuild ── CliTransform                  one managed apply, in phases
PeTransforms                                 T(source) of a native image
Pa30Pipeline                                 execute, apply, apply_get_reverse
BsDiff  ReverseDelta  ChunkedResource  X86Filter  DeltaEnvelope  CompositeFormat  BaseCache
...Proofs                                    theorems of the module they name; RiftProofs of
                                             RiftAlgebra, PeCopyRift and RiftReduce,
                                             LzmsCodingProofs of LzmsRangeCoder and X86Filter,
                                             CodesProofs of BsDiff, DeltaEnvelope,
                                             CompositeFormat, MatchSymbols, BitStream, BaseCache
```

| Module | Code | State and actions |
|---|---|---|
| `LzxRift` | OffsetRiftTable of `rift.rs`, the merge in `decode.rs` | operators: the boundary entry merged, the table sorted, `offset_at`, `segment_at` |
| `LzxDecoder` | `decompress_into`, `copy_one` | `status`, `pos`, `output`, `lru`, `walk`: one action per way through the loop, one per segment of a SOURCE_COPY, one per error return. What the symbol reader can give is an input |
| `DeltaBuffer` | what `decompress_into` promises | a buffer that only grows, byte by byte from a literal, the reference or itself; then done or failed |
| `LzxEncoder`, `LzxCodec` | `best_match_at`, `compress_inner`, and the decoder's loop | the encoder finds a match, defers or emits it; symbols are split in segments with a table for each class of symbol; the decoder reads them back, one step for each |
| `CompositeFormat` | `encode_compression_lengths`, `read_compression_lengths` | boundaries and run-length coded tables, written symbol by symbol and read back |
| `MatchSymbols` | `compute_symbol_info`, `encode_match`, `read_symbol`, `decode_offset` | a match counted, written as symbols and fields, read; the code's own numbers |
| `CodeBasics` | what the codes share | numbers as bits, slots that double, the tree of a Huffman code |
| `BitStream` | `BitWriter`, `BitReader` | fields put, the stream closed, fields taken or refused |
| `HuffmanTable` | `from_frequencies`, `from_lengths`, `read_symbol` | tree, cut, each step of the two repair loops, codewords |
| `RiftTables` | `RiftTable` | tables over words of `2 * Half` values, wrapping arithmetic, lookup with its wrap to the last entry |
| `RiftAlgebra`, `RiftReduce` | `multiply`, `reverse`, `internal_reduce` with the callers of `create_map.rs` | one action per piece, per segment and insertion, per entry of the vote |
| `RiftSerial` | `to_writer`, `from_reader`, `IntFormat` | the two formats, then entry by entry |
| `PeCopyRift` | `pa30/mod.rs` 70-162 | the chain of products and the reversal that makes the copy rift, and the lookup in it |
| `LzmsQueue`, `LzmsDecoder` | `decompress` | output, queues, last type; one action per item, one per memmove of an overlapping copy and per byte of a delta match |
| `LzmsEncoder`, `LzmsCodec` | `compress` | chains, candidates, any preferred choice, the item written; the decoder takes the decisions and the symbols from their own stream |
| `LzmsRangeCoder` | `range_coder.rs` | `low`, `range`, `cache`, `cache_count`, `first`; decision by decision, flush, then the decoder on the words written and any words behind |
| `AdaptiveCode` | `adaptive.rs`, `tables.rs` | values coded, code rebuilt and halved, words laid from the end, read from there |
| `X86Filter` | `x86_filter.rs` | the walk, one opcode at a time, with its usages; then the walk that undoes it |
| `ChunkedResource` | `container.rs`, `wim.rs` | chunks written with their table in three forms; all or a part read, or refused |
| `XpressHuffman` | `xpress.rs` | an external writer that reserves words, then the reader with its two cursors |
| `BsDiff` | `bsdiff/mod.rs` | suffix array, one doubling a step; each probe of a binary search, its end; scan, extension both ways, split, the bytes of a block; a patch delivered whole or cut short; `bspatch`, block by block |
| `ReverseDelta` | `pa30/reverse.rs` | an external writer of runs, then copies, deletes, patches section by section |
| `DeltaEnvelope` | headers of PA30, PA31, PA19, `preprocess.rs`, `dcm.rs` | a delta as its fields in order, found, dispatched and read |
| `BaseCache` | `main.rs` 300-395, `winsxs.rs` | processes that list, read, extract, create, fill and are killed |
| `CliMapBuild` | `schema.rs`, `create_map.rs`, widths of `metadata.rs`, lookups of `map.rs` | columns, widths, coded indices; heaps by value, rows table by table, lists by owner, blobs and addresses, reduction |
| `CliTransform` | `metadata_transform.rs`, `disasm.rs`, `method.rs`, `signature.rs`, `blob.rs`, `cli/rift.rs` | bodies, cells, signatures, one per action, in the order of `pa30/mod.rs`; then the layout of the tables on both sides and every entry of the rift |
| `PeTransforms` | `transform.rs`, `x64.rs`, `atom.rs` | one action per transform, in registry order, over bytes and the marker |
| `Pa30Pipeline` | `pa30/encode.rs`, `pa30/mod.rs`, `preprocess.rs`, `pa19/mod.rs` | a caller creates a delta or is handed a genuine one, applies it to any file, keeps going with the reverse; each refusal is an action |

Conventions. Variables, actions and operators keep the names of the code where
TLA+ allows it. A constant stands for a constant of the code (`OffsetBias`,
`SegmentSize`, `MaxMatch`, `Word`) or for the inputs enumerated (`References`,
`Rifts`, `NativeImages`). A conversion is modelled by what it does: a match's
symbol carries its class, field and extra bits, a number is its bits, lowest
first or highest first as the stream has it, a wrapping sum is taken modulo the
machine word. What has no code here - the writers of reversals and of XPRESS
streams - is modelled from what the reader accepts. An operator whose comment
begins with "A mistake" is a plausible change of the code, which some property
must notice; no specification uses it.

## 3. The runs

Every run checks all states of its instance; the numbers are distinct states.
`CHECK_DEADLOCK FALSE` everywhere: a call returns, or the caller stops.

| Run | Module | Asks | States |
|---|---|---|---|
| `lzx_decoder` | `MCLzxDecoder` | Does every stream of symbols, right or wrong, leave output, position and provenance consistent, is every byte of a SOURCE_COPY taken at its own segment's offset, and does the call return what DeltaBuffer allows? | 15,840 |
| `lzx_codec` | `MCLzxCodec` | Do encoder and decoder hold the same recent distances and tables at each symbol, is a SOURCE_COPY never longer than its segment, and does each target come back? | 180,693 |
| `lzms_range_coder` | `LzmsRangeCoder` | Are the decisions read those written, with room for every carry, whatever follows the coder's words? | 327,096 |
| `lzms_decoder` | `LzmsDecoder` | Does every stream of items stay in the buffer, and do the doubling moves repeat the pattern? | 186,540 |
| `lzms_codec` | `LzmsCodec` | Do the two streams hold one whole item for each step, are the queues equal, does the data come back? | 138,972 |
| `rift_tables` | `MCRift` | Does a product map as its factors in turn, does a reversal lead back, does a reduction say what the majority of pairs says, does the copy rift lead to origins, and does each walk end? | 172,776 |
| `rift_reverse_single` | `MCRift` | Is the reversal of one segment its inverse? It is not (section 6). | until found |
| `codes` | `MCCodes` | Does every code below the codecs, every binary diff and every container give back what was put into it, refusing what it must, and does a manifest get its base? | 839,611 |
| `base_cache` | `BaseCache` | Does a cached file hold what its name says? It does not (section 6). | until found |
| `images` | `MCImages` | Are the rows of two images paired with themselves, does everything that led to a row lead to its counterpart, do cells line up, and does a native image refer to where things have moved? | 50,610 |
| `pa30_pipeline` | `MCPa30Pipeline` | Does apply give the target or refuse, a delta of this crate reconstruct unless one of four named excuses holds, a managed delta keep its maps? | 195,487 |
| `pa30_stamp` | `MCPa30Pipeline` | Does a delta of this crate always reconstruct? It does not (section 6). | until found |

`rift_tables`, `codes` and `images` hold several components each: the initial
state picks one, the others stand still, so no run multiplies their states.

### Properties, and what breaks them

Each was seen to fail under a plausible change of the code.

- `PositionTracksOutput`, `ProvenanceIsTrue`: the position is the length of the
  output, and every byte equals what its recorded origin holds, through copies
  that start in the reference and end in the output. Broken by a match that is
  not cut at the target's end, and by an origin taken from the position instead
  of the byte copied.
- `ReanchorsEveryByte` (action): a step that copies for SOURCE_COPY takes every
  byte at the offset of that byte's segment. Broken by one lookup per copy.
- `Returns`, `ImplementsDeltaBuffer`: the walk ends also where two breakpoints
  are equal (broken by a chunk that may be empty), and the output grows as the
  abstraction allows (broken by a copy that never reads the output).
- `TablesInStep`, `LruInStep`: at each symbol, the segment and the three
  distances of the decoder are those the encoder had at that symbol. Broken by
  switching tables a symbol early, or by an LRU that shifts without comparing.
- `SourceCopyIsSingleSegment`: what the encoder's cap is for.
- `DecodesWhatWasCoded`, `CarryHasRoom`, `CodeStaysInRange`, `ReadsOwnWords`:
  the range coder, through carries over held-back words, at the first word
  (`CarryHasRoom` needs the first decision to be a literal's, as the encoder's
  is) and at the end (two words flushed instead of four are not enough).
- `StaysInBuffer`, `DoublingRepeats`: nothing is read in front of the output or
  written behind it, and what a step of a copy adds repeats with the offset's period.
- `OneItemFollows`, `QueuesInStep`: the streams of decisions and of symbols hold
  the same items, and the queues agree between them.
- `ReturnsProduct`, `IntervalsApart`, `ReturnsInverse`, `ReducesToMajorities`,
  `CopiesFromOrigins`, `OperationsReturn`: the loops of rift.rs against the maps
  they stand for, defined point by point. A reduction, besides, keeps no entry it
  could do without.
- `RebuildsForItsWindow` (action): a rebuilt adaptive code is the best for all that
  was counted before the rebuild. Broken by halving first.
- `ReadsTheMatch`: a match is read as it was written, its fields are as wide as their
  values, and each of its symbols is in its table and has been counted for it. Broken
  by a band of offsets that is taken for another.
- `TakesWhatWasPut`: fields, integers, numbers and buffers are taken as they were put,
  to the last bit, and none is refused. Broken by a nibble too many.
- `FormatArrives`: tables in runs are read as they were written, to the last symbol,
  and no run covers the last length of a segment.
- `EnvelopeArrives`: a delta in its envelope is read as it was written, whichever
  fields it has, and refused only for what must be. Broken by taking a reversal from
  a bit of the flags, by two fields of an image that change places.
- `DiffRebuilds`, `BlocksAdvance` (action): the search of bsdiff ends at the longest
  match there is, the patch rebuilds its target, one cut short is refused; each
  block of a patch takes it on, although the scan may step back. Broken by an
  extension backward over what the last match explains.
- `FilterUndoes`: the second pass of the x86 filter, which has no record of what the
  first changed, changes the same places back. Broken by a usage noted for the
  absolute address in the second pass.
- `ContentsArrive`: both ends of an adaptive code hold one code at each symbol; a
  static code is complete after its repair, holds exactly the symbols that occur, and
  every codeword is found whatever bits follow it; rift tables are read to the last
  bit; so are resources whole and in part and XPRESS streams, and reversals of
  whatever runs rebuild their source. Damaged ones are refused or give what they
  are. Broken by words laid out forward, a repair that stops late, a sign that is
  lost, a word pulled early, a run that is clamped at one buffer only.
- `ManifestsGetTheirBase`: with processes in any order and killed anywhere, a
  manifest is decoded with the whole base of its build unless the user chose
  another, the cache held only another, the system has another, or a write of the
  base was cut or under way.
- `PairsAlike`: two rows that are paired are the same thing, no row is taken
  twice, and a row is left over only when all that are the same thing are taken.
  Broken by pairing members in front of their types, by an owner's tag that is not
  mapped, by a name that is not struck out.
- `ManagedReferencesFollow`: every cell, token in code and token in a signature that
  led to a row which both images have once leads to its counterpart, and no other byte
  changes; and every cell of the target is copied from the cell of the row it is
  paired with, and the bytes it has more from zeros, whatever the widths. Broken by
  transforming rows before code, by an operand of another length, by a number read
  with another width, by a first entry that is dropped, by a copy that is not taken
  up again behind a wider cell.
- `NativeReferencesFollow`: for each selection of transforms, every reference leads
  to where its address has moved - in fields, pointers, displacements, resources,
  calls and jumps - and every other byte stays; relocations are those of the source,
  moved and in order. Broken by a field that is not marked, a displacement kept
  from the source, relocations left in the old order, an instruction's end taken
  at its field, a table rewritten before the code that is found by it.
- `ReturnsTargetOrRefuses`: whatever the reference, the result of apply is the
  delta's target or an error, as long as the delta carries a hash or is a raw
  delta on its own reference.
- `ReconstructsUnlessExcused`: a delta made by this crate gives the target back
  on its own reference unless a site holds the reference's stamp, the managed
  reference's metadata cannot be parsed, the delta is of the CLI4 type that
  apply does not support, or the target is over the limit.
- `ManagedStateNeverDropped`: a delta with a metadata map is applied with it.

### Bounds

- Bytes. Two values (three for LZMS deltas, where a difference must not be its
  own inverse). Which byte it is never decides a branch; equality does. Native
  and managed images have real bytes, for there the byte decides.
- PseudoLzx. References of 0 to 3 bytes, targets up to 7 over two bytes and
  three blocks of three; `SegmentSize` 2 so that all segments of a target up to
  the limit `MaxSegments` 3 are opened and the limit is met; `OffsetBias` 2, so
  biased distances of both signs occur; rifts with equal breakpoints, out of
  order, negative, and with an entry at `ref_len`. Match lengths run past the
  end.
- LZMS. Lengths up to 7 against a buffer of 6 (three moves of doubling length
  and a cut one); offsets 1 and 3, powers 0 and 1 (spans 1 and 2), sizes 0, 1, 6
  and one over the limit. The codec runs on data of up to 9 bytes, where a second
  delta match and all four places of a queue are reached.
- Range coder. Words of 8 values, windows of 4 decisions, two contexts, every
  initial window, seven decisions: long enough for held-back words in a row and
  a carry through them. Word and window are constants of the proofs.
- Rifts. Machine words of 5 bits, so every sum wraps somewhere, and tables of up
  to two entries per operand of a product, four for a reversal: the most that one
  piece, or one interval, can meet at a time is two neighbours on each side.
- Codes. Adaptive codes are rebuilt every fourth symbol of up to eight, with trees
  that outgrow codewords of two bits; static codes have trees six deep under a
  limit of four, so both repair loops run; a match's fields are at both ends of
  every band and slot, with the code's own numbers; integers have 16 bits, rifts 5.
- Diffs and containers. bsdiff sources up to 4 bytes, and one of 6, targets up to
  6, over bytes of 16 values, numbers of two bytes and a margin (`MinMatch`) of 0
  rather than eight, so that short buffers have several blocks; up to seven
  bytes in chunks of one to five, wide from six on; XPRESS blocks of four bytes;
  three instructions behind the filter; the cache with two processes, two builds
  and three commands.
- Managed images. Seven programs in three orders of their heaps, 21 images, every
  pair of them: nested types, generics, members, attributes, events, constructors,
  code with short and long opcodes, tokens that only look like one. Indices are
  wide from 64 rows (`IndexLimit`), so that the tables of a small image use both
  widths.
- Native images. Addresses of two bytes and relocation pages of 16, one image of
  each machine with every directory, seven rifts that move sections apart,
  together, over each other and inside each other, and every selection of
  transforms that guards its code (below).
- Pipeline. Sizes in units of the limit, so `MaxTargetSize` 1 puts files on both
  sides of it; words of 4 values, eleven files which differ in one part at a
  time.

### Fairness

`FairSpec` is `Spec /\ WF_vars(Next)` in the modules with liveness properties
(`Returns`, `RoundTrips`), and `rift_tables` has it for `OperationsReturn`. A
step is one iteration of a loop inside one call; a sequential call goes on until
it returns, so weak fairness of the whole next-state relation is what the
processor gives. No action has a fairness of its own, and no input is assumed to
be chosen in the end. `LzmsRangeCoder`, `Pa30Pipeline`, `codes` and `images` have
safety properties and no fairness: their callers may stop at any time, and the
processes of the cache may be killed.

## 4. The proofs

From the named assumptions about constants only. In each module: an inductive
invariant (`IInv`; `Safe` and `Faithful` in the pipeline, `WalkInv` and
`ReverseInv` for the rifts, `CopyInv` for the chain of them, `ReduceInv`,
`BsInv`, `CacheInv`, `FilterInv`, `EnvelopeInv`, `FormatInv`, `MatchSymbolsInv`,
`StreamInv`), the initial states have it, each step keeps it, and the theorems
follow from it. What is assumed of matches and of streams is what their callers keep:
raw offsets are words of 32 bits and no match is shorter than two
(`MatchesAssumption`); a field holds its value, a number has a ninth bit, an integer
has 4 to 64 bits, in whole nibbles, and a buffer's size is one (`StreamAssumption`).

| Theorem | Says | Why the invariant is stronger |
|---|---|---|
| `LzxDecoderProofs!SegmentHoldsUpToBreak` | The lookup's offset holds for all positions up to the break it returns, for every rift and reference length. | lemmas: sorting with duplicates leaves a table that binary search can use |
| `LzxDecoderProofs!NeverOverfills`, `ProvenanceAlwaysTrue`, `AlwaysReanchors` | `PositionTracksOutput`, `ProvenanceIsTrue`, `ReanchorsEveryByte` for every reference, rift, target size and symbol stream. | needs types, the sorted table, and that what is written already is never changed; the copy loop's effect is a lemma over a function on bytes, periodic where it overlaps |
| `LzxDecoderProofs!Implements` | The decoder implements `DeltaBuffer`: initial states, and each step is a step or a stutter. | uses the invariant for the bytes a copy adds |
| `LzxCodecProofs!TablesAlwaysInStep`, `LruAlwaysInStep`, `SourceCopyAlwaysSingle`, `AlwaysRebuildsTarget`, `DecoderIsDecoder` | `TablesInStep`, `LruInStep`, `SourceCopyIsSingleSegment`, and the safety half of the round trip: the decoder never fails and its output is a beginning of the target; for every reference, rift, target, parse and split into segments. | `CodecInv` puts a trace behind the symbols: for each one its position and the recent distances it was written with. The decoder is at a point of the trace with those distances and the target up to there |
| `LzmsCodingProofs!CarryAlwaysHasRoom`, `RangeNeverEmpty`, `WindowsAlwaysCounted` | A carry never passes the held words, no decision empties the range at either end, the zero counts are those of their windows; for every word of two values and more and every window length. | low + range stays within what the held-back words can still absorb; a count strictly inside its window keeps probabilities inside (0, 1) |
| `LzmsCodingProofs!DecoderReadsTheDecisions`, `CodeAlwaysInRange`, `AlwaysReadsOwnWords` | `DecodesWhatWasCoded`, `CodeStaysInRange`, `ReadsOwnWords`, for every sequence of decisions and contexts. | `StepInv` has the digits the encoder would leave if it were flushed now, the path of ranges and probabilities both ends take, and the code the decoder has at each point. Each code lies below the range of its point, which only the end of the path bounds |
| `LzmsDecoderProofs!AlwaysInBuffer`, `DoublingAlwaysRepeats` | `StaysInBuffer`, `DoublingRepeats` for every buffer, item stream and queue content. | offsets in queues are positive; bytes copied so far repeat with the offset, so a move of `done` bytes goes on with the pattern |
| `LzmsCodecProofs!OneItemAlwaysFollows`, `QueuesAlwaysInStep`, `ReturnsTheData` | `OneItemFollows`, `QueuesInStep`, and the safety half of the round trip, for all data and choices of matches. | a trace of items with the queues and last kind each was written with; the decisions and fields not read yet are those of the items not read yet, and no item's coding begins another's |
| `RiftProofs!MultiplyAlwaysReturnsProduct` | `ReturnsProduct`: the product maps every position as one table and then the other, for all sorted tables and all widths of a word. | `Covered`: up to where the walk is, each position lies in a piece of the output that maps it as the two tables do; the entries ascend strictly, so the sort at the end moves none |
| `RiftProofs!IntervalsAlwaysApart` | `IntervalsApart`: the intervals of a reversal are in order, apart, and never more than the arrays hold. | `RoomLeft`: at most two intervals for each segment walked, and the odd one only where the number line cut an image, whose rest then starts at its beginning and is not cut again |
| `RiftProofs!ReverseAlwaysReturnsInverse` | `ReturnsInverse`: the image of a file's position is led back to the lowest position with that image, for all sorted tables that start at 0 and all widths of a word. | `Leading`: for each position walked past that is the lowest with its image there is an entry that applies to the image, over a stretch the intervals hold; what is emitted later lies where no interval was, so that it cannot come in between. Up to the end of the number line the positions are met in order, and only they cover images (`CoveredByReached`) |
| `RiftProofs!CopyRiftAlwaysLeadsToOrigins` | `CopiesFromOrigins`: at each position of the target the decoder copies from the lowest offset of the source that moves there, and behind the header by the metadata's entry where there is one, for all sorted tables and all widths of a word. | `CopyInv`: while a table of the chain is walked, the invariant of that walk holds, and its operands map positions as the products done so far; every product has a source at 0, which is what the reversal asks for, and the smallest word as its first, so that it has more than one segment. The entry that applies to a position stays the one that applies through the two sorts, the fold behind the reference and the boundary entry |
| `RiftProofs!ReduceAlwaysKeepsMajorities` | `ReducesToMajorities`: a reduced map ascends, has no entry it could do without, and sends each source to the target more than half of its entries name, for all maps and widths of a word. | `VoteInv`: of the entries of a source seen so far, twice those for the candidate's target are no more than all and its votes, twice those for another no more than all without them; `KeptInv`: the sources walked past have their majority already, and a later entry does not change it, nor does the first one's removal, which is the header's |
| `Pa30PipelineProofs!ApplyReturnsTargetOrRefuses`, `ManagedStateAlwaysUsed` | `ReturnsTargetOrRefuses`, `ManagedStateNeverDropped` for every set of files, every choice of copies and every limit. | what a delta can hold (`DeltaOfPair`), the branch chosen by delta and reference, the source and rift of that branch, the output of a raw delta's codec |
| `Pa30PipelineProofs!DeltaAlwaysReconstructs` | `ReconstructsUnlessExcused`: on its own reference a delta gives its target, or one of the excuses holds. | `Faithful`: what the delta says of the two files is what its writer saw; `OnTheWay`: at each point of apply, the source, rift or output is the one the writer coded against |
| `CodesProofs!DiffAlwaysRebuilds` | `DiffRebuilds`: `find_match` ends at a longest match, and `bspatch` rebuilds the target from the blocks of `bscreate`, for all sources and targets and all widths of bytes and numbers. | `Ranked`: two ranks compare as the first `sortWidth` symbols of their suffixes, where the end of the source is below every byte, so that the array ends up `Ordered`; `SearchInv`: every suffix outside the bounds is on its side of the target, and the longest match left is beside the place the search ends at, or found. `TraceInv`: behind the patch there is a trace of points - bytes of the patch, bytes of the target, place in the source - with one block between any two, and the patcher is at a point of it |
| `CodesProofs!BlocksAlwaysAdvance` | `BlocksAdvance` for the same. | `ScanInv`: once there is a block, the byte of the target where it ended agrees with the one of the source it seeks to, as the start of a match or of its extension. So the next extension forward covers that byte at least, and the one backward, which may take what is left, stops behind it |
| `LzmsCodingProofs!FilterAlwaysUndoes` | `FilterUndoes` for all data and all sizes of a byte, a displacement, a target and the two windows. | `FilterInv`: there is a walk over the data - points with a place, the last place and the usages - which the first pass has taken, and the second is at one of its points with the same memory. What the walk leaves has the opcodes of the data at its points, for a byte that opens an instruction is never the second of one; and an address and its displacement have the same bytes however often the place is added and taken off, for the carry lost is the same |
| `CodesProofs!EnvelopesAlwaysArrive` | `EnvelopeArrives` for all deltas of the three forms, hashes and limits of a hash. | `EnvelopeInv`: the file is what the writer makes of the delta (`WrittenDelta`), the reader is behind the fields it has skipped, and what it has is the header as it was written. The fields a version has are told apart by its flags and types alone (`HeaderLength`) |
| `CodesProofs!FormatAlwaysArrives` | `FormatArrives` for any number of segments, lengths and any longest run. | `FormatInv`: the symbols of a segment spell its lengths (`Spells`): there is a place for each symbol, from 0 to where the writer is, and each says what the lengths between its place and the next are, given those before and those of the previous segment. The reader has the lengths up to the place of the next symbol, so that symbols are left exactly while lengths are |
| `CodesProofs!MatchesAlwaysArrive` | `ReadsTheMatch` for all raw offsets and lengths the code can hold, with its own numbers. | `MatchSymbolsInv`: only a match that fits its table goes on, its symbols are those counted for it, and its items the ones of its offset and length. What a distance is cut into - its slot, the bits above the fourth, the last four - is put together again for any power of two between (`DistanceArrives`) |
| `CodesProofs!StreamsAlwaysArrive` | `TakesWhatWasPut` for any list of fields, integers, numbers and buffers, and integers of 4 to 64 bits. | `StreamInv`: there are ends, one for each item put, between which the stream has the bits of the item laid there (`Laid`), and the reader is at the end of those it has taken. The padding of the last byte is shorter than one, and the zeros in front of an integer end inside it, whatever comes behind |
| `CodesProofs!ManifestsAlwaysGetTheirBase` | `ManifestsGetTheirBase` for any processes, builds and number of commands. | `Holds`: what each process knows of its base at each point; `PartsAccountedFor`: a part of a file is one that is being written or was cut |

`TypeCorrect` is proved in the three codec modules (`TypeOK`), and the lookup
table is always searchable (`TableAlwaysSearchable`). `LzxCodec` and `LzmsCodec`
have their decoders as instances, and their proofs use the theorems of
`LzxDecoderProofs` and `LzmsDecoderProofs` through the same instances.

What a stream holds as a whole is stated by a trace or a path that exists, not
by recursion over the stream, so that each step adds to it or moves along it.
Where a fact about all indices is needed, it is that of a smallest or largest
counterexample, which finite sets have.

Only model-checked:

- Liveness (`Returns`, `RoundTrips`, `OperationsReturn`): the prover has no
  reasoning about fairness here. The safety halves of the round trips are proved.
- `RebuildsForItsWindow`, `ContentsArrive`: trees of codes, repairs of a sum over all
  symbols, and streams read by recursion, and an induction over data is out of the
  prover's reach.
- The pairing and the transforms of images (`PairsAlike`, `ManagedReferencesFollow`,
  `NativeReferencesFollow`): recursion over heaps, rows and bytes.

## 5. What is not modelled

Whole parts. The parsing of PE headers, directories and metadata streams and of
a WIM archive's directory: bounds-checked readers, whose result is the input of
the model. `undo_x86_e8_translation` byte by byte (in `Pa30Pipeline` it is a
step of apply), `transform_inferred_relocations_x86` and `..._amd64`, which
nothing calls, the generators of `rift_gen.rs` other than by sections, which
creation does not call, the LZX codec of PA19, which is another crate, argument
parsing, file I/O but for the cache, the oracle crate, fuzz targets and lab.
`create_map.rs` is modelled though only tests reach it: `execute` writes an empty
map, only a delta of the genuine creator holds one, and the code is what the
crate says of how such a map is made.

Abstractions. The pipeline takes a hash as ideal and a codec as right on one
reference and one rift (`LzxCodec`'s property), and leaves out malformed deltas,
which the parsers refuse. A writer's choice by cost is any choice it might
prefer. Allocation failure is left out.

Where the code itself is silent or says it only guesses, the properties do not
ask. They are named here, for each is a place where a delta gets larger, though
both ends agree on it:

- Managed rows. A name that is the end of another's bytes is not in the heap's
  list and is paired with nothing; a nested type in front of the type it is in is
  paired as if it stood alone; rows without a name take rows struck out. Tokens
  in the bodies of constructors are mapped for methods alone, which the code calls
  a heuristic known to be incorrect. A row number too wide for its cell stays.
  A signature that rows of two tables name is mapped once for each.
- Rows in step. Where a map does not keep the order of rows, where a row of the
  source has no row of the target and widths differ, where the last column is
  wider, and in rows in front of a map's first entry, cells do not line up.
- Native references. A field named more than once (a thunk table that is both
  lookup and address table, a shared leaf or unwind handler) is mapped as often as
  it is named. A byte that looks like a call is protected from the two scans of
  i386 code only by what has been marked, so with calls or jumps the selections
  include the transforms that mark. Jumps already short are left alone. An unknown
  type of relocation becomes padding; rebuilt blocks may need more room than there
  is, or leave old bytes behind their end. Bases lie in the lower half of the
  address space: a pointer is read as signed and the base is not.
- PA19. The count of an interleaved delta is read at byte 28 whether or not there
  is a window field in front of it (`pa19/header.rs:43`), and stepped over at byte
  24 when there is none (line 63). The model leaves that form out.

## 6. Findings

- `pa30_stamp`. `apply_pe_timestamp_fixup` (`preprocess.rs:135-157`) finds the
  sites to rewrite by value in the decoded output. A target that keeps the
  reference's timestamp in an export directory or debug entry is decoded right,
  then changed, and refused by its hash, though `encode.rs:112-114` says that a
  shared preprocess "guarantees the delta reconstructs".
- `rift_reverse_single`. `reverse` of a table of one segment returns the
  segment's own offset where the comment at `rift.rs:412` says "the inverse map
  `A^-1`". Harmless in apply, where the only such table has offset 0.
- `base_cache`. `write_cache` (`main.rs:386`) writes a base under its final name.
  A command killed, or a disk that fills up, leaves a part of it there;
  `extract_and_cache` writes nothing where the name exists, and `resolve_base`
  takes the part for the base from then on, though the name is "a short hash of
  its content" (`main.rs:390`) that nothing compares.

Observed, without a run of their own:

- A managed reference without a "#~" stream: `execute` falls back to a native
  source, `apply` of that delta gives an error (`pa30/mod.rs:287-292`). It is one
  of the excuses of `ReconstructsUnlessExcused`.
- `execute` and `apply_get_reverse` do not know the limit of `apply`; the
  messages at `pa30/mod.rs:227` and `bsdiff/mod.rs:22` say 256 MB for a limit of
  64 MiB, which `TODO.md:209` has right.
- `reverse` leads every image back only for tables that start at source 0; the
  pipeline's do, by the entry {0, 0} `build_pe_io2rva` begins with
  (`HeaderAssumption`). The boundary entry then sends the target's first bytes to
  the source's, so that `CopiesFromOrigins` speaks of deltas whose rifts leave the
  header where it is; a delta that moves it is accepted, and no line forbids it. The tables of `OffsetRiftTable` may be out of order in negative
  positions, where no copy starts.

## 7. Plan

Done: rift lookup and PseudoLzx decoder with its abstraction and proofs; encoder
and lockstep; range coder and proofs; LZMS decoder with proofs, encoder,
lockstep; rift algebra and copy rift; create and apply with proofs; then the
codes below the codecs, bsdiff and reversals, containers and XPRESS, the x86
filter, envelopes, the cache; the pairing, transform and rift of managed images;
the transforms of native ones. The rift products, reversals and reductions,
the copy rift, the two codecs, the range coder's round trip, bsdiff, the x86
filter, the envelopes, the tables at the head of a stream, matches, the bit stream,
create and apply, and the cache are proved about, too.

Next:

1. `AdaptiveCode`: no frequency becomes 0, so every symbol keeps a code.
2. `ReverseDelta`: what a reversal rebuilt agrees with the file wherever a run of
   its writer has come.
3. `undo_x86_e8_translation` with the forward translation, against the code it
   was made for, as `X86Filter` is.
