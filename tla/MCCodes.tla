------------------------------- MODULE MCCodes -------------------------------
(***************************************************************************)
(* Small instances of the codes below the two codecs, of the other codecs, *)
(* and of what is wrapped around deltas, run together; the initial state   *)
(* picks the part.                                                         *)
(*                                                                         *)
(* adaptive: eight offsets of three slots are coded with words of four     *)
(* bits and codewords of two at most, so that a tree outgrows the limit;   *)
(* the code is rebuilt at every fourth.                                    *)
(*                                                                         *)
(* table: one to seven symbols whose frequencies are powers of two, which  *)
(* makes trees up to six deep, under a limit of four.                      *)
(*                                                                         *)
(* format: one table, or two, of ten lengths in up to three runs, where a  *)
(* run may hold seven.                                                     *)
(*                                                                         *)
(* match: raw offsets at both ends of every band and slot, lengths on both *)
(* sides of the three forms; the numbers are the code's.                   *)
(*                                                                         *)
(* stream: any three of twenty fields, numbers and buffers; integers have  *)
(* 16 bits.                                                                *)
(*                                                                         *)
(* rift: tables of up to two entries at the ends and in the middle of      *)
(* words of five bits, and two codes.                                      *)
(*                                                                         *)
(* bsdiff: sources of up to four bytes, and one of six, and targets of up  *)
(* to six, of two values.  The shortest match worth a block is one byte    *)
(* rather than eight.                                                      *)
(*                                                                         *)
(* reversal: a source and a target of up to five bytes, runs that begin    *)
(* before the first byte and end after the last, and one damage of each    *)
(* kind.                                                                   *)
(*                                                                         *)
(* resource: up to seven bytes in chunks of one to five, stored or         *)
(* compressed, with entries that are wide from six bytes on.               *)
(*                                                                         *)
(* xpress: up to four operations in blocks of four bytes, on both sides of *)
(* every form of a length, with bits taken five at a time.                 *)
(*                                                                         *)
(* filter: three instructions of each kind, with addresses of two bytes.   *)
(*                                                                         *)
(* envelope: deltas of each version, with every optional field there and   *)
(* not, and hashes and sizes on both sides of their limits.                *)
(*                                                                         *)
(* cache: two processes, two builds and three commands; the cache is idle  *)
(* in the other parts.                                                     *)
(***************************************************************************)
EXTENDS BsDiff, BaseCache, X86Filter, DeltaEnvelope, CompositeFormat, MatchSymbols,
        BitStream

VARIABLES
  part,
  base, target, sections, damage, revOut, sectionAt, revPc,
  plain, resourceForm, chunkSize, payloads, resource, wanted, expanded, chunkAt,
  cursor, damaged, resourcePc,
  text, ops, xWriter, blockEnd, xPc, xRead, pos, held, table, walked, matching

Strings(lengths) == UNION {[1 .. n -> {0, 1}] : n \in lengths}
MCBsSources == Strings(0 .. 4) \cup {<<0, 0, 1, 0, 1, 1>>}
MCBsTargets == Strings(0 .. 6)

MCRunStarts == {-1, 0, 2, 3}

MCPlainData == {[i \in 1 .. n |-> <<i % 2>>] : n \in 0 .. 7}

MCXpressLengths ==
  {[s \in 0 .. 7 |-> l[s + 1]] : l \in {<<3, 3, 3, 3, 3, 3, 3, 3>>, <<1, 3, 4, 5, 5, 4, 4, 4>>}}

Displacements == {<<0, 0>>, <<1, 0>>, <<14, 15>>, <<12, 2>>}
Instructions ==
  {<<1>> \o d : d \in Displacements} \cup {<<4, 6, 5>> \o d : d \in Displacements}
    \cup {<<3, 7, 5, 1, 0>>, <<4, 6, 13, 2, 0>>, <<4, 7, 13, 1, 0>>, <<8, 9, 0, 0>>}
    \cup {<<10, 11, 5, 2, 0>>, <<2, 1, 0>>, <<0>>, <<1>>}
MCCodeBuffers ==
  {<<0>> \o a \o b \o c \o <<0, 1, 0, 1, 0>> : a, b, c \in Instructions}

PeImage(map) ==
  [base |-> "base", checksum |-> "checksum", stamp |-> "stamp", sections |-> "sections",
   metadata |-> "metadata", moves |-> "moves", map |-> map]
Pa30Delta(version, dcm, types, type, flags, size, hashes, image, pre) ==
  [version |-> version, dcm |-> dcm, types |-> types, type |-> type, flags |-> flags,
   size |-> size, alg |-> 3, hash |-> hashes[1], extra |-> 0, extraHash |-> hashes[2],
   reversal |-> 256 \in types, image |-> image, pre |-> pre, patch |-> "patch"]
Pa19Delta(dcm, flags, window, count) ==
  [version |-> "PA19", dcm |-> dcm, flags |-> flags, size |-> 9, window |-> window,
   entries |-> [i \in 1 .. 3 * count |-> 5], patch |-> 7]

-----------------------------------------------------------------------------
Rev == INSTANCE ReverseDelta WITH
        RevSources <- {<<>>, <<0, 1, 1, 0>>}, RevTargets <- {<<0, 1, 1>>, <<1, 0, 1, 1, 0>>},
        RunStarts <- MCRunStarts, RunLengths <- {2, 9},
        Damages <- {"none", "magic", "type", "blob", "place", "length"}
Res == INSTANCE ChunkedResource WITH
        MaxChunk <- 3, NarrowLimit <- 6, PlainData <- MCPlainData, ChunkSizes <- {1, 2, 3, 5}
Xpress == INSTANCE XpressHuffman WITH
        WordBits <- 5, BlockSize <- 4, MinMatchLen <- 2, Literals <- 2, LengthCap <- 1,
        ByteCap <- 1, ShortLimit <- 4, CodeLengths <- MCXpressLengths,
        Distances <- {1, 3, 4}, MatchLens <- {2, 3, 4, 6}, MaxOps <- 4

AllDeltas ==
  {Pa30Delta(v, dcm, types, 1, flags, size, <<h, x>>, PeImage("empty"), <<>>) :
     v \in {"PA30", "PA31"}, dcm \in BOOLEAN, types \in {{1}, {1, 256}}, flags \in {{}, {256}},
     size \in {-1, 5}, h \in {0, 16, 33, 34}, x \in {0, 34}}
  \cup
  {Pa30Delta(v, FALSE, types, 2, {}, 5, <<32, 0>>, PeImage(map),
             PreprocessFields(PeImage(map))) :
     v \in {"PA30", "PA31"}, types \in {{1, 2, 4, 8}, {1, 256}},
     map \in {"left out", "empty", "map"}}
  \cup
  {Pa19Delta(dcm, flags, w, n) :
     dcm \in BOOLEAN, flags \in SUBSET {2, 4, 8}, w \in {17, 31, 32}, n \in 0 .. 2}

MCDeltas == {d \in AllDeltas : d.version # "PA19" \/ 8 \in d.flags \/ d.entries = <<>>}

NoBs ==
  /\ old = <<>> /\ new = <<>> /\ rank = <<>> /\ sortWidth = 1 /\ suffixes = <<>> /\ scan = 0
  /\ lo = 0 /\ hi = 0 /\ found = NothingFound /\ lastScan = 0 /\ lastPos = 0 /\ lastOffset = 0
  /\ patch = <<>> /\ bsPc = "idle" /\ patchPos = 0 /\ oldPos = 0 /\ rebuilt = <<>>
NoRev ==
  /\ base = 0 /\ target = 0 /\ sections = 0 /\ damage = 0 /\ revOut = 0 /\ sectionAt = 0
  /\ revPc = "idle"
NoRes ==
  /\ plain = 0 /\ resourceForm = 0 /\ chunkSize = 0 /\ payloads = 0 /\ resource = 0
  /\ wanted = 0 /\ expanded = 0 /\ chunkAt = 0 /\ cursor = 0 /\ damaged = FALSE
  /\ resourcePc = "idle"
NoXpress ==
  /\ text = 0 /\ ops = 0 /\ xWriter = 0 /\ blockEnd = 0 /\ xPc = "idle" /\ xRead = 0
  /\ pos = 0 /\ held = 0 /\ table = 0 /\ walked = 0 /\ matching = 0
NoFilter ==
  /\ code = <<>> /\ original = <<>> /\ undoing = FALSE /\ place = 0 /\ lastPlace = 0
  /\ usages = <<>> /\ marks = [do |-> <<>>, undo |-> <<>>] /\ filterPc = "idle"
NoEnvelope == sent = 0 /\ file = 0 /\ envelopePc = "idle" /\ skipped = 0 /\ got = 0
NoCache == CacheInit /\ system = NoBuild

revVars == <<base, target, sections, damage, revOut, sectionAt, revPc>>
resVars ==
  <<plain, resourceForm, chunkSize, payloads, resource, wanted, expanded, chunkAt,
    cursor, damaged, resourcePc>>
xpressVars ==
  <<text, ops, xWriter, blockEnd, xPc, xRead, pos, held, table, walked, matching>>
containerVars ==
  <<bsVars, revVars, resVars, xpressVars, filterVars, envelopeVars, cacheVars>>

ContainerParts ==
  {"bsdiff", "reversal", "resource", "xpress", "filter", "envelope", "cache"}

ContainersInit ==
  /\ IF part = "bsdiff"   THEN BsInit             ELSE NoBs
  /\ IF part = "reversal" THEN Rev!RevInit        ELSE NoRev
  /\ IF part = "resource" THEN Res!ResourceInit   ELSE NoRes
  /\ IF part = "xpress"   THEN Xpress!XpressInit  ELSE NoXpress
  /\ IF part = "filter"   THEN FilterInit         ELSE NoFilter
  /\ IF part = "envelope" THEN EnvelopeInit       ELSE NoEnvelope
  /\ IF part = "cache"    THEN CacheInit          ELSE NoCache

ContainersNext ==
  \/ /\ part = "bsdiff" /\ BsNext
     /\ UNCHANGED <<revVars, resVars, xpressVars, filterVars, envelopeVars, cacheVars>>
  \/ /\ part = "reversal" /\ Rev!RevNext
     /\ UNCHANGED <<bsVars, resVars, xpressVars, filterVars, envelopeVars, cacheVars>>
  \/ /\ part = "resource" /\ Res!ResourceNext
     /\ UNCHANGED <<bsVars, revVars, xpressVars, filterVars, envelopeVars, cacheVars>>
  \/ /\ part = "xpress" /\ Xpress!XpressNext
     /\ UNCHANGED <<bsVars, revVars, resVars, filterVars, envelopeVars, cacheVars>>
  \/ /\ part = "filter" /\ FilterNext
     /\ UNCHANGED <<bsVars, revVars, resVars, xpressVars, envelopeVars, cacheVars>>
  \/ /\ part = "envelope" /\ EnvelopeNext
     /\ UNCHANGED <<bsVars, revVars, resVars, xpressVars, filterVars, cacheVars>>
  \/ /\ part = "cache" /\ CacheNext
     /\ UNCHANGED <<bsVars, revVars, resVars, xpressVars, filterVars, envelopeVars>>

-----------------------------------------------------------------------------

CONSTANTS
  MaxCodewordLen, WordBits, RebuildFreq, Sentinel, OutputSizes, Offsets, MaxValues,
  MaxLen, Half, RiftBits

VARIABLES
  size, values, encoding, writer, finished, decoding, reader, read, malformed,
  freqs, lenCounts, lengths, tablePc,
  rift, lens, stream, serialPc, readLens, left, entries

MCOffsetGroups == << <<2, 0>>, <<1, 1>>, <<1, 2>> >>

Frequent == {1, 2, 4, 8, 16, 32}
Rising == {f \in UNION {[1 .. n -> Frequent] : n \in 1 .. 7} :
             \A i \in 1 .. Len(f) - 1 : f[i] <= f[i + 1]}
MCFrequencies == Rising \cup {<<0>>, <<0, 3, 0>>, <<5, 0, 1, 0, 5>>, <<0, 9, 3, 1, 1, 27>>}

Repeat(n, v) == [i \in 1 .. n |-> v]
Lists ==
  {l \in {Repeat(a, u) \o Repeat(b, v) \o Repeat(c, w) :
            a, b, c \in {0, 1, 4, 5, 8, 9, 10}, u, v, w \in {0, 2, 9}} : Len(l) = 10}
SecondLists ==
  {Repeat(10, 2), Repeat(10, 0), Repeat(5, 9) \o Repeat(5, 2),
   Repeat(1, 0) \o Repeat(8, 9) \o Repeat(1, 2), Repeat(9, 2) \o Repeat(1, 3)}
MCFormats ==
  {[boundaries |-> <<5>>, segments |-> <<l>>] : l \in Lists}
    \cup {[boundaries |-> <<3, 7>>, segments |-> <<l, m>>] : l \in Lists, m \in SecondLists}

Near(n) == {n - 1, n, n + 1}
SignedRaw ==
  {172032 + d : d \in UNION {Near(e) : e \in {-172031, -40960, -24576, -8192, 0,
                                              8192, 24576, 40960, 172030}}}
DistanceRaw ==
  {344067 + d : d \in 0 .. 130 \cup UNION {Near(2 ^ p) \cup Near(3 * 2 ^ (p - 1)) : p \in 6 .. 20}}
MCRawOffsets   == SignedRaw \cup 344064 .. 344066 \cup DistanceRaw
MCMatchLengths == 2 .. 10 \cup {20, 262, 263, 264, 265, 5000}

Item(kind, value, n) == [kind |-> kind, value |-> value, bits |-> n]
MCStreamItems ==
  {Item("bits", 5, 3), Item("bits", 0, 1), Item("bits", 300, 9)}
    \cup {Item("integer", v, 0) : v \in {-32768, -1, 0, 1, 15, 16, 255, 256, 32767}}
    \cup {Item("number", v, 0) : v \in {256, 511, 512, 70000}}
    \cup {Item("buffer", v, 0) : v \in {<<>>, <<165>>, <<1, 255, 0>>}}

Positions == {-Half, -1, 0, 5, Half - 1}
RiftEntries == [source : Positions, target : Positions]
MCWrittenRifts ==
  {t \in UNION {[1 .. n -> RiftEntries] : n \in 0 .. 2} :
     Len(t) = 2 => t[1].source <= t[2].source}
MCFormatLengths ==
  {[s \in 0 .. 4 * (RiftBits - 1) - 1 |-> 4],
   [s \in 0 .. 4 * (RiftBits - 1) - 1 |-> IF s < 4 THEN 3 ELSE IF s < 12 THEN 4 ELSE 5]}

-----------------------------------------------------------------------------
Adaptive == INSTANCE AdaptiveCode WITH OffsetGroups <- MCOffsetGroups
Static   == INSTANCE HuffmanTable WITH Frequencies <- MCFrequencies
Serial   == INSTANCE RiftSerial WITH
              WordBits <- RiftBits, WrittenRifts <- MCWrittenRifts,
              FormatLengths <- MCFormatLengths

NoAdaptive ==
  /\ size = 0 /\ values = <<>> /\ encoding = <<>> /\ writer = <<>> /\ finished = <<>>
  /\ decoding = <<>> /\ reader = <<>> /\ read = <<>> /\ malformed = FALSE
NoStatic == freqs = <<>> /\ lenCounts = <<>> /\ lengths = <<>> /\ tablePc = "idle"
NoFormat ==
  /\ format = <<>> /\ header = <<>> /\ symbols = <<>> /\ formatPc = "idle"
  /\ segment = 0 /\ at = 0 /\ result = <<>>
NoMatch ==
  match = <<>> /\ items = <<>> /\ counted = {} /\ matchPc = "idle" /\ readMatch = <<>>
NoStream ==
  /\ put = <<>> /\ bits = <<>> /\ closed = FALSE
  /\ position = 0 /\ taken = <<>> /\ failed = FALSE
NoSerial ==
  /\ rift = <<>> /\ lens = <<>> /\ stream = <<>> /\ serialPc = "idle"
  /\ readLens = <<>> /\ left = 0 /\ entries = <<>>

Init ==
  /\ part \in {"adaptive", "table", "format", "match", "stream", "rift"} \cup ContainerParts
  /\ IF part = "adaptive" THEN Adaptive!Init ELSE NoAdaptive
  /\ IF part = "table"    THEN Static!Init   ELSE NoStatic
  /\ IF part = "format"   THEN FormatInit    ELSE NoFormat
  /\ IF part = "match"    THEN MatchInit     ELSE NoMatch
  /\ IF part = "stream"   THEN StreamInit    ELSE NoStream
  /\ IF part = "rift"     THEN Serial!Init   ELSE NoSerial
  /\ ContainersInit

adaptiveVars ==
  <<size, values, encoding, writer, finished, decoding, reader, read, malformed>>
tableVars  == <<freqs, lenCounts, lengths, tablePc>>
serialVars == <<rift, lens, stream, serialPc, readLens, left, entries>>

codeVars == <<adaptiveVars, tableVars, formatVars, matchVars, streamVars, serialVars>>

Next ==
  /\ UNCHANGED part
  /\ \/ /\ part = "adaptive" /\ Adaptive!Next
        /\ UNCHANGED <<tableVars, formatVars, matchVars, streamVars, serialVars, containerVars>>
     \/ /\ part = "table" /\ Static!Next
        /\ UNCHANGED <<adaptiveVars, formatVars, matchVars, streamVars, serialVars, containerVars>>
     \/ /\ part = "format" /\ FormatNext
        /\ UNCHANGED <<adaptiveVars, tableVars, matchVars, streamVars, serialVars, containerVars>>
     \/ /\ part = "match" /\ MatchNext
        /\ UNCHANGED <<adaptiveVars, tableVars, formatVars, streamVars, serialVars, containerVars>>
     \/ /\ part = "stream" /\ StreamNext
        /\ UNCHANGED <<adaptiveVars, tableVars, formatVars, matchVars, serialVars, containerVars>>
     \/ /\ part = "rift" /\ Serial!Next
        /\ UNCHANGED <<adaptiveVars, tableVars, formatVars, matchVars, streamVars, containerVars>>
     \/ ContainersNext /\ UNCHANGED codeVars

vars == <<part, codeVars, containerVars>>

Spec == Init /\ [][Next]_vars

-----------------------------------------------------------------------------
\* A rebuilt code is the best for all that was counted before it (AdaptiveCode).
RebuildsForItsWindow == [][part = "adaptive" => Adaptive!RebuiltForItsWindow]_vars

\* What is written is read: the values of an adaptive code across its rebuilds, a
\* static code, complete after its repair, whatever follows a codeword, rift tables to
\* the last bit, chunks of a resource and an XPRESS stream;
\* and a reversal rebuilds what it was made for, whatever runs it took (AdaptiveCode,
\* HuffmanTable, RiftSerial, ChunkedResource, XpressHuffman, ReverseDelta).
ContentsArrive ==
  /\ part = "adaptive" => Adaptive!ReadsWhatWasWritten
  /\ part = "table"    => Static!CompleteForItsSymbols /\ Static!ReadsWhatIsWritten
  /\ part = "rift"     => Serial!ReadsTheRift
  /\ part = "reversal" => Rev!ReversalRebuilds
  /\ part = "resource" => Res!GivesBackWhatWasAsked
  /\ part = "xpress"   => Xpress!ReadsTheStream
=============================================================================
