---------------------------- MODULE ChunkedResource ----------------------------
(***************************************************************************)
(* Data in chunks that are compressed each for itself: the container of    *)
(* the Compression API (crates/lzms/src/container.rs and, to read one of   *)
(* XPRESS Huffman, xpress.rs) and the two forms of a WIM resource          *)
(* (crates/lzms/src/wim.rs), with a table of offsets or, solid, of sizes.  *)
(* A solid resource is also read in part, by the chunks that hold a range. *)
(*                                                                         *)
(* Whether a chunk was stored and how long the last one is follow from     *)
(* lengths alone.  The codec of a chunk is external: it may make of a      *)
(* chunk any number of cells, and gives the chunk back for exactly these.  *)
(* A resource is a sequence of cells: bytes <<b>>, cells of a compressed   *)
(* chunk <<chunk, place, places>>, or numbers.  A number is one cell,      *)
(* below NarrowLimit, where the code writes 4 bytes, and two where it      *)
(* writes 8.                                                               *)
(***************************************************************************)
EXTENDS Integers, Sequences, SequencesExt, FiniteSetsExt

CONSTANTS
  MaxChunk,      (* MAX_CHUNK, and the chunk sizes of a resource           *)
  NarrowLimit,   (* 2^32: what a number of 4 bytes cannot hold             *)
  PlainData,     (* bound: the data                                        *)
  ChunkSizes     (* bound: the sizes of a chunk a caller asks for          *)

VARIABLES
  plain,         (* data                                                   *)
  resourceForm,  (* "api", "offsets" or "solid"                            *)
  chunkSize,     (* chunk_size                                             *)
  payloads,      (* the chunks compressed so far                           *)
  resource,      (* the cells written                                      *)
  wanted,        (* the range asked of a solid resource, or the whole      *)
  expanded,      (* out                                                    *)
  chunkAt,       (* the chunks expanded                                    *)
  cursor,        (* where the next one begins in the resource              *)
  damaged,       (* the resource is not what was written                   *)
  resourcePc     (* what comes next                                        *)

resourceVars ==
  <<plain, resourceForm, chunkSize, payloads, resource, wanted, expanded, chunkAt, cursor,
    damaged, resourcePc>>

CeilDiv(a, b)     == (a + b - 1) \div b
Lesser(a, b)      == IF a < b THEN a ELSE b
NumChunks(total)  == CeilDiv(total, chunkSize)
Cells(s, from, n) == SubSeq(s, from + 1, from + n)

\* last_chunk_len, and the length of any chunk.
LastChunkLen(total) == IF total % chunkSize = 0 THEN chunkSize ELSE total % chunkSize
PlainLen(i, total)  == IF i < NumChunks(total) THEN chunkSize ELSE LastChunkLen(total)

ChunkOf(i) == Cells(plain, (i - 1) * chunkSize, PlainLen(i, Len(plain)))

\* A number in a table.
Narrow(v) == <<v % NarrowLimit>>
Wide(v)   == <<v % NarrowLimit, v \div NarrowLimit>>
WideValue(s) == s[1] + s[2] * NarrowLimit

-----------------------------------------------------------------------------
(***************************************************************************)
(* External: the codec.  Compressed, a chunk is n cells that name it.      *)
(***************************************************************************)
Compressed(chunk, n) == [k \in 1 .. n |-> <<chunk, k, n>>]
Decompresses(s) == s # <<>> /\ Len(s[1]) = 3 /\ s = Compressed(s[1][1], s[1][3])

-----------------------------------------------------------------------------
(***************************************************************************)
(* Writing: compress_with_chunk_size, compress_wim, compress_wim_solid.    *)
(***************************************************************************)
ResourceInit ==
  /\ plain \in PlainData /\ resourceForm \in {"api", "offsets", "solid"}
  /\ \E size \in ChunkSizes :
       chunkSize = IF resourceForm = "api" THEN Lesser(Len(plain), MaxChunk) ELSE size
  /\ payloads = <<>> /\ resource = <<>> /\ wanted = <<>> /\ expanded = <<>>
  /\ chunkAt = 0 /\ cursor = 0 /\ damaged = FALSE
  /\ resourcePc = IF plain = <<>> THEN "lay out" ELSE "compress"

\* compress_chunk: what does not shrink is stored.
CompressChunk ==
  /\ resourcePc = "compress" /\ Len(payloads) < NumChunks(Len(plain))
  /\ LET chunk == ChunkOf(Len(payloads) + 1)
     IN  \E n \in 1 .. Len(chunk) + 1 :
           payloads' = Append(payloads, IF n < Len(chunk) THEN Compressed(chunk, n) ELSE chunk)
  /\ resourcePc' = IF Len(payloads') = NumChunks(Len(plain)) THEN "lay out" ELSE "compress"
  /\ UNCHANGED <<plain, resourceForm, chunkSize, resource, wanted, expanded, chunkAt, cursor,
                 damaged>>

\* The header's check covers the rest of it: a header that was changed does not pass.
Header == <<Len(plain) % NarrowLimit, Len(plain) \div NarrowLimit, chunkSize>>
ApiHeader == <<Header>> \o Header
HeaderPasses == resource[1] = Cells(resource, 1, 3)

ApiResource ==
  ApiHeader \o FlattenSeq([i \in DOMAIN payloads |-> Narrow(Len(payloads[i])) \o payloads[i]])

SolidResource ==
  Header \o FlattenSeq([i \in DOMAIN payloads |-> Narrow(Len(payloads[i]))])
         \o FlattenSeq(payloads)

\* The entries are wide when the resource would be too large with narrow ones.
WritesWide == Len(payloads) - 1 + Len(FlattenSeq(payloads)) >= NarrowLimit
OffsetsResource ==
  LET upTo(i) == Len(FlattenSeq(SubSeq(payloads, 1, i)))
      table == [i \in 1 .. Len(payloads) - 1 |->
                  IF WritesWide THEN Wide(upTo(i)) ELSE Narrow(upTo(i))]
  IN  FlattenSeq(table) \o FlattenSeq(payloads)

LayOut ==
  /\ resourcePc = "lay out"
  /\ resource' = CASE resourceForm = "api"     -> ApiResource
                   [] resourceForm = "solid"   -> SolidResource
                   [] resourceForm = "offsets" ->
                        IF plain = <<>> THEN <<>> ELSE OffsetsResource
  /\ resourcePc' = "send"
  /\ UNCHANGED <<plain, resourceForm, chunkSize, payloads, wanted, expanded, chunkAt, cursor,
                 damaged>>

\* External: a reader gets the resource, cut short perhaps where it tells its length,
\* with a header that may have been changed; of a solid one it may want a range.
Send ==
  /\ resourcePc = "send"
  /\ \E how \in {"whole", "cut", "changed"} :
       /\ how # "whole" => resourceForm = "api" \/ (how = "cut" /\ resourceForm = "solid")
       /\ resource' =
            CASE how = "cut"     -> SubSeq(resource, 1, Len(resource) - 1)
              [] how = "changed" -> [resource EXCEPT ![2] = @ + 1]
              [] how = "whole"   -> resource
       /\ damaged' = (how # "whole")
  /\ \E off \in 0 .. Len(plain), len \in 0 .. Len(plain) + 1 :
       wanted' = IF len = 0 THEN <<>> ELSE <<off, len>>
  /\ wanted' # <<>> => resourceForm = "solid" /\ ~damaged'
  /\ resourcePc' = "read"
  /\ UNCHANGED <<plain, resourceForm, chunkSize, payloads, expanded, chunkAt, cursor>>

-----------------------------------------------------------------------------
(***************************************************************************)
(* Reading.  The total is in the header, or beside a resource with a table *)
(* of offsets; so is the size of a chunk.                                  *)
(***************************************************************************)
Stop(verdict) ==
  /\ resourcePc' = verdict
  /\ UNCHANGED <<plain, resourceForm, chunkSize, payloads, resource, wanted, expanded, chunkAt,
                 cursor, damaged>>

Total ==
  CASE resourceForm = "api"     -> resource[2] + resource[3] * NarrowLimit
    [] resourceForm = "solid"   -> resource[1] + resource[2] * NarrowLimit
    [] resourceForm = "offsets" -> Len(plain)

HeaderLen == CASE resourceForm = "api" -> 4 [] resourceForm = "solid" -> 3 [] OTHER -> 0
HeaderFits == Len(resource) >= HeaderLen /\ (resourceForm = "api" => HeaderPasses)

\* The reader takes the width of an entry from the length of what it reads.
ReadsWide == Len(resource) >= NarrowLimit
EntryCells == IF ReadsWide THEN 2 ELSE 1

\* table_len, and what parse and decompress_wim make room for.
TableLen ==
  CASE resourceForm = "api"     -> 0
    [] resourceForm = "solid"   -> NumChunks(Total)
    [] resourceForm = "offsets" -> (NumChunks(Total) - 1) * EntryCells
DataStart == HeaderLen + TableLen

ReadHeader ==
  /\ resourcePc = "read"
  /\ IF ~HeaderFits THEN Stop("refused")
     ELSE IF Total = 0 /\ wanted = <<>> THEN Stop("done")
     ELSE IF DataStart > Len(resource) THEN Stop("refused")
     ELSE /\ cursor' = DataStart
          /\ resourcePc' = IF wanted = <<>> THEN "expand" ELSE "range"
          /\ UNCHANGED <<plain, resourceForm, chunkSize, payloads, resource, wanted, expanded,
                         chunkAt, damaged>>

\* The offsets of the chunks from the data's start, the first and the last implied.
OffsetOf(i) ==
  IF i = 1 THEN 0
  ELSE IF i > NumChunks(Total) THEN Len(resource) - DataStart
  ELSE IF ReadsWide THEN WideValue(Cells(resource, (i - 2) * EntryCells, 2))
  ELSE resource[i - 1]

\* The length of the next chunk in the resource, and where it begins.
NextStart ==
  CASE resourceForm = "api" -> cursor + 1
    [] OTHER                -> cursor
SolidSize(i) == resource[HeaderLen + i]
NextLen ==
  CASE resourceForm = "api"     -> resource[cursor + 1]
    [] resourceForm = "solid"   -> SolidSize(chunkAt + 1)
    [] resourceForm = "offsets" -> OffsetOf(chunkAt + 2) - OffsetOf(chunkAt + 1)

ChunkFits ==
  /\ NextStart <= Len(resource)
  /\ NextLen >= (IF resourceForm = "api" THEN 1 ELSE 0)
  /\ NextStart + NextLen <= Len(resource)

\* expand_chunk: as long as its plain text, a chunk was stored.
Expands(cells, len) == Len(cells) = len \/ (Len(cells) < len /\ Decompresses(cells))
ExpandedChunk(cells, len) == IF Len(cells) = len THEN cells ELSE cells[1][1]

ReadChunk ==
  /\ resourcePc = "expand" /\ Len(expanded) < Total
  /\ IF ~ChunkFits THEN Stop("refused")
     ELSE LET cells == Cells(resource, NextStart, NextLen)
              len   == PlainLen(chunkAt + 1, Total)
          IN  IF ~Expands(cells, len) THEN Stop("refused")
              ELSE /\ expanded' = expanded \o ExpandedChunk(cells, len)
                   /\ chunkAt' = chunkAt + 1
                   /\ cursor' = NextStart + NextLen
                   /\ UNCHANGED <<plain, resourceForm, chunkSize, payloads, resource, wanted,
                                  damaged, resourcePc>>

EndRead == resourcePc = "expand" /\ Len(expanded) >= Total /\ Stop("done")

\* chunks_for and chunk_on_disk: the chunks that hold the range, and where they are.
ChunksFor(off, len) == off \div chunkSize + 1 .. (off + len - 1) \div chunkSize + 1
OnDisk(i) ==
  LET SizesBelow[j \in 1 .. i] == IF j = 1 THEN 0 ELSE SizesBelow[j - 1] + SolidSize(j - 1)
  IN  DataStart + SizesBelow[i]

\* decompress_wim_solid_range.
ReadRange ==
  /\ resourcePc = "range"
  /\ LET off    == wanted[1]
         len    == wanted[2]
         chunks == ChunksFor(off, len)
         chunk(i)  == ExpandedChunk(Cells(resource, OnDisk(i), SolidSize(i)), PlainLen(i, Total))
         decoded   == FlattenSeq([k \in 1 .. Cardinality(chunks) |-> chunk(Min(chunks) + k - 1)])
         skip      == off - (Min(chunks) - 1) * chunkSize
     IN  IF off + len > Total THEN resourcePc' = "out of bounds" /\ UNCHANGED expanded
         ELSE /\ expanded' = Cells(decoded, skip, len)
              /\ resourcePc' = "done"
  /\ UNCHANGED <<plain, resourceForm, chunkSize, payloads, resource, wanted, chunkAt, cursor,
                 damaged>>

ResourceNext ==
  \/ CompressChunk \/ LayOut \/ Send
  \/ ReadHeader \/ ReadChunk \/ EndRead \/ ReadRange

-----------------------------------------------------------------------------
\* What was asked for comes out, a range only if it lies in the data, and a resource
\* is refused only, and always, if it was damaged (decompress_compression_api,
\* decompress_wim, decompress_wim_solid, decompress_wim_solid_range).
GivesBackWhatWasAsked ==
  /\ resourcePc = "done" =>
       expanded = IF wanted = <<>> THEN plain ELSE Cells(plain, wanted[1], wanted[2])
  /\ resourcePc = "out of bounds" => wanted[1] + wanted[2] > Len(plain)
  /\ resourcePc = "refused" => damaged
  /\ resourcePc = "done" => ~damaged
=============================================================================
