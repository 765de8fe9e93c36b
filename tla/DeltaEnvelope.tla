---------------------------- MODULE DeltaEnvelope ----------------------------
(***************************************************************************)
(* How a delta is laid out and found again (pa30/header.rs, pa30/encode.rs,*)
(* pa30/preprocess.rs, pa19/header.rs, dcm.rs, and the dispatch of main.rs *)
(* and pa30::apply).  Nothing in a PA30 stream says what a field is: the   *)
(* reader knows only the order.  The header is read twice, once to step    *)
(* over it and once for what it says; in a PA31 delta it is a buffer of    *)
(* its own, with four fields more; a reversal has one body and a delta     *)
(* two; a PA19 header is words at fixed places, some of them optional.     *)
(*                                                                         *)
(* A stream is the sequence of its fields [kind, value]: that each kind is *)
(* read as it was written is BitStream's and RiftSerial's to say.  A field *)
(* read as another kind is junk and what follows is too.                   *)
(***************************************************************************)
EXTENDS Integers, Sequences

CONSTANTS
  Deltas,            (* what writers may say                               *)
  MaxHashLen         (* MAX_HASH_LEN, 33: hashes stand for their lengths   *)

VARIABLES
  sent,              (* the delta as its writer has it                     *)
  file,              (* [dcm, magic, fields, words]: as it is written      *)
  envelopePc,
  skipped,           (* the fields parse has stepped over                  *)
  got                (* what was read, field by field                      *)

envelopeVars == <<sent, file, envelopePc, skipped, got>>

Field(kind, value) == [kind |-> kind, value |-> value]
Words(list) == [i \in 1 .. Len(list) |-> Field("i64", list[i])]

(***************************************************************************)
(* The writers.  execute writes all of PA30 and PA31 here but reversals,   *)
(* preprocess data of managed code, and fields of a PA31 header that are   *)
(* not zero, which msdelta writes.                                         *)
(***************************************************************************)
HeaderFields(d) ==
  Words(<<d.types, d.type, d.flags, d.size, d.alg>>) \o <<Field("buffer", d.hash)>>
Pa31Fields(d) == Words(<<d.extra, d.extra, d.extra>>) \o <<Field("buffer", d.extraHash)>>

Bodies(d) ==
  IF d.reversal THEN <<Field("buffer", d.patch)>>
                ELSE <<Field("buffer", d.pre), Field("buffer", d.patch)>>

Pa30Fields(d) ==
  IF d.version = "PA31"
    THEN <<Field("buffer", HeaderFields(d) \o Pa31Fields(d))>> \o Bodies(d)
    ELSE HeaderFields(d) \o Bodies(d)

\* build_pe_preprocess; msdelta leaves the map out where there is none.
PreprocessFields(p) ==
  <<Field("b64", p.base), Field("b32", p.checksum), Field("b32", p.stamp),
    Field("rift", p.sections), Field("record", p.metadata), Field("rift", p.moves)>>
    \o (IF p.map = "left out" THEN <<>> ELSE <<Field("map", p.map)>>)

\* The words of a PA19 delta: magic, flags, two sizes, each with its checksum, the
\* window and the interleaved entries if the flags say so, and the data.
Pa19Words(d) ==
  <<"PA19", d.flags, d.size, 0, d.size, 0>>
    \o (IF 4 \in d.flags THEN <<d.window>> ELSE <<>>)
    \o (IF 8 \in d.flags THEN <<Len(d.entries) \div 3>> ELSE <<>>)
    \o d.entries \o <<d.patch, d.patch, d.patch, d.patch>>

(***************************************************************************)
(* A delta of PA30 is a reversal if its types say so, and one of an image  *)
(* has the fields of preprocess data.  The interleaved entries of a PA19   *)
(* delta are of three words, and there are none if the flags say so.       *)
(***************************************************************************)
ImageFields(p) ==
  [base |-> p.base, checksum |-> p.checksum, stamp |-> p.stamp, sections |-> p.sections,
   metadata |-> p.metadata, moves |-> p.moves, map |-> p.map]

ASSUME EnvelopeAssumption ==
  \A d \in Deltas :
    /\ d.version \in {"PA19", "PA30", "PA31"}
    /\ d.version = "PA19" =>
         /\ d.entries \in Seq(Int) /\ Len(d.entries) % 3 = 0
         /\ 8 \notin d.flags => d.entries = <<>>
    /\ d.version # "PA19" =>
         /\ d.reversal = (256 \in d.types)
         /\ ~d.reversal /\ d.type # 1 =>
              d.image = ImageFields(d.image) /\ d.pre = PreprocessFields(d.image)

EnvelopeInit ==
  /\ sent \in Deltas
  /\ file = <<>> /\ envelopePc = "write" /\ skipped = 0 /\ got = <<>>

\* execute, and dcm::wrap.
WriteDelta ==
  /\ envelopePc = "write"
  /\ file' = [dcm |-> sent.dcm, magic |-> sent.version,
              fields |-> IF sent.version = "PA19" THEN <<>> ELSE Pa30Fields(sent),
              words |-> IF sent.version = "PA19" THEN Pa19Words(sent) ELSE <<>>]
  /\ envelopePc' = "open"
  /\ UNCHANGED <<sent, skipped, got>>

(***************************************************************************)
(* Reading.                                                                *)
(***************************************************************************)
Junk == "junk"
Take(fields, at, kind) ==
  IF at \in 1 .. Len(fields) /\ fields[at].kind = kind THEN fields[at].value ELSE Junk

Refused == envelopePc' = "refused" /\ UNCHANGED <<sent, file, skipped, got>>

\* strip_dcm, cmd_apply and the magics of parse.
Open ==
  /\ envelopePc = "open"
  /\ file' = [file EXCEPT !.dcm = FALSE]
  /\ envelopePc' = IF file.magic = "PA19" THEN "pa19" ELSE "skip"
  /\ UNCHANGED <<sent, skipped, got>>

\* parse: the header is six fields in the stream, or one buffer.
SkipHeader ==
  /\ envelopePc = "skip"
  /\ skipped' = IF file.magic = "PA31" THEN 1 ELSE 6
  /\ envelopePc' = "header"
  /\ UNCHANGED <<sent, file, got>>

\* parse_header
HeaderStream == IF file.magic = "PA31" THEN Take(file.fields, 1, "buffer") ELSE file.fields
Pa31Extra(fields) ==
  [extra |-> [i \in 1 .. 3 |-> Take(fields, 6 + i, "i64")], hash |-> Take(fields, 10, "buffer")]

ParseHeader ==
  /\ envelopePc = "header"
  /\ LET fields == HeaderStream
         hash   == Take(fields, 6, "buffer")
         size   == Take(fields, 4, "i64")
         extra  == IF file.magic = "PA31" THEN Pa31Extra(fields) ELSE <<>>
         long   == hash > MaxHashLen \/ (file.magic = "PA31" /\ extra.hash > MaxHashLen)
     IN IF long \/ size < 0
          THEN Refused
          ELSE /\ got' = [types |-> Take(fields, 1, "i64"), type |-> Take(fields, 2, "i64"),
                          flags |-> Take(fields, 3, "i64"), size |-> size,
                          alg |-> Take(fields, 5, "i64"), hash |-> hash, extra |-> extra]
               /\ envelopePc' = "bodies"
               /\ UNCHANGED <<sent, file, skipped>>

\* A mistake: the bit is looked for among the flags, where create's bsdiff deltas have it.
ReversalByFlags(header) == 256 \in header.flags

\* The set of types of a reversal has bit 0x100; sets of bits stand for numbers.
IsReversal(header) == 256 \in header.types

\* The bodies, and what apply does first with them.
ReadBodies ==
  /\ envelopePc = "bodies"
  /\ LET body(i) == Take(file.fields, skipped + i, "buffer")
     IN IF IsReversal(got)
          THEN /\ got' = [header |-> got, pre |-> <<>>, patch |-> body(1)]
               /\ envelopePc' = "done"
          ELSE /\ got' = [header |-> got, pre |-> body(1), patch |-> body(2)]
               /\ envelopePc' = IF got.type # 1 /\ body(1) # <<>> THEN "preprocess" ELSE "done"
  /\ UNCHANGED <<sent, file, skipped>>

\* A mistake: the second rift is read before the record of the metadata.
PreprocessKindsSwapped == <<"b64", "b32", "b32", "rift", "rift", "record">>

\* parse_pe_preprocess: the map only if there is more.
PreprocessKinds == <<"b64", "b32", "b32", "rift", "record", "rift">>
ReadPreprocess ==
  /\ envelopePc = "preprocess"
  /\ LET fields == got.pre
         read   == [i \in 1 .. 6 |-> Take(fields, i, PreprocessKinds[i])]
         map    == IF Len(fields) > 6 THEN Take(fields, 7, "map") ELSE "empty"
     IN got' = [header |-> got.header, patch |-> got.patch,
                pre |-> [base |-> read[1], checksum |-> read[2], stamp |-> read[3],
                         sections |-> read[4], metadata |-> read[5], moves |-> read[6],
                         map |-> map]]
  /\ envelopePc' = "done"
  /\ UNCHANGED <<sent, file, skipped>>

\* pa19's decode: the count of entries is taken from the eighth word in any case.
DataAtWord(flags, count) ==
  7 + (IF 4 \in flags THEN 1 ELSE 0) + (IF 8 \in flags THEN 1 + 3 * count ELSE 0)

ReadPa19 ==
  /\ envelopePc = "pa19"
  /\ LET words  == file.words
         flags  == words[2]
         window == IF 4 \in flags THEN words[7] ELSE 17
         count  == IF 8 \in flags THEN words[8] ELSE 0
     IN IF \/ Len(words) < (IF 8 \in flags THEN 9 ELSE IF 4 \in flags THEN 8 ELSE 7)
           \/ window > 31
           \/ DataAtWord(flags, count) > Len(words) + 1
          THEN Refused
          ELSE /\ got' = [header |-> [flags |-> flags, size |-> words[5], window |-> window],
                          data |-> DataAtWord(flags, count)]
               /\ envelopePc' = "done"
               /\ UNCHANGED <<sent, file, skipped>>

EnvelopeNext ==
  WriteDelta \/ Open \/ SkipHeader \/ ParseHeader \/ ReadBodies \/ ReadPreprocess \/ ReadPa19

-----------------------------------------------------------------------------
TooLong == sent.hash > MaxHashLen \/ (sent.version = "PA31" /\ sent.extraHash > MaxHashLen)

Pa30Arrives ==
  LET h == got.header
  IN /\ [types |-> h.types, type |-> h.type, flags |-> h.flags, size |-> h.size,
         alg |-> h.alg, hash |-> h.hash]
          = [types |-> sent.types, type |-> sent.type, flags |-> sent.flags,
             size |-> sent.size, alg |-> sent.alg, hash |-> sent.hash]
     /\ got.patch = sent.patch
     /\ sent.version = "PA31" =>
          h.extra = [extra |-> [i \in 1 .. 3 |-> sent.extra], hash |-> sent.extraHash]
     /\ ~sent.reversal /\ sent.type # 1 =>
          got.pre = [sent.image EXCEPT !.map = IF @ = "left out" THEN "empty" ELSE @]

\* The data of a PA19 delta begins where it was put, unless there are interleaved
\* entries and no window: the count is then a word before the one decode reads.
Pa19Arrives ==
  \/ 8 \in sent.flags /\ 4 \notin sent.flags
  \/ /\ got.data = Len(file.words) - 3
     /\ 4 \in sent.flags => got.header.window = sent.window

\* Every delta is read as it was written, its header on both ways through it, its bodies
\* and its preprocess data; one is refused only for a hash that is too long, a negative
\* size or a window too large (parse, parse_pe_preprocess, pa19::header::decode).
EnvelopeArrives ==
  /\ envelopePc = "done" => IF sent.version = "PA19" THEN Pa19Arrives ELSE Pa30Arrives
  /\ envelopePc = "refused" =>
       IF sent.version = "PA19"
         THEN (4 \in sent.flags /\ sent.window > 31) \/ (8 \in sent.flags /\ 4 \notin sent.flags)
         ELSE TooLong \/ sent.size < 0
=============================================================================
