----------------------------- MODULE PeTransforms -----------------------------
(***************************************************************************)
(* T(source) of a native image (pe/transform.rs, pe/x64.rs, pe/atom.rs):   *)
(* what in the reference holds an address, a displacement or a relocation  *)
(* is rewritten in place to what the target has there, by a list of        *)
(* transforms of which a delta selects some.  What one of them rewrites it *)
(* owns, and the two that go through i386 code leave it alone.             *)
(*                                                                         *)
(* Bytes are bytes, but an address has Width of them instead of 4, a       *)
(* number of 16 bits one, and a pointer of amd64 WideWidth.                *)
(***************************************************************************)
EXTENDS Integers, Sequences, FiniteSets

CONSTANTS
  Width, WideWidth,
  NativeImages          (* bound: the references, with what is selected of each *)

VARIABLES
  native,               (* the reference, as parsed, and what the delta says of the target *)
  chosen,               (* the transforms its flags select *)
  buf,                  (* the image that is rewritten *)
  owned,                (* the offsets the marker says are owned *)
  nativePc              (* the number of the next step *)

nativeVars == <<native, chosen, buf, owned, nativePc>>

-----------------------------------------------------------------------------
(* Bytes, from offset 0; the work in progress is a record of bytes and owned. *)
Half         == Width \div 2
Span(n)      == 256 ^ n
Digits(v, n) == [i \in 1 .. n |-> (v \div 256 ^ (i - 1)) % 256]
Signed(v, n) == IF v >= Span(n) \div 2 THEN v - Span(n) ELSE v

ReadNumber(b, at, n) ==
  LET Sum[i \in 0 .. n] == IF i = 0 THEN 0 ELSE Sum[i - 1] + b[at + i] * 256 ^ (i - 1)
  IN  Sum[n]

Address(b, at) == ReadNumber(b, at, Width)

Put(s, at, n, v) ==
  [s EXCEPT !.bytes =
     [i \in DOMAIN @ |-> IF i - at \in 1 .. n THEN Digits(v, n)[i - at] ELSE @[i]]]

\* mark_bytes.
Own(s, at, n) == [s EXCEPT !.owned = @ \cup {i \in at .. at + n - 1 : i < Len(s.bytes)}]
Free(s, at, n) == \A i \in at .. at + n - 1 : i \notin s.owned

Works == [bytes : Seq(0 .. 255), owned : SUBSET Nat]
Work  == [bytes |-> buf, owned |-> owned]

\* The work after a change for each item of a list, in order.
ForEach(list, work, Change(_, _)) ==
  LET From[i \in 1 .. Len(list) + 1, s \in Works] ==
        IF i > Len(list) THEN s ELSE From[i + 1, Change(s, list[i])]
  IN  From[1, work]

-----------------------------------------------------------------------------
(* Addresses *)
\* map_rva_i64: an address moves as the last entry of the rift before it says.
Moved(rva) ==
  LET before == {i \in DOMAIN native.rift : native.rift[i].source <= rva}
      last   == native.rift[CHOOSE i \in before : \A j \in before : j <= i]
  IN  IF before = {} THEN rva ELSE rva + last.target - last.source

Larger(a, b)  == IF a > b THEN a ELSE b
Smaller(a, b) == IF a < b THEN a ELSE b

\* section_containing_rva: the first that has it.
HasRva(section, rva) == rva - section.rva \in 0 .. Larger(section.size, section.rawSize) - 1
SectionOf(rva) ==
  {i \in DOMAIN native.sections :
     /\ HasRva(native.sections[i], rva)
     /\ \A j \in 1 .. i - 1 : ~HasRva(native.sections[j], rva)}

\* first_section_rva.
FirstRva ==
  LET rvas == {native.sections[i].rva : i \in DOMAIN native.sections}
  IN  CHOOSE r \in rvas : \A q \in rvas : r <= q

\* rva_to_file_off, as a set of none or one.
FileOffset(rva) ==
  {native.sections[i].raw + rva - native.sections[i].rva :
     i \in {j \in SectionOf(rva) : native.sections[j].rawSize # 0}}

\* The place in the file of a directory the image has.
Directory(kind) == IF native.dirs[kind].rva = 0 THEN {} ELSE FileOffset(native.dirs[kind].rva)

The(set) == CHOOSE x \in set : TRUE

Pointer == IF native.machine = "Amd64" THEN WideWidth ELSE Width

\* 0 is no address.
MapAddress(s, at) ==
  IF Address(s.bytes, at) = 0 THEN s ELSE Put(s, at, Width, Moved(Address(s.bytes, at)))

\* A mistake: what is mapped is not marked.
MapFieldUnmarked(s, at) == MapAddress(s, at)

\* map_rva_field: what is 0 is owned as well.
MapField(s, at) == Own(MapAddress(s, at), at, Width)

\* An address with the base in it, taken to where it is in the target.
Rebased(v, n) == native.targetBase + Moved(Signed(v, n) - native.base)

-----------------------------------------------------------------------------
(* The header, and imports *)
SetTimestamp(s) == Put(s, native.stampAt, Width, native.targetStamp)
SetImageBase(s) == Put(s, native.baseAt, Pointer, native.targetBase)

\* ImageImportDescriptor: two arrays, and between them a stamp, forwarders and a name.
Thunks     == 0
Stamp      == Width
Forwarders == 2 * Width
Name       == 3 * Width
Bindings   == 4 * Width

\* The descriptors, up to one that is null.
Descriptors(b) ==
  LET From[at \in Nat] ==
        IF at + 5 * Width > Len(b) \/ \A f \in {Thunks, Name, Bindings} : Address(b, at + f) = 0
        THEN <<>> ELSE <<at>> \o From[at + 5 * Width]
  IN  From[The(Directory("import"))]

\* The thunks of an array, up to one that is 0.
ThunksAt(b, rva) ==
  LET From[at \in Nat] ==
        IF at + Pointer > Len(b) \/ ReadNumber(b, at, Pointer) = 0
        THEN <<>> ELSE <<at>> \o From[at + Pointer]
  IN  IF rva = 0 \/ FileOffset(rva) = {} THEN <<>> ELSE From[The(FileOffset(rva))]

\* unbind_pe: what is bound has its array of names copied over that of addresses, a
\* thunk at a time; the section of imports becomes writable.
UnbindDescriptor(s, at) ==
  LET names == ThunksAt(s.bytes, Address(s.bytes, at + Thunks))
      iat   == FileOffset(Address(s.bytes, at + Bindings))
      clear == Put(Put(s, at + Stamp, Width, 0), at + Forwarders, Width, 0)
  IN  CASE Address(s.bytes, at + Stamp) = 0                 -> s
        [] Address(s.bytes, at + Stamp) # 0 /\ iat = {}     -> clear
        [] Address(s.bytes, at + Stamp) # 0 /\ iat # {}     ->
             ForEach([k \in DOMAIN names |-> k], clear, LAMBDA w, k :
               Put(w, The(iat) + (k - 1) * Pointer, Pointer, ReadNumber(w.bytes, names[k], Pointer)))

Unbound(s) ==
  ForEach(native.idata,
          IF Directory("import") = {} THEN s
          ELSE ForEach(Descriptors(s.bytes), s, UnbindDescriptor),
          LAMBDA w, at : Put(w, at, 1, 192 + (w.bytes[at + 1] % 64)))

\* transform_source_imports.
MapThunk(bound, s, at) ==
  LET value == ReadNumber(s.bytes, at, Pointer)
  IN  Own(CASE bound                                            -> Put(s, at, Pointer, Rebased(value, Pointer))
            [] ~bound /\ value < Span(Pointer) \div 2           -> MapField(s, at)
            [] ~bound /\ value >= Span(Pointer) \div 2          -> s,
          at, Pointer)

MapDescriptor(s, at) ==
  LET bound    == Address(s.bytes, at + Stamp) # 0
      names    == ForEach(ThunksAt(s.bytes, Address(s.bytes, at + Thunks)), s,
                          LAMBDA w, p : MapThunk(FALSE, w, p))
      bindings == ForEach(ThunksAt(names.bytes, Address(s.bytes, at + Bindings)), names,
                          LAMBDA w, p : MapThunk(bound, w, p))
  IN  ForEach(<<at + Name, at + Thunks, at + Bindings>>, bindings, MapField)

ImportsMapped(s) ==
  IF Directory("import") = {} THEN s ELSE ForEach(Descriptors(s.bytes), s, MapDescriptor)

-----------------------------------------------------------------------------
(* Exports and resources *)
\* ImageExportDirectory, of the fields that are read: name, two counts, three arrays.
ExportFields(b, dir) ==
  LET field(i)  == dir + (i - 1) * Width
      array(i, n) ==
        IF Address(b, field(i)) = 0 \/ FileOffset(Address(b, field(i))) = {} THEN <<>>
        ELSE [k \in 1 .. Address(b, field(n)) |->
                The(FileOffset(Address(b, field(i)))) + (k - 1) * Width]
  IN  array(4, 2) \o array(5, 3) \o <<field(1), field(4), field(5), field(6)>>

ExportsMapped(s) ==
  IF Directory("export") = {} THEN s
  ELSE ForEach(ExportFields(s.bytes, The(Directory("export"))), s, MapField)

\* Resources: a directory has two counts and entries of a name and an offset, each an
\* offset in the resources if its high bit says so; a leaf has an offset first.
HighBit == Span(Width) \div 2
DirHeader == 2 * Half
ResourcesEnd(s) ==
  Smaller(The(Directory("resource")) + native.dirs["resource"].size, Len(s.bytes))

InDirectory(offset) ==
  Moved(native.dirs["resource"].rva + offset) - Moved(native.dirs["resource"].rva)

ResourceEntries(s, dir) ==
  LET n == s.bytes[dir + 1] + s.bytes[dir + 2]
      m == (ResourcesEnd(s) - dir - DirHeader) \div (2 * Width)
  IN  [k \in 1 .. Smaller(n, m) |-> dir + DirHeader + (k - 1) * 2 * Width]

MapHighOffset(s, at) ==
  Own(Put(s, at, Width, HighBit + (InDirectory(Address(s.bytes, at) % HighBit) % HighBit)), at, Width)

MapResourceEntry(s, at) ==
  LET offset == Address(s.bytes, at + Width)
      leaf   == The(Directory("resource")) + offset
      second == CASE offset >= HighBit -> MapHighOffset(s, at + Width)
                  [] offset < HighBit /\ leaf + 2 * Width <= ResourcesEnd(s) ->
                       Own(Put(s, leaf, Width, InDirectory(Address(s.bytes, leaf))), leaf, Width)
                  [] OTHER -> s
  IN  IF Address(s.bytes, at) >= HighBit THEN MapHighOffset(second, at) ELSE second

\* The directories an entry leads to, behind the entry.
ChildOf(s, at) ==
  LET child == The(Directory("resource")) + (Address(s.bytes, at + Width) % HighBit)
  IN  IF Address(s.bytes, at + Width) >= HighBit /\ child > at /\ child + DirHeader <= ResourcesEnd(s)
      THEN <<child>> ELSE <<>>

\* transform_source_resources: the last directory found is the next; none twice.
ResourcesMapped(s) ==
  LET Walk[stack \in Seq(Nat), visited \in SUBSET Nat, w \in Works] ==
        LET dir     == stack[Len(stack)]
            rest    == SubSeq(stack, 1, Len(stack) - 1)
            entries == ResourceEntries(w, dir)
            Found[k \in 0 .. Len(entries)] ==
              IF k = 0 THEN rest ELSE Found[k - 1] \o ChildOf(w, entries[k])
        IN  CASE stack = <<>> -> w
              [] stack # <<>> /\ (dir \in visited \/ dir + DirHeader > ResourcesEnd(w)) ->
                   Walk[rest, visited \cup {dir}, w]
              [] OTHER ->
                   Walk[Found[Len(entries)], visited \cup {dir}, ForEach(entries, w, MapResourceEntry)]
  IN  IF Directory("resource") = {} THEN s ELSE Walk[<<The(Directory("resource"))>>, {}, s]

-----------------------------------------------------------------------------
(* Code of i386 *)
Executable == SelectSeq(native.sections, LAMBDA section : section.exec)
CodeStart(section) == section.raw
CodeEnd(section)   == Smaller(section.raw + Smaller(section.size, section.rawSize), Len(buf))

\* mark_non_executable.
NonExeMarked(s) ==
  [s EXCEPT !.owned =
     {i \in 0 .. Len(s.bytes) - 1 :
        \A k \in DOMAIN Executable : i \notin CodeStart(Executable[k]) .. CodeEnd(Executable[k]) - 1}]

\* The displacement behind an opcode, and where it leads.
Displacement(b, op)     == Signed(Address(b, op + 1), Width)
SiteEnd(section, op)    == section.rva + op - section.raw + 1 + Width
TargetOf(b, section, op) == (SiteEnd(section, op) + Displacement(b, op)) % Span(Width)

\* branch_target_reachable and target_marker_index.
Reachable(rva) ==
  rva \in 1 .. native.imageSize - 1 /\ (rva < FirstRva \/ SectionOf(rva) # {})
MarkerIndex(rva) == IF rva < FirstRva \/ FileOffset(rva) = {} THEN rva ELSE The(FileOffset(rva))

Rewritable(s, section, op) ==
  /\ Free(s, op, 1 + Width)
  /\ Reachable(TargetOf(s.bytes, section, op))
  /\ MarkerIndex(TargetOf(s.bytes, section, op)) \notin s.owned

\* A mistake: a displacement is taken from where the branch was.
NewDisplacementFromSource(s, section, op) ==
  Moved(TargetOf(s.bytes, section, op)) - SiteEnd(section, op)

NewDisplacement(s, section, op) ==
  Moved(TargetOf(s.bytes, section, op)) - Moved(SiteEnd(section, op))

\* transform_source_calls_i386: wherever there is the opcode of a call.
CallsMapped(s) ==
  LET InSection(work, section) ==
        LET Scan[i \in Nat, w \in Works] ==
              IF i + 1 + Width > CodeEnd(section) THEN w
              ELSE IF w.bytes[i + 1] = 232 /\ Rewritable(w, section, i)
              THEN Scan[i + 1 + Width, Put(w, i + 1, Width, NewDisplacement(w, section, i))]
              ELSE Scan[i + 1, w]
        IN  Scan[CodeStart(section), work]
  IN  ForEach(Executable, s, InSection)

\* transform_source_jmps_i386: a jump, or a condition behind its escape.
Fits8(n) == n \in -128 .. 127
IsCondition(b, i) == b[i + 1] = 15 /\ b[i + 2] \in 128 .. 143
JumpAt(b, i) == {op \in {i} : b[i + 1] = 233} \cup {op \in {i + 1} : IsCondition(b, i)}

Rewrites(s, section, op) ==
  op + 1 + Width <= Len(s.bytes) /\ Rewritable(s, section, op) /\ ~Fits8(Displacement(s.bytes, op))

\* A jump that has become near enough takes its short form, and what it had more stays.
Jumped(s, section, i, op) ==
  LET new   == NewDisplacement(s, section, op)
      short == Fits8(new) /\ (op = i \/ i \notin s.owned)
  IN  CASE short /\ op = i -> Put(Put(s, op, 1, 235), op + 1, 1, new)
        [] short /\ op # i -> Put(Put(s, i, 1, 112 + (s.bytes[op + 1] % 16)), op, 1, new)
        [] ~short          -> Put(s, op + 1, Width, new)

JumpsMapped(s) ==
  LET InSection(work, section) ==
        LET Scan[i \in Nat, w \in Works] ==
              IF i + 1 + Width > CodeEnd(section) THEN w
              ELSE IF \E op \in JumpAt(w.bytes, i) : Rewrites(w, section, op)
              THEN LET op == The(JumpAt(w.bytes, i))
                   IN  Scan[op + 1 + Width, Jumped(w, section, i, op)]
              ELSE Scan[i + 1, w]
        IN  Scan[CodeStart(section), work]
  IN  ForEach(Executable, s, InSection)

-----------------------------------------------------------------------------
(* Relocations: blocks of a page, a size and entries of a type and a place. *)
BlockHeader == 2 * Width

RelocBlocks(b, extent) ==
  LET end == Smaller(The(Directory("reloc")) + extent, Len(b))
      From[at \in Nat] ==
        IF at + BlockHeader > end THEN <<>>
        ELSE LET size == Address(b, at + Width)
             IN  IF size < BlockHeader \/ at + size > end THEN <<>> ELSE <<at>> \o From[at + size]
  IN  From[The(Directory("reloc"))]

\* The entries of a block up to one of type 0; an adjustment takes the next one's place.
BlockEntries(b, block) ==
  LET n == Address(b, block + Width) - BlockHeader
      From[j \in Nat] ==
        IF j >= n \/ b[block + BlockHeader + j + 1] \div 16 = 0 THEN <<>>
        ELSE LET cell  == b[block + BlockHeader + j + 1]
                 rva   == Address(b, block) + (cell % 16)
                 wide  == cell \div 16 = 4 /\ FileOffset(rva) # {}
                 extra == IF wide /\ j + 1 < n THEN b[block + BlockHeader + j + 2] ELSE 0
             IN  <<[rva |-> rva, type |-> cell \div 16, extra |-> extra]>>
                    \o From[IF wide THEN j + 2 ELSE j + 1]
  IN  From[0]

RelocEntries(b, extent) ==
  LET blocks == RelocBlocks(b, extent)
      First[k \in 0 .. Len(blocks)] ==
        IF k = 0 THEN <<>> ELSE First[k - 1] \o BlockEntries(b, blocks[k])
  IN  First[Len(blocks)]

\* What an entry is about: an address, or half of one, which is left.
MapOperand(s, entry) ==
  LET at == The(FileOffset(entry.rva))
  IN  CASE FileOffset(entry.rva) = {}                -> s
        [] FileOffset(entry.rva) # {} /\ entry.type = 3 ->
             Own(Put(s, at, Width, Rebased(Address(s.bytes, at), Width)), at, Width)
        [] FileOffset(entry.rva) # {} /\ entry.type = 10 ->
             Own(Put(s, at, WideWidth, Rebased(ReadNumber(s.bytes, at, WideWidth), WideWidth)), at, WideWidth)
        [] FileOffset(entry.rva) # {} /\ entry.type \in {1, 2, 4} -> Own(s, at, Half)
        [] OTHER -> s

\* The entry of the target; one of another type becomes padding.
MovedEntry(entry) ==
  [rva |-> Moved(entry.rva), extra |-> entry.extra,
   type |-> IF FileOffset(entry.rva) = {} \/ entry.type \in {1, 2, 3, 4, 10} THEN entry.type ELSE 0]

\* A mistake: the entries stay in the order of the source.
InOrderAsRead(entries) == entries

\* A stable sort by address.
InOrder(entries) ==
  LET before(i) == Cardinality({j \in DOMAIN entries :
                     entries[j].rva < entries[i].rva \/ (entries[j].rva = entries[i].rva /\ j < i)})
  IN  [k \in DOMAIN entries |-> entries[CHOOSE i \in DOMAIN entries : before(i) = k - 1]]

PageOf(entry) == entry.rva - (entry.rva % 16)

\* The blocks of sorted entries, in the room there is for them: each of one page, of an
\* even number of cells.
BlocksOf(entries, room) ==
  LET Cells(entry, left) ==
        <<entry.type * 16 + (entry.rva % 16)>>
          \o (IF entry.type = 4 /\ left > 1 THEN <<entry.extra>> ELSE <<>>)
      Body[i \in Nat, left \in Int, out \in Seq(Nat)] ==
        IF i > Len(entries) \/ left < 1 THEN <<i, out>>
        ELSE IF out # <<>> /\ PageOf(entries[i]) # PageOf(entries[i - 1]) THEN <<i, out>>
        ELSE Body[i + 1, left - Len(Cells(entries[i], left)), out \o Cells(entries[i], left)]
      Even(out, left) == IF Len(out) % 2 = 1 /\ Len(out) < left THEN out \o <<0>> ELSE out
      From[i \in Nat, left \in Int] ==
        IF i > Len(entries) \/ left < BlockHeader THEN <<>>
        ELSE LET body == Body[i, left - BlockHeader, <<>>]
                 full == Even(body[2], left - BlockHeader)
             IN  Digits(PageOf(entries[i]), Width) \o Digits(BlockHeader + Len(full), Width) \o full
                    \o From[body[1], left - BlockHeader - Len(full)]
  IN  From[1, room]

\* From the directory to the end of what its section has in the file.
RelocRoom(b) ==
  LET dir     == native.dirs["reloc"]
      section == native.sections[The(SectionOf(dir.rva))]
  IN  Smaller(Larger(dir.size, section.rawSize - (dir.rva - section.rva)),
              Len(b) - The(Directory("reloc")))

RebuiltBlocks(s, entries) ==
  LET blocks == BlocksOf(entries, RelocRoom(s.bytes))
  IN  [s EXCEPT !.bytes = [i \in DOMAIN @ |->
         IF i - The(Directory("reloc")) \in DOMAIN blocks
         THEN blocks[i - The(Directory("reloc"))] ELSE @[i]]]

\* transform_source_relocs and rebuild_reloc_blocks.
RelocationsMapped(s) ==
  LET entries == RelocEntries(s.bytes, native.dirs["reloc"].size)
  IN  IF Directory("reloc") = {} THEN s
      ELSE RebuiltBlocks(ForEach(entries, s, MapOperand),
                         InOrder([i \in DOMAIN entries |-> MovedEntry(entries[i])]))

-----------------------------------------------------------------------------
(* Code of amd64 *)
\* MODRM_1B and IMM_1B, and MODRM_0F and IMM_0F behind the escape.
TakesModRm(op) ==
  \/ (op < 64 /\ op % 8 < 4)
  \/ op \in {99, 105, 107, 128, 129, 192, 193, 198, 199, 246, 247, 254, 255}
  \/ op \in (131 .. 143) \cup (208 .. 211) \cup (216 .. 223)
Invalid(op) ==
  \/ (op < 64 /\ op % 8 > 5)
  \/ op \in (64 .. 79) \cup (96 .. 98) \cup (100 .. 103) \cup {130, 154, 158, 159, 196, 197, 206, 212, 213, 214, 234}
TakesModRm2(op) ==
  op \in {13, 126, 127} \cup (0 .. 3) \cup (15 .. 24) \cup (32 .. 35) \cup (40 .. 47) \cup (64 .. 118)
         \cup (144 .. 159) \cup (163 .. 165) \cup (171 .. 183)
         \cup (185 .. 199) \cup (209 .. 239) \cup (241 .. 254)
Invalid2(op) ==
  op \in {10, 12, 166, 167, 184, 208, 240, 255} \cup (25 .. 31) \cup (36 .. 39) \cup (52 .. 63) \cup (120 .. 125)

\* The bytes of an immediate, with the field of the mode and the prefixes in view.
Immediate(op, reg, short, wide) ==
  CASE (op < 64 /\ op % 8 = 4) \/ op \in {106, 107, 128, 130, 131, 168, 192, 193, 198, 205}
         \/ op \in (176 .. 183) \cup (228 .. 231) \/ (op = 246 /\ reg < 2) -> 1
    [] (op < 64 /\ op % 8 = 5) \/ op \in {104, 105, 129, 169, 194, 199, 202}
         \/ (op = 247 /\ reg < 2) -> IF short THEN Half ELSE Width
    [] op \in 184 .. 191 -> IF wide THEN WideWidth ELSE IF short THEN Half ELSE Width
    [] OTHER -> 0
Immediate2(op) == IF op \in {15, 164, 172, 186, 194, 196, 197, 198} \cup (112 .. 115) THEN 1 ELSE 0

Part(n, moves) == [n |-> n, moves |-> moves]

\* What follows the byte of the mode: a displacement from the next instruction moves.
ModeParts(mode, sib) ==
  LET md == mode \div 64
      rm == mode % 8
  IN  CASE md = 3               -> <<>>
        [] md = 0 /\ rm = 5     -> <<Part(Width, TRUE)>>
        [] rm = 4 /\ md < 3     -> <<Part(1, FALSE),
                                     Part(CASE md = 0 -> IF sib % 8 = 5 THEN Width ELSE 0
                                            [] md = 1 -> 1
                                            [] md = 2 -> Width, FALSE)>>
        [] OTHER                -> <<Part(CASE md = 0 -> 0 [] md = 1 -> 1 [] md = 2 -> Width, FALSE)>>

Prefixes == {38, 46, 54, 62, 100, 101, 102, 103, 240, 242, 243}

\* disasm_amd64: the length of an instruction, as far as it is there, and where the
\* displacement is that moves; 0 where there is none.
Instruction(w) ==
  LET Before[i \in 0 .. Len(w)] == IF i < Len(w) /\ w[i + 1] \in Prefixes THEN Before[i + 1] ELSE i
      IsRex(i)  == i < Len(w) /\ w[i + 1] \in 64 .. 79
      rex       == IsRex(Before[0])
      start     == Before[0] + (IF rex THEN 1 ELSE 0)
      escaped   == start < Len(w) /\ w[start + 1] = 15
      at        == IF escaped THEN start + 1 ELSE start
      op        == w[at + 1]
      mode      == IF at + 2 <= Len(w) THEN w[at + 2] ELSE 0
      sib       == IF at + 3 <= Len(w) THEN w[at + 3] ELSE 0
      prefix(c) == \E i \in 1 .. Before[0] : w[i] = c
      operand   ==
        CASE IF escaped THEN TakesModRm2(op) ELSE TakesModRm(op) -> <<Part(1, FALSE)>> \o ModeParts(mode, sib)
          [] ~escaped /\ op \in 160 .. 163                        -> <<Part(IF prefix(103) THEN Width ELSE WideWidth, FALSE)>>
          [] ~escaped /\ op \in (112 .. 127) \cup (224 .. 227) \cup {235} -> <<Part(1, FALSE)>>
          [] IF escaped THEN op \in 128 .. 143 ELSE op \in {232, 233}     -> <<Part(Width, TRUE)>>
          [] OTHER                                                -> <<>>
      immediate == IF escaped THEN Immediate2(op)
                   ELSE Immediate(op, (mode \div 8) % 8, prefix(102), rex /\ (w[start] \div 8) % 2 = 1)
      parts     == Append(operand, Part(immediate, FALSE))
      Read[k \in Nat, end \in Nat, field \in Nat] ==
        IF k > Len(parts) \/ end + parts[k].n > Len(w) THEN [len |-> end, field |-> IF k > Len(parts) THEN field ELSE 0]
        ELSE Read[k + 1, end + parts[k].n, IF parts[k].moves THEN end ELSE field]
  IN  IF at >= Len(w) \/ (rex /\ IsRex(start)) THEN [len |-> Smaller(at, Len(w)), field |-> 0]
      ELSE IF (IF escaped THEN Invalid2(op) ELSE Invalid(op)) THEN [len |-> at + 1, field |-> 0]
      ELSE Read[1, at + 1, 0]

\* A mistake: an instruction ends with its displacement.
NextRvaAtField(rva, insn) == rva + insn.field + Width

\* A displacement is from the end of the whole instruction.
NextRva(rva, insn) == rva + insn.len

\* ImageRuntimeFunction: its begin and end, and what unwinds it.
FunctionRecords(b, size) ==
  [k \in 1 .. size \div (3 * Width) |-> The(Directory("exception")) + (k - 1) * 3 * Width]

\* transform_disasm_x64: every function .pdata knows, an instruction at a time.
MapFunction(s, record) ==
  LET begin == Address(s.bytes, record)
      end   == Address(s.bytes, record + Width)
      Run[rva \in Nat, w \in Works] ==
        LET at    == The(FileOffset(begin)) + rva - begin
            stop  == Smaller(Smaller(at + end - rva, Len(w.bytes)), at + 15)
            insn  == Instruction(SubSeq(w.bytes, at + 1, stop))
            next  == NextRva(rva, insn)
            old   == Signed(Address(w.bytes, at + insn.field), Width)
        IN  IF rva >= end \/ at >= Len(w.bytes) THEN w
            ELSE IF insn.field = 0 THEN Run[rva + insn.len, w]
            ELSE Run[rva + insn.len, Put(w, at + insn.field, Width, Moved(next + old) - Moved(next))]
  IN  IF begin = 0 \/ end <= begin \/ FileOffset(begin) = {} THEN s ELSE Run[begin, s]

CodeMapped(s) ==
  IF Directory("exception") = {} \/ native.rift = <<>> THEN s
  ELSE ForEach(FunctionRecords(s.bytes, native.dirs["exception"].size), s, MapFunction)

\* transform_unwind_info_slot: a handler's address behind the codes.
UnwindInfo(rva) == IF rva \in 1 .. FirstRva - 1 THEN {rva} ELSE IF rva = 0 THEN {} ELSE FileOffset(rva)
HandlerSlot(b, rva) ==
  {info + 4 + ((b[info + 3] + 1) \div 2) * Width :
     info \in {i \in UnwindInfo(rva) :
       /\ i - The(Directory("exception")) \notin 0 .. native.dirs["exception"].size
       /\ i + 4 <= Len(b) /\ (b[i + 1] \div 8) % 8 # 0}}

\* map_u32_field: nothing is marked, for nothing behind it looks.
MapRecord(s, record) ==
  LET slot  == {at \in HandlerSlot(s.bytes, Address(s.bytes, record + 2 * Width)) :
                  at + Width <= Len(s.bytes)}
      first == IF slot = {} THEN s ELSE MapAddress(s, The(slot))
  IN  ForEach(<<record, record + Width, record + 2 * Width>>, first, MapAddress)

\* transform_pdata_x64.
FunctionsMapped(s) ==
  IF Directory("exception") = {} \/ native.rift = <<>> THEN s
  ELSE ForEach(FunctionRecords(s.bytes, Smaller(native.dirs["exception"].size,
                                                Len(s.bytes) - The(Directory("exception")))),
               s, MapRecord)

-----------------------------------------------------------------------------
(* run_registered, between the header's stamp and its base *)
\* A mistake: the table of functions is mapped before their code is gone through.
TransformsTableFirst ==
  <<"MarkNonExe", "Imports", "Exports", "Resources", "Relocations",
    "RelativeJmps", "RelativeCalls", "PdataX64", "DisasmX64">>

Transforms ==
  <<"MarkNonExe", "Imports", "Exports", "Resources", "Relocations",
    "RelativeJmps", "RelativeCalls", "DisasmX64", "PdataX64">>

Steps == <<"Unbind", "Timestamp">> \o Transforms \o <<"ImageBase">>

\* applies_to_machine, by the transform's layer.
AppliesToMachine(name) ==
  /\ name \in {"MarkNonExe", "RelativeJmps", "RelativeCalls"} => native.machine = "I386"
  /\ name \in {"DisasmX64", "PdataX64"} => native.machine = "Amd64"

Runs(name) == name \in {"Timestamp", "ImageBase"} \/ (name \in chosen /\ AppliesToMachine(name))

NativeInit ==
  /\ native \in NativeImages
  /\ chosen \in native.selections
  /\ buf = native.bytes /\ owned = {} /\ nativePc = 1

Takes(name, result) ==
  /\ nativePc <= Len(Steps) /\ Steps[nativePc] = name
  /\ \E work \in {IF Runs(name) THEN result ELSE Work} : buf' = work.bytes /\ owned' = work.owned
  /\ nativePc' = nativePc + 1
  /\ UNCHANGED <<native, chosen>>

Unbind        == Takes("Unbind", Unbound(Work))
Timestamp     == Takes("Timestamp", SetTimestamp(Work))
MarkNonExe    == Takes("MarkNonExe", NonExeMarked(Work))
Imports       == Takes("Imports", ImportsMapped(Work))
Exports       == Takes("Exports", ExportsMapped(Work))
Resources     == Takes("Resources", ResourcesMapped(Work))
Relocations   == Takes("Relocations", RelocationsMapped(Work))
RelativeJmps  == Takes("RelativeJmps", JumpsMapped(Work))
RelativeCalls == Takes("RelativeCalls", CallsMapped(Work))
DisasmX64     == Takes("DisasmX64", CodeMapped(Work))
PdataX64      == Takes("PdataX64", FunctionsMapped(Work))
ImageBase     == Takes("ImageBase", SetImageBase(Work))

NativeNext ==
  \/ Unbind \/ Timestamp \/ MarkNonExe \/ Imports \/ Exports \/ Resources \/ Relocations
  \/ RelativeJmps \/ RelativeCalls \/ DisasmX64 \/ PdataX64 \/ ImageBase

-----------------------------------------------------------------------------
(* What an image says of itself: its references, each with the transform it is for, the *)
(* bytes it is in, and the address it leads to.                                          *)
NewAddress(ref)   == ReadNumber(buf, ref.at, ref.n)
IsShort(ref)      == buf[ref.from + 1] \in {235} \cup (112 .. 127)

\* Where a reference of the rewritten image leads, by the addresses of the target.
Leads(ref) ==
  CASE ref.kind = "field"   -> NewAddress(ref)
    [] ref.kind = "high"    -> Moved(native.dirs["resource"].rva) + (NewAddress(ref) % HighBit)
    [] ref.kind = "inside"  -> Moved(native.dirs["resource"].rva) + NewAddress(ref)
    [] ref.kind = "pointer" -> NewAddress(ref) - native.targetBase
    [] ref.kind = "call"    -> Moved(ref.end) + Signed(NewAddress(ref), Width)
    [] ref.kind = "jump"    -> Moved(ref.end) + (IF IsShort(ref) THEN Signed(buf[ref.from + 2], 1)
                                                 ELSE Signed(NewAddress(ref), Width))

Bytes(ref)     == ref.from .. ref.at + ref.n - 1
Stays(offsets) == \A i \in offsets : buf[i + 1] = native.bytes[i + 1]
SameOpcode(ref) ==
  IF ref.kind = "jump" /\ IsShort(ref)
  THEN buf[ref.from + 1] = IF ref.at - ref.from = 1 THEN 235
                           ELSE 112 + (native.bytes[ref.from + 2] % 16)
  ELSE Stays(ref.from .. ref.at - 1)

\* A bound address that is unbound has become what its name is; a far jump that is near is
\* left alone.
Follows(ref) ==
  CASE ref.names # 0 /\ Runs("Unbind") ->
         NewAddress(ref) = ReadNumber(buf, ref.names, ref.n)
    [] (ref.names = 0 \/ ~Runs("Unbind")) /\ Runs(ref.by)
         /\ (ref.kind = "jump" => ~Fits8(ref.to - ref.end)) ->
         Leads(ref) = Moved(ref.to) /\ SameOpcode(ref)
    [] OTHER -> Stays(Bytes(ref))

Header       == (native.stampAt .. native.stampAt + Width - 1) \cup (native.baseAt .. native.baseAt + Pointer - 1)
                  \cup {native.idata[i] : i \in DOMAIN native.idata}
BoundStamps  == UNION {at + Stamp .. at + Name - 1 : at \in native.bound}
RelocBytes   == IF Directory("reloc") = {} THEN {}
                ELSE The(Directory("reloc")) .. The(Directory("reloc")) + RelocRoom(native.bytes) - 1
Unreferenced == ((0 .. Len(buf) - 1) \ (Header \cup BoundStamps \cup RelocBytes))
                  \ UNION {Bytes(ref) : ref \in native.refs}

\* The relocations of the target: where the source's have moved to, in order.
MovedRelocations ==
  LET entries == RelocEntries(native.bytes, native.dirs["reloc"].size)
  IN  {[rva |-> Moved(entries[i].rva), type |-> entries[i].type, extra |-> entries[i].extra] :
         i \in DOMAIN entries}

\* In the rewritten image every reference whose transform is selected leads to where its
\* address has moved, by the target's base and from where the code is in the target; the
\* others are as they were, and so is every byte that is no reference, whatever it looks
\* like; the relocations are those of the source where they are now, in order.  (The
\* transforms of pe/transform.rs and pe/x64.rs in the order of pe/atom.rs:72-82.)
NativeReferencesFollow ==
  nativePc > Len(Steps) =>
    /\ \A ref \in native.refs : Follows(ref)
    /\ Stays(Unreferenced)
    /\ ~Runs("Unbind") => Stays(BoundStamps)
    /\ IF ~Runs("Relocations") THEN Stays(RelocBytes)
       ELSE \E entries \in {RelocEntries(buf, RelocRoom(buf))}, moved \in {MovedRelocations} :
              /\ Cardinality(moved) <= Len(entries)
              /\ {entries[i] : i \in 1 .. Cardinality(moved)} = moved
              /\ \A i \in 1 .. Cardinality(moved) - 1 : entries[i].rva <= entries[i + 1].rva
=============================================================================
