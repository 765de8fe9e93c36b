----------------------------- MODULE CliTransform -----------------------------
(***************************************************************************)
(* What becomes of a managed source image before it is copied from         *)
(* (pa30/mod.rs, apply_classic_cli_source_transforms): the tokens in the   *)
(* code of its methods are mapped (pe/cli/disasm.rs, method.rs), then the  *)
(* cells of its tables (metadata_transform.rs) and then the tokens inside  *)
(* the signatures the rows name (signature.rs), each in place and in the   *)
(* width it has.  Code comes first: bodies are found, and constructors     *)
(* told from other methods, by cells that are still the source's.          *)
(***************************************************************************)
EXTENDS CliMapBuild

CONSTANT CtorNames    (* the names whose bodies are taken for constructors' *)

VARIABLES
  managedPc,          (* "wait", "code", "rows", "signatures" or "done"     *)
  image,              (* [text, rows, blob]                                 *)
  bodies,             (* the methods whose code is to be gone through       *)
  cursor,             (* the next of the tables                             *)
  queue               (* the signatures to go through, as <<table id, offset>> *)

managedVars == <<managedPc, image, bodies, cursor, queue>>

Maps == cliMap
RvaMap == dbs[3]

-----------------------------------------------------------------------------
(* Bytes *)
Byte(bytes, pos)    == bytes[pos + 1]
Word(bytes, pos, n) == FoldLeft(LAMBDA sum, i : sum * 256 + Byte(bytes, pos + n - i), 0, [i \in 1 .. n |-> i])
Bytes(value, n)     == [i \in 1 .. n |-> (value \div 256 ^ (i - 1)) % 256]
Patched(bytes, pos, new) ==
  [i \in DOMAIN bytes |-> IF i - pos \in DOMAIN new THEN new[i - pos] ELSE bytes[i]]

\* The width of a compressed number, by its first byte; 0 if that begins none.
NumberWidth(first) ==
  CASE first < 128           -> 1
    [] first \in 128 .. 191  -> 2
    [] first \in 192 .. 223  -> 4
    [] OTHER                 -> 0

HasNumber(bytes, pos) ==
  /\ pos < Len(bytes)
  /\ NumberWidth(Byte(bytes, pos)) # 0
  /\ pos + NumberWidth(Byte(bytes, pos)) <= Len(bytes)

\* read_compressed_u32.
Number(bytes, pos) ==
  LET first == Byte(bytes, pos)
  IN  CASE NumberWidth(first) = 1 -> first
        [] NumberWidth(first) = 2 -> (first % 64) * 256 + Byte(bytes, pos + 1)
        [] NumberWidth(first) = 4 -> (((first % 32) * 256 + Byte(bytes, pos + 1)) * 256
                                        + Byte(bytes, pos + 2)) * 256 + Byte(bytes, pos + 3)

\* A mistake: a number takes the width it needs.
NumberOfWidthShort(bytes, pos, width, value) ==
  IF value < 128 THEN Patched(bytes, pos, <<value>>) ELSE bytes

\* write_compressed_u32_preserving_width: what does not fit is not written.
NumberOfWidth(bytes, pos, width, value) ==
  CASE width = 1 /\ value < 128       -> Patched(bytes, pos, <<value>>)
    [] width = 2 /\ value < 2 ^ 14    -> Patched(bytes, pos, <<128 + value \div 256, value % 256>>)
    [] width = 4 /\ value < 2 ^ 29    ->
         Patched(bytes, pos, <<192 + value \div 2 ^ 24, (value \div 2 ^ 16) % 256,
                               (value \div 256) % 256, value % 256>>)
    [] OTHER                          -> bytes

-----------------------------------------------------------------------------
(* Code *)
\* method_body_size_with_extra_sections: whether every section behind the code ends
\* in what is available; the next one is aligned.
Align4(n) == ((n + 3) \div 4) * 4

SectionsFit(bytes, size) ==
  LET FitFrom[pos \in Nat] ==
        LET kind == Byte(bytes, pos)
            data == IF (kind \div 64) % 2 = 1 THEN Word(bytes, pos + 1, 3) ELSE Byte(bytes, pos + 1)
        IN  /\ pos + 4 <= Len(bytes)
            /\ pos + 4 + data <= Len(bytes)
            /\ kind >= 128 => FitFrom[Align4(pos + 4 + data)]
  IN  FitFrom[Align4(size)]

\* parse_cli_method_body_layout: where the code is in the bytes from a method's
\* address on, as a set of none or one.
CodeRange(bytes) ==
  IF bytes = <<>> THEN {}
  ELSE CASE Byte(bytes, 0) % 4 = 2 ->
              {r \in {[first |-> 1, size |-> Byte(bytes, 0) \div 4]} : 1 + r.size <= Len(bytes)}
         [] Byte(bytes, 0) % 4 = 3 /\ Len(bytes) >= 12 ->
              {r \in {[first |-> 4 * (Byte(bytes, 1) \div 16), size |-> Word(bytes, 4, 4)]} :
                 /\ r.first >= 12 /\ r.first + r.size <= Len(bytes)
                 /\ (Byte(bytes, 0) \div 8) % 2 = 1 => SectionsFit(bytes, r.first + r.size)}
         [] OTHER -> {}

\* A mistake: the operand of a branch is gone through as code.
OperandSizeBranchless(opcode) == IF opcode \in {32, 41} THEN 4 ELSE 0

\* one_byte_operand and two_byte_operand: the bytes of an operand that is not a
\* token, and the opcodes whose operand is one; calli's, 0x29, is left alone.
OperandSize(opcode) ==
  CASE opcode \in (14 .. 19) \cup {31} \cup (43 .. 55) \cup {222}        -> 1
    [] opcode \in {32, 34, 41, 221} \cup (56 .. 68)                      -> 4
    [] opcode \in {33, 35}                                               -> 8
    [] OTHER                                                             -> 0

OperandSize2(opcode) == CASE opcode \in 9 .. 14 -> 2 [] opcode = 18 -> 1 [] OTHER -> 0

TakesToken(opcode) ==
  opcode \in {39, 40, 121, 140, 141, 143, 194, 198, 208} \cup (111 .. 117) \cup (123 .. 129) \cup (163 .. 165)

TakesToken2(opcode) == opcode \in {6, 7, 21, 22, 28}

\* transform_il_tokens: where the tokens are; an operand that is cut off ends it.
TokensIn(code) ==
  LET len == Len(code)
      From0[pos \in 0 .. len] ==
        IF pos = len \/ (Byte(code, pos) = 254 /\ pos + 1 = len) THEN {}
        ELSE LET wide    == Byte(code, pos) = 254
                 opcode  == IF wide THEN Byte(code, pos + 1) ELSE Byte(code, pos)
                 operand == IF wide THEN pos + 2 ELSE pos + 1
                 token   == IF wide THEN TakesToken2(opcode) ELSE TakesToken(opcode)
                 next    ==
                   CASE token                                  -> operand + 4
                     [] ~token /\ wide                         -> operand + OperandSize2(opcode)
                     [] ~token /\ ~wide /\ opcode = 69 /\ operand + 4 <= len
                                                               -> operand + 4 + 4 * Word(code, operand, 4)
                     [] ~token /\ ~wide /\ opcode = 69 /\ operand + 4 > len -> len + 1
                     [] OTHER                                  -> operand + OperandSize(opcode)
             IN  IF next > len THEN {} ELSE (IF token THEN {operand} ELSE {}) \cup From0[next]
  IN  From0[0]

\* The table of a token; 0x70 stands for the strings of the user.
MapOfToken(kind, maps) ==
  CASE kind < Len(TableIds) -> maps.tables[TableIds[kind + 1]]
    [] kind = 112           -> maps.userStrings
    [] OTHER                -> <<>>

\* map_metadata_or_user_string_token, on a token's four bytes.
MappedToken(token, maps) ==
  Bytes(MapTokenRid(MapOfToken(token[4], maps), Word(token, 0, 3)) % 2 ^ 24, 3) \o <<token[4]>>

MapCode(code, maps) ==
  LET tokens == TokensIn(code)
      over(i) == {p \in tokens : i - p \in 1 .. 4}
  IN  [i \in DOMAIN code |->
         IF over(i) = {} THEN code[i]
         ELSE LET p == CHOOSE q \in over(i) : TRUE
              IN  MappedToken(SubSeq(code, p + 1, p + 4), maps)[i - p]]

\* constructor_cli_map.
ConstructorMaps(maps) ==
  [strings |-> <<>>, userStrings |-> <<>>, guid |-> <<>>, blob |-> <<>>,
   tables |-> [table \in Tables |-> IF table = "MethodDef" THEN maps.tables[table] ELSE <<>>]]

IsConstructor(method) == StringAt(From.strings, method["Name"]) \in CtorNames

\* The bytes from an address to the end of the section its image has on disk.
BodyAt(rva) ==
  IF rva \in From.textRva .. From.textRva + Len(image.text) - 1
  THEN SubSeq(image.text, rva - From.textRva + 1, Len(image.text)) ELSE <<>>

-----------------------------------------------------------------------------
(* Signatures *)
\* signature_kind_for_table, of those whose signatures are gone through.
SignatureKinds == [MethodDef |-> "method", MemberRef |-> "memberRef", Field |-> "field",
                   Property |-> "property", TypeSpec |-> "type", StandAloneSig |-> "method"]

\* What there is to read for a kind of signature; a member is a field's by its mark.
Goals(kind, bytes) ==
  CASE kind = "field" \/ (kind = "memberRef" /\ bytes # <<>> /\ Byte(bytes, 0) = 6) -> <<"byte", "type">>
    [] kind = "property" -> <<"byte", "typed">>
    [] kind = "type"     -> <<"type">>
    [] OTHER             -> <<"method">>

Times(n, goal) == [i \in 1 .. n |-> goal]

Prefix(byte)   == byte \div 16 = 4      (* sentinel, pinned *)
Modifier(byte) == byte \in {31, 32}     (* cmod_reqd, cmod_opt *)

\* A mistake: what a modifier names is passed over as a type.
TypeGoalsUnmodified(byte) ==
  CASE byte \in (2 .. 14) \cup {22, 24, 25, 28} -> {<<>>}
    [] byte \in {15, 29}                        -> {<<"type">>}
    [] OTHER                                    -> {}

\* transform_type, behind the byte that begins a type: a set of none or one.
TypeGoals(byte) ==
  CASE byte \in (2 .. 14) \cup {22, 24, 25, 28} -> {<<>>}
    [] byte \in {15, 29}                        -> {<<"type">>}
    [] byte \in {17, 18}                        -> {<<"token">>}
    [] byte \in {19, 30}                        -> {<<"number">>}
    [] byte = 20                                -> {<<"type", "shape">>}
    [] byte = 21                                -> {<<"type", "types">>}
    [] byte = 27                                -> {<<"method">>}
    [] Modifier(byte)                           -> {<<"token", "type">>}
    [] Prefix(byte)                             -> {<<"type">>}
    [] OTHER                                    -> {}

\* The tokens of a signature, in a walk that ends at the first thing it cannot read.
SignatureTokens(bytes, kind) ==
  LET Walk[pos \in Nat, goals \in Seq(STRING)] ==
        IF goals = <<>> THEN {}
        ELSE
          LET goal == Head(goals)
              rest == Tail(goals)
              left == pos < Len(bytes)
              byte == Byte(bytes, pos)
              counted(new(_)) ==
                IF HasNumber(bytes, pos)
                THEN Walk[pos + NumberWidth(byte), new(Number(bytes, pos)) \o rest] ELSE {}
          IN  CASE goal = "byte"    -> IF left THEN Walk[pos + 1, rest] ELSE {}
                [] goal = "method"  ->
                     IF ~left THEN {}
                     ELSE Walk[pos + 1, (IF (byte \div 16) % 2 = 1 THEN <<"number">> ELSE <<>>)
                                          \o <<"params">> \o rest]
                [] goal = "params"  -> counted(LAMBDA n : Times(n + 1, "param"))
                [] goal = "typed"   -> counted(LAMBDA n : <<"type">> \o Times(n, "param"))
                [] goal = "types"   -> counted(LAMBDA n : Times(n, "type"))
                [] goal = "numbers" -> counted(LAMBDA n : Times(n, "number"))
                [] goal = "number"  -> counted(LAMBDA n : <<>>)
                [] goal = "shape"   -> Walk[pos, <<"number", "numbers", "numbers">> \o rest]
                [] goal = "token"   ->
                     IF HasNumber(bytes, pos) THEN {pos} \cup Walk[pos + NumberWidth(byte), rest] ELSE {}
                [] goal = "param" /\ ~left                  -> {}
                [] goal = "param" /\ left /\ Prefix(byte)   -> Walk[pos + 1, goals]
                [] goal = "param" /\ left /\ Modifier(byte) -> Walk[pos + 1, <<"token">> \o goals]
                [] goal = "param" /\ left /\ byte \in {1, 22} -> Walk[pos + 1, rest]
                [] goal = "param" /\ left /\ byte = 16      -> Walk[pos + 1, <<"type">> \o rest]
                [] goal = "param" /\ left                   -> Walk[pos, <<"type">> \o rest]
                [] goal = "type"    ->
                     IF left /\ TypeGoals(byte) # {}
                     THEN Walk[pos + 1, (CHOOSE g \in TypeGoals(byte) : TRUE) \o rest] ELSE {}
  IN  Walk[0, Goals(kind, bytes)]

\* map_coded_token; a tag that leads nowhere, or to a table without a map, is left.
MapCodedToken(kind, raw, maps) ==
  IF ~HasTag(kind, raw) \/ TableOf(kind, raw) = NoTable THEN raw
  ELSE Reassembled(kind, raw, MapRid(maps.tables[TableOf(kind, raw)], RidOf(kind, raw)))

\* A token of a signature, in the bytes of its value.
MapSignature(bytes, kind, maps) ==
  FoldLeft(LAMBDA b, pos :
             NumberOfWidth(b, pos, NumberWidth(Byte(b, pos)),
                           MapCodedToken("TypeDefOrRef", Number(b, pos), maps)),
           bytes, SetToSeq(SignatureTokens(bytes, kind)))

\* blob_value_mut: the value of a blob, behind its length, if it is all there.
BlobRange(blob, offset) ==
  {r \in {[first |-> offset + NumberWidth(Byte(blob, offset)), size |-> Number(blob, offset)] :
            o \in {x \in {offset} : HasNumber(blob, x)}} : r.first + r.size <= Len(blob)}

Slice(bytes, range) == SubSeq(bytes, range.first + 1, range.first + range.size)

-----------------------------------------------------------------------------
(* Cells *)
MapCell(column, value, maps) ==
  CASE column.kind \in {"strings", "guid", "blob"} -> MapIndex(maps[column.kind], value)
    [] column.kind = "table"  -> MapIndex(maps.tables[column.to], value)
    [] column.kind = "coded"  -> MapCodedToken(column.to, value, maps)
    [] column.kind = "rva"    -> MapIndex(RvaMap, value)
    [] OTHER                  -> value

\* A mistake: a cell too narrow for its value holds the rest of it.
WrittenCut(column, value, mapped) ==
  IF Fits(mapped, ColumnWidth(column, Counts(From), From.heaps)) THEN mapped
  ELSE mapped % IndexLimit

\* write_index: a value the cell has no room for is not written.
Written(column, value, mapped) ==
  IF Fits(mapped, ColumnWidth(column, Counts(From), From.heaps)) THEN mapped ELSE value

-----------------------------------------------------------------------------
\* A mistake: the tables are gone through before the code.
PhasesSwapped == <<"rows", "code", "signatures">>

\* apply_classic_cli_source_transforms, with both of its flags.
Phases == <<"code", "rows", "signatures">>

ManagedInit ==
  /\ managedPc = "wait"
  /\ image = [text |-> <<>>, rows |-> <<>>, blob |-> <<>>]
  /\ bodies = <<>> /\ cursor = 1 /\ queue = {}

\* The source is copied.
StartTransform ==
  /\ mapPc = "done" /\ managedPc = "wait"
  /\ image' = [text |-> From.text, rows |-> From.rows, blob |-> From.blob]
  /\ bodies' = [i \in DOMAIN From.rows["MethodDef"] |-> i]
  /\ managedPc' = Phases[1]
  /\ UNCHANGED <<mapVars, cursor, queue>>

Exhausted == CASE managedPc = "code"       -> bodies = <<>>
               [] managedPc = "rows"       -> cursor > Len(TableIds)
               [] managedPc = "signatures" -> queue = {}

NextPhase ==
  \E i \in DOMAIN Phases :
    /\ managedPc = Phases[i] /\ Exhausted
    /\ managedPc' = IF i = Len(Phases) THEN "done" ELSE Phases[i + 1]
    /\ UNCHANGED <<mapVars, image, bodies, cursor, queue>>

\* A constructor's body has only its methods mapped.
MapsFor(method) == IF IsConstructor(method) THEN ConstructorMaps(Maps) ELSE Maps

\* transform_cli_disasm_tokens, of one body; a method with none, or with a header
\* that is not one, is passed over.
TransformBody ==
  /\ managedPc = "code" /\ bodies # <<>>
  /\ LET method == image.rows["MethodDef"][Head(bodies)]
         start  == method["Rva"] - From.textRva
     IN  image' = [image EXCEPT !.text =
           IF method["Rva"] = 0 THEN @
           ELSE FoldSet(LAMBDA range, text :
                          Patched(text, start + range.first,
                                  MapCode(Slice(BodyAt(method["Rva"]), range), MapsFor(method))),
                        @, CodeRange(BodyAt(method["Rva"])))]
  /\ bodies' = Tail(bodies)
  /\ UNCHANGED <<mapVars, managedPc, cursor, queue>>

\* transform_cli_metadata_with_rva_map, of one table: every cell of every row, the
\* signatures noted where they are in the source.
TransformTable ==
  /\ managedPc = "rows" /\ cursor <= Len(TableIds)
  /\ LET table   == TableIds[cursor]
         columns == Columns[table]
         column(name) == columns[CHOOSE i \in DOMAIN columns : columns[i].name = name]
         mapped(row)  == [name \in DOMAIN row |->
                            Written(column(name), row[name], MapCell(column(name), row[name], Maps))]
         noted(row)   == {<<cursor - 1, row[c.name]>> :
                            c \in {d \in Range(columns) : d.kind = "blob" /\ row[d.name] # 0}}
     IN  /\ image' = [image EXCEPT !.rows[table] = [r \in DOMAIN @ |-> mapped(@[r])]]
         /\ queue' = IF table \in DOMAIN SignatureKinds
                     THEN queue \cup UNION {noted(row) : row \in Range(image.rows[table])}
                     ELSE queue
  /\ cursor' = cursor + 1
  /\ UNCHANGED <<mapVars, managedPc, bodies>>

Before(a, b) == a[1] < b[1] \/ (a[1] = b[1] /\ a[2] <= b[2])

\* transform_signature_blob_at_source_offset, of the first that is noted.
TransformSignature ==
  /\ managedPc = "signatures" /\ queue # {}
  /\ \E noted \in {CHOOSE a \in queue : \A b \in queue : Before(a, b)} :
       /\ image' = [image EXCEPT !.blob =
            FoldSet(LAMBDA range, blob :
                      Patched(blob, range.first,
                              MapSignature(Slice(blob, range),
                                           SignatureKinds[TableIds[noted[1] + 1]], Maps)),
                    @, BlobRange(@, noted[2]))]
       /\ queue' = queue \ {noted}
  /\ UNCHANGED <<mapVars, managedPc, bodies, cursor>>

ManagedNext ==
  \/ MapNext /\ UNCHANGED managedVars
  \/ StartTransform \/ TransformBody \/ TransformTable \/ TransformSignature \/ NextPhase

-----------------------------------------------------------------------------
(* What the transform is for: whatever the source says of a row of its     *)
(* own, the copy says of that row's counterpart in the target.             *)

\* A row both images have exactly once.
Settled(known, table, rid) ==
  /\ known.plain
  /\ StepsOf(table) # {} /\ rid \in RowsOf(From, table)
  /\ Alone(known, table, rid)
  /\ Cardinality(Counterparts(known, table, rid)) = 1

Follows(known, table, rid, new) == Settled(known, table, rid) => new \in Counterparts(known, table, rid)

CellFollows(known, column, value, new) ==
  CASE column.kind = "strings" ->
         (\E e \in Range(StringEntries(From.strings)) : e.offset = value /\
            \E t \in Range(StringEntries(To.strings)) : t.value = e.value) =>
           StringAt(To.strings, new) = StringAt(From.strings, value)
    [] column.kind = "table" -> IF value = 0 THEN new = 0 ELSE Follows(known, column.to, value, new)
    [] column.kind = "coded" ->
         /\ TagOf(column.to, new) = TagOf(column.to, value)
         /\ IF RidOf(column.to, value) = 0 THEN new = value
            ELSE \/ Follows(known, TableOf(column.to, value), RidOf(column.to, value), RidOf(column.to, new))
                 \/ new = value /\ \E t \in Counterparts(known, TableOf(column.to, value), RidOf(column.to, value)) :
                      ~Fits(Reassembled(column.to, value, t), ColumnWidth(column, Counts(From), From.heaps))
    [] OTHER -> TRUE

CellsFollow(known) ==
  \A table \in Tables : \A r \in RowsOf(From, table) : \A c \in Range(Columns[table]) :
    CellFollows(known, c, From.rows[table][r][c.name], image.rows[table][r][c.name])

\* The tokens the source's compiler put into the code, and nothing else.
TokenFollows(known, pos, method) ==
  LET old  == SubSeq(From.text, pos + 1, pos + 4)
      new  == SubSeq(image.text, pos + 1, pos + 4)
      kind == old[4]
  IN  /\ new[4] = kind
      /\ IF kind < Len(TableIds)
         THEN \/ IsConstructor(method) /\ TableIds[kind + 1] # "MethodDef"
              \/ Follows(known, TableIds[kind + 1], Word(old, 0, 3), Word(new, 0, 3))
         ELSE TRUE

CodeFollows(known) ==
  /\ \A m \in RowsOf(From, "MethodDef") : \A pos \in From.tokens[m] :
       TokenFollows(known, pos, From.rows["MethodDef"][m])
  /\ \A i \in DOMAIN From.text :
       (\A m \in DOMAIN From.tokens : \A pos \in From.tokens[m] : i - pos \notin 1 .. 4)
         => image.text[i] = From.text[i]

\* The tables whose rows name a signature as one.
NamedIn(offset) ==
  {table \in DOMAIN SignatureKinds : \E r \in RowsOf(From, table) : \E c \in Range(Columns[table]) :
     c.kind = "blob" /\ From.rows[table][r][c.name] = offset}

\* The tokens in the signatures the rows of one table name.
SignaturesFollow(known) ==
  /\ \A offset \in DOMAIN From.marks : Cardinality(NamedIn(offset)) = 1 =>
       \A pos \in From.marks[offset] :
         LET old == Number(From.blob, pos)
             new == Number(image.blob, pos)
         IN  /\ NumberWidth(Byte(image.blob, pos)) = NumberWidth(Byte(From.blob, pos))
             /\ TagOf("TypeDefOrRef", old) = TagOf("TypeDefOrRef", new)
             /\ Follows(known, TableOf("TypeDefOrRef", old), RidOf("TypeDefOrRef", old), RidOf("TypeDefOrRef", new))
  /\ \A i \in DOMAIN From.blob :
       (\A offset \in DOMAIN From.marks : \A pos \in From.marks[offset] :
          i - pos \notin 1 .. NumberWidth(Byte(From.blob, pos))) => image.blob[i] = From.blob[i]

\* When the transform is done, a row both images have once is led to wherever it was
\* led to before: from a cell, from a token in the code and from a signature.  The
\* maps must be right, reducing and looking them up must not move a row that is
\* paired, and no cell or token may be mapped twice or not at all.
ReferencesFollow ==
  managedPc = "done" => \E known \in {Knowledge} :
    CellsFollow(known) /\ CodeFollows(known) /\ SignaturesFollow(known)

-----------------------------------------------------------------------------
(***************************************************************************)
(* Where the bytes of the target's metadata are to be copied from          *)
(* (src/pe/cli/rift.rs, build_cli_compression_rift): an entry for every    *)
(* place where the rows and the heaps of the transformed source cease to   *)
(* be in step with the target's, and entries inside of rows whose cells    *)
(* have another width in the target.  The layout of the tables follows     *)
(* from their numbers of rows (metadata.rs), which is all the patch says   *)
(* of the target.                                                          *)
(***************************************************************************)
VARIABLES
  cliRift,        (* entries from the target's file to the source's         *)
  riftDone

riftVars == <<cliRift, riftDone>>

TablesHeader == 24      (* what the stream of tables begins with            *)
CountSize    == 4       (* the number of rows of a table that is there      *)
GuidSize     == 16

TableWidths(database, table) == Widths(table, Counts(database), database.heaps)

Present(counts) == {i \in DOMAIN TableIds : counts[TableIds[i]] # 0}

\* parse_tables_stream, build_cli_metadata_bitstream_record: where the tables are.
TableOffsets(database) ==
  LET counts == Counts(database)
      sizes  == [i \in DOMAIN TableIds |->
                   counts[TableIds[i]] * RowSize(TableIds[i], counts, database.heaps)]
      begin  == database.streams.tables + TablesHeader + CountSize * Cardinality(Present(counts))
  IN  [i \in Present(counts) |-> begin + ColumnOffset(sizes, i)]

\* table_row_file_offset: row 0 stands where the table does.
RowOffset(offset, size, rid) == IF rid <= 0 THEN offset + rid ELSE offset + (rid - 1) * size

\* The place of a cell, in a row of cells of these widths.
CellOffset(offset, widths, rid, i) == RowOffset(offset, SizeOf(widths), rid) + ColumnOffset(widths, i)

\* append_cli_heap_rift_entries: a heap without a map is taken as it is.
HeapEntries(source, target, map) ==
  IF map = <<>> THEN <<Entry(target, source)>>
  ELSE [i \in DOMAIN map |-> Entry(target + map[i].target, source + map[i].source)]

\* append_cli_table_rift_entries.
TableEntries(source, target, size, newSize, map) ==
  IF map = <<>> THEN <<Entry(target, source)>>
  ELSE [i \in DOMAIN map |-> Entry(RowOffset(target, newSize, map[i].target),
                                   RowOffset(source, size, map[i].source))]

\* A mistake: what follows a cell that is wider is not taken up again.
WidenedEntriesNoReturn(source, target, fill, followed) == <<Entry(target + 2, fill)>>

\* append_cli_table_widened_column_entries, of one row: zeros, then what follows.
WidenedEntries(source, target, fill, followed) ==
  <<Entry(target + 2, fill)>> \o (IF followed THEN <<Entry(target + 4, source + 2)>> ELSE <<>>)

\* append_cli_table_narrowed_column_entries, of one row: the rest is stepped over.
NarrowedEntries(source, target, followed) ==
  IF followed THEN <<Entry(target + 2, source + 4)>> ELSE <<>>

\* append_cli_table_width_hole_entries: every row of the source, by column.
HoleEntries(source, old, target, new, rows, map, fill) ==
  LET last == Len(old)
      row(rid, i) ==
        LET s == CellOffset(source, old, rid, i)
            t == CellOffset(target, new, MapRid(map, rid), i)
        IN  IF old[i] < new[i] THEN WidenedEntries(s, t, fill, i < last)
            ELSE NarrowedEntries(s, t, i < last)
      column(i) == IF old[i] = new[i] THEN <<>>
                   ELSE FlattenSeq([rid \in 1 .. rows |-> row(rid, i)])
  IN  FlattenSeq([i \in DOMAIN old |-> column(i)])

\* append_optional_heap_stream: a heap only one of the images has is left out.
StreamEntries(name, map) ==
  IF From[name] = <<>> \/ To[name] = <<>> THEN <<>>
  ELSE HeapEntries(From.streams[name], To.streams[name], map)

GuidEntries ==
  IF From.guids = 0 \/ To.guids = 0 THEN <<>>
  ELSE TableEntries(From.streams.guid, To.streams.guid, GuidSize, GuidSize, Maps.guid)

\* build_cli_compression_rift_impl.
CompressionRift ==
  LET entries(source, old, target, new, table) ==
        TableEntries(source, target, SizeOf(old), SizeOf(new), Maps.tables[table])
          \o HoleEntries(source, old, target, new, Len(From.rows[table]), Maps.tables[table], From.zeros)
      tables(source, target) ==
        FlattenSeq([i \in DOMAIN TableIds |->
          IF i \in DOMAIN source \cap DOMAIN target
          THEN entries(source[i], TableWidths(From, TableIds[i]),
                       target[i], TableWidths(To, TableIds[i]), TableIds[i])
          ELSE <<>>])
  IN  BySource(StreamEntries("strings", Maps.strings)
                 \o StreamEntries("userStrings", Maps.userStrings)
                 \o StreamEntries("blob", Maps.blob) \o GuidEntries
                 \o tables(TableOffsets(From), TableOffsets(To)))

-----------------------------------------------------------------------------
RiftInit == cliRift = <<>> /\ riftDone = FALSE

BuildRift ==
  /\ managedPc = "done" /\ ~riftDone
  /\ cliRift' = CompressionRift
  /\ riftDone' = TRUE
  /\ UNCHANGED <<mapVars, managedVars>>

ManagedApplyNext == (ManagedNext /\ UNCHANGED riftVars) \/ BuildRift

-----------------------------------------------------------------------------
\* Where a byte of the target is copied from: what lies before it in the rift says.
CopiedFrom(offset) == MapTokenRid(cliRift, offset)

\* What has to be so for rows to be in step: the map keeps their order; where
\* cells differ in width, every row of the source has one of the target to itself,
\* for the entries of one that has none fall into another table.
InOrder(known, table, sameWidths) ==
  LET rids == {rid \in RowsOf(From, table) : sameWidths => Settled(known, table, rid)}
  IN  \A r, s \in rids : r < s => MapRid(Maps.tables[table], r) < MapRid(Maps.tables[table], s)

WithinTables ==
  \A table \in Tables :
    \/ TableWidths(From, table) = TableWidths(To, table)
    \/ \A rid \in RowsOf(From, table) : MapRid(Maps.tables[table], rid) \in RowsOf(To, table)

\* What a map says of the rows in front of its first entry is said by its last.
Entered(table, rid) == Maps.tables[table] = <<>> \/ Maps.tables[table][1].source <= rid

CellsLineUp(source, old, rid, target, new, counterpart) ==
  \A i \in DOMAIN old :
    LET s == CellOffset(source, old, rid, i)
        t == CellOffset(target, new, counterpart, i)
    IN  CopiedFrom(t) = s /\ (old[i] < new[i] => CopiedFrom(t + 2) = From.zeros)

\* Behind a last cell that is wider nothing takes up the copy again.
TableLinesUp(known, source, old, target, new, table) ==
  (InOrder(known, table, old = new) /\ Last(old) = Last(new)) =>
    \A rid \in RowsOf(From, table) :
      (Settled(known, table, rid) /\ Entered(table, rid)) =>
        \A counterpart \in Counterparts(known, table, rid) :
          CellsLineUp(source, old, rid, target, new, counterpart)

\* Every cell of a row of the target is copied from the cell of the row it is
\* matched with, and what it has more from zeros, however the cells' widths and the
\* places of the tables differ (src/pe/cli/rift.rs, build_cli_compression_rift).
RowsLineUp ==
  (riftDone /\ WithinTables) =>
    \E known \in {Knowledge}, source \in {TableOffsets(From)}, target \in {TableOffsets(To)} :
      \A i \in DOMAIN source \cap DOMAIN target :
        \E old \in {TableWidths(From, TableIds[i])}, new \in {TableWidths(To, TableIds[i])} :
          TableLinesUp(known, source[i], old, target[i], new, TableIds[i])
=============================================================================
