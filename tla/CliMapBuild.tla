----------------------------- MODULE CliMapBuild -----------------------------
(***************************************************************************)
(* The map between the metadata of a source and of a target image          *)
(* (src/pe/cli/create_map.rs, build_cli_map_from_metadata).  Strings are   *)
(* paired by value.  Rows are paired table by table, in an order in which  *)
(* what the key of a row refers to is paired before it: a row whose key,   *)
(* mapped, is the key of a target's row that is still free takes it; the   *)
(* fields, methods and parameters of an owner are paired by name within    *)
(* its target's.  Paired rows then pair their blobs and addresses, and     *)
(* the maps are reduced.                                                   *)
(*                                                                         *)
(* First, the tables of managed metadata (src/pe/cli/schema.rs): the       *)
(* columns of each, the tables a coded index can lead to, and how wide a   *)
(* cell is, which depends on the number of rows of every table it can lead *)
(* to.  A database is what the metadata of an image holds: for each table  *)
(* its rows, a row being a function from its columns to numbers.           *)
(***************************************************************************)
EXTENDS Integers, Sequences, FiniteSets, SequencesExt

CONSTANTS
  IndexLimit,     (* rows a narrow index can count (2^16)                 *)
  Databases,      (* the pairs <<source, target>> of databases considered *)
  Reserved        (* the first byte that begins no length (0xe0)          *)

ASSUME IndexLimitAssumption == IndexLimit \in Nat \ {0}

-----------------------------------------------------------------------------
Column(name, kind, to) == [name |-> name, kind |-> kind, to |-> to]

U8(name)        == Column(name, "u8", "")
U16(name)       == Column(name, "u16", "")
U32(name)       == Column(name, "u32", "")
Rva(name)       == Column(name, "rva", "")
Str(name)       == Column(name, "strings", "")
Guid(name)      == Column(name, "guid", "")
Blob(name)      == Column(name, "blob", "")
Index(name, to) == Column(name, "table", to)
Coded(name, to) == Column(name, "coded", to)

Each(Kind(_), names) == [i \in DOMAIN names |-> Kind(names[i])]

Version == Each(U16, <<"MajorVersion", "MinorVersion", "BuildNumber", "RevisionNumber">>)
OsId    == Each(U32, <<"OSPlatformId", "OSMajorVersion", "OSMinorVersion">>)

\* The tables of what an image defines and refers to.
DefinitionColumns == [
  Module          |-> <<U16("Generation"), Str("Name")>> \o Each(Guid, <<"Mvid", "EncId", "EncBaseId">>),
  TypeRef         |-> <<Coded("ResolutionScope", "ResolutionScope"), Str("Name"), Str("Namespace")>>,
  TypeDef         |-> <<U32("Flags"), Str("Name"), Str("Namespace"), Coded("Extends", "TypeDefOrRef"),
                        Index("FieldList", "Field"), Index("MethodList", "MethodDef")>>,
  FieldPtr        |-> <<Index("Field", "Field")>>,
  Field           |-> <<U16("Flags"), Str("Name"), Blob("Signature")>>,
  MethodPtr       |-> <<Index("Method", "MethodDef")>>,
  MethodDef       |-> <<Rva("Rva"), U16("ImplFlags"), U16("Flags"), Str("Name"), Blob("Signature"),
                        Index("ParamList", "Param")>>,
  ParamPtr        |-> <<Index("Param", "Param")>>,
  Param           |-> <<U16("Flags"), U16("Sequence"), Str("Name")>>,
  InterfaceImpl   |-> <<Index("Class", "TypeDef"), Coded("Interface", "TypeDefOrRef")>>,
  MemberRef       |-> <<Coded("Class", "MemberRefParent"), Str("Name"), Blob("Signature")>>,
  Constant        |-> <<U8("Type"), U8("Padding"), Coded("Parent", "HasConstant"), Blob("Value")>>,
  CustomAttribute |-> <<Coded("Parent", "HasCustomAttribute"), Coded("Type", "CustomAttributeType"),
                        Blob("Value")>>,
  FieldMarshal    |-> <<Coded("Parent", "HasFieldMarshal"), Blob("NativeType")>>,
  DeclSecurity    |-> <<U16("Action"), Coded("Parent", "HasDeclSecurity"), Blob("PermissionSet")>>,
  ClassLayout     |-> <<U16("PackingSize"), U32("ClassSize"), Index("Parent", "TypeDef")>>,
  FieldLayout     |-> <<U32("Offset"), Index("Field", "Field")>>,
  StandAloneSig   |-> <<Blob("Signature")>>]

\* The tables of what belongs to a type or a method.
MemberColumns == [
  EventMap        |-> <<Index("Parent", "TypeDef"), Index("EventList", "Event")>>,
  EventPtr        |-> <<Index("Event", "Event")>>,
  Event           |-> <<U16("EventFlags"), Str("Name"), Coded("EventType", "TypeDefOrRef")>>,
  PropertyMap     |-> <<Index("Parent", "TypeDef"), Index("PropertyList", "Property")>>,
  PropertyPtr     |-> <<Index("Property", "Property")>>,
  Property        |-> <<U16("Flags"), Str("Name"), Blob("Type")>>,
  MethodSemantics |-> <<U16("Semantics"), Index("Method", "MethodDef"), Coded("Association", "HasSemantics")>>,
  MethodImpl      |-> <<Index("Class", "TypeDef"), Coded("MethodBody", "MethodDefOrRef"),
                        Coded("MethodDeclaration", "MethodDefOrRef")>>,
  ModuleRef       |-> <<Str("Name")>>,
  TypeSpec        |-> <<Blob("Signature")>>,
  ImplMap         |-> <<U16("MappingFlags"), Coded("MemberForwarded", "MemberForwarded"),
                        Str("ImportName"), Index("ImportScope", "ModuleRef")>>,
  FieldRVA        |-> <<Rva("Rva"), Index("Field", "Field")>>,
  ENCLog          |-> <<U32("Token"), U32("FuncCode")>>,
  ENCMap          |-> <<U32("Token")>>]

\* The tables of assemblies, files, and of what is nested or generic.
AssemblyColumns == [
  Assembly        |-> <<U32("HashAlgId")>> \o Version
                        \o <<U32("Flags"), Blob("PublicKey"), Str("Name"), Str("Culture")>>,
  AssemblyProcessor |-> <<U32("Processor")>>,
  AssemblyOS      |-> OsId,
  AssemblyRef     |-> Version \o <<U32("Flags"), Blob("PublicKeyOrToken"), Str("Name"), Str("Culture"),
                                   Blob("HashValue")>>,
  AssemblyRefProcessor |-> <<U32("Processor"), Index("AssemblyRef", "AssemblyRef")>>,
  AssemblyRefOS   |-> OsId \o <<Index("AssemblyRef", "AssemblyRef")>>,
  File            |-> <<U32("Flags"), Str("Name"), Blob("HashValue")>>,
  ExportedType    |-> <<U32("Flags"), U32("TypeDefId"), Str("TypeName"), Str("TypeNamespace"),
                        Coded("Implementation", "Implementation")>>,
  ManifestResource |-> <<U32("Offset"), U32("Flags"), Str("Name"), Coded("Implementation", "Implementation")>>,
  NestedClass     |-> <<Index("NestedClass", "TypeDef"), Index("EnclosingClass", "TypeDef")>>,
  GenericParam    |-> <<U16("Number"), U16("Flags"), Coded("Owner", "TypeOrMethodDef"), Str("Name")>>,
  MethodSpec      |-> <<Coded("Method", "MethodDefOrRef"), Blob("Instantiation")>>,
  GenericParamConstraint |-> <<Index("Owner", "GenericParam"), Coded("Constraint", "TypeDefOrRef")>>]

Columns == DefinitionColumns @@ MemberColumns @@ AssemblyColumns

\* METADATA_TABLES: the tables by their ids, from 0 on.
TableIds == <<
  "Module", "TypeRef", "TypeDef", "FieldPtr", "Field", "MethodPtr", "MethodDef", "ParamPtr",
  "Param", "InterfaceImpl", "MemberRef", "Constant", "CustomAttribute", "FieldMarshal",
  "DeclSecurity", "ClassLayout", "FieldLayout", "StandAloneSig", "EventMap", "EventPtr", "Event",
  "PropertyMap", "PropertyPtr", "Property", "MethodSemantics", "MethodImpl", "ModuleRef",
  "TypeSpec", "ImplMap", "FieldRVA", "ENCLog", "ENCMap", "Assembly", "AssemblyProcessor",
  "AssemblyOS", "AssemblyRef", "AssemblyRefProcessor", "AssemblyRefOS", "File", "ExportedType",
  "ManifestResource", "NestedClass", "GenericParam", "MethodSpec", "GenericParamConstraint">>

Tables == DOMAIN Columns

CodedIndex(bits, tags) == [bits |-> bits, tags |-> tags]

NoTable == "none"      (* TABLE_SENTINEL: a tag that leads nowhere *)

CodedIndexes == [
  TypeDefOrRef        |-> CodedIndex(2, <<"TypeDef", "TypeRef", "TypeSpec">>),
  HasConstant         |-> CodedIndex(2, <<"Field", "Param", "Property">>),
  HasCustomAttribute  |-> CodedIndex(5, <<"MethodDef", "Field", "TypeRef", "TypeDef", "Param",
                            "InterfaceImpl", "MemberRef", "Module", "DeclSecurity", "Property", "Event",
                            "StandAloneSig", "ModuleRef", "TypeSpec", "Assembly", "AssemblyRef", "File",
                            "ExportedType", "ManifestResource", "GenericParam",
                            "GenericParamConstraint", "MethodSpec">>),
  HasFieldMarshal     |-> CodedIndex(1, <<"Field", "Param">>),
  HasDeclSecurity     |-> CodedIndex(2, <<"TypeDef", "MethodDef", "Assembly">>),
  MemberRefParent     |-> CodedIndex(3, <<"TypeDef", "TypeRef", "ModuleRef", "MethodDef", "TypeSpec">>),
  HasSemantics        |-> CodedIndex(1, <<"Event", "Property">>),
  MethodDefOrRef      |-> CodedIndex(1, <<"MethodDef", "MemberRef">>),
  MemberForwarded     |-> CodedIndex(1, <<"Field", "MethodDef">>),
  Implementation      |-> CodedIndex(2, <<"File", "AssemblyRef", "ExportedType">>),
  CustomAttributeType |-> CodedIndex(3, <<NoTable, NoTable, "MethodDef", "MemberRef", NoTable>>),
  ResolutionScope     |-> CodedIndex(2, <<"Module", "ModuleRef", "AssemblyRef", "TypeRef">>),
  TypeOrMethodDef     |-> CodedIndex(1, <<"TypeDef", "MethodDef">>)]

-----------------------------------------------------------------------------
TagBase(kind)    == 2 ^ CodedIndexes[kind].bits
TagOf(kind, raw) == raw % TagBase(kind)
RidOf(kind, raw) == raw \div TagBase(kind)
HasTag(kind, raw) == TagOf(kind, raw) < Len(CodedIndexes[kind].tags)

\* Where a coded index leads, if its tag is one.
TableOf(kind, raw) == CodedIndexes[kind].tags[TagOf(kind, raw) + 1]

\* reassemble_coded_token_native.
Reassembled(kind, raw, rid) == rid * TagBase(kind) + TagOf(kind, raw)

TableIndexWidth(table, counts) == IF counts[table] < IndexLimit THEN 2 ELSE 4

\* The tag takes its bits from the number of rows that can be counted.
CodedIndexWidth(kind, counts) ==
  IF \A table \in Tables \cap Range(CodedIndexes[kind].tags) :
       counts[table] < IndexLimit \div TagBase(kind)
  THEN 2 ELSE 4

\* heaps: the widths of the indices into the heaps.
ColumnWidth(column, counts, heaps) ==
  CASE column.kind = "u8"             -> 1
    [] column.kind = "u16"            -> 2
    [] column.kind \in {"u32", "rva"} -> 4
    [] column.kind \in {"strings", "guid", "blob"} -> heaps[column.kind]
    [] column.kind = "table"          -> TableIndexWidth(column.to, counts)
    [] column.kind = "coded"          -> CodedIndexWidth(column.to, counts)

WidthsOf(columns, counts, heaps) ==
  [i \in DOMAIN columns |-> ColumnWidth(columns[i], counts, heaps)]

Widths(table, counts, heaps) == WidthsOf(Columns[table], counts, heaps)

\* Where column number i of a row begins; one past the last, its size.
ColumnOffset(widths, i) == FoldLeft(LAMBDA sum, width : sum + width, 0, SubSeq(widths, 1, i - 1))
SizeOf(widths)          == ColumnOffset(widths, Len(widths) + 1)

RowSize(table, counts, heaps) == SizeOf(Widths(table, counts, heaps))

\* What a cell of width 2 can hold.
Fits(value, width) == width = 4 \/ value < IndexLimit

\* The rows of every table.
Counts(database) == [table \in Tables |-> Len(database.rows[table])]

-----------------------------------------------------------------------------
(***************************************************************************)
(* The maps between the metadata of two images: entries of a source and a  *)
(* target, sorted by source (src/pe/cli/create_map.rs and map.rs).  How    *)
(* the heaps are paired, how a map is looked up - in three ways - and what *)
(* reducing it leaves, which RiftReduce goes through entry by entry.       *)
(***************************************************************************)

Entry(source, target) == [source |-> source, target |-> target]
Shift(entry)          == entry.target - entry.source

\* sort_by_key keeps the order of entries with one source.
BySource(map) ==
  LET sorted == SortSeq([i \in DOMAIN map |-> i],
                        LAMBDA a, b : \/ map[a].source < map[b].source
                                      \/ map[a].source = map[b].source /\ a < b)
  IN  [k \in DOMAIN map |-> map[sorted[k]]]

Unset == -1     (* stands for i64::MAX, which is no row *)

\* seed_cli_map_tables: a place for every row, and for row 0, which is itself.
Seeded(rows) == [k \in 1 .. rows + 1 |-> Entry(k - 1, IF k = 1 THEN 0 ELSE Unset)]

Naming(map, source) == {i \in DOMAIN map : map[i].source = source}

\* set_rift_entry: every row has its place.
SetEntry(map, source, target) ==
  [i \in DOMAIN map |-> IF map[i].source = source THEN Entry(source, target) ELSE map[i]]

\* exact_rift_target_value: the target of the first entry, if there is one.
Exact(map, source) ==
  {map[i].target : i \in {j \in Naming(map, source) :
                            map[j].target # Unset /\ \A k \in Naming(map, source) : j <= k}}

-----------------------------------------------------------------------------
\* build_cli_heap_map: a value is mapped to where the target has it first.
HeapMap(sources, targets, nonempty) ==
  LET found == SelectSeq(sources, LAMBDA s : \E i \in DOMAIN targets : targets[i].value = s.value)
      first(value) == CHOOSE i \in DOMAIN targets :
                        targets[i].value = value /\ \A j \in 1 .. i - 1 : targets[j].value # value
      zero == IF nonempty THEN <<Entry(0, 0)>> ELSE <<>>
      all  == BySource(zero \o [i \in DOMAIN found |->
                                  Entry(found[i].offset, targets[first(found[i].value)].offset)])
  IN  SelectSeq(all, LAMBDA e : e = all[CHOOSE i \in Naming(all, e.source) :
                                          \A j \in Naming(all, e.source) : i <= j])

\* parse_strings_heap_entries, of a heap that ends a value: a value begins behind
\* a zero, and at offset 1 whatever the first byte is.
StringEntries(heap) ==
  LET begins == {at \in 1 .. Len(heap) - 1 : (at = 1 \/ heap[at] = 0) /\ heap[at + 1] # 0}
      ends(at) == CHOOSE e \in at + 1 .. Len(heap) - 1 :
                    heap[e + 1] = 0 /\ \A i \in at .. e - 1 : heap[i + 1] # 0
  IN  SortSeq(SetToSeq({[offset |-> at, value |-> SubSeq(heap, at + 1, ends(at))] : at \in begins}),
              LAMBDA a, b : a.offset < b.offset)

\* strings: the value at an offset, to the next zero.
StringAt(heap, offset) ==
  IF offset = 0 THEN <<>>
  ELSE SubSeq(heap, offset + 1,
              (CHOOSE e \in offset .. Len(heap) - 1 :
                 heap[e + 1] = 0 /\ \A i \in offset .. e - 1 : heap[i + 1] # 0))

\* parse_user_strings_heap_entries: records with their length in front; a length
\* that does not fit, and a byte that is none, are stepped over.
UserStringEntries(heap) ==
  LET EntriesFrom[at \in 0 .. Len(heap)] ==
        IF at = Len(heap) THEN <<>>
        ELSE LET end == at + 1 + heap[at + 1]
             IN  IF heap[at + 1] >= Reserved \/ end > Len(heap) THEN EntriesFrom[at + 1]
                 ELSE (IF end = at + 1 THEN <<>>
                       ELSE <<[offset |-> at, value |-> SubSeq(heap, at + 1, end)]>>)
                      \o EntriesFrom[end]
  IN  EntriesFrom[0]

-----------------------------------------------------------------------------
\* The majority vote over the targets given for one source.
Elected(targets) ==
  FoldLeft(LAMBDA lead, t :
             IF t = lead[1] THEN <<t, lead[2] + 1>>
             ELSE IF lead[2] = 0 THEN <<t, 1>> ELSE <<lead[1], lead[2] - 1>>,
           <<Head(targets), 0>>, targets)[1]

\* A mistake: the entry of row 0 is dropped with the others in front of a change.
TrimmedAlways(map) == IF Len(map) > 1 THEN Tail(map) ELSE map

\* One entry holds everywhere; of several the first goes if the last has its shift.
Trimmed(map) ==
  CASE Len(map) = 0 -> <<>>
    [] Len(map) = 1 -> IF Shift(map[1]) = 0 THEN <<>> ELSE <<Entry(0, Shift(map[1]))>>
    [] Len(map) > 1 -> IF Shift(map[1]) = Shift(map[Len(map)]) THEN Tail(map) ELSE map

\* internal_reduce.
Reduced(map, dropUnset) ==
  LET kept == SelectSeq(map, LAMBDA e : ~(dropUnset /\ e.target = Unset))
      sources == SetToSortSeq({e.source : e \in Range(kept)}, <)
      targets(source) ==
        LET given == SelectSeq(kept, LAMBDA e : e.source = source)
        IN  [k \in DOMAIN given |-> given[k].target]
      voted == [i \in DOMAIN sources |-> Entry(sources[i], Elected(targets(sources[i])))]
      changes == {i \in DOMAIN voted : i = 1 \/ Shift(voted[i]) # Shift(voted[i - 1])}
  IN  Trimmed([k \in 1 .. Cardinality(changes) |->
                 voted[CHOOSE i \in changes : Cardinality({j \in changes : j <= i}) = k]])

-----------------------------------------------------------------------------
\* The last entry at or before a source; 0 if there is none.
EntryAt(map, source) == Cardinality({i \in DOMAIN map : map[i].source <= source})

\* map: in front of the first entry nothing moves; 0 is no index, and stays.
MapIndex(map, value) ==
  IF value = 0 \/ EntryAt(map, value) = 0 THEN value
  ELSE value + Shift(map[EntryAt(map, value)])

\* map_rid of a token: the same, without the care for 0.
MapTokenRid(map, rid) ==
  IF EntryAt(map, rid) = 0 THEN rid ELSE rid + Shift(map[EntryAt(map, rid)])

\* map_rid of a coded index: in front of the first entry the last one holds.
MapRid(map, rid) ==
  CASE map = <<>>                             -> rid
    [] map # <<>> /\ EntryAt(map, rid) = 0    -> rid + Shift(map[Len(map)])
    [] map # <<>> /\ EntryAt(map, rid) # 0    -> rid + Shift(map[EntryAt(map, rid)])

-----------------------------------------------------------------------------
VARIABLES
  dbs,            (* the pair                                             *)
  mapPc,          (* "heaps", "rows", "blobs", "reduce" or "done"         *)
  cliMap,         (* [strings, userStrings, guid, blob, tables]           *)
  rvas,           (* the map of addresses                                 *)
  step,           (* the next of MapSteps                                 *)
  at,             (* the next row of its table, or of its owner's         *)
  child,          (* the next row of the owner's list; 0 before it         *)
  taken           (* the rows of the target that are paired               *)

mapVars == <<dbs, mapPc, cliMap, rvas, step, at, child, taken>>

From == dbs[1]
To   == dbs[2]

Rid(map, source) == Exact(map, source)

-----------------------------------------------------------------------------
Triplet(table, columns) == [table |-> table, keys |-> columns, owner |-> "", list |-> ""]
Sequence(table, owner, list) == [table |-> table, keys |-> <<"Name">>, owner |-> owner, list |-> list]

NamedSteps == <<
  Triplet("Assembly", <<"Name">>), Triplet("AssemblyRef", <<"Name">>),
  Triplet("Module", <<"Name">>), Triplet("ModuleRef", <<"Name">>),
  Triplet("TypeDef", <<"Name", "Namespace">>)>>

ListedSteps == <<
  Sequence("Field", "TypeDef", "FieldList"), Sequence("MethodDef", "TypeDef", "MethodList"),
  Sequence("Param", "MethodDef", "ParamList")>>

ReferringSteps == <<
  Triplet("TypeRef", <<"Name", "Namespace">>), Triplet("MemberRef", <<"Name", "Class">>),
  Triplet("EventMap", <<"Parent">>), Sequence("Event", "EventMap", "EventList"),
  Triplet("PropertyMap", <<"Parent">>), Sequence("Property", "PropertyMap", "PropertyList"),
  Triplet("Constant", <<"Parent">>), Triplet("FieldMarshal", <<"Parent">>),
  Triplet("DeclSecurity", <<"Parent">>), Triplet("ClassLayout", <<"Parent">>),
  Triplet("FieldLayout", <<"Field">>), Triplet("MethodSemantics", <<"Method">>),
  Triplet("ImplMap", <<"ImportName", "MemberForwarded">>), Triplet("FieldRVA", <<"Field">>),
  Triplet("File", <<"Name">>), Triplet("ManifestResource", <<"Name">>),
  Triplet("GenericParam", <<"Name", "Owner">>), Triplet("MethodSpec", <<"Method">>),
  Triplet("GenericParamConstraint", <<"Owner">>), Triplet("CustomAttribute", <<"Parent">>)>>

\* A mistake: members are paired before the types they belong to.
MembersFirst == ListedSteps \o NamedSteps \o ReferringSteps

\* CLI_MAP_RUN_STEPS.
MapSteps == NamedSteps \o ListedSteps \o ReferringSteps

ColumnOf(table, name) == CHOOSE column \in Range(Columns[table]) : column.name = name

\* A mistake: the row is mapped, its table forgotten.
MapCodedUntagged(kind, raw, tables) ==
  IF RidOf(kind, raw) = 0 \/ TableOf(kind, raw) = NoTable THEN {raw}
  ELSE Exact(tables[TableOf(kind, raw)], RidOf(kind, raw))

\* map_coded_triplet_source_value: no row is mapped to no row.
MapCoded(kind, raw, tables) ==
  IF RidOf(kind, raw) = 0 \/ TableOf(kind, raw) = NoTable THEN {raw}
  ELSE {Reassembled(kind, raw, rid) : rid \in Exact(tables[TableOf(kind, raw)], RidOf(kind, raw))}

\* triplet_source_key_value: what a cell of a key is mapped to, if to anything.
MappedCell(column, value, maps) ==
  CASE column.kind = "strings" -> Exact(maps.strings, value)
    [] column.kind = "table"   -> IF value = 0 THEN {0} ELSE Exact(maps.tables[column.to], value)
    [] column.kind = "coded"   -> MapCoded(column.to, value, maps.tables)

\* nested_class_enclosing_by_nested: the class a class is nested in, as the last
\* row with both says.
Enclosing(database, rid) ==
  LET rows  == database.rows["NestedClass"]
      types == 1 .. Len(database.rows["TypeDef"])
      said  == {i \in DOMAIN rows : /\ rows[i]["NestedClass"] = rid
                                    /\ {rid, rows[i]["EnclosingClass"]} \subseteq types}
  IN  {rows[i]["EnclosingClass"] : i \in {j \in said : \A k \in said : k <= j}}

\* typeref_resolution_scope_owner.
ScopeOwner(row) ==
  IF TagOf("ResolutionScope", row["ResolutionScope"]) = 3
  THEN {RidOf("ResolutionScope", row["ResolutionScope"])} ELSE {}

\* The type a type is found in, which takes the place of a namespace in its key.
Owner(database, table, rid) ==
  CASE table = "TypeDef" -> Enclosing(database, rid)
    [] table = "TypeRef" -> ScopeOwner(database.rows[table][rid])
    [] OTHER             -> {}

Typed(table) == table \in {"TypeDef", "TypeRef"}

\* triplet_target_key.
TargetKey(s, rid) ==
  LET row    == To.rows[s.table][rid]
      owners == Owner(To, s.table, rid)
  IN  IF Typed(s.table)
      THEN <<row["Name"]>> \o (IF owners = {} THEN <<1, row["Namespace"]>>
                               ELSE <<0, CHOOSE o \in owners : TRUE>>)
      ELSE [k \in DOMAIN s.keys |-> row[s.keys[k]]]

\* triplet_source_key: none, if a part of it is not mapped.
SourceKeys(s, rid, maps) ==
  LET row    == From.rows[s.table][rid]
      owners == Owner(From, s.table, rid)
      part(k) == MappedCell(ColumnOf(s.table, s.keys[k]), row[s.keys[k]], maps)
  IN  IF Typed(s.table)
      THEN {<<name>> \o second :
              name \in part(1),
              second \in IF owners = {} THEN {<<1, n>> : n \in part(2)}
                         ELSE {<<0, t>> : t \in UNION {Exact(maps.tables[s.table], o) : o \in owners}}}
      ELSE {key \in [DOMAIN s.keys -> UNION {part(k) : k \in DOMAIN s.keys}] :
              \A k \in DOMAIN s.keys : key[k] \in part(k)}

-----------------------------------------------------------------------------
MapInit ==
  /\ dbs \in Databases
  /\ mapPc = "heaps"
  /\ cliMap = [strings |-> <<>>, userStrings |-> <<>>, guid |-> <<>>, blob |-> <<>>,
                tables |-> [table \in Tables |-> <<>>]]
  /\ rvas = <<>>
  /\ step = 1 /\ at = 1 /\ child = 0 /\ taken = {}

Seeds(sources, targets) == IF sources # 0 /\ targets # 0 THEN Seeded(sources) ELSE <<>>

\* The heaps are paired, and the rows of tables both images have get their places.
MapHeaps ==
  /\ mapPc = "heaps"
  /\ cliMap' = [cliMap EXCEPT
       !.strings = HeapMap(StringEntries(From.strings), StringEntries(To.strings),
                           From.strings # <<>> /\ To.strings # <<>>),
       !.userStrings = HeapMap(UserStringEntries(From.userStrings),
                               UserStringEntries(To.userStrings),
                               From.userStrings # <<>> /\ To.userStrings # <<>>),
       !.guid = Seeds(From.guids, To.guids),
       !.tables = [table \in Tables |-> Seeds(Len(From.rows[table]), Len(To.rows[table]))]]
  /\ mapPc' = "rows"
  /\ UNCHANGED <<dbs, rvas, step, at, child, taken>>

Step     == MapSteps[step]
Stepping == mapPc = "rows" /\ step <= Len(MapSteps)
Count(database) == Len(database.rows[Step.table])

\* A table that one of the images does not have has no map to fill.
Applies == /\ cliMap.tables[Step.table] # <<>>
           /\ Step.owner # "" => cliMap.tables[Step.owner] # <<>>

\* What is done once the table, or the last owner, is at its end.
NextStep ==
  /\ Stepping
  /\ Applies => at > Len(From.rows[IF Step.owner = "" THEN Step.table ELSE Step.owner])
  /\ step' = step + 1 /\ at' = 1 /\ child' = 0
  /\ taken' = {}
  /\ UNCHANGED <<dbs, mapPc, cliMap, rvas>>

Pair(source, target) ==
  cliMap' = [cliMap EXCEPT !.tables[Step.table] = SetEntry(@, source, target)]

\* build_cli_triplet_table_map: the first free row with the key of this one.
PairRow ==
  /\ Stepping /\ Applies /\ Step.owner = "" /\ at <= Count(From)
  /\ \E keys \in {SourceKeys(Step, at, cliMap)} :
       \E rows \in {{t \in 1 .. Count(To) \ taken : TargetKey(Step, t) \in keys}} :
         IF rows = {} THEN UNCHANGED <<cliMap, taken>>
         ELSE /\ Pair(at, Min(rows))
              /\ taken' = taken \cup {Min(rows)}
  /\ at' = at + 1
  /\ UNCHANGED <<dbs, mapPc, rvas, step, child>>

Owners(database)       == Len(database.rows[Step.owner])
ListStart(database, s, owner) == database.rows[s.owner][owner][s.list]

\* sequence_list_end: where the next owner's list begins, or behind the last row.
ListEnd(database, s, owner) ==
  LET last == Len(database.rows[s.table]) + 1
  IN  IF owner < Len(database.rows[s.owner]) /\ ListStart(database, s, owner + 1) \in 1 .. last
      THEN ListStart(database, s, owner + 1) ELSE last

ListedBy(database, s, owner) ==
  {rid \in ListStart(database, s, owner) .. ListEnd(database, s, owner) - 1 :
     ListStart(database, s, owner) # 0}

Start(database, owner)  == ListStart(database, Step, owner)
End(database, owner)    == ListEnd(database, Step, owner)
Listed(database, owner) == ListedBy(database, Step, owner)

TargetOwner == Exact(cliMap.tables[Step.owner], at) \cap 1 .. Owners(To)

\* The next owner's list is begun, if its owner has a counterpart and neither list
\* is empty.
OpenOwner ==
  /\ Stepping /\ Applies /\ Step.owner # "" /\ child = 0 /\ at <= Owners(From)
  /\ IF \E owner \in TargetOwner : Listed(From, at) # {} /\ Listed(To, owner) # {}
     THEN child' = Start(From, at) /\ UNCHANGED at
     ELSE at' = at + 1 /\ UNCHANGED child
  /\ UNCHANGED <<dbs, mapPc, cliMap, rvas, step, taken>>

\* A mistake: a row that is paired keeps its name.
TargetNameKept(rid) == To.rows[Step.table][rid]["Name"]

\* target_names: the name of a row is struck out when it is paired.
TargetName(rid) == IF rid \in taken THEN 0 ELSE To.rows[Step.table][rid]["Name"]

\* build_cli_sequence_table_map, one row of a list: the first of the target's list
\* with its name; a row that is paired ends the list.
PairChild ==
  /\ Stepping /\ child # 0 /\ child < End(From, at)
  /\ Exact(cliMap.tables[Step.table], child) = {}
  /\ \E names \in {Exact(cliMap.strings, From.rows[Step.table][child]["Name"])} :
       \E rows \in {{t \in UNION {Listed(To, o) : o \in TargetOwner} : TargetName(t) \in names}} :
         IF rows = {} THEN UNCHANGED <<cliMap, taken>>
         ELSE Pair(child, Min(rows)) /\ taken' = taken \cup {Min(rows)}
  /\ child' = child + 1
  /\ UNCHANGED <<dbs, mapPc, rvas, step, at>>

CloseOwner ==
  /\ Stepping /\ child # 0
  /\ child >= End(From, at) \/ Exact(cliMap.tables[Step.table], child) # {}
  /\ at' = at + 1 /\ child' = 0
  /\ UNCHANGED <<dbs, mapPc, cliMap, rvas, step, taken>>

-----------------------------------------------------------------------------
\* The cells of one kind in paired rows, both not 0, table by table.
CellPairs(kind) ==
  LET pairs(table, source) ==
        LET target == Exact(cliMap.tables[table], source) \cap 1 .. Len(To.rows[table])
            cells(name) == {Entry(From.rows[table][source][name], To.rows[table][t][name]) :
                              t \in target}
            here == SelectSeq(Columns[table], LAMBDA c : c.kind = kind)
        IN  FlattenSeq([i \in DOMAIN here |->
              SetToSeq({e \in cells(here[i].name) : e.source # 0 /\ e.target # 0})])
      all(table) == FlattenSeq([r \in 1 .. Len(From.rows[table]) |-> pairs(table, r)])
  IN  FlattenSeq([i \in DOMAIN TableIds |-> all(TableIds[i])])

\* build_cli_blob_and_rva_maps; an address is one behind the metadata.
MapBlobs ==
  /\ mapPc = "rows" /\ step > Len(MapSteps)
  /\ cliMap' = [cliMap EXCEPT !.blob = BySource(<<Entry(0, 0)>> \o CellPairs("blob"))]
  /\ rvas' = LET pairs == CellPairs("rva")
             IN  BySource([i \in DOMAIN pairs |->
                            Entry(From.rva + pairs[i].source, To.rva + pairs[i].target)])
  /\ mapPc' = "reduce"
  /\ UNCHANGED <<dbs, step, at, child, taken>>

\* reduce_cli_map_from_metadata.
ReduceMaps ==
  /\ mapPc = "reduce"
  /\ cliMap' = [strings     |-> Reduced(cliMap.strings, FALSE),
                userStrings |-> Reduced(cliMap.userStrings, FALSE),
                blob        |-> Reduced(cliMap.blob, FALSE),
                guid        |-> Reduced(cliMap.guid, TRUE),
                tables      |-> [table \in Tables |-> Reduced(cliMap.tables[table], TRUE)]]
  /\ mapPc' = "done"
  /\ UNCHANGED <<dbs, rvas, step, at, child, taken>>

MapNext ==
  \/ MapHeaps \/ NextStep \/ PairRow \/ OpenOwner \/ PairChild \/ CloseOwner
  \/ MapBlobs \/ ReduceMaps

MapSpec == MapInit /\ [][MapNext]_mapVars

-----------------------------------------------------------------------------
(* What the map is for.  A row is known by its name and by the row it      *)
(* belongs to, and that by the same; what a row refers to is left aside.   *)
StepsOf(table) == {s \in Range(MapSteps) : s.table = table}

\* What every row is known by.
Identities(database) ==
  LET Id[t \in Tables, r \in Nat] ==
        LET row == database.rows[t][r]
            named(name) == StringAt(database.strings, row[name])
            cell(column) ==
              CASE column.kind = "strings" -> <<"named", named(column.name)>>
                [] column.kind = "table"   -> <<"row", Id[column.to, row[column.name]]>>
                [] column.kind = "coded" /\ RidOf(column.to, row[column.name]) = 0 -> <<"null">>
                [] OTHER -> <<"row", Id[TableOf(column.to, row[column.name]),
                                        RidOf(column.to, row[column.name])]>>
            foundIn(owners) ==
              IF owners = {} THEN <<"named", named("Namespace")>>
              ELSE <<"row", Id[t, CHOOSE o \in owners : TRUE]>>
            belongsTo(s) ==
              LET owners == {o \in DOMAIN database.rows[s.owner] : r \in ListedBy(database, s, o)}
              IN  <<"row", IF owners = {} THEN <<"none", t>> ELSE Id[s.owner, CHOOSE o \in owners : TRUE]>>
            known(s) ==
              CASE Typed(t) -> <<t, named("Name"), foundIn(Owner(database, t, r))>>
                [] ~Typed(t) /\ s.owner # "" -> <<t, named("Name"), belongsTo(s)>>
                [] OTHER -> <<t>> \o [k \in DOMAIN s.keys |-> cell(ColumnOf(t, s.keys[k]))]
        IN  IF r \notin DOMAIN database.rows[t] \/ StepsOf(t) = {} THEN <<"none", t>>
            ELSE known(CHOOSE s \in StepsOf(t) : TRUE)
  IN  [table \in Tables |-> [rid \in DOMAIN database.rows[table] |-> Id[table, rid]]]

RowsOf(database, table) == DOMAIN database.rows[table]

\* The rows of the target that are what a row of the source is.
Counterparts(known, table, rid) ==
  {t \in RowsOf(To, table) : known.to[table][t] = known.from[table][rid]}

\* Row stands alone: no other row of the source is what it is.
Alone(known, table, rid) ==
  \A r \in RowsOf(From, table) \ {rid} : known.from[table][r] # known.from[table][rid]

\* What the code has no place for: a type that stands in front of the type it is
\* found in, and a name that is the end of another one's bytes.
OwnersFirst(database) ==
  \A table \in {"TypeDef", "TypeRef"} : \A rid \in RowsOf(database, table) :
    \A owner \in Owner(database, table, rid) : owner < rid

NamesListed(database) ==
  LET listed == {0} \cup {e.offset : e \in Range(StringEntries(database.strings))}
  IN  \A table \in Tables : \A rid \in RowsOf(database, table) :
        \A c \in Range(Columns[table]) : c.kind = "strings" => database.rows[table][rid][c.name] \in listed

\* What is to be known of both images; plain, if neither has what there is no place for.
Knowledge ==
  [from |-> Identities(From), to |-> Identities(To),
   plain |-> OwnersFirst(From) /\ NamesListed(From) /\ NamesListed(To)]

HasName(s, rid) == "Name" \in Range(s.keys) => From.rows[s.table][rid]["Name"] # 0

\* When the rows are paired, before the maps are reduced: two rows that are paired
\* are the same thing in both images; no row of the target is taken twice; and a row
\* is left over only if every row of the target that is the same thing is taken.
\* Each step must find what its keys refer to paired, by steps in front of it, and
\* what it leaves must not be changed by the steps behind it.  (A row without a name
\* takes a row that was struck out for one without a name.)
PairsAlike ==
  mapPc = "reduce" => \E known \in {Knowledge} :
    \A s \in Range(MapSteps) : cliMap.tables[s.table] # <<>> =>
      LET map == cliMap.tables[s.table]
      IN  \A rid \in {r \in RowsOf(From, s.table) : HasName(s, r)} :
            /\ \A target \in Exact(map, rid) :
                 /\ target \in Counterparts(known, s.table, rid)
                 /\ \A other \in RowsOf(From, s.table) \ {rid} :
                      HasName(s, other) => target \notin Exact(map, other)
            /\ known.plain /\ Exact(map, rid) = {} =>
                 Counterparts(known, s.table, rid) \subseteq
                   UNION {Exact(map, other) : other \in RowsOf(From, s.table)}
=============================================================================
