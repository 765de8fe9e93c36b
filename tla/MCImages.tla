------------------------------- MODULE MCImages -------------------------------
(***************************************************************************)
(* Small images, run one at a time.  Managed ones: a few types and         *)
(* methods, nested types, a constructor, references, members and           *)
(* attributes, in heaps of either order, every one taken as the source of  *)
(* every other.  Native ones at the end.                                   *)
(***************************************************************************)
EXTENDS CliTransform, TLC

VARIABLES native, chosen, buf, owned, nativePc

\* Names are single bytes; Ctor is a constructor's.
A == 65  B == 66  C == 67  Ctor == 46

MCCtorNames == {<<Ctor>>}

Type(name, in, fields, methods) == [name |-> name, in |-> in, fields |-> fields, methods |-> methods]
Method(name, params, signature, code) ==
  [name |-> name, params |-> params, signature |-> signature, code |-> code]

\* Code, as pieces: bytes, and tokens, which are marked.  A call of a member, then
\* a constant that looks like one; a string, a branch whose target looks like an
\* opcode, and the address of a method; a switch and a call of a site's signature.
Plain(bytes) == [token |-> FALSE, bytes |-> bytes]
Token(rid, table) == [token |-> TRUE, bytes |-> <<rid, 0, 0, table>>]
CallMember == <<Plain(<<40>>), Token(1, 10), Plain(<<32, 40, 1, 0, 0>>), Plain(<<42>>)>>
UseMethod  == <<Plain(<<114>>), Token(1, 112), Plain(<<56, 40, 1, 0, 0>>),
                Plain(<<254, 6>>), Token(2, 6), Plain(<<42>>)>>
UseType    == <<Plain(<<69, 1, 0, 0, 0, 40, 1, 0, 0>>), Plain(<<41, 1, 0, 0, 17>>),
                Plain(<<208>>), Token(1, 2), Plain(<<116>>), Token(2, 1), Plain(<<42>>)>>

\* Signatures, as pieces: nothing taken; the second type taken; a generic type taken
\* and a type returned, by reference and modified; an array of a type; a field's.
TypeNo(tag, rid) == [token |-> TRUE, bytes |-> <<4 * rid + tag>>]
WideNo(tag, rid) == [token |-> TRUE, bytes |-> <<128, 4 * rid + tag>>]
Signatures == <<
  <<Plain(<<0, 0, 1>>)>>,
  <<Plain(<<32, 1, 1, 18>>), TypeNo(0, 2)>>,
  <<Plain(<<0, 1, 31>>), TypeNo(1, 1), Plain(<<16, 18>>), TypeNo(0, 1), Plain(<<21, 18>>),
    TypeNo(1, 2), Plain(<<1, 20, 17>>), WideNo(0, 1), Plain(<<2, 1, 3, 0>>)>>,
  <<Plain(<<6, 29, 18>>), TypeNo(0, 1)>>>>
FieldSignature == 4

Simple(name) == Method(name, <<>>, 1, CallMember)
Called(name, signature, code) == Method(name, <<>>, signature, code)
Program(types, refs, members, attributes, more) ==
  [types |-> types, refs |-> refs, members |-> members, attributes |-> attributes, more |-> more]

\* Coded indices: by their tags.
ParentMethod(rid) == 32 * rid
ParentType(rid)   == 32 * rid + 3
InAssembly(rid) == 4 * rid + 2
InRef(rid)  == 4 * rid + 3
OfRef(rid)  == 8 * rid + 1
OfType(rid) == 8 * rid

\* What a program has besides: an imported assembly and module, events, constants,
\* generic parameters.
Imports(name) == [AssemblyRef |-> <<[Name |-> name], [Name |-> C]>>, ModuleRef |-> <<[Name |-> name]>>,
                  ImplMap |-> <<[ImportName |-> A, MemberForwarded |-> 3, ImportScope |-> 1]>>]
Events(type, first) ==
  [EventMap |-> <<[Parent |-> type, EventList |-> 1]>>,
   Event |-> <<[Name |-> first, EventType |-> 4], [Name |-> C, EventType |-> 5]>>,
   Constant |-> <<[Parent |-> 4, Value |-> 1], [Parent |-> 8, Value |-> 1]>>,
   GenericParam |-> <<[Name |-> first, Owner |-> 2 * type], [Name |-> C, Owner |-> 3]>>,
   GenericParamConstraint |-> <<[Owner |-> 1, Constraint |-> 4 * type], [Owner |-> 2, Constraint |-> 5]>>]

Programs == {
  Program(<<Type(A, 0, <<B>>, <<Called(A, 2, UseMethod)>>)>>, <<<<A, 0>>>>, <<<<A, OfRef(1), 1>>>>, <<ParentType(1)>>, [ModuleRef |-> <<[Name |-> A]>>]),
  Program(<<Type(A, 0, <<A, B>>, <<Simple(A), Called(B, 3, UseMethod)>>), Type(B, 0, <<>>, <<Called(A, 2, UseType)>>)>>,
          <<<<A, 0>>, <<B, InRef(1)>>>>, <<<<A, OfRef(2), 1>>>>, <<ParentMethod(3), ParentType(1)>>, Events(1, A)),
  Program(<<Type(B, 0, <<>>, <<Called(A, 2, UseType)>>), Type(A, 0, <<B, A>>, <<Called(B, 1, UseMethod), Simple(A)>>)>>,
          <<<<C, InAssembly(2)>>, <<A, 0>>, <<B, InRef(2)>>>>, <<<<B, OfType(1), 3>>, <<A, OfRef(3), 1>>>>,
          <<ParentType(2), ParentMethod(1), ParentMethod(2)>>, Events(2, B) @@ Imports(B)),
  Program(<<Type(A, 0, <<>>, <<Simple(A)>>), Type(C, 0, <<B>>, <<Called(Ctor, 1, UseType)>>),
            Type(A, 2, <<A>>, <<Called(A, 3, UseMethod)>>)>>,
          <<<<B, 0>>, <<A, 0>>>>, <<<<C, OfRef(2), 1>>>>, <<ParentType(3), ParentMethod(3)>>, Events(1, B)),
  Program(<<Type(C, 0, <<>>, <<Simple(A), Simple(A)>>), Type(C, 0, <<>>, <<Simple(B)>>), Type(A, 1, <<>>, <<>>)>>,
          <<<<A, 0>>>>, <<<<A, OfRef(1), 1>>, <<A, OfRef(1), 1>>>>, <<ParentMethod(2), ParentMethod(1)>>, Imports(C)),
  Program(<<Type(A, 0, <<C>>, <<Method(A, <<0, A>>, 3, UseType), Method(B, <<B, 0>>, 1, CallMember)>>),
            Type(B, 3, <<>>, <<>>), Type(C, 0, <<>>, <<>>)>>,
          <<<<B, InRef(2)>>, <<A, 0>>>>, <<<<B, OfRef(1), 2>>>>, <<ParentMethod(2)>>, Imports(A)),
  Program(<<Type(C, 0, <<>>, <<>>), Type(B, 1, <<C>>, <<Method(B, <<0>>, 3, UseType)>>),
            Type(A, 0, <<B>>, <<Method(A, <<A, 0>>, 2, UseMethod)>>)>>,
          <<<<A, 0>>, <<B, InRef(1)>>>>, <<<<B, OfRef(2), 2>>>>,
          <<ParentType(1), ParentMethod(2), ParentType(3)>>, Events(3, C))}

-----------------------------------------------------------------------------
\* Strings in the order given; Tail of the first is the second, in an order of its own.
Shared == <<B, A, C, Ctor>>
StringsOf(order) ==
  IF order = Shared THEN <<0, B, A, 0, C, 0, Ctor, 0>>
  ELSE <<0>> \o FlattenSeq([i \in DOMAIN order |-> <<order[i], 0>>])

Offset(order, name) ==
  IF name = 0 THEN 0
  ELSE (CHOOSE i \in DOMAIN StringsOf(order) : StringsOf(order)[i] = name) - 1
UserStringsOf(order) == <<0>> \o FlattenSeq([i \in DOMAIN order |-> <<1, order[i]>>])

\* The bytes of pieces, and the offsets of those that are tokens.
Laid(pieces)     == FlattenSeq([i \in DOMAIN pieces |-> pieces[i].bytes])
TokensOf(pieces) == {Len(Laid(SubSeq(pieces, 1, i - 1))) : i \in {j \in DOMAIN pieces : pieces[j].token}}

Prefixed(sig) == <<Plain(<<Len(Laid(Signatures[sig]))>>)>> \o Signatures[sig]
BlobPieces(sigs) == <<Plain(<<0>>)>> \o FlattenSeq([i \in DOMAIN sigs |-> Prefixed(sigs[i])])
BlobOffset(sigs, sig) ==
  Len(Laid(BlobPieces(SubSeq(sigs, 1, (CHOOSE i \in DOMAIN sigs : sigs[i] = sig) - 1))))

Body(method) == <<Plain(<<4 * Len(Laid(method.code)) + 2>>)>> \o method.code
BodyOffset(methods, m) == Len(Laid(FlattenSeq([i \in 1 .. m - 1 |-> Body(methods[i])])))
TextRva == 100

\* The cells of a row: names and signatures are written as what they name.
Row(table, cells, order, sigs) ==
  [name \in {c.name : c \in Range(Columns[table])} |->
     IF name \notin DOMAIN cells THEN 0
     ELSE IF ColumnOf(table, name).kind = "strings" THEN Offset(order, cells[name])
     ELSE IF ColumnOf(table, name).kind = "blob" THEN BlobOffset(sigs, cells[name])
     ELSE cells[name]]

Database(program, order) ==
  LET types   == program.types
      fields  == FlattenSeq([t \in DOMAIN types |-> types[t].fields])
      methods == FlattenSeq([t \in DOMAIN types |-> types[t].methods])
      params  == FlattenSeq([m \in DOMAIN methods |-> methods[m].params])
      nested  == SelectSeq([t \in DOMAIN types |-> t], LAMBDA t : types[t].in # 0)
      sigs    == IF order[1] = A THEN <<1, 2, 3, 4>> ELSE <<4, 3, 1, 2>>
      begins(lists, i) == 1 + Len(FlattenSeq(SubSeq(lists, 1, i - 1)))
      cells == [
        TypeDef |-> [t \in DOMAIN types |->
          [Name |-> types[t].name,
           FieldList  |-> begins([i \in DOMAIN types |-> types[i].fields], t),
           MethodList |-> begins([i \in DOMAIN types |-> types[i].methods], t)]],
        Field |-> [f \in DOMAIN fields |-> [Name |-> fields[f], Signature |-> FieldSignature]],
        MethodDef |-> [m \in DOMAIN methods |->
          [Name |-> methods[m].name, Rva |-> TextRva + BodyOffset(methods, m),
           Signature |-> methods[m].signature,
           ParamList |-> begins([i \in DOMAIN methods |-> methods[i].params], m)]],
        Param |-> [p \in DOMAIN params |-> [Name |-> params[p]]],
        NestedClass |-> [n \in DOMAIN nested |->
          [NestedClass |-> nested[n], EnclosingClass |-> types[nested[n]].in]],
        TypeRef |-> [r \in DOMAIN program.refs |->
          [Name |-> program.refs[r][1], ResolutionScope |-> program.refs[r][2]]],
        MemberRef |-> [r \in DOMAIN program.members |->
          [Name |-> program.members[r][1], Class |-> program.members[r][2],
           Signature |-> program.members[r][3]]],
        CustomAttribute |-> [r \in DOMAIN program.attributes |-> [Parent |-> program.attributes[r]]]]
        @@ program.more
  IN  [rows |-> [table \in Tables |->
                   IF table \notin DOMAIN cells THEN <<>>
                   ELSE [r \in DOMAIN cells[table] |-> Row(table, cells[table][r], order, sigs)]],
       strings |-> StringsOf(order), userStrings |-> UserStringsOf(order), guids |-> 1,
       rva |-> 50, textRva |-> TextRva,
       text |-> Laid(FlattenSeq([m \in DOMAIN methods |-> Body(methods[m])])),
       tokens |-> [m \in DOMAIN methods |->
                     {BodyOffset(methods, m) + pos : pos \in TokensOf(Body(methods[m]))}],
       blob |-> Laid(BlobPieces(sigs)),
       marks |-> [offset \in {BlobOffset(sigs, sig) : sig \in Range(sigs)} |->
                    LET sig == CHOOSE g \in Range(sigs) : BlobOffset(sigs, g) = offset
                    IN  {offset + pos : pos \in TokensOf(Prefixed(sig))}],
       heaps |-> [strings |-> IF order = Shared THEN 4 ELSE 2, guid |-> 2,
                  blob |-> IF order[1] = Ctor THEN 4 ELSE 2],
       zeros |-> 0,
       streams |-> [tables |-> 1000, strings |-> 2000, userStrings |-> 2100, guid |-> 2200, blob |-> 2300]]

Orders == {<<A, B, C, Ctor>>, <<Ctor, C, B, A>>, Shared}

Images == {Database(p, o) : p \in Programs, o \in Orders}

MCDatabases == {<<source, target, <<>>>> : source \in Images, target \in Images}

-----------------------------------------------------------------------------
(***************************************************************************)
(* Small native images for PeTransforms.  Addresses have two bytes, those  *)
(* of amd64 with a base in them three; a page of relocations has 16 bytes, *)
(* and an entry one.  An image is what is literally in it, and references  *)
(* that are written where they are for the address they lead to.           *)
(***************************************************************************)

Chunk(where, bytes) == [at |-> where, bytes |-> bytes]
Little(v, n)     == [i \in 1 .. n |-> (v \div 256 ^ (i - 1)) % 256]

Ref(kind, by, from, where, n, end, to, names) ==
  [kind |-> kind, by |-> by, from |-> from, at |-> where, n |-> n, end |-> end, to |-> to, names |-> names]
Field(by, where, to)            == Ref("field", by, where, where, 2, 0, to, 0)
High(where, to)                 == Ref("high", "Resources", where, where, 2, 0, to, 0)
Inside(where, to)               == Ref("inside", "Resources", where, where, 2, 0, to, 0)
Pointed(n, where, to)           == Ref("pointer", "Relocations", where, where, n, 0, to, 0)
Bound(n, where, to, names)      == Ref("pointer", "Imports", where, where, n, 0, to, names)
Branch(by, from, where, end, to) == Ref("call", by, from, where, 2, end, to, 0)
Far(from, where, end, to)       == Ref("jump", "RelativeJmps", from, where, 2, end, to, 0)

Base     == 4096
ResRva   == 576
InPlace(ref) ==
  CASE ref.kind = "field"           -> ref.to
    [] ref.kind = "high"            -> 32768 + ref.to - ResRva
    [] ref.kind = "inside"          -> ref.to - ResRva
    [] ref.kind = "pointer"         -> Base + ref.to
    [] ref.kind \in {"call", "jump"} -> (ref.to - ref.end) % 65536

BytesOf(n, literal, refs) ==
  LET chunks == literal \cup {Chunk(r.at, Little(InPlace(r), r.n)) : r \in refs}
      Has(c, i) == i - c.at \in DOMAIN c.bytes
  IN  [i \in 1 .. n |-> IF \E c \in chunks : Has(c, i)
                        THEN LET c == CHOOSE c \in chunks : Has(c, i) IN c.bytes[i - c.at] ELSE 0]

Section(rva, size, raw, rawSize, exec) ==
  [rva |-> rva, size |-> size, raw |-> raw, rawSize |-> rawSize, exec |-> exec]
Dir(rva, size)     == [rva |-> rva, size |-> size]
Move(source, goal) == [source |-> source, target |-> goal]

Structures == {"Unbind", "Imports", "Exports", "Resources", "Relocations"}

-----------------------------------------------------------------------------
(* i386: calls and jumps from .text to .far and back, a pointer, an address of the      *)
(* exports and a displacement that look like a call; jumps that become near.            *)
X86Refs ==
  {Branch("RelativeCalls", 16, 17, 259, 768), Pointed(2, 20, 744), Far(23, 24, 266, 770),
   Far(26, 28, 270, 778), Far(30, 31, 273, 256), Field("Exports", 33, 482),
   \* two descriptors: arrays of names and of addresses, the second bound
   Field("Imports", 48, 542), Field("Imports", 54, 700), Field("Imports", 56, 548),
   Field("Imports", 58, 554), Field("Imports", 64, 704), Field("Imports", 66, 558),
   Field("Imports", 78, 710), Field("Imports", 84, 710), Field("Imports", 90, 720),
   Bound(2, 94, 770, 90),
   \* exports
   Field("Exports", 98, 730), Field("Exports", 104, 273), Field("Exports", 106, 574),
   Field("Exports", 108, 736), Field("Exports", 110, 734),
   \* resources: a named directory in the root, and leaves on both levels
   High(114, 600), High(116, 586), Inside(128, 604), Inside(132, 606),
   \* data
   Pointed(2, 144, 263), Pointed(2, 146, 770), Pointed(2, 161, 512),
   Branch("RelativeCalls", 170, 171, 773, 256)}
X86Literals ==
  {Chunk(0, <<7, 7, 0, 16, 3>>),
   Chunk(16, <<232>>), Chunk(19, <<161>>), Chunk(23, <<233>>), Chunk(26, <<15, 132>>), Chunk(30, <<233>>),
   Chunk(60, <<77, 0, 5, 0>>), Chunk(80, <<3, 128>>), Chunk(86, <<3, 128>>),
   Chunk(100, <<1, 0, 1, 0>>),
   Chunk(112, <<1, 1>>), Chunk(118, <<3, 0, 20, 0>>), Chunk(122, <<0, 1, 1, 0, 16, 0>>),
   Chunk(130, <<2, 0>>), Chunk(134, <<2, 0>>),
   Chunk(170, <<232>>), Chunk(173, <<232, 30, 255>>),
   Chunk(184, <<0, 1, 6, 0, 52, 0>> \o <<96, 2, 6, 0, 48, 50>> \o <<112, 2, 8, 0, 49, 68, 9, 22>>)}

X86Rifts ==
  {<<>>,
   <<Move(256, 256), Move(263, 271), Move(277, 283), Move(512, 528), Move(609, 640), Move(768, 800), Move(1024, 1056)>>,
   <<Move(256, 256), Move(512, 640), Move(768, 288), Move(1024, 1024)>>,
   <<Move(256, 900), Move(512, 260), Move(768, 1000), Move(1024, 1200)>>}

X86Code == {"MarkNonExe", "Exports", "Relocations"}
X86Selections ==
  SUBSET Structures
    \cup {X86Code \cup more : more \in SUBSET {"Unbind", "Imports", "RelativeJmps", "RelativeCalls"}}
    \cup {{"DisasmX64", "PdataX64", "Resources"}}

X86Image(rift) ==
  [machine |-> "I386", base |-> Base, targetBase |-> 8192, targetStamp |-> 9, stampAt |-> 0, baseAt |-> 2,
   idata |-> <<4>>, bound |-> {58},
   sections |-> <<Section(256, 250, 16, 32, TRUE), Section(512, 256, 48, 120, FALSE),
                  Section(768, 16, 168, 16, TRUE), Section(1024, 20, 184, 40, FALSE)>>,
   imageSize |-> 1100,
   dirs |-> [import |-> Dir(512, 30), export |-> Dir(562, 14), resource |-> Dir(ResRva, 32),
             reloc |-> Dir(1024, 20), exception |-> Dir(0, 0)],
   rift |-> rift, bytes |-> BytesOf(224, X86Literals, X86Refs), refs |-> X86Refs,
   selections |-> X86Selections]

-----------------------------------------------------------------------------
(* amd64: two functions, one with a handler, that refer to each other and to data in    *)
(* the middle and at the end of instructions; a byte that is a call only within one.    *)
X64Refs ==
  {Branch("DisasmX64", 19, 19, 261, 530), Branch("DisasmX64", 22, 22, 264, 280),
   Branch("DisasmX64", 26, 26, 270, 534), Branch("DisasmX64", 32, 32, 274, 264),
   Branch("DisasmX64", 36, 36, 279, 537), Branch("DisasmX64", 45, 45, 287, 256),
   \* functions, and a handler
   Field("PdataX64", 120, 256), Field("PdataX64", 122, 280), Field("PdataX64", 124, 560),
   Field("PdataX64", 126, 280), Field("PdataX64", 128, 293), Field("PdataX64", 130, 568),
   Field("PdataX64", 110, 280),
   \* a descriptor that is bound, and pointers
   Field("Imports", 56, 532), Field("Imports", 62, 600), Field("Imports", 64, 541),
   Field("Imports", 76, 605), Bound(3, 85, 293, 76), Bound(3, 88, 290, 79), Pointed(3, 94, 280), Pointed(3, 97, 530)}
X64Literals ==
  {Chunk(0, <<7, 7, 0, 16, 0, 3>>),
   Chunk(16, <<72, 139, 5>>), Chunk(21, <<232>>), Chunk(24, <<199, 5>>), Chunk(28, <<232, 4>>),
   Chunk(30, <<15, 132>>), Chunk(34, <<246, 5>>), Chunk(38, <<1>>), Chunk(39, <<195>>),
   Chunk(40, <<139, 68, 36, 8>>), Chunk(44, <<233>>), Chunk(47, <<72, 184, 5, 232, 5>>), Chunk(52, <<195>>),
   Chunk(58, <<77, 0, 5, 0>>), Chunk(79, <<3, 0, 128>>),
   Chunk(104, <<9, 0, 1, 0>>), Chunk(108, <<3, 3>>), Chunk(112, <<1, 0, 0, 0>>),
   Chunk(132, <<0, 0>>),
   Chunk(136, <<32, 2, 6, 0, 160 + 6, 160 + 9>>)}

X64Rifts ==
  {<<>>,
   <<Move(256, 256), Move(264, 272), Move(280, 400), Move(512, 528), Move(534, 560), Move(561, 640), Move(768, 800)>>,
   <<Move(256, 700), Move(280, 256), Move(512, 300), Move(768, 1000)>>}

X64Image(rift) ==
  [machine |-> "Amd64", base |-> Base, targetBase |-> 70000, targetStamp |-> 9, stampAt |-> 0, baseAt |-> 2,
   idata |-> <<5>>, bound |-> {56},
   sections |-> <<Section(256, 40, 16, 40, TRUE), Section(512, 100, 56, 64, FALSE),
                  Section(768, 14, 120, 16, FALSE), Section(1024, 6, 136, 16, FALSE)>>,
   imageSize |-> 1100,
   dirs |-> [import |-> Dir(512, 20), export |-> Dir(0, 0), resource |-> Dir(0, 0),
             reloc |-> Dir(1024, 6), exception |-> Dir(768, 12)],
   rift |-> rift, bytes |-> BytesOf(152, X64Literals, X64Refs), refs |-> X64Refs,
   selections |-> SUBSET {"Unbind", "Imports", "Relocations", "DisasmX64", "PdataX64"}
                    \cup {{"MarkNonExe", "RelativeJmps", "RelativeCalls", "Exports", "Resources"}}]

MCNativeImages == {X86Image(r) : r \in X86Rifts} \cup {X64Image(r) : r \in X64Rifts}

-----------------------------------------------------------------------------
Native == INSTANCE PeTransforms WITH
            Width <- 2, WideWidth <- 3, NativeImages <- MCNativeImages

nativeVars == <<native, chosen, buf, owned, nativePc>>
NoNative   == native = 0 /\ chosen = {} /\ buf = <<>> /\ owned = {} /\ nativePc = 0
NoManaged ==
  /\ dbs = 0 /\ mapPc = "none" /\ cliMap = 0 /\ rvas = 0 /\ step = 0 /\ at = 0 /\ child = 0 /\ taken = 0
  /\ managedPc = "none" /\ image = 0 /\ bodies = 0 /\ cursor = 0 /\ queue = 0
  /\ cliRift = 0 /\ riftDone = FALSE

Init == (MapInit /\ ManagedInit /\ RiftInit /\ NoNative) \/ (Native!NativeInit /\ NoManaged)
Next == \/ nativePc = 0 /\ ManagedApplyNext /\ UNCHANGED nativeVars
        \/ nativePc > 0 /\ Native!NativeNext /\ UNCHANGED <<mapVars, managedVars, riftVars>>
Spec == Init /\ [][Next]_<<mapVars, managedVars, riftVars, nativeVars>>

\* What a native image refers to is found in its rewritten form (PeTransforms).
NativeReferencesFollow == Native!NativeReferencesFollow

\* And what a managed image refers to in its transformed form: rows that both images
\* have are led to from cells, code and signatures, and every cell of the target is
\* copied from its own (CliTransform).
ManagedReferencesFollow == ReferencesFollow /\ RowsLineUp
=============================================================================
