------------------------------- MODULE X86Filter -------------------------------
(***************************************************************************)
(* The filter LZMS puts x86 code through (crates/lzms/src/x86_filter.rs):  *)
(* in data that looks like code, where the same targets come up again, the *)
(* displacement of a call or a reference is made absolute before the data  *)
(* is compressed and relative again afterwards.  The two passes keep no    *)
(* record of what they changed: the second must come to the decisions of   *)
(* the first from data the first has changed.                              *)
(*                                                                         *)
(* A byte has ByteValues values, a displacement WideBytes bytes (4 in the  *)
(* code) and the part of it that is remembered HalfBytes (2).              *)
(***************************************************************************)
EXTENDS Integers, Sequences

CONSTANTS
  ByteValues, WideBytes, HalfBytes,
  IdWindow,          (* X86_ID_WINDOW_SIZE                                 *)
  MaxTranslation,    (* X86_MAX_TRANSLATION_OFFSET                         *)
  TailLen,           (* 16: the bytes at the end that are left alone       *)
  Call, Jump, RexOr4, Rex, Group, Lock,   (* 0xE8 0xE9 0x4C 0x48 0xFF 0xF0 *)
  Lea, Load, Indirect, AddImm, RipModRm,  (* 0x8D 0x8B 0x15 0x83 0x05      *)
  LeaModRms, LoadModRms,        (* modrm & 7 = 5; for a load & 0xF0 = 0 too *)
  CodeBuffers        (* bound: the data                                    *)

\* The bytes an instruction starts with are different, and none is the second of one; a
\* displacement ends before the data does (16 bytes are left, 6 are needed).
Openers == {Call, Jump, RexOr4, Rex, Group, Lock}

ASSUME FilterAssumption ==
  /\ ByteValues \in Nat \ {0} /\ WideBytes \in Nat \ {0} /\ HalfBytes \in 1 .. WideBytes
  /\ TailLen \in Nat /\ WideBytes + 2 <= TailLen /\ IdWindow \in Nat /\ MaxTranslation \in Nat
  /\ Call \notin {Jump, RexOr4, Rex, Group, Lock} /\ Jump \notin {RexOr4, Rex, Group, Lock}
  /\ {RexOr4, Rex} \cap {Group, Lock} = {} /\ Group # Lock
  /\ Openers \cap {Lea, Load, AddImm} = {}
  /\ \A data \in CodeBuffers : data \in Seq(0 .. ByteValues - 1)

VARIABLES
  code,       (* data                                                      *)
  original,   (* the data before the first pass                            *)
  undoing,    (* undo                                                      *)
  place,      (* i                                                         *)
  lastPlace,  (* last_x86_pos                                              *)
  usages,     (* last_target_usages                                        *)
  marks,      (* the places either pass has changed, in order              *)
  filterPc    (* whether a pass is under way                               *)

filterVars == <<code, original, undoing, place, lastPlace, usages, marks, filterPc>>

ByteAt(data, i) == data[i + 1]

\* The bytes of a number from the lowest, of which a displacement has WideBytes: a sum
\* that needs more wraps, and so does a difference below zero.
Digits(v) ==
  LET Shifted[i \in 1 .. WideBytes] ==
        IF i = 1 THEN v ELSE Shifted[i - 1] \div ByteValues
  IN  [i \in 1 .. WideBytes |-> Shifted[i] % ByteValues]

NumberAt(data, p) ==
  LET Value[i \in 1 .. WideBytes] ==
        IF i = WideBytes THEN data[p + i] ELSE data[p + i] + ByteValues * Value[i + 1]
  IN  Value[1]

WithNumber(data, p, v) ==
  [i \in DOMAIN data |-> IF i \in p + 1 .. p + WideBytes THEN Digits(v)[i - p] ELSE data[i]]

\* A target is remembered by its lowest bytes.
Targets     == [1 .. HalfBytes -> 0 .. ByteValues - 1]
TargetOf(v) == [i \in 1 .. HalfBytes |-> Digits(v)[i]]

PassStart ==
  [place |-> 1, last |-> -MaxTranslation - 1, usages |-> [t \in Targets |-> -IdWindow - 1]]

FilterInit ==
  /\ code \in CodeBuffers /\ original = code /\ undoing = FALSE
  /\ place = PassStart.place /\ lastPlace = PassStart.last /\ usages = PassStart.usages
  /\ marks = [do |-> <<>>, undo |-> <<>>] /\ filterPc = "scan"

\* Data of 17 bytes or less is left alone, and so is the end of it.
InScope(i) == Len(code) > TailLen + 1 /\ i < Len(code) - TailLen
Scanning   == filterPc = "scan" /\ InScope(place)

\* The bytes before a displacement, and how near the last one must be.
OpcodeOf(data, i) ==
  LET op == ByteAt(data, i)  next == ByteAt(data, i + 1)  modrm == ByteAt(data, i + 2)
  IN  CASE op = Call -> <<1, MaxTranslation \div 2>>
        [] /\ op \in {Rex, RexOr4}
           /\ \/ next = Lea /\ modrm \in LeaModRms
              \/ next = Load /\ op = Rex /\ modrm \in LoadModRms -> <<3, MaxTranslation>>
        [] op = Group /\ next = Indirect -> <<2, MaxTranslation>>
        [] op = Lock /\ next = AddImm /\ modrm = RipModRm -> <<3, MaxTranslation>>
        [] OTHER -> <<0, 0>>
Opcode == OpcodeOf(code, place)

SkipJump ==
  /\ Scanning /\ Opcode[1] = 0 /\ ByteAt(code, place) = Jump
  /\ place' = place + 1 + WideBytes
  /\ UNCHANGED <<code, original, undoing, lastPlace, usages, marks, filterPc>>

SkipByte ==
  /\ Scanning /\ Opcode[1] = 0 /\ ByteAt(code, place) # Jump
  /\ place' = place + 1
  /\ UNCHANGED <<code, original, undoing, lastPlace, usages, marks, filterPc>>

\* The target is taken from the relative displacement in both passes: before the first
\* changes it, after the second has.
Active == place - lastPlace <= Opcode[2]
\* A mistake: the second pass takes the target from the absolute address.
RelativeUnchanged(p) == NumberAt(code, p)

Relative(p) == NumberAt(code, p) - (IF undoing /\ Active THEN place ELSE 0)
Written(p) ==
  IF ~Active THEN code
  ELSE WithNumber(code, p, IF undoing THEN Relative(p) ELSE Relative(p) + place)

Translate ==
  /\ Scanning /\ Opcode[1] > 0
  /\ \E p \in {place + Opcode[1]} :
       LET target == TargetOf(place + Relative(p))
           end    == p + WideBytes - 1
       IN  /\ code' = Written(p)
           /\ lastPlace' = IF end - usages[target] <= IdWindow THEN end ELSE lastPlace
           /\ usages' = [usages EXCEPT ![target] = end]
           /\ place' = end + 1
  /\ marks' = IF ~Active THEN marks
              ELSE IF undoing THEN [marks EXCEPT !.undo = Append(@, place)]
              ELSE [marks EXCEPT !.do = Append(@, place)]
  /\ UNCHANGED <<original, undoing, filterPc>>

\* The data is compressed and decompressed, which gives the same; the second pass begins.
EndPass ==
  /\ filterPc = "scan" /\ ~Scanning
  /\ IF undoing THEN filterPc' = "done" /\ UNCHANGED <<undoing, place, lastPlace, usages>>
     ELSE /\ undoing' = TRUE /\ UNCHANGED filterPc
          /\ place' = PassStart.place /\ lastPlace' = PassStart.last
          /\ usages' = PassStart.usages
  /\ UNCHANGED <<code, original, marks>>

FilterNext == SkipJump \/ SkipByte \/ Translate \/ EndPass
FilterSpec == FilterInit /\ [][FilterNext]_filterVars

-----------------------------------------------------------------------------
\* The second pass changes back what the first changed, and nothing else
\* (x86_filter_impl).
FilterUndoes == filterPc = "done" => code = original /\ marks.undo = marks.do
=============================================================================
