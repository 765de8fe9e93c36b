------------------------------- MODULE BitStream -------------------------------
(***************************************************************************)
(* The bit stream of deltas (src/bitstream/mod.rs): BitWriter puts fields, *)
(* two forms of numbers and byte buffers one behind the other, lowest bit  *)
(* first, and BitReader takes them out again.  The first three bits hold   *)
(* how many bits of the last byte are filling.                             *)
(*                                                                         *)
(* The 64-bit accumulators of both ends are the bits in front of them: a   *)
(* read fails where there are not enough left.  A machine integer has      *)
(* IntBits bits (64).                                                      *)
(***************************************************************************)
EXTENDS CodeBasics

CONSTANTS
  IntBits,      (* the bits of an integer, in nibbles                      *)
  StreamItems,  (* bound: what is written: [kind, value, bits]             *)
  MaxItems      (* bound: how many                                         *)

\* A field holds its value; a number is a word of 32 bits that has a ninth, and
\* the size of a buffer is an integer.
IsStreamItem(item) ==
  \/ /\ item.kind = "bits" /\ item.bits \in 0 .. 64
     /\ item.value \in 0 .. TwoTo[item.bits] - 1
  \/ item.kind = "integer" /\ item.value \in -TwoTo[IntBits - 1] .. TwoTo[IntBits - 1] - 1
  \/ item.kind = "number" /\ item.value \in Nat /\ item.value >= 256
       /\ item.value \div 4 < TwoTo[30]
  \/ item.kind = "buffer" /\ item.value \in Seq(0 .. 255) /\ Len(item.value) < TwoTo[IntBits - 1]

ASSUME StreamAssumption ==
  /\ IntBits \in 4 .. 64 /\ IntBits % 4 = 0
  /\ MaxItems \in Nat
  /\ \A item \in StreamItems : IsStreamItem(item)

VARIABLES
  put,      (* the items written                                           *)
  bits,     (* the bits in the stream                                      *)
  closed,   (* the writer has finished                                     *)
  position, (* the bits the reader has consumed                            *)
  taken,    (* the values read                                             *)
  failed    (* a read has failed                                           *)

streamVars == <<put, bits, closed, position, taken, failed>>

HeaderBits == 3
ByteBits   == 8

Unsigned(value) == value % TwoTo[IntBits]
Signed(value)   == IF value >= TwoTo[IntBits - 1] THEN value - TwoTo[IntBits] ELSE value

HighestBit(value) ==
  CHOOSE h \in 0 .. 63 : TwoTo[h] <= value /\ value \div 2 < TwoTo[h]

\* A run of zeros that ends in a 1: how much follows.
Prefix(zeros) == ZeroBits(zeros) \o <<1>>

\* A mistake: a number that fills its last nibble is taken to need another.
NibblesRoundedUp(value) == IF value = 0 THEN 0 ELSE (HighestBit(value) + 1) \div 4

\* write_i64: the nibbles behind the first.
Nibbles(value) == IF value = 0 THEN 0 ELSE HighestBit(value) \div 4

IntegerBits(value) ==
  LET nibbles == Nibbles(Unsigned(value))
  IN  Prefix(nibbles) \o LowBits(Unsigned(value), 4 * (nibbles + 1))

\* write_u32_number: at least 256, and the bits below the highest.
NumberBits(value) ==
  LET high == HighestBit(value)
  IN  Prefix(high - 8) \o LowBits(value, high)

ToByte(count) == (ByteBits - (count % ByteBits)) % ByteBits

\* write_buffer: the length, and the bytes from the next boundary on.
BufferBits(before, buffer) ==
  LET size == IntegerBits(Len(buffer))
      byte(i) == buffer[(i - 1) \div ByteBits + 1]
  IN  size \o ZeroBits(ToByte(before + Len(size)))
        \o [i \in 1 .. ByteBits * Len(buffer) |->
              LowBits(byte(i), ByteBits)[((i - 1) % ByteBits) + 1]]

ItemBits(before, item) ==
  CASE item.kind = "bits"    -> LowBits(item.value, item.bits)
    [] item.kind = "integer" -> IntegerBits(item.value)
    [] item.kind = "number"  -> NumberBits(item.value)
    [] item.kind = "buffer"  -> BufferBits(before, item.value)

-----------------------------------------------------------------------------
StreamInit ==
  /\ put = <<>>
  /\ bits = ZeroBits(HeaderBits)
  /\ closed = FALSE
  /\ position = 0 /\ taken = <<>> /\ failed = FALSE

Put(item) ==
  /\ ~closed /\ Len(put) < MaxItems
  /\ put' = Append(put, item)
  /\ bits' = bits \o ItemBits(Len(bits), item)
  /\ UNCHANGED <<closed, position, taken, failed>>

\* finish: whole bytes, and their filling in the header.  A new reader starts
\* behind it.
Close ==
  LET filling == ToByte(Len(bits))
  IN  /\ ~closed
      /\ closed' = TRUE
      /\ bits' = LowBits(filling, HeaderBits)
                   \o SubSeq(bits, HeaderBits + 1, Len(bits)) \o ZeroBits(filling)
      /\ position' = HeaderBits
      /\ UNCHANGED <<put, taken, failed>>

Ahead    == SubSeq(bits, position + 1, Len(bits))
Padding  == LowValueOf(SubSeq(bits, 1, HeaderBits))

\* remaining: the filling does not count.
Remaining ==
  IF Len(Ahead) > Padding THEN Len(Ahead) - Padding ELSE 0

ZerosAhead ==
  CHOOSE z \in 0 .. Len(Ahead) :
    (\A i \in 1 .. z : Ahead[i] = 0) /\ (z < Len(Ahead) => Ahead[z + 1] = 1)

FieldAhead(from, n) == LowValueOf(SubSeq(Ahead, from + 1, from + n))

Failed == failed' = TRUE /\ UNCHANGED <<position, taken>>

Took(value, n) ==
  IF n > Len(Ahead) THEN Failed
  ELSE /\ position' = position + n
       /\ taken' = Append(taken, value)
       /\ UNCHANGED failed

ReadBits(n) == Took(FieldAhead(0, n), n)

\* read_i64: no more nibbles than an integer has.
TakeInteger ==
  LET nibbles == ZerosAhead + 1
      value   == FieldAhead(nibbles, 4 * nibbles)
  IN  IF ZerosAhead = Len(Ahead) \/ 4 * nibbles > IntBits THEN Failed
      ELSE Took(Signed(value), 5 * nibbles)

\* read_u32_number.
TakeNumber ==
  LET low == ZerosAhead + 8
  IN  IF ZerosAhead = Len(Ahead) \/ ZerosAhead > 23 THEN Failed
      ELSE Took(TwoTo[low] + FieldAhead(ZerosAhead + 1, low), ZerosAhead + 1 + low)

\* read_buffer: a negative size fails, and so does one above what is there.
TakeBuffer ==
  LET nibbles == ZerosAhead + 1
      size    == Signed(FieldAhead(nibbles, 4 * nibbles))
      start   == 5 * nibbles + ToByte(position + 5 * nibbles)
      buffer  == [k \in 1 .. size |-> FieldAhead(start + ByteBits * (k - 1), ByteBits)]
  IN  IF ZerosAhead = Len(Ahead) \/ 4 * nibbles > IntBits \/ size < 0 THEN Failed
      ELSE Took(buffer, start + ByteBits * size)

\* A reader asks for what it knows to be there.
TakeNext ==
  LET item == put[Len(taken) + 1]
  IN  /\ closed /\ ~failed /\ Len(taken) < Len(put)
      /\ CASE item.kind = "bits"    -> ReadBits(item.bits)
           [] item.kind = "integer" -> TakeInteger
           [] item.kind = "number"  -> TakeNumber
           [] item.kind = "buffer"  -> TakeBuffer
      /\ UNCHANGED <<put, bits, closed>>

StreamNext == (\E item \in StreamItems : Put(item)) \/ Close \/ TakeNext

StreamSpec == StreamInit /\ [][StreamNext]_streamVars

-----------------------------------------------------------------------------
(***************************************************************************)
(* What was put is taken, in its order; after the last item nothing        *)
(* remains but the filling, and the stream is whole bytes.                 *)
(***************************************************************************)
TakesWhatWasPut ==
  /\ ~failed
  /\ taken = [i \in DOMAIN taken |-> put[i].value]
  /\ closed => Len(bits) % ByteBits = 0
  /\ closed /\ Len(taken) = Len(put) => Remaining = 0
=============================================================================
