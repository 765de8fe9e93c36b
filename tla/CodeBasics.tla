------------------------------ MODULE CodeBasics ------------------------------
(***************************************************************************)
(* What the codes of msdelta and of the LZMS crate are built from: numbers *)
(* as bits, the slots of large numbers, and the tree of a Huffman code.    *)
(***************************************************************************)
EXTENDS Integers, Sequences, FiniteSets

-----------------------------------------------------------------------------
(***************************************************************************)
(* Numbers as sequences of the bits 0 and 1, of a fixed length.  The       *)
(* streams of msdelta hold the lowest bit first, those of LZMS the highest.*)
(***************************************************************************)

\* The powers of two.
TwoTo[n \in Nat] == IF n = 0 THEN 1 ELSE 2 * TwoTo[n - 1]

\* The highest bit first.
Bits(value, n) == [i \in 1 .. n |-> (value \div TwoTo[n - i]) % 2]

ValueOf(bits) ==
  LET Prefix[n \in 0 .. Len(bits)] == IF n = 0 THEN 0 ELSE 2 * Prefix[n - 1] + bits[n]
  IN  Prefix[Len(bits)]

\* The lowest bit first.
LowBits(value, n) == [i \in 1 .. n |-> (value \div TwoTo[i - 1]) % 2]

LowValueOf(bits) ==
  LET Prefix[n \in 0 .. Len(bits)] ==
        IF n = 0 THEN 0 ELSE Prefix[n - 1] + bits[n] * TwoTo[n - 1]
  IN  Prefix[Len(bits)]

ZeroBits(n) == [i \in 1 .. n |-> 0]

-----------------------------------------------------------------------------
(***************************************************************************)
(* The slots that distances and integers share in msdelta's formats: the   *)
(* numbers 0 to 3 have a slot each, and from there on each power of two    *)
(* has two slots, one from the power and one from a half more; the bits    *)
(* below are the place in the slot.                                        *)
(***************************************************************************)

OpenBits(slot) == (slot \div 2) - 1
StartOf(slot)  == IF slot <= 3 THEN slot ELSE ((slot % 2) + 2) * TwoTo[OpenBits(slot)]
WidthOf(slot)  == IF slot <= 3 THEN 1 ELSE TwoTo[OpenBits(slot)]

\* The slot of a number, looked for from the smallest.
SlotOf(number) ==
  CHOOSE slot \in 0 .. 63 : StartOf(slot) <= number /\ number < StartOf(slot) + WidthOf(slot)

\* The same from the number's bits: twice the highest, and the one behind it.
HighBit(number) ==
  CHOOSE h \in 0 .. 31 : TwoTo[h] <= number /\ number \div 2 < TwoTo[h]
SlotByBits(number) ==
  IF number <= 3 THEN number
  ELSE 2 * HighBit(number) + ((number \div TwoTo[HighBit(number) - 1]) % 2)

-----------------------------------------------------------------------------
(***************************************************************************)
(* The tree of a Huffman code, as both crates grow it: the two lightest    *)
(* trees are joined until one is left, equal weights in the order of their *)
(* numbers, leaves in front of joined trees and older ones in front of     *)
(* newer.  src/huffman.rs takes them from a heap, the LZMS crate's         *)
(* adaptive.rs from two queues, one of sorted leaves and one of joined     *)
(* trees, whose fronts are the lightest of each kind.                      *)
(***************************************************************************)

\* The symbols of an alphabet 1 .. n that have a frequency.
ActiveSymbols(freqs) == {s \in DOMAIN freqs : freqs[s] > 0}

Leaf(freqs, s) == [weight |-> freqs[s], number |-> s, leaves |-> {s}]

Lighter(t, u) == t.weight < u.weight \/ (t.weight = u.weight /\ t.number < u.number)

Lightest(trees) == CHOOSE t \in trees : \A u \in trees \ {t} : Lighter(t, u)

Join(t, u, number) ==
  [weight |-> t.weight + u.weight, number |-> number, leaves |-> t.leaves \cup u.leaves]

\* The joins that a leaf has been part of are its depth.
Joined(forest, number) ==
  LET left  == Lightest(forest.trees)
      right == Lightest(forest.trees \ {left})
      both  == Join(left, right, number)
  IN  [trees |-> (forest.trees \ {left, right}) \cup {both},
       depth |-> [s \in DOMAIN forest.depth |->
                    IF s \in both.leaves THEN forest.depth[s] + 1 ELSE forest.depth[s]]]

\* The depth of every active symbol in the tree, and 0 for the others.
Depths(freqs) ==
  LET Forest[joins \in Nat] ==
        IF joins = 0
        THEN [trees |-> {Leaf(freqs, s) : s \in ActiveSymbols(freqs)},
              depth |-> [s \in DOMAIN freqs |-> 0]]
        ELSE Joined(Forest[joins - 1], Len(freqs) + joins)
  IN  Forest[Cardinality(ActiveSymbols(freqs)) - 1].depth

MaxDepth(depth) == CHOOSE d \in {depth[s] : s \in DOMAIN depth} :
                     \A s \in DOMAIN depth : depth[s] <= d
=============================================================================
