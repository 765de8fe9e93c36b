---- MODULE MCLzxCodec ----
(* A small instance of LzxCodec: every target up to a length over two bytes,
   and longer ones made of blocks that match, so that three matches at
   different distances fit; references with repetition, and rifts whose
   breakpoints fall on, before and inside the target. *)
EXTENDS LzxCodec

CONSTANT MaxTarget

E(s, t) == [source |-> s, target |-> t]

Blocks == {<<0, 0, 0>>, <<0, 1, 0>>, <<1, 0, 1>>, <<0, 0, 1>>}

MCTargets ==
  UNION {[1 .. n -> Bytes] : n \in 0 .. MaxTarget}
    \cup {a \o b \o c : a \in Blocks, b \in Blocks, c \in Blocks}

MCReferences == {<<>>, <<0, 0, 0, 1>>, <<1, 0, 1, 0, 1>>}

\* No rift; a breakpoint inside the target; two at one position, the end of
\* the 4-byte reference; entries out of order, one in front of position 0.
MCRifts ==
  {<<>>,
   <<E(0, 0), E(7, 2)>>,
   <<E(4, 0), E(4, 1)>>,
   <<E(8, 3), E(-4, -6), E(6, 1)>>}
====
