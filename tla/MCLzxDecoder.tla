---- MODULE MCLzxDecoder ----
(* A small instance of LzxDecoder.  The references and the rifts are chosen
   so that copies start in the reference, in the output and before its end,
   and so that breakpoints fall in the reference, at its end (where the
   boundary entry is), inside the target, and in front of position 0. *)
EXTENDS LzxDecoder

MCBytes == {0, 1}

MCReferences == {<<>>, <<0>>, <<0, 1>>, <<0, 1, 1>>}

E(s, t) == [source |-> s, target |-> t]

MCRifts ==
  {<<>>,
   <<E(0, 1)>>,
   <<E(3, 0)>>,
   <<E(2, 1), E(2, 0)>>,
   <<E(4, 2), E(3, 0)>>,
   <<E(-1, 0), E(4, 1), E(-3, 2)>>}

MCRawOffsets == 0 .. 10
====
