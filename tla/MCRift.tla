------------------------------- MODULE MCRift -------------------------------
(***************************************************************************)
(* One small instance of each operation on rift tables; the initial state  *)
(* picks the operation.  Words have five bits.                             *)
(*                                                                         *)
(* multiply: every table of up to two entries over three sources, the      *)
(* smallest word among them, and four targets, equal sources included.     *)
(*                                                                         *)
(* reverse: tables of one to four entries, with negative sources and equal *)
(* ones.  The image of a segment that starts at a position of a file       *)
(* starts at one, as file offsets and RVAs do; with five such images,      *)
(* segments overlap, nest, leave gaps and reach around the end of the      *)
(* number line.                                                            *)
(*                                                                         *)
(* reduce: vectors of up to four rows with three pairs found, and every    *)
(* heap map of up to four pairs on two offsets, with three targets that    *)
(* may disagree.                                                           *)
(*                                                                         *)
(* copy rift: sources of one to three sections, deltas that leave sections *)
(* in place, move them apart or over each other, and targets whose file    *)
(* alignment leaves gaps or makes sections overlap.  Every map leaves the  *)
(* header at 0, as those of images do.                                     *)
(***************************************************************************)
EXTENDS PeCopyRift, RiftReduce

VARIABLE operation   (* "multiply", "reverse", "reduce" or "copy rift" *)

Entries == {Entry(s, t) : s \in {Min, 0, 3}, t \in {Min, -1, 1, Max}}
Tables  == {t \in UNION {[1 .. n -> Entries] : n \in 0 .. 2} : Sorted(t)}

SourceLists ==
  {<<0>>, <<0, 2>>, <<0, 2, 5>>, <<0, 2, 5, 6>>, <<0, 2, 2, 5>>, <<-3, 0, 1>>,
   <<Min, 0>>, <<Min, 0, 3, 6>>, <<Min, -2, 0, 5>>, <<Min, 0, 0, 6>>, <<1, 3, 6>>}
TargetsOf(from) == IF from >= 0 THEN {0, 1, 3, 6, Max} ELSE {Min, -3, 0, 2}
TablesOver(list) ==
  {[k \in DOMAIN list |-> Entry(list[k], target[k])] :
     target \in {f \in [DOMAIN list -> Word] :
                  \A k \in DOMAIN list : f[k] \in TargetsOf(list[k])}}
Invertible == UNION {TablesOver(list) : list \in SourceLists}

Pairs == {Entry(s, t) : s \in {2, 3}, t \in {1, 2, 3}}
Heaps == {<<Entry(0, 0)>> \o pairs :
            pairs \in {p \in UNION {[1 .. n -> Pairs] : n \in 0 .. 4} : Sorted(p)}}

Header == Entry(0, 0)

MCIo2Rvas ==
  {<<Header>>,
   <<Header, Entry(2, 4)>>,
   <<Header, Entry(2, 4), Entry(5, 8)>>,
   <<Header, Entry(3, 3), Entry(4, 10)>>}

MCPreprocessRifts ==
  {<<>>,
   <<Header, Entry(4, 6)>>,
   <<Header, Entry(4, 6), Entry(8, 9)>>,
   <<Header, Entry(4, 3), Entry(8, 8)>>,
   <<Header, Entry(5, 9), Entry(8, 4)>>}

MCPeRifts ==
  {<<>>,
   <<Header>>,
   <<Header, Entry(4, 2)>>,
   <<Header, Entry(4, 2), Entry(8, 5)>>,
   <<Header, Entry(6, 3), Entry(9, 4)>>,
   <<Header, Entry(3, 2), Entry(6, 7)>>}

MCCliRifts == {<<>>, <<Entry(0, 2), Entry(3, 1)>>, <<Entry(2, 4), Entry(2, 3), Entry(5, 0)>>}

-----------------------------------------------------------------------------
ASSUME MultipliedAreTables /\ ReversedAreTables

IdleInputs ==
  /\ io2rva = <<>> /\ preprocessRift = <<>> /\ peRift = <<>> /\ cliRift = <<>>
  /\ refLen = 0 /\ parses = FALSE /\ phase = "idle" /\ copyRift = <<>>
IdleMultiply ==
  /\ a = <<>> /\ b = <<>> /\ out = <<>> /\ pc = "start"
  /\ segment = 0 /\ source = 0 /\ image = 0 /\ nextBreak = 0
IdleReverse ==
  /\ table = <<>> /\ inverse = <<>> /\ reversing = "start"
  /\ active = 0 /\ boundary = 0 /\ cursor = 0 /\ intervals = <<>>
IdleReduce ==
  /\ map = <<>> /\ dropUnset = FALSE /\ reducing = "set" /\ sets = 0 /\ index = 1
  /\ candidate = Entry(0, 0) /\ votes = 0 /\ reduced = <<>>

MCInit ==
  \/ operation = "multiply" /\ MultiplyInit /\ IdleInputs /\ IdleReverse /\ IdleReduce
  \/ operation = "reverse" /\ ReverseInit /\ IdleInputs /\ IdleMultiply /\ IdleReduce
  \/ operation = "reduce" /\ ReduceInit /\ IdleInputs /\ IdleMultiply /\ IdleReverse
  \/ operation = "copy rift" /\ Init /\ IdleReduce

MCNext ==
  /\ UNCHANGED operation
  /\ \/ /\ operation = "multiply" /\ MultiplyNext
        /\ UNCHANGED <<inputs, phase, copyRift, reverseVars, reduceVars>>
     \/ /\ operation = "reverse" /\ ReverseNext
        /\ UNCHANGED <<inputs, phase, copyRift, multiplyVars, reduceVars>>
     \/ /\ operation = "reduce" /\ ReduceNext
        /\ UNCHANGED vars
     \/ /\ operation = "copy rift" /\ Next
        /\ UNCHANGED reduceVars

MCVars == <<operation, vars, reduceVars>>
MCSpec == MCInit /\ [][MCNext]_MCVars /\ WF_MCVars(MCNext)

-----------------------------------------------------------------------------
\* Each of the four operations returns, on every table: the walks get around the
\* number line and the arrays of the intervals never run full.
OperationsReturn ==
  <>(\/ operation = "multiply" /\ pc = "done"
     \/ operation = "reverse" /\ reversing = "done"
     \/ operation = "reduce" /\ reducing = "done"
     \/ operation = "copy rift" /\ phase = "done")
=============================================================================
