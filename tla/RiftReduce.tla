------------------------------ MODULE RiftReduce ------------------------------
(***************************************************************************)
(* The metadata maps of a managed image (src/lzx/rift.rs: reset_vector,    *)
(* set_vector_entry, internal_reduce and map, as src/pe/cli/create_map.rs  *)
(* calls them).  A table map is a vector with a place for every row, unset *)
(* until a pair of rows is found; a heap map lists the pairs of offsets    *)
(* found, one source as often as it is referred to.  Reducing elects one   *)
(* target for each source, keeps an entry only where the offset changes,   *)
(* and drops the first if the last has the same offset.                    *)
(***************************************************************************)
EXTENDS RiftTables

CONSTANTS
  RowCounts,      (* the numbers of rows of a table map                    *)
  Rows,           (* the rows that can be paired                           *)
  HeapMaps,       (* the heap maps, sorted by source, <<0, 0>> first       *)
  MaxSets         (* the pairs found for a table map at most               *)

Unset == Max      (* RIFT_VECTOR_UNSET_TARGET, i64::MAX *)

ResetVector(count) == [k \in 1 .. count |-> Entry(k - 1, Unset)]

ASSUME MapsAreTables ==
  /\ RowCounts \subseteq 1 .. Half - 1
  /\ Rows \subseteq 1 .. Max - 1
  /\ MaxSets \in Nat
  /\ \A heap \in HeapMaps :
       /\ heap \in Table /\ Sorted(heap)
       /\ heap # <<>> /\ heap[1] = Entry(0, 0)
       /\ \A i \in DOMAIN heap : i > 1 => heap[i].source > 0 /\ heap[i].target # Unset

VARIABLES
  map,            (* not changed by its reduction                          *)
  dropUnset,      (* a table map: unset places are dropped                 *)
  reducing,       (* "set", "group", "vote" or "done"                      *)
  sets,           (* the pairs found                                       *)
  index,          (* the next entry to be looked at                        *)
  candidate,      (* the entry elected so far for its source               *)
  votes,          (* its lead                                              *)
  reduced

reduceVars == <<map, dropUnset, reducing, sets, index, candidate, votes, reduced>>

\* set_vector_entry: changes a place of the vector; others are ignored.
SetVectorEntry(vector, source, target) ==
  IF source + 1 \in DOMAIN vector
  THEN [vector EXCEPT ![source + 1].target = target] ELSE vector

\* A mistake: a vector starts without the entry of row 0.
SeededVectorUnanchored(rows) == ResetVector(rows + 1)

\* seed_cli_map_tables: a place for every row, and for row 0, which is itself.
SeededVector(rows) == SetVectorEntry(ResetVector(rows + 1), 0, 0)

\* set_rift_entry: changes the entry of the source, or adds one; the maps are
\* sorted once their pairs are found.
SetRiftEntry(entries, source, target) ==
  IF \E i \in DOMAIN entries : entries[i].source = source
  THEN [entries EXCEPT ![CHOOSE i \in DOMAIN entries :
                           /\ entries[i].source = source
                           /\ \A j \in DOMAIN entries : entries[j].source = source => i <= j
                        ].target = target]
  ELSE SortBySource(Append(entries, Entry(source, target)))

ReduceInit ==
  /\ \/ /\ dropUnset = TRUE
        /\ \E rows \in RowCounts : map = SeededVector(rows)
     \/ /\ dropUnset = FALSE
        /\ map \in HeapMaps
  /\ reducing = "set" /\ sets = 0
  /\ index = 1
  /\ candidate = Entry(0, 0) /\ votes = 0
  /\ reduced = <<>>

\* A pair of rows is found (rows are numbered from 1).
Set(source, target) ==
  /\ reducing = "set" /\ dropUnset /\ sets < MaxSets
  /\ source < Len(map)
  /\ map' = SetRiftEntry(map, source, target)
  /\ sets' = sets + 1
  /\ UNCHANGED <<dropUnset, reducing, index, candidate, votes, reduced>>

BeginReduce ==
  /\ reducing = "set"
  /\ reducing' = "group"
  /\ UNCHANGED <<map, dropUnset, sets, index, candidate, votes, reduced>>

\* The first entry of a source; an unset one is passed over.
NextSource ==
  /\ reducing = "group" /\ index <= Len(map)
  /\ index' = index + 1
  /\ IF dropUnset /\ map[index].target = Unset
     THEN UNCHANGED <<reducing, candidate, votes>>
     ELSE reducing' = "vote" /\ candidate' = map[index] /\ votes' = 1
  /\ UNCHANGED <<map, dropUnset, sets, reduced>>

AnotherVote == index <= Len(map) /\ map[index].source = candidate.source

\* A majority vote: every other target takes one from the candidate's lead.
Elect ==
  CASE map[index].target = candidate.target ->
         votes' = votes + 1 /\ UNCHANGED candidate
    [] map[index].target # candidate.target /\ votes = 0 ->
         candidate' = map[index] /\ votes' = 1
    [] map[index].target # candidate.target /\ votes > 0 ->
         votes' = votes - 1 /\ UNCHANGED candidate

Vote ==
  /\ reducing = "vote" /\ AnotherVote
  /\ Elect
  /\ index' = index + 1
  /\ UNCHANGED <<map, dropUnset, reducing, sets, reduced>>

\* A mistake: offsets are compared with the first one kept.
SameOffsetAsFirst(entry) == reduced # <<>> /\ Offset(reduced[1]) = Offset(entry)

SameOffsetAsLast(entry) == reduced # <<>> /\ Offset(reduced[Len(reduced)]) = Offset(entry)

\* Kept where the offset changes.
Keep ==
  /\ reducing = "vote" /\ ~AnotherVote
  /\ reduced' = IF SameOffsetAsLast(candidate) THEN reduced ELSE Append(reduced, candidate)
  /\ reducing' = "group"
  /\ UNCHANGED <<map, dropUnset, sets, index, candidate, votes>>

\* One entry holds everywhere; of several the first is dropped if the last, which
\* the region in front of the table wraps to, has its offset.
Trimmed(entries) ==
  CASE Len(entries) = 0 -> <<>>
    [] Len(entries) = 1 -> IF Offset(entries[1]) = 0 THEN <<>>
                           ELSE <<Entry(0, Offset(entries[1]))>>
    [] Len(entries) > 1 -> IF Offset(entries[1]) = Offset(entries[Len(entries)])
                           THEN Tail(entries) ELSE entries

Trim ==
  /\ reducing = "group" /\ index > Len(map)
  /\ reduced' = Trimmed(reduced)
  /\ reducing' = "done"
  /\ UNCHANGED <<map, dropUnset, sets, index, candidate, votes>>

ReduceNext ==
  \/ \E source, target \in Rows : Set(source, target)
  \/ BeginReduce
  \/ NextSource
  \/ Vote
  \/ Keep
  \/ Trim

ReduceSpec == ReduceInit /\ [][ReduceNext]_reduceVars

-----------------------------------------------------------------------------
\* map, which the transforms of the metadata and of the code look rows and
\* offsets up with: there is no wrapping here.
MapOffset(entries, pos) ==
  IF entries = <<>> \/ pos < entries[1].source THEN 0
  ELSE Offset(entries[SegmentOf(entries, pos)])

\* In particular the vote, unsigned in the code, never falls below zero.
ReduceTypeOK ==
  /\ map \in Table /\ reduced \in Table
  /\ dropUnset \in BOOLEAN
  /\ reducing \in {"set", "group", "vote", "done"}
  /\ sets \in 0 .. MaxSets
  /\ index \in 1 .. Len(map) + 1
  /\ candidate \in [source : Word, target : Word]
  /\ votes \in 0 .. Len(map)

(***************************************************************************)
(* The reduced map is as small as it can be for its lookup: sources        *)
(* increase and neighbours have different offsets, so that what the        *)
(* encoder writes is never longer than the pairs that were found.          *)
(***************************************************************************)
ReducedIsMinimal ==
  /\ ReduceTypeOK
  /\ StrictlySorted(reduced)
  /\ \A i \in 1 .. Len(reduced) - 1 : Offset(reduced[i]) # Offset(reduced[i + 1])

Naming(source)         == {i \in DOMAIN map : map[i].source = source}
Voters(source, target) == {i \in Naming(source) : map[i].target = target}

KeepsMajorities ==
  \A i \in DOMAIN map :
    LET source == map[i].source
        target == map[i].target
    IN  /\ 2 * Cardinality(Voters(source, target)) > Cardinality(Naming(source))
        /\ ~(dropUnset /\ target = Unset)
        => source + MapOffset(reduced, source) = target

(***************************************************************************)
(* A reduced map still sends every row and offset it was built for to its  *)
(* target - to the one most of the references agree on, where more than    *)
(* half do - under the lookup the decoder makes, which does not wrap: the  *)
(* entry for 0 that every map starts with is what dropping the first entry *)
(* relies on.                                                              *)
(***************************************************************************)
ReturnsMajorities == reducing = "done" => KeepsMajorities

\* What is left of a reduced map is as short as it can be, and keeps what most of the
\* pairs found say.
ReducesToMajorities == ReducedIsMinimal /\ ReturnsMajorities
=============================================================================
