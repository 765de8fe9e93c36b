-------------------------------- MODULE BsDiff --------------------------------
(***************************************************************************)
(* The bsdiff codec (bsdiff/mod.rs).  The creator scans the target for     *)
(* matches in the source and writes a block for each: bytes added to the   *)
(* source around the match before, bytes inserted, and a seek to the new   *)
(* match.  A match is extended backward while more than half of the bytes  *)
(* agree, the one before it forward in the same way.  The patcher reads    *)
(* the blocks, from a patch that may be cut short.                         *)
(*                                                                         *)
(* A byte has Byte values and a number NumBytes bytes, the top bit of the  *)
(* last its sign; the code's are 256 and 8.  Positions count from 0, as in *)
(* the code.                                                               *)
(***************************************************************************)
EXTENDS Integers, Sequences, FiniteSets

CONSTANTS
  Byte,        (* the number of values of a byte                           *)
  NumBytes,    (* the bytes of a number                                    *)
  MinMatch,    (* min_match                                                *)
  BsSources,   (* bound: the sources                                       *)
  BsTargets    (* bound: the targets                                       *)

VARIABLES
  old,         (* source                                                   *)
  new,         (* target                                                   *)
  rank,        (* rank: of the suffixes                                    *)
  sortWidth,   (* k: the bytes they are ranked by                          *)
  suffixes,    (* sa                                                       *)
  scan,        (* where the scan for a match has got to                    *)
  lo, hi,      (* the suffixes the search for a match is between           *)
  found,       (* best_pos and best_len                                    *)
  lastScan,    (* last_scan: the target up to here is in the patch         *)
  lastPos,     (* last_pos: the place of lastScan in the source            *)
  lastOffset,  (* last_offset: from the target to the source, of the match *)
  patch,       (* the bytes written                                        *)
  bsPc,        (* what comes next                                          *)
  patchPos,    (* patch_pos                                                *)
  oldPos,      (* old_pos                                                  *)
  rebuilt      (* target, as far as the patcher has got                    *)

sortVars   == <<old, new, rank, sortWidth, suffixes>>
searchVars == <<lo, hi, found>>
lastVars   == <<lastScan, lastPos, lastOffset>>
patchVars  == <<patchPos, oldPos, rebuilt>>
bsVars     == <<sortVars, scan, searchVars, lastVars, patch, bsPc, patchVars>>

\* A byte of a buffer, or nothing where there is none.
InSource(p)   == p \in 0 .. Len(old) - 1
At(s, p)      == s[p + 1]
SourceByte(p) == IF InSource(p) THEN At(old, p) ELSE 0
Slice(s, p, n) == [i \in 1 .. n |-> s[p + i]]

\* write_i64 and read_i64: the magnitude from its lowest byte, and the sign.  A number's
\* places are the magnitude shifted right by bytes.
SignBit == Byte \div 2
Magnitude(v) == IF v < 0 THEN -v ELSE v
Places(m) ==
  LET Shifted[i \in 1 .. NumBytes] == IF i = 1 THEN m ELSE Shifted[i - 1] \div Byte
  IN  Shifted

WriteNumber(v) ==
  [i \in 1 .. NumBytes |->
     IF i < NumBytes THEN Places(Magnitude(v))[i] % Byte
     ELSE (Places(Magnitude(v))[i] % SignBit) + (IF v < 0 THEN SignBit ELSE 0)]

ReadNumber(s) ==
  LET Value[i \in 1 .. NumBytes] ==
        IF i = NumBytes THEN s[i] % SignBit ELSE s[i] + Byte * Value[i + 1]
  IN  IF s[NumBytes] >= SignBit THEN -Value[1] ELSE Value[1]

\* The magnitude leaves room for the sign.
Fits(m) == Places(m)[NumBytes] < SignBit

\* Bytes have two halves, the buffers hold bytes, and their places fit into numbers.
ASSUME BsAssumption ==
  /\ SignBit \in Nat \ {0} /\ Byte = 2 * SignBit /\ NumBytes \in Nat \ {0} /\ MinMatch \in Nat
  /\ \A s \in BsSources \cup BsTargets :
       s \in Seq(0 .. Byte - 1) /\ \A m \in 0 .. Len(s) : Fits(m)

-----------------------------------------------------------------------------
(***************************************************************************)
(* suffix_array: the starts of the suffixes in order, by the ranks of      *)
(* their first sortWidth bytes, which is doubled until all ranks differ.   *)
(***************************************************************************)
NothingFound == [pos |-> 0, len |-> 0]

BsInit ==
  /\ old \in BsSources /\ new \in BsTargets
  /\ rank = [p \in 0 .. Len(old) - 1 |-> At(old, p)] /\ sortWidth = 1
  /\ suffixes = <<>>
  /\ scan = 0 /\ lo = 0 /\ hi = 0 /\ found = NothingFound
  /\ lastScan = 0 /\ lastPos = 0 /\ lastOffset = 0
  /\ patch = <<>> /\ patchPos = 0 /\ oldPos = 0 /\ rebuilt = <<>>
  /\ bsPc = IF new = <<>> THEN "written" ELSE "sort"

\* The rank of a suffix's second half; one that ends before it has none.
RankAt(p) == IF p \in DOMAIN rank THEN rank[p] ELSE -1
PairOf(p) == <<rank[p], RankAt(p + sortWidth)>>
PairBelow(a, b) == a[1] < b[1] \/ (a[1] = b[1] /\ a[2] < b[2])

Sorted == sortWidth >= Len(old) \/ \A p, q \in DOMAIN rank : rank[p] = rank[q] => p = q

\* The number of different pairs below one's own.
SortRound ==
  /\ bsPc = "sort" /\ ~Sorted
  /\ LET pairs == {PairOf(p) : p \in DOMAIN rank}
     IN  rank' = [p \in DOMAIN rank |-> Cardinality({a \in pairs : PairBelow(a, PairOf(p))})]
  /\ sortWidth' = 2 * sortWidth
  /\ UNCHANGED <<old, new, suffixes, scan, searchVars, lastVars, patch, bsPc, patchVars>>

\* In ascending order of ranks.
EndSort ==
  /\ bsPc = "sort" /\ Sorted
  /\ suffixes' = [i \in 1 .. Len(old) |->
                    CHOOSE p \in DOMAIN rank :
                      Cardinality({q \in DOMAIN rank : rank[q] < rank[p]}) = i - 1]
  /\ bsPc' = "block"
  /\ UNCHANGED <<old, new, rank, sortWidth, scan, searchVars, lastVars, patch, patchVars>>

-----------------------------------------------------------------------------
(***************************************************************************)
(* find_match: the suffixes a binary search for the target's bytes from    *)
(* scan on meets and the two it ends at; the first of the longest matches  *)
(* is taken.                                                               *)
(***************************************************************************)
Agrees(j, p) == InSource(p) /\ At(old, p) = At(new, j)

MatchLen(p, j) ==
  CHOOSE n \in 0 .. Len(new) - j :
    /\ \A i \in 0 .. n - 1 : Agrees(j + i, p + i)
    /\ n < Len(new) - j => ~Agrees(j + n, p + n)

\* compare_at: the suffix is below the target's bytes, a prefix of them included.
Below(p, j) ==
  LET n == MatchLen(p, j)
  IN  IF p + n = Len(old) \/ j + n = Len(new) THEN Len(old) - p < Len(new) - j
      ELSE At(old, p + n) < At(new, j + n)

Better(best, p) ==
  IF MatchLen(p, scan) > best.len THEN [pos |-> p, len |-> MatchLen(p, scan)] ELSE best

BeginMatch ==
  /\ bsPc = "search" /\ scan < Len(new)
  /\ found' = NothingFound /\ lo' = 0 /\ hi' = Len(suffixes) - 1
  /\ bsPc' = IF suffixes = <<>> THEN "found" ELSE "probe"
  /\ UNCHANGED <<sortVars, scan, lastVars, patch, patchVars>>

Middle == lo + ((hi - lo) \div 2)

Probe ==
  /\ bsPc = "probe" /\ lo < hi
  /\ found' = Better(found, At(suffixes, Middle))
  /\ IF Below(At(suffixes, Middle), scan) THEN lo' = Middle + 1 /\ hi' = hi
                                          ELSE lo' = lo /\ hi' = Middle
  /\ UNCHANGED <<sortVars, scan, lastVars, patch, bsPc, patchVars>>

EndMatch ==
  /\ bsPc = "probe" /\ lo >= hi
  /\ found' = Better(Better(found, At(suffixes, lo)),
                     At(suffixes, IF lo = 0 THEN 0 ELSE lo - 1))
  /\ bsPc' = "found"
  /\ UNCHANGED <<sortVars, scan, lo, hi, lastVars, patch, patchVars>>

-----------------------------------------------------------------------------
(***************************************************************************)
(* bscreate.                                                               *)
(***************************************************************************)
\* The pass of the outer loop begins behind the byte the last one ended at.
NextBlock ==
  /\ bsPc = "block" /\ scan < Len(new)
  /\ scan' = scan + 1 /\ bsPc' = "search"
  /\ UNCHANGED <<sortVars, searchVars, lastVars, patch, patchVars>>

\* What the old offset explains of the match, and whether the match is better.
OldScore == Cardinality({i \in 0 .. found.len - 1 : Agrees(scan + i, scan + lastOffset + i)})
WorthABlock == found.len > OldScore + MinMatch

SearchOn ==
  /\ bsPc = "found" /\ ~WorthABlock
  /\ scan' = scan + 1 /\ bsPc' = "search"
  /\ UNCHANGED <<sortVars, searchVars, lastVars, patch, patchVars>>

\* The extension by the bytes 1 .. n, some of which agree: more than half of it
\* agrees, and no other such extension has as many agreeing bytes in as few.
Score(i, agreeing) == Cardinality({k \in agreeing : k <= i})
Majority(i, agreeing) == 2 * Score(i, agreeing) > i
IsExtension(e, n, agreeing) ==
  /\ e = 0 \/ Majority(e, agreeing)
  /\ \A i \in 1 .. n : Majority(i, agreeing) =>
       /\ Score(i, agreeing) <= Score(e, agreeing)
       /\ Score(i, agreeing) = Score(e, agreeing) => e <= i

AgreeForward == {i \in 1 .. scan - lastScan : Agrees(lastScan + i - 1, lastPos + i - 1)}

\* A mistake: backward as far as the last block ended, over what the last match explains.
BackwardLimitWhole(forward) == scan - lastScan

\* Backward no further than to what the last match explains.
BackwardLimit(forward) ==
  IF lastScan + forward <= scan THEN scan - (lastScan + forward) ELSE 0
AgreeBackward(forward) ==
  {i \in 1 .. BackwardLimit(forward) : Agrees(scan - i, found.pos - i)}

\* The bytes added are differences from the source at the last match.
Added(n) ==
  [i \in 1 .. n |-> (At(new, lastScan + i - 1) - SourceByte(lastPos + i - 1)) % Byte]

Block(add, insert, seek) ==
  WriteNumber(Len(add)) \o WriteNumber(Len(insert)) \o WriteNumber(seek) \o add \o insert

EmitBlock(forward, backward) ==
  LET pos == found.pos - backward
  IN  /\ patch' = patch \o
           Block(Added(forward),
                 Slice(new, lastScan + forward, scan - backward - (lastScan + forward)),
                 pos - (lastPos + forward))
      /\ lastScan' = scan - backward /\ lastPos' = pos
      /\ lastOffset' = found.pos - scan
      /\ scan' = scan - backward + found.len

WriteBlock ==
  /\ bsPc = "found" /\ WorthABlock
  /\ \E forward \in 0 .. scan - lastScan :
       /\ IsExtension(forward, scan - lastScan, AgreeForward)
       /\ \E backward \in 0 .. BackwardLimit(forward) :
            /\ IsExtension(backward, BackwardLimit(forward), AgreeBackward(forward))
            /\ EmitBlock(forward, backward)
  /\ bsPc' = "block"
  /\ UNCHANGED <<sortVars, searchVars, patchVars>>

\* What is left of the target is added to the source at the last match.
WriteTail ==
  /\ bsPc \in {"block", "search"} /\ scan >= Len(new)
  /\ patch' = IF lastScan < Len(new)
              THEN patch \o Block(Added(Len(new) - lastScan), <<>>, 0) ELSE patch
  /\ bsPc' = "written"
  /\ UNCHANGED <<sortVars, scan, searchVars, lastVars, patchVars>>

\* External: the patch reaches the patcher, cut short or whole.
Deliver ==
  /\ bsPc = "written"
  /\ \E n \in {0, 3 * NumBytes, Len(patch) - 1, Len(patch)} \cap 0 .. Len(patch) :
       /\ patch' = Slice(patch, 0, n)
       /\ bsPc' = IF n = Len(patch) THEN "whole" ELSE "cut"
  /\ UNCHANGED <<sortVars, scan, searchVars, lastVars, patchVars>>

-----------------------------------------------------------------------------
(***************************************************************************)
(* bspatch: a block at a time, until the target is full.                   *)
(***************************************************************************)
\* The control values of the next block, and the start of its bytes.
Control(i) == ReadNumber(Slice(patch, patchPos + i * NumBytes, NumBytes))
AddLen     == Control(0)
InsertLen  == Control(1)
SeekDist   == Control(2)
BlockBody  == patchPos + 3 * NumBytes

\* A length is read as an unsigned number: a negative one is too large.
BlockApplies ==
  /\ BlockBody <= Len(patch)
  /\ AddLen >= 0 /\ InsertLen >= 0
  /\ Len(rebuilt) + AddLen + InsertLen <= Len(new)
  /\ BlockBody + AddLen + InsertLen <= Len(patch)

PatchBlock ==
  /\ bsPc \in {"whole", "cut"} /\ Len(rebuilt) < Len(new) /\ BlockApplies
  /\ rebuilt' = rebuilt
       \o [i \in 1 .. AddLen |-> (patch[BlockBody + i] + SourceByte(oldPos + i - 1)) % Byte]
       \o Slice(patch, BlockBody + AddLen, InsertLen)
  /\ patchPos' = BlockBody + AddLen + InsertLen
  /\ oldPos' = oldPos + SeekDist + AddLen
  /\ UNCHANGED <<sortVars, scan, searchVars, lastVars, patch, bsPc>>

Refuse ==
  /\ bsPc \in {"whole", "cut"} /\ Len(rebuilt) < Len(new) /\ ~BlockApplies
  /\ bsPc' = IF bsPc = "whole" THEN "failed" ELSE "refused"
  /\ UNCHANGED <<sortVars, scan, searchVars, lastVars, patch, patchVars>>

BsNext ==
  \/ SortRound \/ EndSort \/ BeginMatch \/ Probe \/ EndMatch
  \/ NextBlock \/ SearchOn \/ WriteBlock \/ WriteTail \/ Deliver \/ PatchBlock \/ Refuse

BsSpec == BsInit /\ [][BsNext]_bsVars

-----------------------------------------------------------------------------
\* What is rebuilt is the target as far as it goes; a whole patch is not refused and
\* one cut short does not rebuild all of it (bspatch).
PatchRebuilds ==
  /\ Len(rebuilt) <= Len(new) /\ \A i \in 1 .. Len(rebuilt) : rebuilt[i] = new[i]
  /\ bsPc # "failed"
  /\ bsPc \in {"cut", "refused"} => Len(rebuilt) < Len(new)

\* The search ends at the longest match there is (find_match).
FindsTheLongest ==
  bsPc = "found" =>
    /\ \A p \in 0 .. Len(old) - 1 : MatchLen(p, scan) <= found.len
    /\ found.len > 0 => InSource(found.pos) /\ found.len = MatchLen(found.pos, scan)

\* A bsdiff patch is made of the longest matches there are and rebuilds what it was made
\* for (bscreate, bspatch).
DiffRebuilds == PatchRebuilds /\ FindsTheLongest

\* Every block but the first takes the patch on, so that the scan ends although it
\* may step back to before the match (bscreate).
ScanAdvances == bsPc = "found" /\ bsPc' = "block" /\ patch # <<>> => lastScan' > lastScan
BlocksAdvance == [][ScanAdvances]_bsVars
=============================================================================
