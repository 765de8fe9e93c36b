------------------------------ MODULE LzmsEncoder ------------------------------
(***************************************************************************)
(* compress (crates/lzms/src/lib.rs): the LZMS encoder, from the data (as  *)
(* the x86 filter left it) to the decisions and symbols of the two bit     *)
(* streams.                                                                *)
(*                                                                         *)
(* What the hash tables surface depends on collisions, on the 32 steps and *)
(* the eight ways, and what the costs favour on the adaptive codes; so the *)
(* chain offers any one offset or none, the signatures any one pair of     *)
(* offset and power or none, and a match found is taken or not.  The rest  *)
(* is as in the code: the recent offsets come first and the chain has to   *)
(* beat them, a match is as long as it can be, deltas are looked for only  *)
(* where LZ found nothing.                                                 *)
(***************************************************************************)
EXTENDS LzmsQueue, Sequences, FiniteSetsExt

CONSTANTS
  ByteSize,       (* 256                                                   *)
  Powers,         (* 0 .. 7                                                *)
  MinMatch        (* 3: the shortest match taken                           *)

VARIABLES
  data,           (* what is coded; never changes                          *)
  coded,          (* pos: the bytes coded                                  *)
  lzRecent, deltaRecent,   (* lz_queue, delta_queue                        *)
  lastType,       (* prev_type                                             *)
  decisions,      (* what rc is given, with the tables of probabilities    *)
  symbols         (* what bs is given, with the Huffman codes              *)

vars == <<data, coded, lzRecent, deltaRecent, lastType, decisions, symbols>>

Init ==
  /\ coded = 0
  /\ lzRecent = FirstLzQueue
  /\ deltaRecent = FirstDeltaQueue
  /\ lastType = "literal"
  /\ decisions = <<>>
  /\ symbols = <<>>

ByteAt(p) == data[p + 1]

\* match_length: how far the bytes agree with those an offset before them.
MatchLength(offset) ==
  Max({n \in 0 .. Len(data) - coded :
         \A k \in 0 .. n - 1 : ByteAt(coded + k) = ByteAt(coded + k - offset)})

\* The same for a delta of a span.
DeltaLength(offset, span) ==
  Max({n \in 0 .. Len(data) - coded :
         \A k \in 0 .. n - 1 :
           LET p == coded + k
           IN  ByteAt(p) = (ByteAt(p - offset) + ByteAt(p - span)
                              - ByteAt(p - offset - span)) % ByteSize})

NoMatch == [offset |-> 0, length |-> 0]

\* The best of the recent offsets: the first of the longest, two bytes at least.
BestRecent ==
  LET tried(qi)  == lzRecent[Adjusted(qi, lastType = "lz")]
      usable     == {qi \in Slots : tried(qi) <= coded /\ MatchLength(tried(qi)) >= 2}
      longest    == {qi \in usable : \A other \in usable :
                       MatchLength(tried(qi)) >= MatchLength(tried(other))}
  IN  IF usable = {} THEN NoMatch
      ELSE [offset |-> tried(Min(longest)), length |-> MatchLength(tried(Min(longest)))]

\* Where a hash of the bytes ahead can be taken, the recent offsets are tried and
\* the chain may surface a longer match; the chain never holds position 0.
LzCandidates ==
  IF coded + MinMatch >= Len(data) THEN {NoMatch}
  ELSE {BestRecent}
         \cup {m \in {[offset |-> coded - q, length |-> MatchLength(coded - q)] :
                        q \in 1 .. coded - 1} : m.length > BestRecent.length}

\* Positions the signatures of a power may surface lie at a multiple of the span,
\* and a span from the start.
DeltaCandidates ==
  {[offset |-> qw[1], power |-> qw[2],
    length |-> DeltaLength(qw[1] * Span(qw[2]), Span(qw[2]))] :
     qw \in {pair \in (1 .. coded) \X Powers :
               pair[1] * Span(pair[2]) + Span(pair[2]) <= coded}}

EmitLiteral ==
  /\ coded < Len(data)
  /\ decisions' = Append(decisions, <<"main", 0>>)
  /\ symbols' = Append(symbols, <<"literal", ByteAt(coded)>>)
  /\ coded' = coded + 1
  /\ lastType' = "literal"
  /\ UNCHANGED <<data, lzRecent, deltaRecent>>

\* The numbers an entry of a queue can be named by.
Nameable(queue, entry, justUsed) ==
  {rep \in Reps : queue[Adjusted(rep, justUsed)] = entry}

\* The decisions that name an entry, with the two tables of the kind.
RepDecisions(rep, first, second) ==
  IF rep = 0 THEN <<<<first, 0>>>>
  ELSE <<<<first, 1>>, <<second, IF rep = 1 THEN 0 ELSE 1>>>>

EmitLz ==
  \E m \in LzCandidates :
    LET justUsed == lastType = "lz"
        reps     == Nameable(lzRecent, m.offset, justUsed)
        length   == <<<<"length", m.length>>>>
    IN  /\ coded < Len(data)
        /\ m.length >= MinMatch
        /\ IF reps # {}
           THEN /\ decisions' = decisions \o <<<<"main", 1>>, <<"match", 0>>, <<"lz", 1>>>>
                                  \o RepDecisions(Min(reps), "lzRep0", "lzRep1")
                /\ symbols' = symbols \o length
                /\ lzRecent' = QueueMtf(lzRecent, Adjusted(Min(reps), justUsed))
           ELSE /\ decisions' = decisions \o <<<<"main", 1>>, <<"match", 0>>, <<"lz", 0>>>>
                /\ symbols' = symbols \o <<<<"lzOffset", m.offset>>>> \o length
                /\ lzRecent' = QueuePush(lzRecent, m.offset)
        /\ coded' = coded + m.length
        /\ lastType' = "lz"
        /\ UNCHANGED <<data, deltaRecent>>

\* A mistake: the offset is written first, as for LZ.
DeltaSymbolsSwapped(m) == <<<<"deltaOffset", m.offset>>, <<"deltaPower", m.power>>>>

DeltaSymbols(m) == <<<<"deltaPower", m.power>>, <<"deltaOffset", m.offset>>>>

EmitDelta ==
  \E lz \in LzCandidates, m \in DeltaCandidates :
    LET justUsed == lastType = "delta"
        entry    == <<m.offset, m.power>>
        reps     == Nameable(deltaRecent, entry, justUsed)
        length   == <<<<"length", m.length>>>>
    IN  /\ lz.length < MinMatch
        /\ coded + MinMatch - 1 < Len(data)
        /\ m.length >= MinMatch
        /\ IF reps # {}
           THEN /\ decisions' = decisions \o <<<<"main", 1>>, <<"match", 1>>, <<"delta", 1>>>>
                                  \o RepDecisions(Min(reps), "deltaRep0", "deltaRep1")
                /\ symbols' = symbols \o length
                /\ deltaRecent' = QueueMtf(deltaRecent, Adjusted(Min(reps), justUsed))
           ELSE /\ decisions' = decisions \o <<<<"main", 1>>, <<"match", 1>>, <<"delta", 0>>>>
                /\ symbols' = symbols \o DeltaSymbols(m) \o length
                /\ deltaRecent' = QueuePush(deltaRecent, entry)
        /\ coded' = coded + m.length
        /\ lastType' = "delta"
        /\ UNCHANGED <<data, lzRecent>>

Next == EmitLiteral \/ EmitLz \/ EmitDelta
=============================================================================
