------------------------------- MODULE LzmsQueue -------------------------------
(***************************************************************************)
(* The queues of recent offsets of LZMS (crates/lzms/src/lib.rs): four     *)
(* entries, the newest at 0, of which three can be named in the stream.    *)
(* LZ matches and delta matches have a queue each; an entry is an offset,  *)
(* or an offset with a power.                                              *)
(***************************************************************************)
EXTENDS Integers

Slots == 0 .. 3

\* The number of an entry in the stream: two decisions, 0, 10 or 11.
Reps == 0 .. 2

\* queue_push, queue_push_pair.
QueuePush(queue, entry) ==
  [i \in Slots |-> IF i = 0 THEN entry ELSE queue[i - 1]]

\* queue_mtf, queue_mtf_pair: the entry used moves to the front.
QueueMtf(queue, used) ==
  [i \in Slots |-> IF i = 0 THEN queue[used]
                   ELSE IF i <= used THEN queue[i - 1] ELSE queue[i]]

\* The slot a number stands for: right after a match of the same kind, the
\* offset at the front has just been used and is passed over.
Adjusted(rep, justUsed) ==
  IF ~justUsed THEN rep ELSE IF rep + 1 <= 3 THEN rep + 1 ELSE 3

\* The span of a delta: 1 << power.
Span(power) == <<1, 2, 4, 8, 16, 32, 64, 128>>[power + 1]

FirstLzQueue    == [i \in Slots |-> i + 1]
FirstDeltaQueue == [i \in Slots |-> <<i + 1, 0>>]
=============================================================================
