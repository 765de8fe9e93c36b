----------------------------- MODULE DeltaBuffer -----------------------------
(***************************************************************************)
(* What a delta decoder promises, whatever the delta says: it grows one    *)
(* buffer that starts as the reference, each step adding a byte the delta  *)
(* supplies or repeating, at one fixed distance, bytes the buffer already  *)
(* holds; it never rewrites what it produced, never grows past the size    *)
(* the header announced, and succeeds only at exactly that size.           *)
(*                                                                         *)
(* The specification of the PseudoLzx decoder (LzxDecoder) refines it.     *)
(***************************************************************************)
EXTENDS Integers, Sequences

CONSTANTS Bytes

VARIABLES
  reference,    (* the old file; never changes                             *)
  targetSize,   (* size of the new file, from the header; never changes    *)
  output,       (* the part of the new file produced so far                *)
  verdict       (* "busy", "ok" or "err"                                   *)

vars == <<reference, targetSize, output, verdict>>

\* The buffer copies read from: the old file followed by the output.
Buffer(out) == reference \o out

Init ==
  /\ output = <<>>
  /\ verdict = "busy"

Grow(out) ==
  /\ verdict = "busy"
  /\ output' = out
  /\ Len(out) <= targetSize
  /\ UNCHANGED <<reference, targetSize>>

Literal ==
  /\ \E b \in Bytes : Grow(Append(output, b))
  /\ verdict' = "busy"

\* new is output followed by bytes each equal to the one `distance' before it.
RepeatsAt(new, distance) ==
  /\ Len(new) >= Len(output)
  /\ \A k \in 1 .. Len(output) : new[k] = output[k]
  /\ \A n \in Len(Buffer(output)) + 1 .. Len(Buffer(new)) :
       Buffer(new)[n] = Buffer(new)[n - distance]

Copy ==
  /\ \E distance \in 1 .. Len(Buffer(output)) : RepeatsAt(output', distance)
  /\ Grow(output')
  /\ verdict' = "busy"

Succeed ==
  /\ verdict = "busy"
  /\ Len(output) = targetSize
  /\ verdict' = "ok"
  /\ UNCHANGED <<reference, targetSize, output>>

Fail ==
  /\ verdict = "busy"
  /\ verdict' = "err"
  /\ UNCHANGED <<reference, targetSize, output>>

Next == Literal \/ Copy \/ Succeed \/ Fail

Spec == Init /\ [][Next]_vars
=============================================================================
