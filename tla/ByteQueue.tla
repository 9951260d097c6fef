----------------------------- MODULE ByteQueue ------------------------------
(***************************************************************************)
(* What a bounded byte queue promises, with no ring, no indices and no     *)
(* putting back: bytes leave in the order in which they came, each once,   *)
(* and at most Capacity of them are inside.                                *)
(***************************************************************************)
EXTENDS Naturals, Sequences

CONSTANTS Byte, Capacity

VARIABLES
  accepted,   \* bytes taken in since the last Clear
  delivered   \* bytes given out since the last Clear

vars == <<accepted, delivered>>

Init ==
  /\ accepted = <<>>
  /\ delivered = <<>>

Accept(b) ==
  /\ Len(accepted) - Len(delivered) < Capacity
  /\ accepted' = Append(accepted, b)
  /\ UNCHANGED delivered

\* The next n bytes are given out together.
Deliver(n) ==
  /\ Len(delivered) + n <= Len(accepted)
  /\ delivered' = SubSeq(accepted, 1, Len(delivered) + n)
  /\ UNCHANGED accepted

Clear ==
  /\ accepted' = <<>>
  /\ delivered' = <<>>

Next ==
  \/ \E b \in Byte : Accept(b)
  \/ \E n \in 0 .. Capacity : Deliver(n)
  \/ Clear

Spec == Init /\ [][Next]_vars
=============================================================================
