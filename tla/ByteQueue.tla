------------------------------ MODULE ByteQueue ------------------------------
(***************************************************************************)
(* What a byte buffer promises its producer and consumer: a queue of bytes.*)
(* q holds the bytes written and not yet consumed; delivered is what the   *)
(* last call handed to the consumer.                                       *)
(***************************************************************************)
EXTENDS Integers, Sequences

VARIABLES q, delivered

Init == q = <<>> /\ delivered = <<>>

\* bytes appended at the tail (a failed or empty write appends nothing)
Put ==
  /\ Len(q') >= Len(q)
  /\ SubSeq(q', 1, Len(q)) = q
  /\ delivered' = <<>>

\* the k oldest bytes handed to the consumer
Take(k) ==
  /\ delivered' = SubSeq(q, 1, k)
  /\ q' = SubSeq(q, k + 1, Len(q))

\* the k oldest bytes dropped
Discard(k) ==
  /\ q' = SubSeq(q, k + 1, Len(q))
  /\ delivered' = <<>>

Clear == q' = <<>> /\ delivered' = <<>>

Next == Put \/ Clear \/ \E k \in 0 .. Len(q) : Take(k) \/ Discard(k)

Spec == Init /\ [][Next]_<<q, delivered>>

=============================================================================
