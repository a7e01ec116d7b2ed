---------------------------- MODULE BoundedQueue ----------------------------
(***************************************************************************)
(* What AudioChunkBuffer promises (src/stream2.wasm/audio-buffer.js): a     *)
(* queue of samples that holds the newest ones when it is full.             *)
(***************************************************************************)
EXTENDS Integers, Sequences

CONSTANTS
  maxSamples,  \* capacity
  Chunk        \* the sequences of samples that may be appended

VARIABLE queue

\* The last n elements of a sequence, or all of them.
Newest(seq, n) == IF Len(seq) <= n THEN seq ELSE SubSeq(seq, Len(seq) - n + 1, Len(seq))

Init == queue = <<>>

Add(chunk) == queue' = Newest(queue \o chunk, maxSamples)

Consume(n) == queue' = SubSeq(queue, n + 1, Len(queue))

Clear == queue' = <<>>

Next ==
  \/ \E chunk \in Chunk : Add(chunk)
  \/ \E n \in 0 .. Len(queue) : Consume(n)
  \/ Clear

Spec == Init /\ [][Next]_queue

=============================================================================
