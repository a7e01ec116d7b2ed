-------------------------- MODULE AudioChunkBuffer --------------------------
(***************************************************************************)
(* class AudioChunkBuffer of src/stream2.wasm/audio-buffer.js: the ring in  *)
(* which the page collects utterances.  An object is a record of its        *)
(* fields; an operator is a method, and returns the object after the call.  *)
(***************************************************************************)
EXTENDS Integers, Sequences

CONSTANTS
  maxSamples,  \* capacity: 30 s of samples
  Sample       \* what a sample can be, the 0 of a new Float32Array included

ASSUME BufferAssumption == maxSamples \in Nat \ {0} /\ 0 \in Sample

Ring == [buf : [0 .. maxSamples - 1 -> Sample], head : 0 .. maxSamples - 1,
         len : 0 .. maxSamples]

NewRing == [buf |-> [k \in 0 .. maxSamples - 1 |-> 0], head |-> 0, len |-> 0]

\* (index) % cap, for an index below 2 * cap
Wrapped(index) == IF index < maxSamples THEN index ELSE index - maxSamples

\* _buf.set(chunk.subarray(from), at), as far as count samples.
Set(buf, at, chunk, from, count) ==
  [k \in 0 .. maxSamples - 1 |->
     IF k \in at .. at + count - 1 THEN chunk[from + (k - at) + 1] ELSE buf[k]]

\* A faulty variant of Dropped, used by no specification: the head stays.
FaultyDropped(ring, incoming) ==
  LET toDrop == ring.len + incoming - maxSamples
  IN  IF toDrop <= 0 THEN ring ELSE [ring EXCEPT !.len = @ - toDrop]

\* Another: nothing makes room.
FaultyRoom(ring, incoming) == ring

\* The oldest samples make room for as many as come in.
Dropped(ring, incoming) ==
  LET toDrop == ring.len + incoming - maxSamples
  IN  IF toDrop <= 0 THEN ring
      ELSE [ring EXCEPT !.head = Wrapped(@ + toDrop), !.len = @ - toDrop]

\* The chunk behind the newest sample, in two parts when it passes the end.
Written(ring, chunk) ==
  LET tail      == Wrapped(ring.head + ring.len)
      room      == maxSamples - tail
      firstPart == IF Len(chunk) < room THEN Len(chunk) ELSE room
      buf       == Set(ring.buf, tail, chunk, 0, firstPart)
  IN  [buf  |-> Set(buf, 0, chunk, firstPart, Len(chunk) - firstPart),
       head |-> ring.head,
       len  |-> ring.len + Len(chunk)]

\* append: of a chunk as large as the ring only the end counts.
append(ring, chunk) ==
  IF Len(chunk) >= maxSamples
    THEN [buf  |-> Set(ring.buf, 0, chunk, Len(chunk) - maxSamples, maxSamples),
          head |-> 0,
          len  |-> maxSamples]
    ELSE Written(Dropped(ring, Len(chunk)), chunk)

\* The first n samples, oldest first, in two parts when they pass the end.
Oldest(ring, n) ==
  LET room      == maxSamples - ring.head
      firstPart == IF n < room THEN n ELSE room
  IN  [i \in 1 .. n |->
         IF i <= firstPart THEN ring.buf[ring.head + i - 1]
         ELSE ring.buf[i - firstPart - 1]]

\* toFloat32Array
toFloat32Array(ring) == Oldest(ring, ring.len)

\* consume returns Oldest(ring, Count(ring, n)).
Count(ring, n) == IF n < ring.len THEN n ELSE ring.len

consume(ring, n) ==
  [ring EXCEPT !.head = Wrapped(@ + Count(ring, n)), !.len = @ - Count(ring, n)]

clear(ring) == [buf |-> ring.buf, head |-> 0, len |-> 0]

=============================================================================
