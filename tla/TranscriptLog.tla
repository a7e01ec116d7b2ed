--------------------------- MODULE TranscriptLog ---------------------------
(***************************************************************************)
(* What the transcription log of wstream promises: transcriptions are      *)
(* accepted one after another, reach the file in that order, whole batches *)
(* at a time, each at most once, and none is lost unless an operation on   *)
(* the file failed.  When the log is closed nothing is pending any more.   *)
(* Transcriptions are numbered in the order they are accepted.             *)
(* TranscriptionLogger is the class that implements it.                    *)
(***************************************************************************)
EXTENDS Integers, Sequences, FiniteSets

VARIABLES
  accepted,   \* number of transcriptions accepted
  file,       \* the numbers written to the log file, in order
  lost,       \* the numbers that will never be written
  faults,     \* number of failed operations on the file
  closed      \* the log has been stopped

vars == <<accepted, file, lost, faults, closed>>

Settled == Len(file) + Cardinality(lost)

\* The numbers from a to b, in order.
Run(a, b) == [i \in 1 .. b - a + 1 |-> a + i - 1]

Init ==
  /\ accepted = 0
  /\ file = <<>>
  /\ lost = {}
  /\ faults = 0
  /\ closed \in BOOLEAN   \* a log that could not be set up is closed from the start

Accept ==
  /\ ~closed
  /\ accepted' = accepted + 1
  /\ UNCHANGED <<file, lost, faults, closed>>

\* The next batch, up to number n, is written as far as number k; what was not
\* written is lost, which takes a failure of the file.
Write(k, n) ==
  /\ file' = file \o Run(Settled + 1, k)
  /\ lost' = lost \cup (k + 1 .. n)
  /\ faults' = IF k < n THEN faults + 1 ELSE faults
  /\ UNCHANGED accepted

Flush ==
  /\ ~closed
  /\ \E n \in Settled + 1 .. accepted : \E k \in Settled .. n : Write(k, n)
  /\ UNCHANGED closed

\* The file cannot be opened: the batch is kept for later.
Retry ==
  /\ ~closed
  /\ faults' = faults + 1
  /\ UNCHANGED <<accepted, file, lost, closed>>

\* Closing writes, or gives up, all that is pending.
Close ==
  /\ ~closed
  /\ \E k \in Settled .. accepted : Write(k, accepted)
  /\ closed' = TRUE

Next == Accept \/ Flush \/ Retry \/ Close

Spec == Init /\ [][Next]_vars

=============================================================================
