--------------------------- MODULE BroadcastLoop ---------------------------
(***************************************************************************)
(* What the threads of the server may rely on between push() and           *)
(* broadcast() (TranscriptionQueue, broadcast_thread): one transcription   *)
(* at a time is taken, none is taken that was not pushed, the next one is  *)
(* taken only after the call for the last one, wait_and_pop comes back     *)
(* with nothing only when nothing is queued or the server is going down,   *)
(* and the thread ends only on finding is_running false.                   *)
(*                                                                         *)
(* TranscriptPipeline implements this with a queue, a mutex and a          *)
(* condition variable; StreamServer uses it with two counters.             *)
(***************************************************************************)
EXTENDS Integers

VARIABLES
  is_running,
  pushed,     \* transcriptions pushed
  popped,     \* ... and taken
  place       \* of broadcast_thread: "test", "pop", "call" or "exited"

vars == <<is_running, pushed, popped, place>>

Init ==
  /\ is_running = TRUE
  /\ pushed = 0 /\ popped = 0
  /\ place = "test"

Goto(from, there) == place = from /\ place' = there

\* main and the sessions.
SetFlag == is_running' \in BOOLEAN /\ UNCHANGED <<pushed, popped, place>>

Push == pushed' = pushed + 1 /\ UNCHANGED <<is_running, popped, place>>

\* while (is_running)
Test ==
  /\ Goto("test", IF is_running THEN "pop" ELSE "exited")
  /\ UNCHANGED <<is_running, pushed, popped>>

\* wait_and_pop
Take ==
  /\ Goto("pop", "call")
  /\ popped < pushed /\ popped' = popped + 1
  /\ UNCHANGED <<is_running, pushed>>

Miss ==
  /\ Goto("pop", "test")
  /\ popped = pushed \/ ~is_running
  /\ UNCHANGED <<is_running, pushed, popped>>

\* broadcast
Call == Goto("call", "test") /\ UNCHANGED <<is_running, pushed, popped>>

Next == SetFlag \/ Push \/ Test \/ Take \/ Miss \/ Call

Spec == Init /\ [][Next]_vars

=============================================================================
