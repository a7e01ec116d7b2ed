------------------------- MODULE TranscriptionQueue -------------------------
(***************************************************************************)
(* class TranscriptionQueue of src/stream/stream.cpp: main pushes          *)
(* transcriptions, broadcast_thread pops them with wait_and_pop.  One      *)
(* producer, so moodycamel's ConcurrentQueue is a FIFO queue.              *)
(*                                                                         *)
(* The consumer owns `mutex` from the test of the predicate to the wait    *)
(* ("blocking"), and from a successful test to its return ("reset",        *)
(* "dequeue"); the producer's critical section is a single step.           *)
(***************************************************************************)
EXTENDS Integers, Sequences

VARIABLES
  is_running,  \* the global flag, read here and written elsewhere
  queue,
  new_data,
  ppc,         \* place of the producer inside push()
  cpc,         \* place of the consumer inside wait_and_pop()
  item         \* the transcription popped, 0 if wait_and_pop returned false

vars == <<is_running, queue, new_data, ppc, cpc, item>>

Init ==
  /\ queue = <<>>
  /\ new_data = FALSE
  /\ ppc = "out"
  /\ cpc = "out"
  /\ item = 0

Holding == cpc \in {"blocking", "reset", "dequeue"}

DataOrStop == new_data \/ ~is_running

\* A try_dequeue: the consumer's next place, and what it has got.
TryDequeue(found, empty) ==
  IF queue = <<>>
    THEN cpc' = empty /\ item' = 0 /\ UNCHANGED queue
    ELSE cpc' = found /\ item' = Head(queue) /\ queue' = Tail(queue)

-----------------------------------------------------------------------------
(* Faulty variants, used by no specification: see the definitions named.   *)

\* PushFlag: new_data set without the mutex.
FaultyPushFlag ==
  /\ ppc = "flag"
  /\ new_data' = TRUE
  /\ ppc' = "notify"
  /\ UNCHANGED <<is_running, queue, cpc, item>>

\* PopFast: the quick dequeue left out.
FaultyPopFast ==
  /\ cpc = "fast"
  /\ cpc' = "check"
  /\ UNCHANGED <<is_running, queue, new_data, ppc, item>>

\* PopRouses: wait in place of wait_for.
FaultyPopRouses == FALSE

\* PopAfterWait: is_running tested after the dequeue.
FaultyPopAfterWait ==
  /\ cpc = "dequeue"
  /\ cpc' = "out"
  /\ queue' = IF queue = <<>> THEN queue ELSE Tail(queue)
  /\ item' = IF queue = <<>> \/ ~is_running THEN 0 ELSE Head(queue)
  /\ UNCHANGED <<is_running, new_data, ppc>>

-----------------------------------------------------------------------------
(* push(x): the queue, the flag under the mutex, the notification.         *)

PushEnqueue(x) ==
  /\ ppc = "out"
  /\ queue' = Append(queue, x)
  /\ ppc' = "flag"
  /\ UNCHANGED <<is_running, new_data, cpc, item>>

PushFlag ==
  /\ ppc = "flag"
  /\ ~Holding
  /\ new_data' = TRUE
  /\ ppc' = "notify"
  /\ UNCHANGED <<is_running, queue, cpc, item>>

PushNotify ==
  /\ ppc = "notify"
  /\ cpc' = IF cpc = "asleep" THEN "woken" ELSE cpc
  /\ ppc' = "out"
  /\ UNCHANGED <<is_running, queue, new_data, item>>

-----------------------------------------------------------------------------
(* wait_and_pop.                                                           *)

\* The quick dequeue, without the mutex.
PopFast ==
  /\ cpc = "fast"
  /\ TryDequeue("out", "check")
  /\ UNCHANGED <<is_running, new_data, ppc>>

\* The predicate, under the mutex; after a time-out a last time.
PopCheck ==
  /\ cpc \in {"check", "woken", "timedout"}
  /\ cpc' = IF DataOrStop THEN "reset"
            ELSE IF cpc = "timedout" THEN "out" ELSE "blocking"
  /\ UNCHANGED <<is_running, queue, new_data, ppc, item>>

PopSleep ==
  /\ cpc = "blocking"
  /\ cpc' = "asleep"
  /\ UNCHANGED <<is_running, queue, new_data, ppc, item>>

\* 100 ms have passed, or the wait ends spuriously.  Nothing notifies the
\* consumer that is_running changed: it finds out this way.
PopRouses ==
  /\ cpc = "asleep"
  /\ cpc' \in {"timedout", "woken"}
  /\ UNCHANGED <<is_running, queue, new_data, ppc, item>>

PopReset ==
  /\ cpc = "reset"
  /\ new_data' = FALSE
  /\ cpc' = IF is_running THEN "dequeue" ELSE "out"
  /\ UNCHANGED <<is_running, queue, ppc, item>>

PopAfterWait ==
  /\ cpc = "dequeue"
  /\ TryDequeue("out", "out")
  /\ UNCHANGED <<is_running, new_data, ppc>>

Push == PushFlag \/ PushNotify

Pop == PopFast \/ PopCheck \/ PopSleep \/ PopRouses \/ PopReset \/ PopAfterWait

-----------------------------------------------------------------------------
(* Properties of the class, checked where it is used (TranscriptPipeline). *)

\* Each variable has its type.
TypeOK ==
  /\ is_running \in BOOLEAN /\ new_data \in BOOLEAN
  /\ queue \in Seq(Nat \ {0}) /\ item \in Nat
  /\ ppc \in {"out", "flag", "notify"}
  /\ cpc \in {"out", "fast", "check", "blocking", "asleep", "woken", "timedout",
              "reset", "dequeue", "exited"}

\* The consumer never sleeps over a transcription that has been pushed: while
\* it does, push() has still to notify it.  (The 100 ms are no part of this.)
ConsumerNotified == cpc = "asleep" /\ queue # <<>> => ppc \in {"flag", "notify"}

=============================================================================
