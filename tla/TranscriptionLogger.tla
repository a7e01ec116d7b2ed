------------------------ MODULE TranscriptionLogger ------------------------
(***************************************************************************)
(* class TranscriptionLogger of src/stream/stream.cpp: log() puts a        *)
(* transcription on a lock-free queue and wakes the writer thread, which   *)
(* collects a buffer and appends it to the log file when it has            *)
(* FlushThreshold entries, and once more when stop() ends it.              *)
(*                                                                         *)
(* One thread, main, calls log() and stop(); transcriptions are numbered   *)
(* in the order it logs them.  With one producer moodycamel's              *)
(* ConcurrentQueue is a FIFO queue.  m_cond_mutex is held over two steps   *)
(* in one place only, between the writer's test of the predicate and its   *)
(* wait (wpc = "blocking"), so it is not a variable.                       *)
(***************************************************************************)
EXTENDS Integers, Sequences, FiniteSets

CONSTANTS
  FlushThreshold,  \* m_flush_threshold
  MaxFaults        \* bound: failures of the log file in a behaviour
                   \* (assumptions: in TranscriptPipeline, which instantiates this)

VARIABLES
  m_initialized,  \* the constructor found and made the log directory
  m_running,
  m_new_data,
  m_queue,        \* numbers logged and not yet taken by the writer
  m_buffer,       \* numbers taken and not yet flushed
  accepted,       \* history: numbers log() has enqueued
  file,           \* what the log file holds
  lost,           \* history: numbers the writer dropped without writing
  faults,         \* failures of the file so far
  lpc,            \* place of main inside log() and stop()
  wpc             \* place of the writer thread

vars == <<m_initialized, m_running, m_new_data, m_queue, m_buffer, accepted,
          file, lost, faults, lpc, wpc>>

\* The constructor: without a usable directory there is no writer thread.
Init ==
  /\ m_initialized \in BOOLEAN
  /\ m_running = m_initialized
  /\ m_new_data = FALSE
  /\ m_queue = <<>>
  /\ m_buffer = <<>>
  /\ accepted = 0
  /\ file = <<>>
  /\ lost = {}
  /\ faults = 0
  /\ lpc = "out"
  /\ wpc = IF m_initialized THEN "test" ELSE "exited"

Holding == wpc = "blocking"   \* the writer owns m_cond_mutex

\* The writer is told to look again, if it is waiting: notify_one.
Wake == wpc' = IF wpc = "asleep" THEN "woken" ELSE wpc

\* What the writer waits for.
DataOrStop == m_new_data \/ ~m_running

\* Where the writer goes from a flush: on with its drain, or out.
AfterFlush == wpc' = IF wpc = "flush" THEN "drain" ELSE "exited"

-----------------------------------------------------------------------------
(* Faulty variants, used by no specification: see the definitions named.   *)

\* StopBegin: m_running loaded and never cleared.
FaultyStopBegin ==
  /\ lpc = "out"
  /\ m_running
  /\ lpc' = "stop"
  /\ UNCHANGED <<m_initialized, m_running, m_new_data, m_queue, m_buffer,
                 accepted, file, lost, faults, wpc>>

\* WriterTest: the drain after the loop left out.
FaultyWriterTest ==
  /\ wpc = "test"
  /\ wpc' = IF m_running THEN "check"
            ELSE IF m_buffer = <<>> THEN "exited" ELSE "flush_final"
  /\ UNCHANGED <<m_initialized, m_running, m_new_data, m_queue, m_buffer,
                 accepted, file, lost, faults, lpc>>

\* FillsUp: > in place of >=.
FaultyFillsUp == Len(m_buffer) + 1 > FlushThreshold

\* FlushOpenFails: the buffer cleared although nothing was written.
FaultyFlushOpenFails ==
  /\ wpc \in {"flush", "flush_final"}
  /\ faults < MaxFaults
  /\ faults' = faults + 1
  /\ m_buffer' = <<>>
  /\ AfterFlush
  /\ UNCHANGED <<m_initialized, m_running, m_new_data, m_queue, accepted, file,
                 lost, lpc>>

-----------------------------------------------------------------------------
(* log() and stop(), called by main.                                       *)

\* log: the queue first, then the flag under the mutex, then the notification.
LogEnqueue ==
  /\ lpc = "out"
  /\ m_initialized
  /\ accepted' = accepted + 1
  /\ m_queue' = Append(m_queue, accepted + 1)
  /\ lpc' = "flag"
  /\ UNCHANGED <<m_initialized, m_running, m_new_data, m_buffer, file, lost,
                 faults, wpc>>

LogFlag ==
  /\ lpc = "flag"
  /\ ~Holding
  /\ m_new_data' = TRUE
  /\ lpc' = "notify"
  /\ UNCHANGED <<m_initialized, m_running, m_queue, m_buffer, accepted, file,
                 lost, faults, wpc>>

LogNotify ==
  /\ lpc = "notify"
  /\ Wake
  /\ lpc' = "out"
  /\ UNCHANGED <<m_initialized, m_running, m_new_data, m_queue, m_buffer,
                 accepted, file, lost, faults>>

\* stop: m_running.exchange(false); the notification is given without the mutex
\* and may come before the writer sleeps; the join waits for wpc = "exited".
StopBegin ==
  /\ lpc = "out"
  /\ m_running
  /\ m_running' = FALSE
  /\ lpc' = "stop"
  /\ UNCHANGED <<m_initialized, m_new_data, m_queue, m_buffer, accepted, file,
                 lost, faults, wpc>>

StopNotify ==
  /\ lpc = "stop"
  /\ Wake
  /\ lpc' = "out"
  /\ UNCHANGED <<m_initialized, m_running, m_new_data, m_queue, m_buffer,
                 accepted, file, lost, faults>>

-----------------------------------------------------------------------------
(* The writer thread: writer_loop and flush_buffer_to_file.                *)

WriterTest ==
  /\ wpc = "test"
  /\ wpc' = IF m_running THEN "check" ELSE "final"
  /\ UNCHANGED <<m_initialized, m_running, m_new_data, m_queue, m_buffer,
                 accepted, file, lost, faults, lpc>>

\* wait_for with a predicate, and the reset of the flag before the unlock; after
\* a time-out the flag is reset whatever the predicate says.
WriterCheck ==
  /\ wpc \in {"check", "woken", "timedout"}
  /\ IF DataOrStop \/ wpc = "timedout"
       THEN m_new_data' = FALSE /\ wpc' = "drain"
       ELSE wpc' = "blocking" /\ UNCHANGED m_new_data
  /\ UNCHANGED <<m_initialized, m_running, m_queue, m_buffer, accepted, file,
                 lost, faults, lpc>>

WriterSleep ==
  /\ wpc = "blocking"
  /\ wpc' = "asleep"
  /\ UNCHANGED <<m_initialized, m_running, m_new_data, m_queue, m_buffer,
                 accepted, file, lost, faults, lpc>>

\* 100 ms have passed; or the wait ends spuriously.
WriterRouses ==
  /\ wpc = "asleep"
  /\ wpc' \in {"timedout", "woken"}
  /\ UNCHANGED <<m_initialized, m_running, m_new_data, m_queue, m_buffer,
                 accepted, file, lost, faults, lpc>>

\* One entry more makes the buffer due for a flush.
FillsUp == Len(m_buffer) + 1 >= FlushThreshold

\* One turn of the drain in the loop: a full buffer is flushed at once.
WriterDrain ==
  /\ wpc = "drain"
  /\ IF m_queue = <<>>
       THEN wpc' = "test" /\ UNCHANGED <<m_queue, m_buffer>>
       ELSE /\ m_buffer' = Append(m_buffer, Head(m_queue))
            /\ m_queue' = Tail(m_queue)
            /\ wpc' = IF FillsUp THEN "flush" ELSE "drain"
  /\ UNCHANGED <<m_initialized, m_running, m_new_data, accepted, file, lost,
                 faults, lpc>>

\* One turn of the drain after the loop: no flush before the queue is empty.
WriterFinal ==
  /\ wpc = "final"
  /\ IF m_queue = <<>>
       THEN /\ wpc' = IF m_buffer = <<>> THEN "exited" ELSE "flush_final"
            /\ UNCHANGED <<m_queue, m_buffer>>
       ELSE /\ m_buffer' = Append(m_buffer, Head(m_queue))
            /\ m_queue' = Tail(m_queue)
            /\ UNCHANGED wpc
  /\ UNCHANGED <<m_initialized, m_running, m_new_data, accepted, file, lost,
                 faults, lpc>>

FlushDone ==
  /\ wpc \in {"flush", "flush_final"}
  /\ file' = file \o m_buffer
  /\ m_buffer' = <<>>
  /\ AfterFlush
  /\ UNCHANGED <<m_initialized, m_running, m_new_data, m_queue, accepted, lost,
                 faults, lpc>>

\* The file does not open: the buffer is kept for the next flush, if any.
FlushOpenFails ==
  /\ wpc \in {"flush", "flush_final"}
  /\ faults < MaxFaults
  /\ faults' = faults + 1
  /\ AfterFlush
  /\ UNCHANGED <<m_initialized, m_running, m_new_data, m_queue, m_buffer,
                 accepted, file, lost, lpc>>

\* A write fails (a full disk): the stream ignores the entries that follow, and
\* the buffer is cleared all the same.
FlushWriteFails ==
  /\ wpc \in {"flush", "flush_final"}
  /\ faults < MaxFaults
  /\ faults' = faults + 1
  /\ \E k \in 0 .. Len(m_buffer) - 1 :
       /\ file' = file \o SubSeq(m_buffer, 1, k)
       /\ lost' = lost \cup {m_buffer[i] : i \in k + 1 .. Len(m_buffer)}
  /\ m_buffer' = <<>>
  /\ AfterFlush
  /\ UNCHANGED <<m_initialized, m_running, m_new_data, m_queue, accepted, lpc>>

Writer ==
  \/ WriterTest \/ WriterCheck \/ WriterSleep \/ WriterRouses
  \/ WriterDrain \/ WriterFinal
  \/ FlushDone \/ FlushOpenFails \/ FlushWriteFails

-----------------------------------------------------------------------------
(* Properties of the class, checked where it is used (TranscriptPipeline). *)

\* Each variable has its type; until the drain at the end, and as long as the
\* file works, the buffer stays within the capacity reserved for it.
TypeOK ==
  /\ (faults = 0 /\ wpc \notin {"final", "flush_final", "exited"}
        => Len(m_buffer) <= FlushThreshold)
  /\ m_initialized \in BOOLEAN /\ m_running \in BOOLEAN /\ m_new_data \in BOOLEAN
  /\ accepted \in Nat
  /\ m_queue \in Seq(1 .. accepted) /\ m_buffer \in Seq(1 .. accepted)
  /\ file \in Seq(1 .. accepted)
  /\ lost \subseteq 1 .. accepted
  /\ faults \in 0 .. MaxFaults
  /\ lpc \in {"out", "flag", "notify", "stop"}
  /\ wpc \in {"test", "check", "blocking", "asleep", "woken", "timedout", "drain",
              "flush", "final", "flush_final", "exited"}

\* The writer never sleeps over a transcription that has been logged: while it
\* does, log() has still to notify it.  (The 100 ms are no part of this.)
WriterNotified == wpc = "asleep" /\ m_queue # <<>> => lpc \in {"flag", "notify"}

\* When the writer has exited, nothing stays behind in memory but what the last
\* flush could not write.
Unwritten == IF wpc = "exited" THEN {m_buffer[i] : i \in DOMAIN m_buffer} ELSE {}

\* The class keeps the promises of a TranscriptLog.
Log == INSTANCE TranscriptLog
         WITH lost <- lost \cup Unwritten, closed <- wpc = "exited"

=============================================================================
