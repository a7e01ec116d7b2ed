------------------------- MODULE TranscriptPipeline -------------------------
(***************************************************************************)
(* What becomes of a transcription in the wstream server: main logs it,    *)
(* then queues it; the logger's writer thread puts it on disk, and         *)
(* broadcast_thread sends it to the clients.  At the end main clears       *)
(* is_running, joins broadcast_thread, stops the logger and returns.  A    *)
(* session that accepts a remote shutdown clears is_running as well, at    *)
(* any time, and main may set it again with its next poll.                 *)
(*                                                                         *)
(* Three threads: main (mpc, and lpc or ppc inside a call of log, stop or  *)
(* push), the writer (wpc) and broadcast_thread (cpc).  Transcriptions are *)
(* numbered; the registry of clients is SharedState's and here broadcast() *)
(* simply returns.  A crash of the process loses all but `file`, so what   *)
(* an invariant says of `file` in every state holds after a crash too.     *)
(***************************************************************************)
EXTENDS Integers, Sequences, FiniteSets

CONSTANTS
  FlushThreshold,     \* m_flush_threshold: 10 in main
  MaxFaults,          \* bound: failures of the log file in a behaviour
  MaxTranscriptions   \* bound: transcriptions in a behaviour

ASSUME PipelineAssumption ==
  /\ FlushThreshold \in Nat \ {0}
  /\ MaxFaults \in Nat
  /\ MaxTranscriptions \in Nat

VARIABLES
  \* TranscriptionLogger
  m_initialized, m_running, m_new_data, m_queue, m_buffer, accepted, file,
  lost, faults, lpc, wpc,
  \* TranscriptionQueue and the flag it reads
  is_running, queue, new_data, ppc, cpc, item,
  \* main and the clients
  mpc,    \* place of main
  made,   \* number of transcriptions made
  sent    \* history: what broadcast() was called with

loggerVars == <<m_initialized, m_running, m_new_data, m_queue, m_buffer,
                accepted, file, lost, faults, lpc, wpc>>
queueVars == <<is_running, queue, new_data, ppc, cpc, item>>
mainVars == <<mpc, made, sent>>
vars == <<loggerVars, queueVars, mainVars>>

L == INSTANCE TranscriptionLogger
Q == INSTANCE TranscriptionQueue

Init ==
  /\ L!Init
  /\ Q!Init
  /\ is_running = TRUE
  /\ mpc = "test"
  /\ made = 0
  /\ sent = <<>>

-----------------------------------------------------------------------------
(* main                                                                    *)

\* while (is_running)
LoopTest ==
  /\ mpc = "test"
  /\ mpc' = IF is_running THEN "poll" ELSE "down"
  /\ UNCHANGED <<loggerVars, queueVars, made, sent>>

\* is_running = sdl_poll_events(), again and again until a step of audio is there;
\* after a quit event main leaves the loop, from the inner one with one more
\* inference.
Poll ==
  /\ mpc = "poll"
  /\ is_running' \in BOOLEAN
  /\ mpc' \in IF is_running' THEN {"poll", "infer"} ELSE {"infer", "down"}
  /\ UNCHANGED <<loggerVars, queue, new_data, ppc, cpc, item, made, sent>>

\* Inference yields a non-empty text ...
Transcribe ==
  /\ mpc = "infer"
  /\ made < MaxTranscriptions
  /\ made' = made + 1
  /\ mpc' = IF m_initialized THEN "log" ELSE "push"
  /\ UNCHANGED <<loggerVars, queueVars, sent>>

\* ... or none, or it fails.
NoText ==
  /\ mpc = "infer"
  /\ mpc' \in {"test", "down"}
  /\ UNCHANGED <<loggerVars, queueVars, made, sent>>

\* transcription_logger.log: skipped by its first test if not initialised.
LogCall ==
  /\ mpc = "log"
  /\ \/ (L!LogEnqueue \/ L!LogFlag) /\ UNCHANGED mpc
     \/ L!LogNotify /\ mpc' = "push"
  /\ UNCHANGED <<queueVars, made, sent>>

PushCall ==
  /\ mpc = "push"
  /\ \/ (Q!PushEnqueue(made) \/ Q!PushFlag) /\ UNCHANGED mpc
     \/ Q!PushNotify /\ mpc' = "test"
  /\ UNCHANGED <<loggerVars, made, sent>>

\* The loop is left, and nothing sets is_running again.
Quit ==
  /\ mpc = "down"
  /\ is_running' = FALSE
  /\ mpc' = "join_bc"
  /\ UNCHANGED <<loggerVars, queue, new_data, ppc, cpc, item, made, sent>>

JoinBc ==
  /\ mpc = "join_bc"
  /\ cpc = "exited"
  /\ mpc' = "stop"
  /\ UNCHANGED <<loggerVars, queueVars, made, sent>>

\* transcription_logger.stop: a logger that never ran has nothing to stop.
StopCall ==
  /\ mpc = "stop"
  /\ \/ L!StopBegin /\ UNCHANGED mpc
     \/ L!StopNotify /\ mpc' = "join_log"
     \/ ~m_initialized /\ mpc' = "returned" /\ UNCHANGED loggerVars
  /\ UNCHANGED <<queueVars, made, sent>>

JoinLog ==
  /\ mpc = "join_log"
  /\ wpc = "exited"
  /\ mpc' = "returned"
  /\ UNCHANGED <<loggerVars, queueVars, made, sent>>

Main == LogCall \/ PushCall \/ Quit \/ JoinBc \/ StopCall \/ JoinLog

\* A session accepts "shutdown".
RemoteShutdown ==
  /\ mpc # "returned"
  /\ is_running
  /\ is_running' = FALSE
  /\ UNCHANGED <<loggerVars, mainVars, queue, new_data, ppc, cpc, item>>

-----------------------------------------------------------------------------
(* broadcast_thread and the writer thread                                  *)

\* while (is_running), then into wait_and_pop.
BcTest ==
  /\ cpc = "out"
  /\ item = 0
  /\ cpc' = IF is_running THEN "fast" ELSE "exited"
  /\ UNCHANGED <<loggerVars, mainVars, is_running, queue, new_data, ppc, item>>

Broadcast ==
  /\ cpc = "out"
  /\ item # 0
  /\ sent' = Append(sent, item)
  /\ item' = 0
  /\ UNCHANGED <<loggerVars, is_running, queue, new_data, ppc, cpc, mpc, made>>

Bc ==
  \/ BcTest \/ Broadcast
  \/ (Q!Pop /\ UNCHANGED <<loggerVars, mainVars>>)

WriterStep == L!Writer /\ UNCHANGED <<queueVars, mainVars>>

Finished == mpc = "returned" /\ UNCHANGED vars

Next ==
  \/ LoopTest \/ Poll \/ Transcribe \/ NoText \/ Main
  \/ RemoteShutdown \/ Bc \/ WriterStep \/ Finished

(***************************************************************************)
(* Fairness: each thread runs, and a mutex free again and again is taken   *)
(* by the thread that waits for it (main, for the mutex of a condition     *)
(* variable).  Nothing forces audio, a transcription, or the end.          *)
(***************************************************************************)
Spec == Init /\ [][Next]_vars

FairSpec == Spec /\ SF_vars(Main) /\ WF_vars(Bc) /\ WF_vars(WriterStep)

-----------------------------------------------------------------------------
(* Properties                                                              *)

\* How many transcriptions push() has put on the queue.
Pushed == IF mpc = "log" \/ (mpc = "push" /\ ppc = "out") THEN made - 1 ELSE made

\* What wait_and_pop has returned and broadcast() has not sent yet.
Held == IF item = 0 THEN <<>> ELSE <<item>>

\* Where broadcast_thread is, seen from outside of wait_and_pop: a wait that follows a
\* quick dequeue in vain is as good as a new turn of its loop.
Place ==
  CASE cpc = "exited" -> "exited"
    [] cpc \in {"fast", "dequeue"} -> "pop"
    [] item # 0 -> "call"
    [] OTHER -> "test"

Loop ==
  INSTANCE BroadcastLoop WITH
    pushed <- Pushed, popped <- Pushed - Len(queue), place <- Place

\* Each variable has its type.
TypeOK ==
  /\ L!TypeOK
  /\ Q!TypeOK
  /\ mpc \in {"test", "poll", "infer", "log", "push", "down", "join_bc", "stop",
              "join_log", "returned"}
  /\ made \in 0 .. MaxTranscriptions
  /\ sent \in Seq(1 .. made)

\* TranscriptionLogger keeps the promises of a log: order, no duplicate, no loss
\* without a failed file operation, nothing pending once it is stopped.
LogRefined == L!Log!Spec

\* The queue and broadcast_thread keep the promises StreamServer is built on: every
\* transcription pushed is taken once and broadcast before the next, however push,
\* time-outs and a shutdown meet inside wait_and_pop.
LoopRefined == Loop!Spec

\* "flushes every 10 transcriptions or on exit": when main returns, every
\* transcription made is in the file, in order, unless an operation on the file
\* failed; so what any client was ever sent is on disk as well.
ExitComplete ==
  mpc = "returned" /\ m_initialized /\ faults = 0 =>
    file = [i \in 1 .. made |-> i]

\* Neither thread sleeps while something waits in its queue, unless main is on
\* its way to notify it: delivery never depends on the 100 ms time-outs.
SleepersNotified == L!WriterNotified /\ Q!ConsumerNotified

\* The transcriptions broadcast, the one being broadcast and those queued are
\* all that were pushed, in order: wait_and_pop never drops or repeats one, not
\* even while the server shuts down.
NothingDropped == sent \o Held \o queue = [i \in 1 .. Pushed |-> i]

\* A transcription that was queued is broadcast, unless broadcast_thread has
\* found is_running false and left its loop.
Delivered ==
  \A i \in 1 .. MaxTranscriptions :
    (\E k \in DOMAIN queue : queue[k] = i)
      ~> ((\E k \in DOMAIN sent : sent[k] = i) \/ cpc = "exited")

\* Once main has left its loop both threads end and main returns, although
\* nobody notifies broadcast_thread and the writer may miss its notification.
ShutdownEnds == mpc = "down" ~> mpc = "returned"

=============================================================================
