---------------------- MODULE TranscriptPipelineProofs ----------------------
(***************************************************************************)
(* Proofs about the way of a transcription (TranscriptPipeline), for any   *)
(* number of transcriptions, failures of the file and flush threshold:     *)
(* neither the writer thread nor broadcast_thread ever sleeps over an      *)
(* element of its queue that nobody is about to announce, and wait_and_pop *)
(* neither drops, repeats nor reorders a transcription.                    *)
(*                                                                         *)
(* Both wake-up proofs rest on the same argument: from its last look at    *)
(* the queue to its wake-up the consumer meets an element only together    *)
(* with the flag or with a producer about to set it (Flagged), and a       *)
(* consumer that is about to sleep or asleep has seen no flag but one      *)
(* whose notification is still to come (Announced).                        *)
(***************************************************************************)
EXTENDS TranscriptPipeline, SequenceTheorems, TLAPS

USE PipelineAssumption

\* Places of the consumer between the quick dequeue and the reset of the flag.
Waiting == {"check", "blocking", "asleep", "woken", "timedout"}

QFlagged == cpc \in Waiting /\ queue # <<>> => new_data \/ ppc = "flag"
QAnnounced ==
  /\ cpc = "blocking" => ~new_data
  /\ cpc = "asleep" /\ new_data => ppc = "notify"

QWakeInv ==
  /\ new_data \in BOOLEAN
  /\ ppc \in {"out", "flag", "notify"}
  /\ QFlagged
  /\ QAnnounced

\* The writer looks at its queue last when it drains it.
LFlagged == wpc \in Waiting \cup {"test"} /\ m_queue # <<>> => m_new_data \/ lpc = "flag"
LAnnounced ==
  /\ wpc = "blocking" => ~m_new_data
  /\ wpc = "asleep" /\ m_new_data => lpc = "notify"

LWakeInv ==
  /\ m_new_data \in BOOLEAN
  /\ lpc \in {"out", "flag", "notify", "stop"}
  /\ LFlagged
  /\ LAnnounced

-----------------------------------------------------------------------------

\* A step that touches nothing of the queue keeps what is said of it.
LEMMA QueueUntouched ==
  ASSUME QWakeInv, UNCHANGED <<queue, new_data, ppc, cpc>>
  PROVE  QWakeInv'
BY DEF QWakeInv, QFlagged, QAnnounced

\* The same for the logger.
LEMMA LoggerUntouched ==
  ASSUME LWakeInv, UNCHANGED <<m_queue, m_new_data, lpc, wpc>>
  PROVE  LWakeInv'
BY DEF LWakeInv, LFlagged, LAnnounced

\* push() keeps it.
LEMMA PushWake ==
  ASSUME QWakeInv, PushCall
  PROVE  QWakeInv'
<1> USE DEF QWakeInv, QFlagged, QAnnounced, Waiting
<1>1. CASE Q!PushEnqueue(made) BY <1>1 DEF Q!PushEnqueue
<1>2. CASE Q!PushFlag BY <1>2 DEF Q!PushFlag, Q!Holding
<1>3. CASE Q!PushNotify BY <1>3 DEF Q!PushNotify
<1> QED BY <1>1, <1>2, <1>3 DEF PushCall

\* broadcast_thread keeps it.
LEMMA BcWake ==
  ASSUME QWakeInv, Bc
  PROVE  QWakeInv'
<1> USE DEF QWakeInv, QFlagged, QAnnounced, Waiting
<1>1. CASE BcTest BY <1>1 DEF BcTest
<1>2. CASE Broadcast BY <1>2 DEF Broadcast
<1>3. CASE Q!PopFast BY <1>3 DEF Q!PopFast, Q!TryDequeue
<1>4. CASE Q!PopCheck BY <1>4 DEF Q!PopCheck, Q!DataOrStop
<1>5. CASE Q!PopSleep BY <1>5 DEF Q!PopSleep
<1>6. CASE Q!PopRouses BY <1>6 DEF Q!PopRouses
<1>7. CASE Q!PopReset BY <1>7 DEF Q!PopReset
<1>8. CASE Q!PopAfterWait BY <1>8 DEF Q!PopAfterWait, Q!TryDequeue
<1> QED BY <1>1, <1>2, <1>3, <1>4, <1>5, <1>6, <1>7, <1>8 DEF Bc, Q!Pop

\* log() and stop() keep the writer's.
LEMMA LogWake ==
  ASSUME LWakeInv, LogCall
  PROVE  LWakeInv'
<1> USE DEF LWakeInv, LFlagged, LAnnounced, Waiting
<1>1. CASE L!LogEnqueue BY <1>1 DEF L!LogEnqueue
<1>2. CASE L!LogFlag BY <1>2 DEF L!LogFlag, L!Holding
<1>3. CASE L!LogNotify BY <1>3 DEF L!LogNotify, L!Wake
<1> QED BY <1>1, <1>2, <1>3 DEF LogCall

\* stop() keeps it: who sleeps is notified, and who is about to is woken by the time-out.
LEMMA StopWake ==
  ASSUME LWakeInv, StopCall
  PROVE  LWakeInv'
<1> USE DEF LWakeInv, LFlagged, LAnnounced, Waiting
<1>1. CASE L!StopBegin BY <1>1 DEF L!StopBegin
<1>2. CASE L!StopNotify BY <1>2 DEF L!StopNotify, L!Wake
<1>3. CASE UNCHANGED loggerVars BY <1>3, LoggerUntouched DEF loggerVars
<1> QED BY <1>1, <1>2, <1>3 DEF StopCall

\* The writer thread keeps them.
LEMMA WriterWake ==
  ASSUME LWakeInv, WriterStep
  PROVE  LWakeInv'
<1> USE DEF LWakeInv, LFlagged, LAnnounced, Waiting
<1>1. CASE L!WriterTest BY <1>1 DEF L!WriterTest
<1>2. CASE L!WriterCheck BY <1>2 DEF L!WriterCheck, L!DataOrStop
<1>3. CASE L!WriterSleep BY <1>3 DEF L!WriterSleep
<1>4. CASE L!WriterRouses BY <1>4 DEF L!WriterRouses
<1>5. CASE L!WriterDrain BY <1>5 DEF L!WriterDrain
<1>6. CASE L!WriterFinal BY <1>6 DEF L!WriterFinal
<1>7. CASE L!FlushDone BY <1>7 DEF L!FlushDone, L!AfterFlush
<1>8. CASE L!FlushOpenFails BY <1>8 DEF L!FlushOpenFails, L!AfterFlush
<1>9. CASE L!FlushWriteFails BY <1>9 DEF L!FlushWriteFails, L!AfterFlush
<1> QED
  BY <1>1, <1>2, <1>3, <1>4, <1>5, <1>6, <1>7, <1>8, <1>9 DEF WriterStep, L!Writer

\* Both hold in every behaviour of the pipeline.
LEMMA WakeInvariance == Spec => [](QWakeInv /\ LWakeInv)
<1>1. Init => QWakeInv /\ LWakeInv
  BY DEF Init, L!Init, Q!Init, QWakeInv, QFlagged, QAnnounced, LWakeInv,
         LFlagged, LAnnounced, Waiting
<1>2. QWakeInv /\ LWakeInv /\ [Next]_vars => (QWakeInv /\ LWakeInv)'
  <2> SUFFICES ASSUME QWakeInv, LWakeInv, [Next]_vars
               PROVE  QWakeInv' /\ LWakeInv'
    OBVIOUS
  <2> USE QueueUntouched, LoggerUntouched DEF loggerVars, queueVars, mainVars
  <2>1. CASE LoopTest \/ Poll \/ Transcribe \/ NoText
    BY <2>1 DEF LoopTest, Poll, Transcribe, NoText
  <2>2. CASE Quit \/ RemoteShutdown BY <2>2 DEF Quit, RemoteShutdown
  <2>3. CASE LogCall BY <2>3, LogWake DEF LogCall
  <2>4. CASE PushCall BY <2>4, PushWake DEF PushCall
  <2>5. CASE JoinBc \/ JoinLog BY <2>5 DEF JoinBc, JoinLog
  <2>6. CASE StopCall BY <2>6, StopWake DEF StopCall
  <2>7. CASE Bc
    <3>1. UNCHANGED loggerVars BY <2>7 DEF Bc, BcTest, Broadcast
    <3> QED BY <2>7, <3>1, BcWake
  <2>8. CASE WriterStep BY <2>8, WriterWake DEF WriterStep
  <2>9. CASE UNCHANGED vars BY <2>9 DEF vars
  <2> QED
    BY <2>1, <2>2, <2>3, <2>4, <2>5, <2>6, <2>7, <2>8, <2>9 DEF Next, Main, Finished
<1> QED BY <1>1, <1>2, PTL DEF Spec

\* No lost wake-up: broadcast_thread and the writer never sleep over a transcription
\* unless main, in push() or in log(), is about to notify them.
THEOREM SleepersAreNotified == Spec => []SleepersNotified
<1>1. QWakeInv => Q!ConsumerNotified
  BY DEF QWakeInv, QFlagged, QAnnounced, Waiting, Q!ConsumerNotified
<1>2. LWakeInv => L!WriterNotified
  BY DEF LWakeInv, LFlagged, LAnnounced, Waiting, L!WriterNotified
<1>3. QWakeInv /\ LWakeInv => SleepersNotified BY <1>1, <1>2 DEF SleepersNotified
<1> QED BY WakeInvariance, <1>3, PTL

-----------------------------------------------------------------------------

\* Transcriptions taken from the queue.
Taken == IF item = 0 THEN Len(sent) ELSE Len(sent) + 1

OrderType ==
  /\ made \in Nat /\ item \in Nat /\ queue \in Seq(Nat) /\ sent \in Seq(Nat)
  /\ mpc # "push" => ppc = "out"
  /\ cpc # "out" => item = 0

\* NothingDropped, element by element.
InOrder ==
  /\ Taken + Len(queue) = Pushed
  /\ \A i \in 1 .. Len(sent) : sent[i] = i
  /\ item # 0 => item = Len(sent) + 1
  /\ \A i \in 1 .. Len(queue) : queue[i] = Taken + i

OrderInv == OrderType /\ InOrder

\* Taking the head of the queue keeps the order.
LEMMA TakeHead ==
  ASSUME OrderInv, item = 0, queue # <<>>,
         queue' = Tail(queue), item' = Head(queue),
         cpc' = "out", UNCHANGED <<made, sent, mpc, ppc>>
  PROVE  OrderInv'
<1> USE DEF OrderInv, OrderType, InOrder, Taken, Pushed
<1>1. Len(queue) \in Nat /\ Len(queue) >= 1 /\ Head(queue) = queue[1]
  OBVIOUS
<1>2. Head(queue) = Len(sent) + 1
  BY <1>1
<1>3. Len(queue') = Len(queue) - 1 /\ queue' \in Seq(Nat)
  OBVIOUS
<1>4. \A i \in 1 .. Len(queue') : queue'[i] = queue[i + 1]
  OBVIOUS
<1>5. Taken' = Taken + 1
  BY <1>2
<1>6. \A i \in 1 .. Len(queue') : queue'[i] = Taken' + i
  <2> SUFFICES ASSUME NEW i \in 1 .. Len(queue') PROVE queue'[i] = Taken' + i
    OBVIOUS
  <2>1. i + 1 \in 1 .. Len(queue) /\ queue'[i] = queue[i + 1]
    BY <1>1, <1>3, <1>4
  <2>2. queue[i + 1] = Taken + (i + 1)
    BY <2>1
  <2> QED BY <2>1, <2>2, <1>5
<1> QED BY <1>1, <1>2, <1>3, <1>5, <1>6

\* A step of broadcast_thread or of main keeps it.
LEMMA BcOrder ==
  ASSUME OrderInv, Bc
  PROVE  OrderInv'
<1> USE DEF OrderInv, OrderType, InOrder, Taken, Pushed, mainVars
<1>1. CASE BcTest BY <1>1 DEF BcTest
<1>2. CASE Broadcast
  <2>1. /\ sent' = Append(sent, item) /\ item' = 0 /\ item # 0
        /\ UNCHANGED <<queue, made, ppc, cpc, mpc>>
    BY <1>2 DEF Broadcast
  <2>2. /\ sent' \in Seq(Nat) /\ Len(sent') = Len(sent) + 1
        /\ \A i \in 1 .. Len(sent') : sent'[i] = i
    BY <2>1
  <2>3. Taken' = Taken
    BY <2>1, <2>2
  <2> QED BY <2>1, <2>2, <2>3
<1>3. CASE Q!PopFast /\ UNCHANGED mainVars
  BY <1>3, TakeHead DEF Q!PopFast, Q!TryDequeue
<1>4. CASE Q!PopCheck /\ UNCHANGED mainVars BY <1>4 DEF Q!PopCheck
<1>5. CASE Q!PopSleep /\ UNCHANGED mainVars BY <1>5 DEF Q!PopSleep
<1>6. CASE Q!PopRouses /\ UNCHANGED mainVars BY <1>6 DEF Q!PopRouses
<1>7. CASE Q!PopReset /\ UNCHANGED mainVars BY <1>7 DEF Q!PopReset
<1>8. CASE Q!PopAfterWait /\ UNCHANGED mainVars
  BY <1>8, TakeHead DEF Q!PopAfterWait, Q!TryDequeue
<1> QED BY <1>1, <1>2, <1>3, <1>4, <1>5, <1>6, <1>7, <1>8 DEF Bc, Q!Pop

\* push() appends the number that is due.
LEMMA PushOrder ==
  ASSUME OrderInv, PushCall
  PROVE  OrderInv'
<1> USE DEF OrderInv, OrderType, InOrder, Taken, Pushed
<1>1. CASE Q!PushEnqueue(made)
  <2>1. /\ ppc = "out" /\ ppc' = "flag" /\ mpc = "push" /\ mpc' = "push"
        /\ queue' = Append(queue, made)
        /\ UNCHANGED <<cpc, item, made, sent>>
    BY <1>1 DEF PushCall, Q!PushEnqueue, Q!PushNotify
  <2>2. made = Taken + Len(queue) + 1
    BY <2>1
  <2>3. queue' \in Seq(Nat) /\ Len(queue') = Len(queue) + 1
    BY <2>1
  <2>4. \A i \in 1 .. Len(queue') : queue'[i] = Taken + i
    <3> SUFFICES ASSUME NEW i \in 1 .. Len(queue') PROVE queue'[i] = Taken + i
      OBVIOUS
    <3>1. CASE i \in 1 .. Len(queue) BY <3>1, <2>1
    <3>2. CASE i = Len(queue) + 1
      <4>1. queue'[i] = made BY <3>2, <2>1
      <4>2. Taken \in Nat /\ Len(queue) \in Nat OBVIOUS
      <4>3. Taken + i = made
        <5> HIDE DEF Taken, Pushed, OrderInv, OrderType, InOrder
        <5> QED BY <3>2, <4>2, <2>2
      <4> QED BY <4>1, <4>3
    <3> QED BY <3>1, <3>2, <2>3
  <2>5. Taken' = Taken /\ Pushed' = made
    BY <2>1
  <2>6. InOrder'
    <3>1. Taken' + Len(queue') = Pushed'
      <4>1. Taken \in Nat /\ Len(queue) \in Nat OBVIOUS
      <4> HIDE DEF Taken, Pushed, OrderInv, OrderType, InOrder
      <4> QED BY <2>2, <2>3, <2>5, <4>1
    <3>2. /\ \A i \in 1 .. Len(sent') : sent'[i] = i
          /\ item' # 0 => item' = Len(sent') + 1
      BY <2>1
    <3>3. \A i \in 1 .. Len(queue') : queue'[i] = Taken' + i
      <4> HIDE DEF Taken, Pushed, OrderInv, OrderType, InOrder
      <4> QED BY <2>4, <2>5
    <3> HIDE DEF Taken, Pushed, OrderInv, OrderType
    <3> QED BY <3>1, <3>2, <3>3
  <2>7. OrderType'
    BY <2>1, <2>3
  <2> QED BY <2>6, <2>7
<1>2. CASE Q!PushFlag BY <1>2 DEF Q!PushFlag, PushCall, Q!PushEnqueue, Q!PushNotify
<1>3. CASE Q!PushNotify BY <1>3 DEF Q!PushNotify, PushCall, Q!PushEnqueue, Q!PushFlag
<1> QED BY <1>1, <1>2, <1>3 DEF PushCall

\* ... in every behaviour.
LEMMA OrderInvariance == Spec => []OrderInv
<1>1. Init => OrderInv
  BY DEF Init, Q!Init, OrderInv, OrderType, InOrder, Taken, Pushed
<1>2. OrderInv /\ [Next]_vars => OrderInv'
  <2> SUFFICES ASSUME OrderInv, [Next]_vars PROVE OrderInv'
    OBVIOUS
  <2> USE DEF queueVars, mainVars
  <2>1. CASE Transcribe
    BY <2>1 DEF Transcribe, OrderInv, OrderType, InOrder, Taken, Pushed
  <2>2. CASE LoopTest \/ Poll \/ NoText \/ Quit \/ RemoteShutdown
    <3>1. /\ \/ UNCHANGED mpc
             \/ mpc \notin {"log", "push"} /\ mpc' \notin {"log", "push"}
          /\ UNCHANGED <<queue, ppc, cpc, item, made, sent>>
      BY <2>2 DEF LoopTest, Poll, NoText, Quit, RemoteShutdown
    <3> QED BY <3>1 DEF OrderInv, OrderType, InOrder, Taken, Pushed
  <2>3. CASE LogCall
    BY <2>3 DEF LogCall, OrderInv, OrderType, InOrder, Taken, Pushed
  <2>4. CASE PushCall BY <2>4, PushOrder
  <2>5. CASE JoinBc \/ JoinLog
    <3>1. /\ mpc \notin {"log", "push"} /\ mpc' \notin {"log", "push"}
          /\ UNCHANGED <<queue, ppc, cpc, item, made, sent>>
      BY <2>5 DEF JoinBc, JoinLog
    <3> QED BY <3>1 DEF OrderInv, OrderType, InOrder, Taken, Pushed
  <2>6. CASE StopCall
    BY <2>6 DEF StopCall, OrderInv, OrderType, InOrder, Taken, Pushed
  <2>7. CASE Bc BY <2>7, BcOrder
  <2>8. CASE WriterStep
    BY <2>8 DEF WriterStep, OrderInv, OrderType, InOrder, Taken, Pushed
  <2>9. CASE UNCHANGED vars
    BY <2>9 DEF vars, OrderInv, OrderType, InOrder, Taken, Pushed
  <2> QED
    BY <2>1, <2>2, <2>3, <2>4, <2>5, <2>6, <2>7, <2>8, <2>9 DEF Next, Main, Finished
<1> QED BY <1>1, <1>2, PTL DEF Spec

\* wait_and_pop and broadcast_thread together neither drop, repeat nor reorder a
\* transcription, not even while the server shuts down.
THEOREM DeliveryInOrder == Spec => []NothingDropped
<1>1. OrderInv => NothingDropped
  <2> SUFFICES ASSUME OrderInv PROVE NothingDropped
    OBVIOUS
  <2> USE DEF OrderInv, OrderType, InOrder, Taken, Held
  <2> DEFINE all == sent \o Held \o queue
  <2>1. Held \in Seq(Nat) /\ Len(sent) + Len(Held) = Taken
    OBVIOUS
  <2>2. all \in Seq(Nat) /\ Len(all) = Pushed
    BY <2>1
  <2>3. \A i \in 1 .. Pushed : all[i] = i
    <3> SUFFICES ASSUME NEW i \in 1 .. Pushed PROVE all[i] = i
      OBVIOUS
    <3>1. CASE i <= Len(sent) BY <3>1, <2>1, <2>2
    <3>2. CASE i > Len(sent) /\ i <= Taken BY <3>2, <2>1, <2>2
    <3>3. CASE i > Taken
      <4>1. all[i] = queue[i - Taken] BY <3>3, <2>1, <2>2
      <4>2. i - Taken \in 1 .. Len(queue) BY <3>3
      <4>3. queue[i - Taken] = Taken + (i - Taken) BY <4>2
      <4>4. Taken \in Nat OBVIOUS
      <4> QED BY <4>1, <4>3, <4>4
    <3> QED BY <3>1, <3>2, <3>3, <2>1, <2>2
  <2> QED BY <2>2, <2>3 DEF NothingDropped
<1> QED BY OrderInvariance, <1>1, PTL

-----------------------------------------------------------------------------

\* A buffer that is not being flushed has room for one entry more, until the drain
\* at the end and as long as the file works.
Room ==
  faults = 0 /\ wpc \notin {"flush", "final", "flush_final", "exited"}
    => Len(m_buffer) < FlushThreshold

\* The places, the counters and the queues of numbers; what the queue of
\* transcriptions and `sent` hold follows from their order.
PlaceType ==
  /\ L!TypeOK /\ Room
  /\ is_running \in BOOLEAN /\ new_data \in BOOLEAN
  /\ ppc \in {"out", "flag", "notify"}
  /\ cpc \in {"out", "fast", "check", "blocking", "asleep", "woken", "timedout",
              "reset", "dequeue", "exited"}
  /\ mpc \in {"test", "poll", "infer", "log", "push", "down", "join_bc", "stop",
              "join_log", "returned"}
  /\ made \in 0 .. MaxTranscriptions

\* What a step of the logger that touches neither queue, buffer nor file keeps.
LEMMA LoggerMoves ==
  ASSUME L!TypeOK, Room,
         UNCHANGED <<m_initialized, m_queue, m_buffer, accepted, file, lost, faults>>,
         m_running' \in BOOLEAN, m_new_data' \in BOOLEAN,
         lpc' \in {"out", "flag", "notify", "stop"},
         \/ wpc' = wpc
         \/ /\ wpc' \in {"test", "check", "blocking", "asleep", "woken", "timedout",
                         "drain", "final"}
            /\ wpc \notin {"flush", "final", "flush_final", "exited"}
  PROVE  L!TypeOK' /\ Room'
BY DEF L!TypeOK, Room

\* log() and stop() keep the logger's types.
LEMMA CallsType ==
  ASSUME L!TypeOK, Room, LogCall \/ StopCall
  PROVE  L!TypeOK' /\ Room'
<1>1. CASE L!LogEnqueue
  <2>1. /\ accepted' = accepted + 1 /\ m_queue' = Append(m_queue, accepted + 1)
        /\ lpc' = "flag"
        /\ UNCHANGED <<m_initialized, m_running, m_new_data, m_buffer, file, lost,
                       faults, wpc>>
    BY <1>1 DEF L!LogEnqueue
  <2>2. accepted \in Nat /\ m_queue \in Seq(1 .. accepted) /\ m_buffer \in Seq(1 .. accepted)
        /\ file \in Seq(1 .. accepted) /\ lost \subseteq 1 .. accepted
    BY DEF L!TypeOK
  <2>3. 1 .. accepted \subseteq 1 .. accepted' /\ accepted' \in 1 .. accepted'
    BY <2>1, <2>2
  <2>4. m_queue \in Seq(1 .. accepted') /\ m_buffer' \in Seq(1 .. accepted')
        /\ file' \in Seq(1 .. accepted') /\ lost' \subseteq 1 .. accepted'
    BY <2>1, <2>2, <2>3
  <2>5. m_queue' \in Seq(1 .. accepted')
    BY <2>1, <2>3, <2>4, AppendProperties
  <2>6. accepted' \in Nat BY <2>1, <2>2
  <2> QED BY <2>1, <2>4, <2>5, <2>6 DEF L!TypeOK, Room
<1>2. CASE ~L!LogEnqueue
  <2>1. /\ UNCHANGED <<m_initialized, m_queue, m_buffer, accepted, file, lost, faults>>
        /\ m_running' \in BOOLEAN /\ m_new_data' \in BOOLEAN
        /\ lpc' \in {"out", "flag", "notify", "stop"}
        /\ wpc' = wpc \/ (wpc = "asleep" /\ wpc' = "woken")
    BY <1>2, Zenon DEF LogCall, StopCall, L!LogFlag, L!LogNotify, L!StopBegin, L!StopNotify,
                L!Wake, loggerVars, L!TypeOK
  <2> QED BY <2>1, LoggerMoves
<1> QED BY <1>1, <1>2

\* A sequence whose elements are all in S is one over S.
LEMMA SeqOver ==
  ASSUME NEW S, NEW T, NEW q \in Seq(T), \A i \in 1 .. Len(q) : q[i] \in S
  PROVE  q \in Seq(S)
OBVIOUS

\* Taking one entry from the queue into the buffer.
LEMMA TakeType ==
  ASSUME L!TypeOK, m_queue # <<>>
  PROVE  /\ Append(m_buffer, Head(m_queue)) \in Seq(1 .. accepted)
         /\ Len(Append(m_buffer, Head(m_queue))) = Len(m_buffer) + 1
         /\ Tail(m_queue) \in Seq(1 .. accepted)
<1>1. m_queue \in Seq(1 .. accepted) /\ m_buffer \in Seq(1 .. accepted)
  BY DEF L!TypeOK
<1>2. Head(m_queue) \in 1 .. accepted /\ Tail(m_queue) \in Seq(1 .. accepted)
  BY <1>1, HeadTailProperties
<1> QED BY <1>1, <1>2

\* The writer thread keeps them.
LEMMA WriterType ==
  ASSUME L!TypeOK, Room, WriterStep
  PROVE  L!TypeOK' /\ Room'
<1>1. CASE L!WriterTest \/ L!WriterCheck \/ L!WriterSleep \/ L!WriterRouses
  <2>1. /\ UNCHANGED <<m_initialized, m_running, m_queue, m_buffer, accepted, file, lost,
                       faults, lpc>>
        /\ m_new_data' = m_new_data \/ m_new_data' = FALSE
        /\ wpc' \in {"check", "final", "drain", "blocking", "asleep", "timedout", "woken"}
        /\ wpc \in {"test", "check", "woken", "timedout", "blocking", "asleep"}
    BY <1>1 DEF L!WriterTest, L!WriterCheck, L!WriterSleep, L!WriterRouses
  <2>2. m_new_data' \in BOOLEAN BY <2>1, Zenon DEF L!TypeOK
  <2>3. m_running' \in BOOLEAN /\ lpc' \in {"out", "flag", "notify", "stop"}
    BY <2>1 DEF L!TypeOK
  <2> QED BY <2>1, <2>2, <2>3, LoggerMoves
<1>2. CASE L!WriterDrain
  <2>1. CASE m_queue = <<>>
    BY <1>2, <2>1 DEF L!WriterDrain, L!TypeOK, Room
  <2>2. CASE m_queue # <<>>
    <3>1. /\ m_buffer' = Append(m_buffer, Head(m_queue)) /\ m_queue' = Tail(m_queue)
          /\ wpc = "drain"
          /\ wpc' = IF Len(m_buffer) + 1 >= FlushThreshold THEN "flush" ELSE "drain"
          /\ UNCHANGED <<m_initialized, m_running, m_new_data, accepted, file, lost,
                         faults, lpc>>
      BY <1>2, <2>2 DEF L!WriterDrain, L!FillsUp
    <3>2. m_buffer' \in Seq(1 .. accepted) /\ m_queue' \in Seq(1 .. accepted)
          /\ Len(m_buffer') = Len(m_buffer) + 1
      BY <2>2, <3>1, TakeType
    <3>3. Len(m_buffer) \in Nat BY DEF L!TypeOK
    <3>4. faults = 0 => Len(m_buffer) < FlushThreshold BY <3>1 DEF Room
    <3>5. Room' BY <3>1, <3>2, <3>3 DEF Room
    <3>6. faults' = 0 => Len(m_buffer') <= FlushThreshold BY <3>1, <3>2, <3>3, <3>4
    <3>7. wpc' \in {"flush", "drain"} BY <3>1
    <3> QED BY <3>1, <3>2, <3>5, <3>6, <3>7 DEF L!TypeOK
  <2> QED BY <2>1, <2>2
<1>3. CASE L!WriterFinal
  <2>1. CASE m_queue = <<>>
    BY <1>3, <2>1 DEF L!WriterFinal, L!TypeOK, Room
  <2>2. CASE m_queue # <<>>
    BY <1>3, <2>2, TakeType DEF L!WriterFinal, L!TypeOK, Room
  <2> QED BY <2>1, <2>2
<1>4. CASE L!FlushDone
  <2>1. file' \in Seq(1 .. accepted) /\ m_buffer' \in Seq(1 .. accepted) /\ Len(m_buffer') = 0
    BY <1>4 DEF L!FlushDone, L!TypeOK
  <2> QED BY <1>4, <2>1 DEF L!FlushDone, L!AfterFlush, L!TypeOK, Room
<1>5. CASE L!FlushOpenFails
  BY <1>5 DEF L!FlushOpenFails, L!AfterFlush, L!TypeOK, Room
<1>6. CASE L!FlushWriteFails
  <2>1. PICK k \in 0 .. Len(m_buffer) - 1 :
          /\ file' = file \o SubSeq(m_buffer, 1, k)
          /\ lost' = lost \cup {m_buffer[i] : i \in k + 1 .. Len(m_buffer)}
    BY <1>6 DEF L!FlushWriteFails
  <2>2. m_buffer \in Seq(1 .. accepted) /\ Len(m_buffer) \in Nat /\ file \in Seq(1 .. accepted)
        /\ lost \subseteq 1 .. accepted
    BY DEF L!TypeOK
  <2>3. \A i \in 1 .. Len(m_buffer) : m_buffer[i] \in 1 .. accepted
    BY <2>2, ElementOfSeq
  <2>4. SubSeq(m_buffer, 1, k) \in Seq(1 .. accepted)
    <3>1. k \in Int /\ \A i \in 1 .. k : m_buffer[i] \in 1 .. accepted
      BY <2>2, <2>3
    <3> QED BY <3>1, SubSeqProperties
  <2>5. file' \in Seq(1 .. accepted) BY <2>1, <2>2, <2>4
  <2>6. lost' \subseteq 1 .. accepted
    <3>1. k + 1 .. Len(m_buffer) \subseteq 1 .. Len(m_buffer) BY <2>2
    <3>2. {m_buffer[i] : i \in k + 1 .. Len(m_buffer)} \subseteq 1 .. accepted
      BY <2>3, <3>1
    <3> QED BY <2>1, <2>2, <3>2
  <2>7. m_buffer' \in Seq(1 .. accepted) /\ Len(m_buffer') = 0
    BY <1>6 DEF L!FlushWriteFails
  <2> QED
    BY <1>6, <2>5, <2>6, <2>7 DEF L!FlushWriteFails, L!AfterFlush, L!TypeOK, Room
<1> QED BY <1>1, <1>2, <1>3, <1>4, <1>5, <1>6 DEF WriterStep, L!Writer

\* The places hold in every behaviour.
LEMMA PlaceInvariance == Spec => []PlaceType
<1>1. Init => PlaceType
  <2> SUFFICES ASSUME Init PROVE PlaceType
    OBVIOUS
  <2>1. <<>> \in Seq(1 .. 0) /\ Len(<<>>) = 0 OBVIOUS
  <2>2. m_queue \in Seq(1 .. accepted) /\ m_buffer \in Seq(1 .. accepted)
        /\ file \in Seq(1 .. accepted) /\ Len(m_buffer) = 0
    BY <2>1 DEF Init, L!Init
  <2>3. m_initialized \in BOOLEAN /\ m_running \in BOOLEAN /\ m_new_data \in BOOLEAN
    BY DEF Init, L!Init
  <2>4. L!TypeOK /\ Room BY <2>2, <2>3 DEF Init, L!Init, L!TypeOK, Room
  <2>5. made \in 0 .. MaxTranscriptions BY DEF Init
  <2> QED BY <2>4, <2>5 DEF Init, Q!Init, PlaceType
<1>2. PlaceType /\ [Next]_vars => PlaceType'
  <2> SUFFICES ASSUME PlaceType, [Next]_vars PROVE PlaceType'
    OBVIOUS
  <2> USE DEF PlaceType, queueVars, mainVars
  <2>1. ASSUME UNCHANGED loggerVars PROVE L!TypeOK' /\ Room'
    BY <2>1 DEF loggerVars, L!TypeOK, Room
  <2>2. CASE Transcribe BY <2>1, <2>2 DEF Transcribe
  <2>3. CASE LoopTest \/ Poll \/ NoText \/ Quit \/ RemoteShutdown \/ JoinBc \/ JoinLog
    BY <2>1, <2>3 DEF LoopTest, Poll, NoText, Quit, RemoteShutdown, JoinBc, JoinLog
  <2>4. CASE LogCall
    <3>1. mpc' \in {"log", "push"} BY <2>4 DEF LogCall
    <3> QED BY <2>4, <3>1, CallsType DEF LogCall
  <2>5. CASE StopCall
    <3>1. mpc' \in {"stop", "join_log", "returned"} BY <2>5 DEF StopCall
    <3> QED BY <2>5, <3>1, CallsType DEF StopCall
  <2>6. CASE PushCall
    BY <2>1, <2>6 DEF PushCall, Q!PushEnqueue, Q!PushFlag, Q!PushNotify
  <2>7. CASE Bc
    BY <2>1, <2>7 DEF Bc, BcTest, Broadcast, Q!Pop, Q!PopFast, Q!PopCheck, Q!PopSleep,
                      Q!PopRouses, Q!PopReset, Q!PopAfterWait, Q!TryDequeue
  <2>8. CASE WriterStep BY <2>8, WriterType DEF WriterStep
  <2>9. CASE UNCHANGED vars BY <2>1, <2>9 DEF vars
  <2> QED
    BY <2>2, <2>3, <2>4, <2>5, <2>6, <2>7, <2>8, <2>9 DEF Next, Main, Finished
<1> QED BY <1>1, <1>2, PTL DEF Spec

\* Every variable of the pipeline keeps its type; the writer's buffer stays within
\* the capacity reserved for it as long as the file works.
THEOREM TypeCorrect == Spec => []TypeOK
<1>1. PlaceType /\ OrderInv => TypeOK
  <2> SUFFICES ASSUME PlaceType, OrderInv PROVE TypeOK
    OBVIOUS
  <2> USE DEF OrderInv, OrderType, InOrder
  <2>1. Len(sent) \in Nat /\ Len(queue) \in Nat /\ Taken \in Nat /\ Len(sent) <= Taken
    BY DEF Taken
  <2>2. Pushed <= made /\ Len(sent) <= made
    BY <2>1 DEF Pushed
  <2>3. \A i \in 1 .. Len(sent) : sent[i] \in 1 .. made
    BY <2>1, <2>2
  <2>4. sent \in Seq(1 .. made)
    BY <2>3
  <2>5. \A i \in 1 .. Len(queue) : queue[i] \in Nat \ {0}
    BY <2>1
  <2>6. queue \in Seq(Nat \ {0})
    BY <2>5, SeqOver
  <2> QED BY <2>4, <2>6 DEF PlaceType, TypeOK, Q!TypeOK
<1> QED BY <1>1, PlaceInvariance, OrderInvariance, PTL

-----------------------------------------------------------------------------
(* The queue and broadcast_thread as StreamServer uses them                *)

\* Transcriptions that have left the queue.
Gone == Pushed - Len(queue)

\* A step that moves neither broadcast_thread nor the queue.
LEMMA LoopAside ==
  ASSUME is_running' \in BOOLEAN,
         UNCHANGED <<queue, cpc, item>>, Pushed' = Pushed
  PROVE  Loop!SetFlag
BY DEF Loop!SetFlag, Place

\* push() is Push when it reaches the queue.
LEMMA PushOfLoop ==
  ASSUME OrderInv, PlaceType, PushCall
  PROVE  Loop!Push \/ Loop!SetFlag
<1>1. CASE Q!PushEnqueue(made)
  <2>1. /\ mpc = "push" /\ mpc' = "push" /\ ppc = "out" /\ ppc' = "flag"
        /\ queue' = Append(queue, made)
        /\ UNCHANGED <<is_running, cpc, item, made>>
    BY <1>1 DEF PushCall, Q!PushEnqueue, Q!PushNotify
  <2>2. Pushed = made - 1 /\ Pushed' = made /\ made \in Nat
    BY <2>1 DEF Pushed, OrderInv, OrderType
  <2>3. Len(queue') = Len(queue) + 1 /\ Len(queue) \in Nat
    BY <2>1 DEF OrderInv, OrderType
  <2>4. Pushed' - Len(queue') = Pushed - Len(queue) BY <2>2, <2>3
  <2>5. Pushed' = Pushed + 1 BY <2>2
  <2> QED BY <2>1, <2>4, <2>5 DEF Loop!Push, Place
<1>2. CASE Q!PushFlag \/ Q!PushNotify
  <2>1. UNCHANGED <<is_running, queue, item, made>> /\ ppc \in {"flag", "notify"}
    BY <1>2 DEF Q!PushFlag, Q!PushNotify, PushCall
  <2>2. Pushed' = Pushed
    BY <1>2 DEF Q!PushFlag, Q!PushNotify, PushCall, Pushed, Q!PushEnqueue, OrderInv, OrderType
  <2>3. Place' = Place
    BY <1>2 DEF Q!PushFlag, Q!PushNotify, Place
  <2> QED BY <2>1, <2>2, <2>3 DEF Loop!SetFlag, PlaceType
<1> QED BY <1>1, <1>2 DEF PushCall

\* A dequeue takes what is oldest, or finds that all that was pushed is gone.
LEMMA DequeueOfLoop ==
  ASSUME OrderInv, PlaceType, NEW away \in {"check", "out"},
         cpc \in {"fast", "dequeue"}, Q!TryDequeue("out", away),
         UNCHANGED <<is_running, made, mpc, ppc>>
  PROVE  Loop!Take \/ Loop!Miss
<1>1. item = 0 /\ Place = "pop" /\ queue \in Seq(Nat) /\ Pushed' = Pushed
  BY DEF OrderInv, OrderType, Place, Pushed
<1>2. Pushed \in Int BY DEF Pushed, OrderInv, OrderType
<1>3. CASE queue = <<>>
  <2>1. cpc' = away /\ item' = 0 /\ queue' = <<>> BY <1>3 DEF Q!TryDequeue
  <2>2. Place' = "test" BY <2>1 DEF Place
  <2>3. Gone = Pushed /\ Gone' = Gone BY <1>1, <1>2, <1>3, <2>1 DEF Gone
  <2> QED BY <1>1, <2>2, <2>3 DEF Loop!Miss, Loop!Goto, Gone
<1>4. CASE queue # <<>>
  <2>1. cpc' = "out" /\ item' = Head(queue) /\ queue' = Tail(queue)
    BY <1>4 DEF Q!TryDequeue
  <2>2. Len(queue) \in Nat /\ Len(queue) >= 1 /\ Len(queue') = Len(queue) - 1
    BY <1>1, <1>4, <2>1
  <2>3. item' # 0
    <3>1. Head(queue) = queue[1] /\ queue[1] = Taken + 1 /\ Taken \in Nat
      BY <1>1, <1>4, <2>2 DEF OrderInv, OrderType, InOrder, Taken
    <3> QED BY <2>1, <3>1
  <2>4. Place' = "call" BY <2>1, <2>3 DEF Place
  <2>5. Gone < Pushed /\ Gone' = Gone + 1 BY <1>1, <1>2, <2>2 DEF Gone
  <2> QED BY <1>1, <2>4, <2>5 DEF Loop!Take, Loop!Goto, Gone
<1> QED BY <1>3, <1>4

\* A wait is part of no turn: it begins after a dequeue in vain and ends with a new
\* look at is_running.
LEMMA BcOfLoop ==
  ASSUME OrderInv, PlaceType, Bc
  PROVE  Loop!Next \/ UNCHANGED Loop!vars
<1> USE DEF Loop!Next
<1>1. CASE BcTest
  <2>1. Pushed' = Pushed /\ Place = "test" /\ Place' = IF is_running THEN "pop" ELSE "exited"
    BY <1>1 DEF BcTest, Place, Pushed, mainVars
  <2> QED BY <1>1, <2>1 DEF BcTest, Loop!Test, Loop!Goto
<1>2. CASE Broadcast
  <2>1. Pushed' = Pushed /\ Place = "call" /\ Place' = "test"
    BY <1>2 DEF Broadcast, Place, Pushed
  <2> QED BY <1>2, <2>1 DEF Broadcast, Loop!Call, Loop!Goto
<1>3. CASE Q!PopFast /\ UNCHANGED mainVars
  BY <1>3, DequeueOfLoop DEF Q!PopFast, mainVars
<1>4. CASE Q!PopAfterWait /\ UNCHANGED mainVars
  BY <1>4, DequeueOfLoop DEF Q!PopAfterWait, mainVars
<1>5. CASE (Q!PopCheck \/ Q!PopSleep \/ Q!PopRouses) /\ UNCHANGED mainVars
  <2>1. item = 0 BY <1>5 DEF Q!PopCheck, Q!PopSleep, Q!PopRouses, OrderInv, OrderType
  <2>2. Place = "test" /\ Place' = "test"
    BY <1>5, <2>1 DEF Q!PopCheck, Q!PopSleep, Q!PopRouses, Place
  <2>3. UNCHANGED <<is_running, queue>> /\ Pushed' = Pushed
    BY <1>5 DEF Q!PopCheck, Q!PopSleep, Q!PopRouses, Pushed, mainVars
  <2> QED BY <2>2, <2>3 DEF Loop!vars
<1>6. CASE Q!PopReset /\ UNCHANGED mainVars
  <2>1. item = 0 BY <1>6 DEF Q!PopReset, OrderInv, OrderType
  <2>2. UNCHANGED <<is_running, queue>> /\ Pushed' = Pushed
    BY <1>6 DEF Q!PopReset, Pushed, mainVars
  <2>3. Place = "test" /\ Place' = IF is_running THEN "pop" ELSE "test"
    BY <1>6, <2>1 DEF Q!PopReset, Place
  <2> QED BY <2>2, <2>3 DEF Loop!Test, Loop!Goto, Loop!vars
<1> QED BY <1>1, <1>2, <1>3, <1>4, <1>5, <1>6 DEF Bc, Q!Pop

\* The queue with its mutex, flag and time-outs, and the thread that empties it,
\* implement the loop StreamServer is built on.
THEOREM ImplementsLoop == Spec => LoopRefined
<1>1. Init => Loop!Init
  <2> SUFFICES ASSUME Init PROVE Loop!Init
    OBVIOUS
  <2>1. Pushed = 0 /\ Len(queue) = 0 BY DEF Init, Q!Init, Pushed
  <2>2. Place = "test" BY DEF Init, Q!Init, Place
  <2> QED BY <2>1, <2>2 DEF Init, Loop!Init
<1>2. OrderInv /\ PlaceType /\ [Next]_vars => [Loop!Next]_(Loop!vars)
  <2> SUFFICES ASSUME OrderInv, PlaceType, [Next]_vars
               PROVE  Loop!Next \/ UNCHANGED Loop!vars
    OBVIOUS
  <2>1. CASE PushCall BY <2>1, PushOfLoop DEF Loop!Next
  <2>2. CASE Bc BY <2>2, BcOfLoop
  <2>3. CASE LoopTest \/ Poll \/ NoText \/ Quit \/ RemoteShutdown \/ JoinBc \/ JoinLog
             \/ StopCall
    <3>1. /\ UNCHANGED <<queue, cpc, item>> /\ is_running' \in BOOLEAN
          /\ Pushed' = Pushed
      BY <2>3 DEF LoopTest, Poll, NoText, Quit, RemoteShutdown, JoinBc, JoinLog, StopCall,
           Pushed, PlaceType, mainVars, queueVars
    <3> QED BY <3>1, LoopAside DEF Loop!Next
  <2>4. CASE Transcribe
    <3>1. Pushed' = Pushed
      BY <2>4 DEF Transcribe, queueVars, Pushed, OrderInv, OrderType
    <3> QED BY <2>4, <3>1, LoopAside DEF Transcribe, queueVars, PlaceType, Loop!Next
  <2>5. CASE LogCall
    <3>1. Pushed' = Pushed
      BY <2>5 DEF LogCall, queueVars, Pushed, OrderInv, OrderType
    <3> QED BY <2>5, <3>1, LoopAside DEF LogCall, queueVars, PlaceType, Loop!Next
  <2>6. CASE WriterStep \/ UNCHANGED vars
    <3>1. UNCHANGED <<queueVars, mainVars>> BY <2>6 DEF WriterStep, vars
    <3> QED BY <3>1 DEF Loop!vars, Place, Pushed, queueVars, mainVars
  <2> QED BY <2>1, <2>2, <2>3, <2>4, <2>5, <2>6 DEF Next, Main, Finished
<1> QED BY <1>1, <1>2, OrderInvariance, PlaceInvariance, PTL
       DEF Spec, LoopRefined, Loop!Spec

-----------------------------------------------------------------------------
(* The join with broadcast_thread, which nobody notifies of the shutdown   *)

\* How many steps broadcast_thread has to its end at most, once is_running is false.
BcLeft ==
  CASE cpc = "exited" -> 0
    [] cpc = "out" -> IF item = 0 THEN 1 ELSE 2
    [] cpc \in {"reset", "dequeue"} -> 3
    [] cpc \in {"check", "woken", "timedout"} -> 4
    [] cpc = "asleep" -> 5
    [] cpc = "blocking" -> 6
    [] OTHER -> 7

\* Main waits for broadcast_thread, and nothing sets is_running again.
JoinInv == mpc = "join_bc" => ~is_running /\ ppc = "out"

\* While main waits, every step of broadcast_thread brings it nearer its end, whatever
\* place of wait_and_pop the shutdown found it in and whatever is queued, and no other
\* step takes it back.
JoinAdvances ==
  [][mpc = "join_bc" => /\ BcLeft' <= BcLeft
                        /\ Bc => BcLeft' < BcLeft]_vars

LEMMA BcLeftType == PlaceType => BcLeft \in 0 .. 7
BY DEF PlaceType, BcLeft

LEMMA JoinInvariance == Spec => [](PlaceType /\ OrderInv /\ JoinInv)
<1>1. Init => JoinInv BY DEF Init, JoinInv
<1>2. OrderInv /\ JoinInv /\ [Next]_vars => JoinInv'
  <2> SUFFICES ASSUME OrderInv, JoinInv, [Next]_vars PROVE JoinInv'
    OBVIOUS
  <2> USE DEF JoinInv
  <2>1. CASE Quit BY <2>1 DEF Quit, OrderInv, OrderType
  <2>2. CASE LoopTest \/ Poll \/ Transcribe \/ NoText \/ JoinBc \/ JoinLog \/ StopCall
    BY <2>2 DEF LoopTest, Poll, Transcribe, NoText, JoinBc, JoinLog, StopCall
  <2>3. CASE LogCall \/ PushCall
    BY <2>3 DEF LogCall, PushCall
  <2>4. CASE RemoteShutdown BY <2>4 DEF RemoteShutdown, mainVars
  <2>5. CASE Bc
    BY <2>5 DEF Bc, BcTest, Broadcast, mainVars, Q!Pop, Q!PopFast, Q!PopCheck, Q!PopSleep,
                Q!PopRouses, Q!PopReset, Q!PopAfterWait
  <2>6. CASE WriterStep \/ UNCHANGED vars
    BY <2>6 DEF WriterStep, vars, mainVars, queueVars
  <2> QED BY <2>1, <2>2, <2>3, <2>4, <2>5, <2>6 DEF Next, Main, Finished
<1> QED BY <1>1, <1>2, PlaceInvariance, OrderInvariance, PTL DEF Spec

\* A step of broadcast_thread that finds is_running false.
LEMMA BcDescends ==
  ASSUME PlaceType, OrderInv, ~is_running, Bc
  PROVE  BcLeft' < BcLeft /\ mpc' = mpc
<1>1. cpc # "out" => item = 0 BY DEF OrderInv, OrderType
<1>2. CASE BcTest BY <1>2 DEF BcTest, BcLeft, mainVars
<1>3. CASE Broadcast BY <1>3 DEF Broadcast, BcLeft
<1>4. CASE (Q!PopFast \/ Q!PopAfterWait) /\ UNCHANGED mainVars
  BY <1>4 DEF Q!PopFast, Q!PopAfterWait, Q!TryDequeue, BcLeft, mainVars
<1>5. CASE (Q!PopCheck \/ Q!PopSleep \/ Q!PopRouses \/ Q!PopReset) /\ UNCHANGED mainVars
  BY <1>1, <1>5 DEF Q!PopCheck, Q!PopSleep, Q!PopRouses, Q!PopReset, Q!DataOrStop, BcLeft,
     mainVars
<1> QED BY <1>2, <1>3, <1>4, <1>5 DEF Bc, Q!Pop

\* What the others do while main waits: nothing to broadcast_thread.
LEMMA JoinSteps ==
  ASSUME PlaceType, OrderInv, JoinInv, mpc = "join_bc", [Next]_vars
  PROVE  \/ Bc /\ BcLeft' < BcLeft /\ mpc' = mpc
         \/ cpc = "exited" /\ BcLeft' = BcLeft /\ mpc' = "stop"
         \/ BcLeft' = BcLeft /\ mpc' = mpc
<1>1. CASE Bc BY <1>1, BcDescends DEF JoinInv
<1>2. CASE JoinBc BY <1>2 DEF JoinBc, queueVars, BcLeft
<1>3. CASE WriterStep \/ UNCHANGED vars
  BY <1>3 DEF WriterStep, vars, mainVars, queueVars, BcLeft
<1>4. CASE LoopTest \/ Poll \/ Transcribe \/ NoText \/ LogCall \/ PushCall \/ Quit
           \/ StopCall \/ JoinLog \/ RemoteShutdown
  BY <1>4 DEF LoopTest, Poll, Transcribe, NoText, LogCall, PushCall, Quit, StopCall, JoinLog,
     RemoteShutdown, JoinInv, L!LogEnqueue, L!LogFlag, L!LogNotify
<1> QED BY <1>1, <1>2, <1>3, <1>4 DEF Next, Main, Finished

\* The shutdown needs no notification of broadcast_thread: its wait, in whatever state
\* is_running = false finds it, is at most seven of its own steps from its end.
THEOREM JoinDoesAdvance == Spec => JoinAdvances
<1>1. PlaceType /\ PlaceType' /\ OrderInv /\ JoinInv /\ [Next]_vars
        => [mpc = "join_bc" => BcLeft' <= BcLeft /\ (Bc => BcLeft' < BcLeft)]_vars
  <2> SUFFICES ASSUME PlaceType, PlaceType', OrderInv, JoinInv, [Next]_vars, mpc = "join_bc"
               PROVE  BcLeft' <= BcLeft /\ (Bc => BcLeft' < BcLeft)
    OBVIOUS
  <2>1. Bc => BcLeft' < BcLeft BY BcDescends DEF JoinInv
  <2>2. BcLeft' < BcLeft \/ BcLeft' = BcLeft BY JoinSteps
  <2>3. BcLeft \in Int /\ BcLeft' \in Int BY DEF PlaceType, BcLeft
  <2> QED BY <2>1, <2>2, <2>3
<1> QED BY <1>1, JoinInvariance, PTL DEF Spec, JoinAdvances

(***************************************************************************)
(* Liveness, from the advance.  The prover has no rules for ENABLED: that a *)
(* step whose guards hold is ENABLED is a hypothesis.                       *)
(***************************************************************************)
GuardsSuffice ==
  /\ [](mpc = "down" \/ (mpc = "join_bc" /\ cpc = "exited") => ENABLED <<Main>>_vars)
  /\ [](cpc # "exited" => ENABLED <<Bc>>_vars)

\* Main waits, with n steps of broadcast_thread to go, or fewer.
JoinAt(n) == mpc = "join_bc" /\ BcLeft = n
JoinBelow(n) == mpc = "join_bc" /\ BcLeft < n
Joined(n) == JoinAt(n) ~> JoinBelow(n)

\* A step of broadcast_thread from each number to a lower one.
LEMMA JoinDescends ==
  ASSUME NEW n \in 1 .. 7
  PROVE  FairSpec /\ GuardsSuffice => Joined(n)
<1>1. PlaceType /\ OrderInv /\ JoinInv /\ JoinAt(n) /\ [Next]_vars
        => JoinAt(n)' \/ JoinBelow(n)'
  BY JoinSteps DEF JoinAt, JoinBelow, BcLeft
<1>2. PlaceType /\ OrderInv /\ JoinInv /\ JoinAt(n) /\ <<Bc>>_vars => JoinBelow(n)'
  BY BcDescends DEF JoinAt, JoinBelow, JoinInv
<1>3. PlaceType /\ JoinAt(n) => cpc # "exited" BY DEF JoinAt, BcLeft
<1> QED BY <1>1, <1>2, <1>3, JoinInvariance, PTL DEF Spec, FairSpec, GuardsSuffice, Joined

\* Main gets into the join, and out of it when broadcast_thread has ended.
LEMMA MainJoins ==
  FairSpec /\ GuardsSuffice => /\ mpc = "down" ~> mpc = "join_bc"
                               /\ JoinBelow(1) ~> mpc = "stop"
<1>1. mpc = "down" /\ [Next]_vars => (mpc = "down")' \/ (mpc = "join_bc")'
  BY DEF Next, LoopTest, Poll, Transcribe, NoText, Main, LogCall, PushCall, Quit, JoinBc,
     StopCall, JoinLog, RemoteShutdown, Bc, BcTest, Broadcast, WriterStep, Finished, vars,
     mainVars
<1>2. mpc = "down" /\ <<Main>>_vars => (mpc = "join_bc")'
  BY DEF Main, LogCall, PushCall, Quit, JoinBc, StopCall, JoinLog
<1>3. PlaceType /\ JoinBelow(1) => mpc = "join_bc" /\ cpc = "exited" /\ BcLeft = 0
  BY BcLeftType DEF JoinBelow, BcLeft
<1>4. PlaceType /\ PlaceType' /\ OrderInv /\ JoinInv /\ JoinBelow(1) /\ [Next]_vars
        => JoinBelow(1)' \/ (mpc = "stop")'
  BY <1>3, JoinSteps, BcDescends DEF JoinBelow, JoinInv, BcLeft, Bc, BcTest, Broadcast, Q!Pop,
     Q!PopFast, Q!PopCheck, Q!PopSleep, Q!PopRouses, Q!PopReset, Q!PopAfterWait
<1>5. mpc = "join_bc" /\ <<Main>>_vars => (mpc = "stop")'
  BY DEF Main, LogCall, PushCall, Quit, JoinBc, StopCall, JoinLog
<1> QED
  BY <1>1, <1>2, <1>3, <1>4, <1>5, JoinInvariance, PTL DEF Spec, FairSpec, GuardsSuffice

(***************************************************************************)
(* When main has left its loop, its join of broadcast_thread returns: the   *)
(* time-out of the wait is enough, for any number of transcriptions queued. *)
(***************************************************************************)
THEOREM BroadcastThreadEnds == FairSpec /\ GuardsSuffice => (mpc = "down" ~> mpc = "stop")
<1>1. PlaceType =>
        /\ mpc = "join_bc" => JoinAt(7) \/ JoinBelow(7)
        /\ JoinBelow(7) => JoinAt(6) \/ JoinBelow(6)
        /\ JoinBelow(6) => JoinAt(5) \/ JoinBelow(5)
        /\ JoinBelow(5) => JoinAt(4) \/ JoinBelow(4)
        /\ JoinBelow(4) => JoinAt(3) \/ JoinBelow(3)
        /\ JoinBelow(3) => JoinAt(2) \/ JoinBelow(2)
        /\ JoinBelow(2) => JoinAt(1) \/ JoinBelow(1)
  BY BcLeftType DEF JoinAt, JoinBelow
<1>2. FairSpec /\ GuardsSuffice => Joined(1) BY JoinDescends
<1>3. FairSpec /\ GuardsSuffice => Joined(2) BY JoinDescends
<1>4. FairSpec /\ GuardsSuffice => Joined(3) BY JoinDescends
<1>5. FairSpec /\ GuardsSuffice => Joined(4) BY JoinDescends
<1>6. FairSpec /\ GuardsSuffice => Joined(5) BY JoinDescends
<1>7. FairSpec /\ GuardsSuffice => Joined(6) BY JoinDescends
<1>8. FairSpec /\ GuardsSuffice => Joined(7) BY JoinDescends
<1> QED
  BY <1>1, <1>2, <1>3, <1>4, <1>5, <1>6, <1>7, <1>8, MainJoins, PlaceInvariance, PTL
     DEF FairSpec, Joined

=============================================================================
