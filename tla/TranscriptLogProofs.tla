------------------------ MODULE TranscriptLogProofs ------------------------
(***************************************************************************)
(* Proofs about the log of transcriptions (TranscriptPipeline), for any    *)
(* flush threshold, number of transcriptions and failures of the file:     *)
(* the file is complete when main returns, and TranscriptionLogger         *)
(* implements TranscriptLog.                                               *)
(*                                                                         *)
(* The argument: what was settled (written or lost), the writer's buffer   *)
(* and its queue are consecutive pieces of 1, ..., accepted (Pieces), and  *)
(* the places of main and the writer say which of them are empty (Places): *)
(* m_running is cleared only after the last log(), so the drain after the  *)
(* writer's loop really is the last.                                       *)
(***************************************************************************)
EXTENDS TranscriptPipeline, FiniteSetTheorems, TLAPS

USE PipelineAssumption

\* The number of transcriptions written or lost.
Settled == Len(file) + Cardinality(lost)

LogType ==
  /\ accepted \in Nat /\ made \in Nat /\ faults \in Nat
  /\ file \in Seq(Nat) /\ m_buffer \in Seq(Nat) /\ m_queue \in Seq(Nat)
  /\ IsFiniteSet(lost)
  /\ lpc \in {"out", "flag", "notify", "stop"}

\* Settled, m_buffer and m_queue make up 1, ..., accepted.
Pieces ==
  /\ lost \subseteq 1 .. Settled
  /\ Settled + Len(m_buffer) + Len(m_queue) = accepted
  /\ \A i \in 1 .. Len(m_buffer) : m_buffer[i] = Settled + i
  /\ \A i \in 1 .. Len(m_queue) : m_queue[i] = Settled + Len(m_buffer) + i

\* A file that never failed holds all that was settled.
Clean ==
  faults = 0 =>
    /\ lost = {}
    /\ \A i \in 1 .. Len(file) : file[i] = i

\* Where main and the writer are, and what that says of the queue and buffer.
MainPlace ==
  /\ lpc \in {"flag", "notify"} => mpc = "log"
  /\ lpc = "stop" => mpc = "stop" /\ m_initialized
  /\ m_initialized =>
       accepted = IF mpc = "log" /\ lpc = "out" THEN made - 1 ELSE made
  /\ mpc = "log" => m_initialized
  /\ m_initialized /\ ~m_running => mpc \in {"stop", "join_log", "returned"}
  /\ m_initialized /\ mpc = "returned" => wpc = "exited"

WriterPlace ==
  /\ ~m_initialized => wpc = "exited"
  /\ wpc \in {"final", "flush_final", "exited"} => ~m_running
  /\ wpc \in {"flush_final", "exited"} => m_queue = <<>>
  /\ wpc \in {"flush", "flush_final"} => m_buffer # <<>>
  /\ wpc = "exited" /\ faults = 0 => m_buffer = <<>>

LogInv == LogType /\ Pieces /\ Clean /\ MainPlace /\ WriterPlace

-----------------------------------------------------------------------------
(* The pieces.                                                             *)

\* Numbers just above those settled can be added to the lost ones.
LEMMA LostGrows ==
  ASSUME LogType, Pieces, NEW k \in Nat, NEW n \in Nat, k <= n, Settled <= k
  PROVE  /\ IsFiniteSet(lost \cup (k + 1 .. n))
         /\ Cardinality(lost \cup (k + 1 .. n)) = Cardinality(lost) + (n - k)
<1> DEFINE new == k + 1 .. n
<1>1. IsFiniteSet(new) /\ Cardinality(new) = n - k
  <2>1. k + 1 \in Int /\ n \in Int
    OBVIOUS
  <2>2. /\ IsFiniteSet(new)
        /\ Cardinality(new) = IF k + 1 > n THEN 0 ELSE n - (k + 1) + 1
    BY <2>1, FS_Interval
  <2> HIDE DEF new
  <2> QED BY <2>2
<1>2. IsFiniteSet(lost) /\ Cardinality(lost) \in Nat
  BY FS_CardinalityType DEF LogType
<1>3. lost \cap new = {}
  BY <1>2 DEF LogType, Pieces, Settled
<1>4. /\ IsFiniteSet(lost \cup new)
      /\ Cardinality(lost \cup new)
           = Cardinality(lost) + Cardinality(new) - Cardinality(lost \cap new)
  BY <1>1, <1>2, FS_Union
<1>5. Cardinality(lost \cap new) = 0
  BY <1>3, FS_EmptySet
<1> HIDE DEF new
<1> QED BY <1>1, <1>2, <1>4, <1>5 DEF new

\* All that is counted is a natural number.
LEMMA Counts ==
  ASSUME LogType
  PROVE  /\ Settled \in Nat /\ accepted \in Nat /\ Cardinality(lost) \in Nat
         /\ Len(file) \in Nat /\ Len(m_buffer) \in Nat /\ Len(m_queue) \in Nat
<1>1. Cardinality(lost) \in Nat
  BY FS_CardinalityType DEF LogType
<1>2. Len(file) \in Nat /\ Len(m_buffer) \in Nat /\ Len(m_queue) \in Nat
  BY DEF LogType
<1>3. accepted \in Nat BY DEF LogType
<1> QED BY <1>1, <1>2, <1>3 DEF Settled

\* log() adds the next number at the end of the queue.
LEMMA Enqueue ==
  ASSUME LogInv, accepted' = accepted + 1,
         m_queue' = Append(m_queue, accepted + 1),
         UNCHANGED <<file, m_buffer, lost, faults>>
  PROVE  m_queue' \in Seq(Nat) /\ Pieces' /\ Clean'
<1> USE DEF LogInv
<1>1. /\ Settled \in Nat /\ accepted \in Nat
      /\ Len(m_buffer) \in Nat /\ Len(m_queue) \in Nat
  BY Counts
<1>2. Settled' = Settled
  BY DEF Settled
<1>3. /\ m_queue' \in Seq(Nat) /\ Len(m_queue') = Len(m_queue) + 1
      /\ m_queue'[Len(m_queue) + 1] = accepted + 1
      /\ \A i \in 1 .. Len(m_queue) : m_queue'[i] = m_queue[i]
  BY DEF LogType
<1>4. /\ lost \subseteq 1 .. Settled
      /\ Settled + Len(m_buffer) + Len(m_queue) = accepted
      /\ \A i \in 1 .. Len(m_buffer) : m_buffer[i] = Settled + i
      /\ \A i \in 1 .. Len(m_queue) : m_queue[i] = Settled + Len(m_buffer) + i
  BY DEF Pieces
<1> HIDE DEF LogInv
<1>5. \A i \in 1 .. Len(m_queue') : m_queue'[i] = Settled + Len(m_buffer) + i
  <2> SUFFICES ASSUME NEW i \in 1 .. Len(m_queue')
               PROVE  m_queue'[i] = Settled + Len(m_buffer) + i
    OBVIOUS
  <2>1. CASE i \in 1 .. Len(m_queue)
    BY <1>3, <1>4, <2>1
  <2>2. CASE i = Len(m_queue) + 1
    BY <1>1, <1>3, <1>4, <2>2
  <2> QED BY <1>1, <1>3, <2>1, <2>2
<1>6. Settled + Len(m_buffer) + Len(m_queue') = accepted'
  <2>1. Len(m_queue') = Len(m_queue) + 1 BY <1>3
  <2>2. Settled + Len(m_buffer) + Len(m_queue) = accepted BY <1>4
  <2> QED BY <1>1, <2>1, <2>2
<1>7. Pieces'
  BY <1>2, <1>4, <1>5, <1>6 DEF Pieces
<1> QED BY <1>3, <1>7 DEF Clean, LogInv

\* The writer takes one entry from the queue to the buffer.
LEMMA Move ==
  ASSUME LogInv, m_queue # <<>>,
         m_buffer' = Append(m_buffer, Head(m_queue)), m_queue' = Tail(m_queue),
         UNCHANGED <<accepted, file, lost, faults>>
  PROVE  /\ m_buffer' \in Seq(Nat) /\ m_queue' \in Seq(Nat) /\ m_buffer' # <<>>
         /\ Pieces' /\ Clean'
<1> USE DEF LogInv
<1>1. /\ Settled \in Nat /\ accepted \in Nat
      /\ Len(m_buffer) \in Nat /\ Len(m_queue) \in Nat
  BY Counts
<1>2. Settled' = Settled
  BY DEF Settled
<1>3. /\ m_queue' \in Seq(Nat) /\ Len(m_queue') = Len(m_queue) - 1
      /\ Len(m_queue) >= 1 /\ Head(m_queue) = m_queue[1] /\ Head(m_queue) \in Nat
      /\ \A i \in 1 .. Len(m_queue') : m_queue'[i] = m_queue[i + 1]
  BY DEF LogType
<1>4. /\ m_buffer' \in Seq(Nat) /\ Len(m_buffer') = Len(m_buffer) + 1
      /\ m_buffer'[Len(m_buffer) + 1] = Head(m_queue) /\ m_buffer' # <<>>
      /\ \A i \in 1 .. Len(m_buffer) : m_buffer'[i] = m_buffer[i]
  BY <1>3 DEF LogType
<1>5. /\ lost \subseteq 1 .. Settled
      /\ Settled + Len(m_buffer) + Len(m_queue) = accepted
      /\ \A i \in 1 .. Len(m_buffer) : m_buffer[i] = Settled + i
      /\ \A i \in 1 .. Len(m_queue) : m_queue[i] = Settled + Len(m_buffer) + i
  BY DEF Pieces
<1> HIDE DEF LogInv
<1>6. Head(m_queue) = Settled + Len(m_buffer) + 1
  BY <1>1, <1>3, <1>5
<1>7. \A i \in 1 .. Len(m_buffer') : m_buffer'[i] = Settled + i
  <2> SUFFICES ASSUME NEW i \in 1 .. Len(m_buffer') PROVE m_buffer'[i] = Settled + i
    OBVIOUS
  <2>1. CASE i \in 1 .. Len(m_buffer)
    BY <1>4, <1>5, <2>1
  <2>2. CASE i = Len(m_buffer) + 1
    BY <1>1, <1>4, <1>6, <2>2
  <2> QED BY <1>1, <1>4, <2>1, <2>2
<1>8. \A i \in 1 .. Len(m_queue') : m_queue'[i] = Settled + Len(m_buffer') + i
  <2> SUFFICES ASSUME NEW i \in 1 .. Len(m_queue')
               PROVE  m_queue'[i] = Settled + Len(m_buffer') + i
    OBVIOUS
  <2>1. i + 1 \in 1 .. Len(m_queue) /\ m_queue'[i] = m_queue[i + 1]
    BY <1>1, <1>3
  <2>2. m_queue[i + 1] = Settled + Len(m_buffer) + (i + 1)
    BY <1>5, <2>1
  <2> QED BY <1>1, <1>4, <2>1, <2>2
<1>9. Settled + Len(m_buffer') + Len(m_queue') = accepted
  <2>1. Len(m_queue') = Len(m_queue) - 1 BY <1>3
  <2>2. Len(m_buffer') = Len(m_buffer) + 1 BY <1>4
  <2>3. Settled + Len(m_buffer) + Len(m_queue) = accepted BY <1>5
  <2> QED BY <1>1, <2>1, <2>2, <2>3
<1>10. Pieces'
  BY <1>2, <1>5, <1>7, <1>8, <1>9 DEF Pieces
<1> QED BY <1>3, <1>4, <1>10 DEF Clean, LogInv

\* The first k entries of the buffer are written, the others lost.
LEMMA Batch ==
  ASSUME LogInv, NEW k \in 0 .. Len(m_buffer),
         file' = file \o SubSeq(m_buffer, 1, k),
         lost' = lost \cup {m_buffer[i] : i \in k + 1 .. Len(m_buffer)},
         m_buffer' = <<>>, UNCHANGED <<accepted, m_queue>>
  PROVE  /\ file' = file \o [i \in 1 .. k |-> Settled + i]
         /\ file' \in Seq(Nat) /\ Len(file') = Len(file) + k
         /\ lost' = lost \cup (Settled + k + 1 .. Settled + Len(m_buffer))
         /\ IsFiniteSet(lost')
         /\ Settled' = Settled + Len(m_buffer)
         /\ Pieces'
<1> USE DEF LogInv
<1>1. /\ Settled \in Nat /\ Cardinality(lost) \in Nat /\ accepted \in Nat
      /\ Len(file) \in Nat /\ Len(m_buffer) \in Nat /\ Len(m_queue) \in Nat
  BY Counts
<1>2. SubSeq(m_buffer, 1, k) \in Seq(Nat) /\ Len(SubSeq(m_buffer, 1, k)) = k
  BY DEF LogType
<1>3. /\ lost \subseteq 1 .. Settled
      /\ Settled + Len(m_buffer) + Len(m_queue) = accepted
      /\ \A i \in 1 .. Len(m_buffer) : m_buffer[i] = Settled + i
      /\ \A i \in 1 .. Len(m_queue) : m_queue[i] = Settled + Len(m_buffer) + i
  BY DEF Pieces
<1>4. SubSeq(m_buffer, 1, k) = [i \in 1 .. k |-> Settled + i]
  BY <1>2, <1>3 DEF LogType
<1>5. file' \in Seq(Nat) /\ Len(file') = Len(file) + k
  BY <1>2 DEF LogType
<1>6. {m_buffer[i] : i \in k + 1 .. Len(m_buffer)}
        = Settled + k + 1 .. Settled + Len(m_buffer)
  <2> HIDE DEF LogInv
  <2> DEFINE rest == {m_buffer[i] : i \in k + 1 .. Len(m_buffer)}
  <2>1. \A i \in k + 1 .. Len(m_buffer) : m_buffer[i] = Settled + i
    BY <1>1, <1>3
  <2>2. ASSUME NEW x \in rest PROVE x \in Settled + k + 1 .. Settled + Len(m_buffer)
    <3>1. PICK i \in k + 1 .. Len(m_buffer) : x = m_buffer[i]
      OBVIOUS
    <3> QED BY <1>1, <2>1, <3>1
  <2>3. ASSUME NEW x \in Settled + k + 1 .. Settled + Len(m_buffer) PROVE x \in rest
    <3>1. x - Settled \in k + 1 .. Len(m_buffer) BY <1>1
    <3>2. m_buffer[x - Settled] = Settled + (x - Settled) BY <2>1, <3>1
    <3>3. m_buffer[x - Settled] = x BY <1>1, <3>2
    <3> QED BY <3>1, <3>3
  <2> QED BY <2>2, <2>3
<1>7. /\ IsFiniteSet(lost')
      /\ Cardinality(lost') = Cardinality(lost) + (Len(m_buffer) - k)
  <2>1. /\ Settled + k \in Nat /\ Settled + Len(m_buffer) \in Nat
        /\ Settled + k <= Settled + Len(m_buffer) /\ Settled <= Settled + k
        /\ (Settled + Len(m_buffer)) - (Settled + k) = Len(m_buffer) - k
    BY <1>1
  <2>2. lost' = lost \cup (Settled + k + 1 .. Settled + Len(m_buffer))
    BY <1>6
  <2>3. LogType /\ Pieces OBVIOUS
  <2> HIDE DEF LogInv
  <2> QED BY <2>1, <2>2, <2>3, LostGrows
<1> HIDE DEF LogInv
<1>8. Settled' = Settled + Len(m_buffer)
  BY <1>1, <1>5, <1>7 DEF Settled
<1>9. Pieces'
  <2>1. lost' \subseteq 1 .. Settled'
    <3>1. 1 .. Settled \subseteq 1 .. Settled' BY <1>1, <1>8
    <3>2. Settled + k + 1 .. Settled + Len(m_buffer) \subseteq 1 .. Settled'
      BY <1>1, <1>8
    <3>3. lost \subseteq 1 .. Settled BY <1>3
    <3> QED BY <1>6, <3>1, <3>2, <3>3
  <2>2. Len(m_buffer') = 0
    OBVIOUS
  <2>3. Settled' + Len(m_buffer') + Len(m_queue') = accepted'
    BY <1>1, <1>3, <1>8, <2>2
  <2>4. \A i \in 1 .. Len(m_queue') : m_queue'[i] = Settled' + Len(m_buffer') + i
    BY <1>1, <1>3, <1>8, <2>2
  <2> QED BY <2>1, <2>2, <2>3, <2>4 DEF Pieces
<1> QED BY <1>4, <1>5, <1>6, <1>7, <1>8, <1>9

\* Without a failure yet, a batch written as a whole keeps the file clean.
LEMMA WholeBatch ==
  ASSUME LogInv, L!FlushDone
  PROVE  /\ file' = file \o [i \in 1 .. Len(m_buffer) |-> Settled + i]
         /\ UNCHANGED <<lost, accepted, m_queue, faults>> /\ m_buffer' = <<>>
         /\ file' \in Seq(Nat) /\ Settled' = Settled + Len(m_buffer)
         /\ Pieces' /\ Clean'
<1> USE DEF LogInv, LogType
<1>1. /\ file' = file \o m_buffer /\ m_buffer' = <<>>
      /\ UNCHANGED <<accepted, lost, faults, m_queue>>
  BY DEF L!FlushDone
<1>2. /\ Len(m_buffer) \in 0 .. Len(m_buffer)
      /\ SubSeq(m_buffer, 1, Len(m_buffer)) = m_buffer
      /\ {m_buffer[i] : i \in Len(m_buffer) + 1 .. Len(m_buffer)} = {}
  OBVIOUS
<1>3. lost' = lost \cup {m_buffer[i] : i \in Len(m_buffer) + 1 .. Len(m_buffer)}
  BY <1>1, <1>2
<1>4. /\ file' = file \o [i \in 1 .. Len(m_buffer) |-> Settled + i]
      /\ file' \in Seq(Nat) /\ Settled' = Settled + Len(m_buffer) /\ Pieces'
  <2> HIDE DEF LogInv, LogType
  <2> QED BY <1>1, <1>2, <1>3, Batch
<1>5. Clean'
  <2> SUFFICES ASSUME faults = 0 PROVE \A i \in 1 .. Len(file') : file'[i] = i
    BY <1>1 DEF Clean
  <2>1. lost = {} /\ Settled = Len(file)
    BY FS_EmptySet DEF Clean, Settled
  <2>2. TAKE i \in 1 .. Len(file')
  <2>3. CASE i \in 1 .. Len(file)
    BY <1>1, <2>3 DEF Clean
  <2>4. CASE i \notin 1 .. Len(file)
    <3>1. i - Len(file) \in 1 .. Len(m_buffer) /\ file'[i] = m_buffer[i - Len(file)]
      BY <1>1, <2>4
    <3> QED BY <2>1, <3>1 DEF Pieces
  <2> QED BY <2>3, <2>4
<1> QED BY <1>1, <1>4, <1>5

-----------------------------------------------------------------------------
(* The inductive invariant.                                                *)

logData == <<accepted, file, m_buffer, m_queue, lost, faults>>

\* A step that moves no transcription keeps the pieces.
LEMMA DataUntouched ==
  ASSUME LogInv, UNCHANGED logData
  PROVE  Pieces' /\ Clean'
BY DEF LogInv, Pieces, Clean, Settled, logData

\* log() and stop(), called by main.
LEMMA LogCallInv ==
  ASSUME LogInv, LogCall
  PROVE  LogInv'
<1> USE DEF MainPlace, WriterPlace
<1>1. CASE L!LogEnqueue
  <2>1. Pieces' /\ Clean' /\ m_queue' \in Seq(Nat)
    BY <1>1, Enqueue DEF L!LogEnqueue
  <2>2. LogType'
    BY <1>1, <2>1 DEF LogInv, LogType, LogCall, L!LogEnqueue, L!LogNotify
  <2>3. MainPlace' /\ WriterPlace'
    BY <1>1 DEF LogInv, LogType, LogCall, L!LogEnqueue, L!LogNotify
  <2> QED BY <2>1, <2>2, <2>3 DEF LogInv
<1>2. CASE L!LogFlag
  <2>1. Pieces' /\ Clean' BY <1>2, DataUntouched DEF L!LogFlag, logData
  <2> QED BY <1>2, <2>1 DEF LogInv, LogType, LogCall, L!LogFlag, L!LogNotify
<1>3. CASE L!LogNotify
  <2>1. Pieces' /\ Clean' BY <1>3, DataUntouched DEF L!LogNotify, logData
  <2> QED
    BY <1>3, <2>1 DEF LogInv, LogType, LogCall, L!LogNotify, L!LogFlag, L!LogEnqueue, L!Wake
<1> QED BY <1>1, <1>2, <1>3 DEF LogCall

\* stop() keeps the invariant: m_running is cleared after the last log().
LEMMA StopCallInv ==
  ASSUME LogInv, StopCall
  PROVE  LogInv'
<1>1. Pieces' /\ Clean'
  BY DataUntouched DEF StopCall, L!StopBegin, L!StopNotify, loggerVars, logData
<1>2. CASE L!StopBegin
  BY <1>1, <1>2 DEF LogInv, LogType, MainPlace, WriterPlace, StopCall, L!StopBegin,
                    L!StopNotify
<1>3. CASE L!StopNotify
  BY <1>1, <1>3 DEF LogInv, LogType, MainPlace, WriterPlace, StopCall, L!StopBegin,
                    L!StopNotify, L!Wake
<1>4. CASE ~m_initialized /\ mpc' = "returned" /\ UNCHANGED loggerVars
  BY <1>1, <1>4 DEF LogInv, LogType, MainPlace, WriterPlace, StopCall, loggerVars
<1> QED BY <1>2, <1>3, <1>4 DEF StopCall

\* The steps of main that do not concern the log.
LEMMA MainInv ==
  ASSUME LogInv,
         \/ LoopTest \/ Poll \/ Transcribe \/ NoText
         \/ PushCall \/ Quit \/ JoinBc \/ JoinLog
  PROVE  LogInv'
<1>1. UNCHANGED loggerVars
  BY DEF LoopTest, Poll, Transcribe, NoText, PushCall, Quit, JoinBc, JoinLog
<1>2. Pieces' /\ Clean'
  BY <1>1, DataUntouched DEF loggerVars, logData
<1>3. WriterPlace' /\ LogType'
  <2>1. made' \in Nat
    <3>1. made \in Nat BY DEF LogInv, LogType
    <3>2. made' = made \/ made' = made + 1
      BY DEF LoopTest, Poll, Transcribe, NoText, PushCall, Quit, JoinBc, JoinLog
    <3> QED BY <3>1, <3>2
  <2> QED BY <1>1, <2>1 DEF LogInv, LogType, WriterPlace, loggerVars
<1> USE DEF LogInv, LogType, MainPlace, loggerVars
<1>4. CASE LoopTest BY <1>1, <1>2, <1>3, <1>4 DEF LoopTest
<1>5. CASE Poll
  <2>1. mpc = "poll" /\ mpc' \in {"poll", "infer", "down"} /\ UNCHANGED made
    BY <1>5 DEF Poll
  <2> QED BY <1>1, <1>2, <1>3, <2>1
<1>6. CASE Transcribe BY <1>1, <1>2, <1>3, <1>6 DEF Transcribe
<1>7. CASE NoText BY <1>1, <1>2, <1>3, <1>7 DEF NoText
<1>8. CASE PushCall BY <1>1, <1>2, <1>3, <1>8 DEF PushCall
<1>9. CASE Quit BY <1>1, <1>2, <1>3, <1>9 DEF Quit
<1>10. CASE JoinBc BY <1>1, <1>2, <1>3, <1>10 DEF JoinBc
<1>11. CASE JoinLog BY <1>1, <1>2, <1>3, <1>11 DEF JoinLog
<1> QED BY <1>2, <1>3, <1>4, <1>5, <1>6, <1>7, <1>8, <1>9, <1>10, <1>11

\* The writer thread.
LEMMA WriterInv ==
  ASSUME LogInv, WriterStep
  PROVE  LogInv'
<1>1. UNCHANGED <<m_initialized, m_running, accepted, lpc, mpc, made>>
  BY DEF WriterStep, mainVars, L!Writer, L!WriterTest, L!WriterCheck, L!WriterSleep,
         L!WriterRouses, L!WriterDrain, L!WriterFinal, L!FlushDone,
         L!FlushOpenFails, L!FlushWriteFails
<1>2. wpc # "exited"
  BY DEF WriterStep, L!Writer, L!WriterTest, L!WriterCheck, L!WriterSleep,
         L!WriterRouses, L!WriterDrain, L!WriterFinal, L!FlushDone,
         L!FlushOpenFails, L!FlushWriteFails
<1>3. m_initialized /\ MainPlace'
  BY <1>1, <1>2 DEF LogInv, MainPlace, WriterPlace
<1>4. CASE L!WriterTest \/ L!WriterCheck \/ L!WriterSleep \/ L!WriterRouses
  <2>1. UNCHANGED logData
    BY <1>4 DEF L!WriterTest, L!WriterCheck, L!WriterSleep, L!WriterRouses, logData
  <2>2. /\ wpc' \notin {"flush", "flush_final", "exited"}
        /\ wpc' = "final" => ~m_running
    BY <1>4 DEF L!WriterTest, L!WriterCheck, L!WriterSleep, L!WriterRouses
  <2>3. Pieces' /\ Clean' BY <2>1, DataUntouched
  <2> QED BY <1>1, <1>3, <2>1, <2>2, <2>3 DEF LogInv, LogType, WriterPlace, logData
<1>5. CASE L!WriterDrain
  <2>1. CASE m_queue = <<>>
    <3>1. UNCHANGED logData /\ wpc' = "test"
      BY <1>5, <2>1 DEF L!WriterDrain, logData
    <3>2. Pieces' /\ Clean' BY <3>1, DataUntouched
    <3> QED BY <1>1, <1>3, <3>1, <3>2 DEF LogInv, LogType, WriterPlace, logData
  <2>2. CASE m_queue # <<>>
    <3>1. /\ m_buffer' = Append(m_buffer, Head(m_queue)) /\ m_queue' = Tail(m_queue)
          /\ wpc' \in {"flush", "drain"} /\ UNCHANGED <<file, lost, faults>>
      BY <1>5, <2>2 DEF L!WriterDrain
    <3>2. /\ m_buffer' \in Seq(Nat) /\ m_queue' \in Seq(Nat) /\ m_buffer' # <<>>
          /\ Pieces' /\ Clean'
      BY <1>1, <2>2, <3>1, Move
    <3> QED BY <1>1, <1>3, <3>1, <3>2 DEF LogInv, LogType, WriterPlace
  <2> QED BY <2>1, <2>2
<1>6. CASE L!WriterFinal
  <2>1. ~m_running BY <1>6 DEF L!WriterFinal, LogInv, WriterPlace
  <2>2. CASE m_queue = <<>>
    <3>1. /\ UNCHANGED logData
          /\ wpc' = IF m_buffer = <<>> THEN "exited" ELSE "flush_final"
      BY <1>6, <2>2 DEF L!WriterFinal, logData
    <3>2. Pieces' /\ Clean' BY <3>1, DataUntouched
    <3> QED
      BY <1>1, <1>3, <2>1, <2>2, <3>1, <3>2 DEF LogInv, LogType, WriterPlace, logData
  <2>3. CASE m_queue # <<>>
    <3>1. /\ m_buffer' = Append(m_buffer, Head(m_queue)) /\ m_queue' = Tail(m_queue)
          /\ wpc' = "final" /\ UNCHANGED <<file, lost, faults>>
      BY <1>6, <2>3 DEF L!WriterFinal
    <3>2. /\ m_buffer' \in Seq(Nat) /\ m_queue' \in Seq(Nat) /\ m_buffer' # <<>>
          /\ Pieces' /\ Clean'
      BY <1>1, <2>3, <3>1, Move
    <3> QED BY <1>1, <1>3, <2>1, <3>1, <3>2 DEF LogInv, LogType, WriterPlace
  <2> QED BY <2>2, <2>3
<1>7. CASE L!FlushDone
  <2>1. /\ wpc \in {"flush", "flush_final"}
        /\ wpc' = IF wpc = "flush" THEN "drain" ELSE "exited"
    BY <1>7 DEF L!FlushDone, L!AfterFlush
  <2>2. /\ UNCHANGED <<lost, accepted, m_queue, faults>> /\ m_buffer' = <<>>
        /\ file' \in Seq(Nat) /\ Pieces' /\ Clean'
    BY <1>7, WholeBatch
  <2> QED BY <1>1, <1>3, <2>1, <2>2 DEF LogInv, LogType, WriterPlace
<1>8. CASE L!FlushOpenFails
  <2>1. /\ wpc \in {"flush", "flush_final"}
        /\ wpc' = IF wpc = "flush" THEN "drain" ELSE "exited"
        /\ faults' = faults + 1
        /\ UNCHANGED <<accepted, file, m_buffer, m_queue, lost>>
    BY <1>8 DEF L!FlushOpenFails, L!AfterFlush
  <2>2. faults' \in Nat /\ faults' # 0
    <3>1. faults \in Nat BY DEF LogInv, LogType
    <3> QED BY <2>1, <3>1
  <2>3. Pieces'
    BY <2>1 DEF LogInv, Pieces, Settled
  <2>4. LogType' /\ Clean' /\ WriterPlace'
    BY <1>1, <1>3, <2>1, <2>2 DEF LogInv, LogType, WriterPlace, Clean
  <2> QED BY <1>3, <2>3, <2>4 DEF LogInv
<1>9. CASE L!FlushWriteFails
  <2>1. PICK k \in 0 .. Len(m_buffer) - 1 :
          /\ file' = file \o SubSeq(m_buffer, 1, k)
          /\ lost' = lost \cup {m_buffer[i] : i \in k + 1 .. Len(m_buffer)}
    BY <1>9 DEF L!FlushWriteFails
  <2>2. /\ wpc \in {"flush", "flush_final"}
        /\ wpc' = IF wpc = "flush" THEN "drain" ELSE "exited"
        /\ faults' = faults + 1 /\ m_buffer' = <<>>
        /\ UNCHANGED <<accepted, m_queue>>
    BY <1>9 DEF L!FlushWriteFails, L!AfterFlush
  <2>3. k \in 0 .. Len(m_buffer)
    BY DEF LogInv, LogType
  <2>4. file' \in Seq(Nat) /\ IsFiniteSet(lost') /\ Pieces'
    BY <2>1, <2>2, <2>3, Batch
  <2>5. faults' \in Nat /\ faults' # 0
    <3>1. faults \in Nat BY DEF LogInv, LogType
    <3> QED BY <2>2, <3>1
  <2> QED BY <1>1, <1>3, <2>2, <2>4, <2>5 DEF LogInv, LogType, WriterPlace, Clean
<1> QED BY <1>4, <1>5, <1>6, <1>7, <1>8, <1>9 DEF WriterStep, L!Writer

\* The invariant holds in every behaviour.
LEMMA LogInvariance == Spec => []LogInv
<1>1. Init => LogInv
  <2> SUFFICES ASSUME Init PROVE LogInv
    OBVIOUS
  <2>1. IsFiniteSet({}) /\ Cardinality({}) = 0 BY FS_EmptySet
  <2> USE DEF Init, L!Init
  <2>2. LogType BY <2>1 DEF LogType
  <2>3. Settled = 0 BY <2>1 DEF Settled
  <2>4. Pieces BY <2>3 DEF Pieces
  <2>5. Clean /\ MainPlace /\ WriterPlace BY DEF Clean, MainPlace, WriterPlace
  <2> QED BY <2>2, <2>4, <2>5 DEF LogInv
<1>2. LogInv /\ [Next]_vars => LogInv'
  <2> SUFFICES ASSUME LogInv, [Next]_vars PROVE LogInv'
    OBVIOUS
  <2>1. CASE \/ LoopTest \/ Poll \/ Transcribe \/ NoText
             \/ PushCall \/ Quit \/ JoinBc \/ JoinLog
    BY <2>1, MainInv
  <2>2. CASE LogCall BY <2>2, LogCallInv
  <2>3. CASE StopCall BY <2>3, StopCallInv
  <2>4. CASE WriterStep BY <2>4, WriterInv
  <2>5. CASE RemoteShutdown \/ Bc \/ UNCHANGED vars
    <3>1. UNCHANGED <<loggerVars, mpc, made>>
      BY <2>5 DEF RemoteShutdown, Bc, BcTest, Broadcast, mainVars, vars
    <3>2. Pieces' /\ Clean' BY <3>1, DataUntouched DEF loggerVars, logData
    <3> QED BY <3>1, <3>2 DEF LogInv, LogType, MainPlace, WriterPlace, loggerVars
  <2> QED BY <2>1, <2>2, <2>3, <2>4, <2>5 DEF Next, Main, Finished
<1> QED BY <1>1, <1>2, PTL DEF Spec

\* When main returns, every transcription made is in the file and in order, unless
\* an operation on the file failed.
THEOREM NothingLostAtExit == Spec => []ExitComplete
<1>1. LogInv => ExitComplete
  <2> SUFFICES ASSUME LogInv, mpc = "returned", m_initialized, faults = 0
               PROVE  file = [i \in 1 .. made |-> i]
    BY DEF ExitComplete
  <2>1. wpc = "exited" /\ m_queue = <<>> /\ m_buffer = <<>> /\ accepted = made
    BY DEF LogInv, MainPlace, WriterPlace
  <2>2. lost = {} /\ \A i \in 1 .. Len(file) : file[i] = i
    BY DEF LogInv, Clean
  <2>3. Settled = Len(file) /\ Len(file) \in Nat
    BY <2>2, FS_EmptySet DEF LogInv, LogType, Settled
  <2>4. Len(file) = made
    <3>1. Settled + Len(m_buffer) + Len(m_queue) = accepted BY DEF LogInv, Pieces
    <3> QED BY <2>1, <2>3, <3>1
  <2>5. file \in Seq(Nat) BY DEF LogInv, LogType
  <2> QED BY <2>2, <2>4, <2>5
<1> QED BY LogInvariance, <1>1, PTL

-----------------------------------------------------------------------------
(* The join with the writer thread, whose notification may be lost.        *)

\* How many steps the writer has to its end at most, once m_running is false: two for
\* each entry in its queue, and those of the places it still comes through.
WriterLeft ==
  CASE wpc = "exited" -> 0
    [] wpc = "flush_final" -> 1
    [] wpc = "final" -> 2 + 2 * Len(m_queue)
    [] wpc = "test" -> 3 + 2 * Len(m_queue)
    [] wpc = "drain" -> 4 + 2 * Len(m_queue)
    [] wpc \in {"flush", "check", "woken", "timedout"} -> 5 + 2 * Len(m_queue)
    [] wpc = "asleep" -> 6 + 2 * Len(m_queue)
    [] OTHER -> 7 + 2 * Len(m_queue)

\* Once stop() has cleared m_running every step of the writer brings it nearer its
\* end, wherever the call found it, whether or not the notification reaches it and
\* whatever fails at the file; and nothing is added that would take it back.
StopAdvances ==
  [][~m_running => /\ WriterLeft' <= WriterLeft
                   /\ WriterStep => WriterLeft' < WriterLeft]_vars

\* A dequeue leaves one entry less.
LEMMA OneLess ==
  ASSUME LogType, m_queue # <<>>, m_queue' = Tail(m_queue)
  PROVE  Len(m_queue) \in Nat \ {0} /\ Len(m_queue') = Len(m_queue) - 1
BY DEF LogType

\* A step of the writer that finds m_running false.
LEMMA WriterDescends ==
  ASSUME LogType, ~m_running, WriterStep
  PROVE  WriterLeft' < WriterLeft
<1>1. Len(m_queue) \in Nat BY DEF LogType
<1>2. CASE L!WriterTest \/ L!WriterCheck \/ L!WriterSleep \/ L!WriterRouses
  BY <1>1, <1>2 DEF L!WriterTest, L!WriterCheck, L!WriterSleep, L!WriterRouses,
     L!DataOrStop, WriterLeft
<1>3. CASE L!WriterDrain
  BY <1>1, <1>3, OneLess DEF L!WriterDrain, WriterLeft
<1>4. CASE L!WriterFinal
  BY <1>1, <1>4, OneLess DEF L!WriterFinal, WriterLeft
<1>5. CASE L!FlushDone \/ L!FlushOpenFails \/ L!FlushWriteFails
  BY <1>1, <1>5 DEF L!FlushDone, L!FlushOpenFails, L!FlushWriteFails, L!AfterFlush, WriterLeft
<1> QED BY <1>2, <1>3, <1>4, <1>5 DEF WriterStep, L!Writer

\* stop() does not depend on its notification: a writer that misses it, on its way to
\* sleep, or sleeps through it, drains its queue and ends in so many of its own steps.
THEOREM StopDoesAdvance == Spec => StopAdvances
<1>1. LogInv /\ [Next]_vars
        => [~m_running => WriterLeft' <= WriterLeft
                            /\ (WriterStep => WriterLeft' < WriterLeft)]_vars
  <2> SUFFICES ASSUME LogInv, [Next]_vars, ~m_running
               PROVE  WriterLeft' <= WriterLeft /\ (WriterStep => WriterLeft' < WriterLeft)
    OBVIOUS
  <2>1. LogType /\ Len(m_queue) \in Nat BY DEF LogInv, LogType
  <2>2. WriterLeft \in Nat BY <2>1 DEF WriterLeft
  <2>3. CASE WriterStep
    <3>1. LogType' BY <2>3, WriterInv DEF LogInv
    <3>2. WriterLeft' \in Nat BY <3>1 DEF WriterLeft, LogType
    <3> QED BY <2>1, <2>2, <2>3, <3>2, WriterDescends
  <2>4. CASE LogCall /\ ~WriterStep
    BY <2>1, <2>2, <2>4 DEF LogInv, MainPlace, LogCall, L!LogEnqueue, L!LogFlag, L!LogNotify,
       WriterPlace
  <2>5. CASE StopCall /\ ~WriterStep
    <3>1. UNCHANGED m_queue /\ (UNCHANGED wpc \/ (wpc = "asleep" /\ wpc' = "woken"))
      BY <2>5 DEF StopCall, L!StopBegin, L!StopNotify, L!Wake, loggerVars
    <3> QED BY <2>1, <2>2, <2>5, <3>1 DEF WriterLeft
  <2>6. CASE UNCHANGED loggerVars /\ ~WriterStep
    BY <2>1, <2>2, <2>6 DEF loggerVars, WriterLeft
  <2> QED
    BY <2>3, <2>4, <2>5, <2>6
       DEF Next, Main, Finished, LoopTest, Poll, Transcribe, NoText, PushCall, Quit, JoinBc,
           JoinLog, RemoteShutdown, Bc, BcTest, Broadcast, vars
<1> QED BY <1>1, LogInvariance, PTL DEF Spec, StopAdvances

-----------------------------------------------------------------------------
(* TranscriptionLogger implements TranscriptLog.                           *)

\* The abstract module has a Cardinality of its own.
LEMMA SameCardinality == \A S : L!Log!Cardinality(S) = Cardinality(S)
BY DEF L!Log!Cardinality, Cardinality

\* Before the writer exits the abstract log has lost what the writer lost.
LEMMA OpenLog ==
  ASSUME wpc # "exited"
  PROVE  lost \cup L!Unwritten = lost /\ L!Log!Settled = Settled
<1>1. lost \cup L!Unwritten = lost
  BY DEF L!Unwritten
<1> QED BY <1>1, SameCardinality DEF L!Log!Settled, Settled

\* k entries of the buffer written and the others given up is a Write.
LEMMA Writes ==
  ASSUME LogInv, wpc # "exited", NEW k \in 0 .. Len(m_buffer),
         file' = file \o [i \in 1 .. k |-> Settled + i],
         (lost \cup L!Unwritten)'
           = lost \cup (Settled + k + 1 .. Settled + Len(m_buffer)),
         faults' = IF k < Len(m_buffer) THEN faults + 1 ELSE faults,
         UNCHANGED accepted
  PROVE  L!Log!Write(Settled + k, Settled + Len(m_buffer))
<1>1. Settled \in Nat /\ Len(m_buffer) \in Nat
  BY Counts DEF LogInv
<1>2. L!Log!Settled = Settled /\ lost \cup L!Unwritten = lost
  BY OpenLog
<1>3. L!Log!Run(L!Log!Settled + 1, Settled + k) = [i \in 1 .. k |-> Settled + i]
  BY <1>1, <1>2 DEF L!Log!Run
<1>4. Settled + k < Settled + Len(m_buffer) <=> k < Len(m_buffer)
  BY <1>1
<1> QED BY <1>2, <1>3, <1>4 DEF L!Log!Write

\* In the loop such a Write is a Flush ...
LEMMA Flushes ==
  ASSUME LogInv, wpc = "flush", wpc' # "exited", NEW k \in 0 .. Len(m_buffer),
         L!Log!Write(Settled + k, Settled + Len(m_buffer))
  PROVE  L!Log!Flush
<1>1. /\ Settled \in Nat /\ accepted \in Nat
      /\ Len(m_buffer) \in Nat /\ Len(m_queue) \in Nat
  BY Counts DEF LogInv
<1>2. L!Log!Settled = Settled
  BY OpenLog
<1>3. Len(m_buffer) >= 1
  BY DEF LogInv, LogType, WriterPlace
<1>4. Settled + Len(m_buffer) + Len(m_queue) = accepted
  BY DEF LogInv, Pieces
<1>5. /\ Settled + Len(m_buffer) \in L!Log!Settled + 1 .. accepted
      /\ Settled + k \in L!Log!Settled .. Settled + Len(m_buffer)
  BY <1>1, <1>2, <1>3, <1>4
<1> QED BY <1>5 DEF L!Log!Flush

\* ... and after it, when the queue is empty, a Close.
LEMMA Closes ==
  ASSUME LogInv, m_queue = <<>>, wpc # "exited", wpc' = "exited",
         NEW k \in 0 .. Len(m_buffer),
         L!Log!Write(Settled + k, Settled + Len(m_buffer))
  PROVE  L!Log!Close
<1>1. Settled \in Nat /\ accepted \in Nat /\ Len(m_buffer) \in Nat
  BY Counts DEF LogInv
<1>2. L!Log!Settled = Settled
  BY OpenLog
<1>3. accepted = Settled + Len(m_buffer)
  <2>1. Settled + Len(m_buffer) + Len(m_queue) = accepted /\ Len(m_queue) = 0
    BY DEF LogInv, Pieces
  <2> QED BY <1>1, <2>1
<1>4. Settled + k \in L!Log!Settled .. accepted
  BY <1>1, <1>2, <1>3
<1> QED BY <1>3, <1>4 DEF L!Log!Close

\* A step that touches nothing the abstract log has is a stutter.
LEMMA Stutters ==
  ASSUME UNCHANGED <<accepted, file, lost, faults>>,
         wpc = "exited" <=> wpc' = "exited",
         wpc = "exited" => UNCHANGED m_buffer
  PROVE  UNCHANGED L!Log!vars
<1>1. UNCHANGED L!Unwritten
  BY DEF L!Unwritten
<1> QED BY <1>1 DEF L!Log!vars

\* Every step of the writer thread is a step of the abstract log, or none.
LEMMA WriterRefines ==
  ASSUME LogInv, WriterStep
  PROVE  L!Log!Next \/ UNCHANGED L!Log!vars
<1>1. CASE \/ L!WriterTest \/ L!WriterCheck \/ L!WriterSleep \/ L!WriterRouses
           \/ L!WriterDrain
  BY <1>1, Stutters DEF L!WriterTest, L!WriterCheck, L!WriterSleep, L!WriterRouses,
                        L!WriterDrain
<1>2. CASE L!WriterFinal
  <2>1. wpc = "final" /\ UNCHANGED <<accepted, file, lost, faults>>
    BY <1>2 DEF L!WriterFinal
  <2>2. CASE m_queue = <<>> /\ m_buffer = <<>>
    <3>1. wpc' = "exited" /\ m_buffer' = <<>>
      BY <1>2, <2>2 DEF L!WriterFinal
    <3>2. L!Unwritten' = {}
      BY <3>1 DEF L!Unwritten
    <3>3. /\ 0 \in 0 .. Len(m_buffer) /\ Len(m_buffer) = 0
          /\ Settled \in Nat /\ file \in Seq(Nat)
      BY <2>2, Counts DEF LogInv, LogType
    <3>4. file' = file \o [i \in 1 .. 0 |-> Settled + i]
      BY <2>1, <3>3
    <3>5. (lost \cup L!Unwritten)'
            = lost \cup (Settled + 0 + 1 .. Settled + Len(m_buffer))
      BY <2>1, <3>2, <3>3
    <3>6. L!Log!Write(Settled + 0, Settled + Len(m_buffer))
      BY <2>1, <3>3, <3>4, <3>5, Writes
    <3> QED BY <2>1, <2>2, <3>1, <3>3, <3>6, Closes DEF L!Log!Next
  <2>3. CASE ~(m_queue = <<>> /\ m_buffer = <<>>)
    <3>1. wpc' # "exited" BY <1>2, <2>3 DEF L!WriterFinal
    <3> QED BY <2>1, <3>1, Stutters
  <2> QED BY <2>2, <2>3
<1>3. CASE L!FlushDone
  <2>1. /\ file' = file \o [i \in 1 .. Len(m_buffer) |-> Settled + i]
        /\ UNCHANGED <<lost, accepted, faults>> /\ m_buffer' = <<>>
    BY <1>3, WholeBatch
  <2>2. /\ wpc \in {"flush", "flush_final"}
        /\ wpc' = IF wpc = "flush" THEN "drain" ELSE "exited"
    BY <1>3 DEF L!FlushDone, L!AfterFlush
  <2>3. Settled \in Nat /\ Len(m_buffer) \in Nat
    BY Counts DEF LogInv
  <2>4. (lost \cup L!Unwritten)'
          = lost \cup (Settled + Len(m_buffer) + 1 .. Settled + Len(m_buffer))
    <3>1. L!Unwritten' = {} BY <2>1 DEF L!Unwritten
    <3> QED BY <2>1, <2>3, <3>1
  <2>5. /\ Len(m_buffer) \in 0 .. Len(m_buffer)
        /\ L!Log!Write(Settled + Len(m_buffer), Settled + Len(m_buffer))
    BY <2>1, <2>2, <2>3, <2>4, Writes
  <2>6. CASE wpc = "flush" BY <2>2, <2>5, <2>6, Flushes DEF L!Log!Next
  <2>7. CASE wpc = "flush_final"
    BY <2>2, <2>5, <2>7, Closes DEF LogInv, WriterPlace, L!Log!Next
  <2> QED BY <2>2, <2>6, <2>7
<1>4. CASE L!FlushOpenFails
  <2>1. /\ wpc \in {"flush", "flush_final"}
        /\ wpc' = IF wpc = "flush" THEN "drain" ELSE "exited"
        /\ faults' = faults + 1
        /\ UNCHANGED <<accepted, file, m_buffer, m_queue, lost>>
    BY <1>4 DEF L!FlushOpenFails, L!AfterFlush
  <2>2. CASE wpc = "flush"
    <3>1. UNCHANGED L!Unwritten BY <2>1, <2>2 DEF L!Unwritten
    <3> QED BY <2>1, <2>2, <3>1 DEF L!Log!Retry, L!Log!Next
  <2>3. CASE wpc = "flush_final"
    <3>1. /\ Settled \in Nat /\ Len(m_buffer) \in Nat
          /\ m_queue = <<>> /\ Len(m_buffer) >= 1 /\ file \in Seq(Nat)
      BY <2>3, Counts DEF LogInv, LogType, WriterPlace
    <3>2. L!Unwritten' = Settled + 0 + 1 .. Settled + Len(m_buffer)
      <4>1. L!Unwritten' = {m_buffer[i] : i \in 1 .. Len(m_buffer)}
        BY <2>1, <2>3 DEF L!Unwritten, LogInv, LogType
      <4>2. \A i \in 1 .. Len(m_buffer) : m_buffer[i] = Settled + i
        BY DEF LogInv, Pieces
      <4>3. ASSUME NEW x \in {m_buffer[i] : i \in 1 .. Len(m_buffer)}
            PROVE  x \in Settled + 0 + 1 .. Settled + Len(m_buffer)
        <5>1. PICK i \in 1 .. Len(m_buffer) : x = m_buffer[i] OBVIOUS
        <5> QED BY <3>1, <4>2, <5>1
      <4>4. ASSUME NEW x \in Settled + 0 + 1 .. Settled + Len(m_buffer)
            PROVE  x \in {m_buffer[i] : i \in 1 .. Len(m_buffer)}
        <5>1. x - Settled \in 1 .. Len(m_buffer) BY <3>1
        <5>2. m_buffer[x - Settled] = Settled + (x - Settled) BY <4>2, <5>1
        <5>3. m_buffer[x - Settled] = x BY <3>1, <5>2
        <5> QED BY <5>1, <5>3
      <4> QED BY <4>1, <4>3, <4>4
    <3>3. file' = file \o [i \in 1 .. 0 |-> Settled + i]
      BY <2>1, <3>1
    <3>4. 0 \in 0 .. Len(m_buffer) /\ 0 < Len(m_buffer)
      BY <3>1
    <3>5. L!Log!Write(Settled + 0, Settled + Len(m_buffer))
      BY <2>1, <2>3, <3>2, <3>3, <3>4, Writes
    <3> QED BY <2>1, <2>3, <3>1, <3>4, <3>5, Closes DEF L!Log!Next
  <2> QED BY <2>1, <2>2, <2>3
<1>5. CASE L!FlushWriteFails
  <2>1. PICK k \in 0 .. Len(m_buffer) - 1 :
          /\ file' = file \o SubSeq(m_buffer, 1, k)
          /\ lost' = lost \cup {m_buffer[i] : i \in k + 1 .. Len(m_buffer)}
    BY <1>5 DEF L!FlushWriteFails
  <2>2. /\ wpc \in {"flush", "flush_final"}
        /\ wpc' = IF wpc = "flush" THEN "drain" ELSE "exited"
        /\ faults' = faults + 1 /\ m_buffer' = <<>>
        /\ UNCHANGED <<accepted, m_queue>>
    BY <1>5 DEF L!FlushWriteFails, L!AfterFlush
  <2>3. Settled \in Nat /\ Len(m_buffer) \in Nat
    BY Counts DEF LogInv
  <2>4. k \in 0 .. Len(m_buffer) /\ k < Len(m_buffer)
    BY <2>3
  <2>5. /\ file' = file \o [i \in 1 .. k |-> Settled + i]
        /\ lost' = lost \cup (Settled + k + 1 .. Settled + Len(m_buffer))
    BY <2>1, <2>2, <2>4, Batch
  <2>6. (lost \cup L!Unwritten)'
          = lost \cup (Settled + k + 1 .. Settled + Len(m_buffer))
    <3>1. L!Unwritten' = {} BY <2>2 DEF L!Unwritten
    <3> QED BY <2>5, <3>1
  <2>7. L!Log!Write(Settled + k, Settled + Len(m_buffer))
    BY <2>2, <2>4, <2>5, <2>6, Writes
  <2>8. CASE wpc = "flush" BY <2>2, <2>4, <2>7, <2>8, Flushes DEF L!Log!Next
  <2>9. CASE wpc = "flush_final"
    BY <2>2, <2>4, <2>7, <2>9, Closes DEF LogInv, WriterPlace, L!Log!Next
  <2> QED BY <2>2, <2>8, <2>9
<1> QED BY <1>1, <1>2, <1>3, <1>4, <1>5 DEF WriterStep, L!Writer

\* TranscriptionLogger, as the server uses it, keeps the promises of a
\* TranscriptLog: order, whole batches, no loss without a failure of the file.
THEOREM LogIsRefined == Spec => LogRefined
<1>1. Init => L!Log!Init
  BY DEF Init, L!Init, L!Log!Init, L!Unwritten
<1>2. LogInv /\ [Next]_vars => [L!Log!Next]_(L!Log!vars)
  <2> SUFFICES ASSUME LogInv, [Next]_vars
               PROVE  L!Log!Next \/ UNCHANGED L!Log!vars
    OBVIOUS
  <2>1. CASE L!LogEnqueue /\ LogCall
    <3>1. wpc # "exited" /\ UNCHANGED <<wpc, file, lost, faults>>
      BY <2>1 DEF L!LogEnqueue, LogCall, LogInv, MainPlace, WriterPlace
    <3>2. UNCHANGED L!Unwritten BY <3>1 DEF L!Unwritten
    <3>3. accepted' = accepted + 1 BY <2>1 DEF L!LogEnqueue
    <3> QED BY <3>1, <3>2, <3>3 DEF L!Log!Accept, L!Log!Next
  <2>2. CASE (L!LogFlag \/ L!LogNotify) /\ LogCall
    BY <2>2, Stutters DEF L!LogFlag, L!LogNotify, L!Wake
  <2>3. CASE StopCall
    BY <2>3, Stutters DEF StopCall, L!StopBegin, L!StopNotify, L!Wake, loggerVars
  <2>4. CASE WriterStep BY <2>4, WriterRefines
  <2>5. CASE UNCHANGED loggerVars BY <2>5, Stutters DEF loggerVars
  <2>6. CASE \/ LoopTest \/ Poll \/ Transcribe \/ NoText \/ PushCall \/ Quit
             \/ JoinBc \/ JoinLog \/ RemoteShutdown \/ Bc \/ UNCHANGED vars
    <3>1. UNCHANGED loggerVars
      BY <2>6 DEF LoopTest, Poll, Transcribe, NoText, PushCall, Quit, JoinBc,
                  JoinLog, RemoteShutdown, Bc, BcTest, Broadcast, vars
    <3> QED BY <2>5, <3>1
  <2> QED
    BY <2>1, <2>2, <2>3, <2>4, <2>6 DEF Next, Main, LogCall, Finished
<1> QED BY LogInvariance, <1>1, <1>2, PTL DEF Spec, LogRefined, L!Log!Spec

=============================================================================
