----------------------------- MODULE Stream2Page -----------------------------
(***************************************************************************)
(* The page of src/stream2.wasm, from the microphone to the engine:         *)
(* index.html (start, stop, the callbacks of the voice detection and the    *)
(* continuous capture), the AudioChunkBuffer it queues utterances in, the   *)
(* engine of emscripten.cpp with its worker, and the load of the model      *)
(* before all that (ModelCache).                                            *)
(*                                                                         *)
(* The page's thread runs one handler at a time, and waits in set_audio     *)
(* for transcription_mutex, which the worker holds even while it sleeps.    *)
(* Samples are numbered as they are queued; an utterance too quiet is not.  *)
(* Of what a continuous capture holds only the length matters.              *)
(*                                                                         *)
(* Left out: g_transcription, which worker and page touch without a common  *)
(* lock; cleanup, which the page never calls; the checkbox, which may say   *)
(* either class at a start.                                                 *)
(***************************************************************************)
EXTENDS ModelCache, AudioChunkBuffer

CONSTANTS
  VADs,              \* bound: objects SimpleVAD that are starting or capture
  Continuous,        \* bound: the same of ContinuousCapture
  Utterances,        \* numbers of samples of an utterance
  REQUIRED_SAMPLES,  \* 0.8 s: least the engine is given
  keepLen,           \* 0.5 s: kept for the next time
  stopSamples,       \* 1 s: more than this is given at the stop
  MaxQueued,         \* bound: samples queued
  Frames,            \* numbers of samples the worklet posts between two steps
  minSamples,        \* 1 s: less is not flushed
  overlapSamples,    \* 0.5 s: kept for the next flush
  MaxHeld            \* bound: samples a continuous capture holds

ASSUME PageAssumption ==
  /\ Utterances \subseteq Nat \ {0}
  /\ {REQUIRED_SAMPLES, keepLen, stopSamples, MaxQueued} \subseteq Nat
  /\ keepLen < REQUIRED_SAMPLES /\ REQUIRED_SAMPLES <= stopSamples
  /\ Sample = 0 .. MaxQueued
  /\ VADs \cap Continuous = {}
  /\ Frames \subseteq Nat \ {0}
  /\ {minSamples, overlapSamples, MaxHeld} \subseteq Nat /\ overlapSamples < minSamples

VARIABLES
  (* the page *)
  ppc,             \* place in the handler that runs, "ready" between handlers
  queued,          \* samples queued so far
  audioBufferQueue,
  instance, doRecording, startEnabled, stopEnabled,
  capture,         \* [Captures -> none, starting or running]
  bufLen,          \* [Continuous -> _bufLen]
  currentVAD,      \* a set: the capture that Stop stops, if any
  orderly,         \* history: Start was never clicked while a capture was starting
  (* the engine *)
  g_ctx,           \* which context, 0 for none
  shared,          \* *sharedAudioBuffer holds audio
  lock,            \* the worker holds transcription_mutex
  wpc,             \* place of the worker
  used             \* the context whisper_full was called with

pageVars == <<ppc, queued, audioBufferQueue, instance, doRecording, startEnabled,
              stopEnabled, capture, bufLen, currentVAD, orderly>>
engineVars == <<g_ctx, shared, lock, wpc, used>>
vars == <<loadVars, pageVars, engineVars>>

Captures == VADs \cup Continuous

Init ==
  /\ LoadInit
  /\ ppc = "ready" /\ queued = 0
  /\ audioBufferQueue = NewRing
  /\ instance = FALSE /\ doRecording = FALSE
  /\ startEnabled = FALSE /\ stopEnabled = FALSE
  /\ capture = [c \in Captures |-> "none"]
  /\ bufLen = [k \in Continuous |-> 0]
  /\ currentVAD = {} /\ orderly = TRUE
  /\ g_ctx = 0 /\ shared = FALSE /\ lock = FALSE /\ wpc = "none" /\ used = 0

-----------------------------------------------------------------------------
(* Faulty variants, used by no specification: see the definitions named.   *)

\* NeedsInit: the model is loaded at each start.
FaultyNeedsInit == TRUE

\* Stopped: Stop forgets the capture.
FaultyStopped == capture

\* Released: the worker goes on without giving the mutex back.
FaultyReleased == UNCHANGED lock

-----------------------------------------------------------------------------
(* What the handlers of the page share                                     *)

PageGoto(there) == ppc' = there

\* The engine's set_audio, once the mutex is free: what the worker has not taken is
\* overwritten, and the worker started if there is none.
SetAudio ==
  /\ ~lock
  /\ IF g_ctx = 0 THEN UNCHANGED <<shared, wpc>>
     ELSE /\ shared' = TRUE
          /\ wpc' = IF wpc = "none" THEN "loop" ELSE wpc

\* A continuous capture has enough for _flush.
Full(k) == capture[k] = "running" /\ bufLen[k] >= minSamples /\ instance

-----------------------------------------------------------------------------
(* The page: start and stop                                                *)

\* storeFS, the page's cbReady.
StoreFS ==
  /\ ppc = "ready"
  /\ \E m \in Models : Ready(m)
  /\ startEnabled' = TRUE /\ stopEnabled' = FALSE
  /\ UNCHANGED <<ppc, queued, audioBufferQueue, instance, doRecording, capture, bufLen,
                 currentVAD, orderly, engineVars>>

\* The engine's init frees the context there is and makes another, if it can.
EngineInit(ok) == g_ctx' = IF ~ok THEN 0 ELSE IF g_ctx = 1 THEN 2 ELSE 1

NeedsInit == ~instance

\* onStart: then startRecording awaits the capture's start; the button is disabled
\* only after that.
Start ==
  /\ ppc = "ready" /\ startEnabled
  /\ \E ok \in BOOLEAN :
       /\ IF NeedsInit THEN EngineInit(ok) /\ instance' = ok
          ELSE UNCHANGED <<g_ctx, instance>>
       /\ IF instance'
            THEN \E c \in Captures : /\ capture[c] = "none"
                                     /\ capture' = [capture EXCEPT ![c] = "starting"]
            ELSE UNCHANGED capture
  /\ orderly' = (orderly /\ \A c \in Captures : capture[c] = "none")
  /\ UNCHANGED <<loadVars, ppc, queued, audioBufferQueue, doRecording, startEnabled,
                 stopEnabled, bufLen, currentVAD, shared, lock, wpc, used>>

\* The await is over: the microphone and the detector are there, or not.
Started(c) ==
  /\ ppc = "ready" /\ capture[c] = "starting"
  /\ \/ /\ capture' = [capture EXCEPT ![c] = "running"]
        /\ currentVAD' = {c}
        /\ doRecording' = TRUE
        /\ startEnabled' = FALSE /\ stopEnabled' = TRUE
     \/ /\ capture' = [capture EXCEPT ![c] = "none"]
        /\ UNCHANGED <<currentVAD, doRecording, startEnabled, stopEnabled>>
  /\ UNCHANGED <<loadVars, ppc, queued, audioBufferQueue, instance, bufLen, orderly,
                 engineVars>>

\* stopRecording, called by the Stop button and, while the page records, by the A/B
\* test, which starts anew or ends: what is queued is given to the engine, if it is
\* enough (it never is: onVoiceEnd has given as much before), ...
Stop ==
  /\ ppc = "ready" /\ (stopEnabled \/ doRecording)
  /\ PageGoto(IF audioBufferQueue.len > stopSamples /\ instance THEN "stop_give"
              ELSE "stop")
  /\ UNCHANGED <<loadVars, queued, audioBufferQueue, instance, doRecording,
                 startEnabled, stopEnabled, capture, bufLen, currentVAD, orderly,
                 engineVars>>

Stopped == [c \in Captures |-> IF c \in currentVAD THEN "none" ELSE capture[c]]

\* ... the queue is emptied and the capture stopped, a continuous one after it gave
\* the engine all it holds, or dropped it when that is too little.
StopEnds ==
  /\ ppc = "stop" /\ PageGoto("ready")
  /\ audioBufferQueue' = clear(audioBufferQueue)
  /\ \/ \E k \in Continuous \cap currentVAD : Full(k) /\ SetAudio
     \/ /\ \A k \in Continuous \cap currentVAD : ~Full(k)
        /\ UNCHANGED <<shared, wpc>>
  /\ capture' = Stopped
  /\ bufLen' = [k \in Continuous |-> IF k \in currentVAD THEN 0 ELSE bufLen[k]]
  /\ doRecording' = FALSE
  /\ startEnabled' = TRUE /\ stopEnabled' = FALSE
  /\ UNCHANGED <<loadVars, queued, instance, currentVAD, orderly, g_ctx, lock, used>>

-----------------------------------------------------------------------------
(* The page: onVoiceEnd                                                    *)

\* n samples, the first being the one after sample number `after`.
Samples(after, n) == [k \in 1 .. n |-> after + k]

\* An utterance of some capture is queued.
VoiceEnd ==
  /\ ppc = "ready" /\ \E c \in VADs : capture[c] = "running"
  /\ \E n \in Utterances :
       /\ queued + n <= MaxQueued
       /\ queued' = queued + n
       /\ audioBufferQueue' = append(audioBufferQueue, Samples(queued, n))
  /\ PageGoto(IF audioBufferQueue'.len >= REQUIRED_SAMPLES /\ instance THEN "give"
              ELSE "ready")
  /\ UNCHANGED <<loadVars, instance, doRecording, startEnabled, stopEnabled, capture,
                 bufLen, currentVAD, orderly, engineVars>>

\* What is queued is given to the engine.
Give ==
  /\ ppc \in {"give", "stop_give"}
  /\ SetAudio
  /\ PageGoto(IF ppc = "give" THEN "keep" ELSE "stop")
  /\ UNCHANGED <<loadVars, queued, audioBufferQueue, instance, doRecording,
                 startEnabled, stopEnabled, capture, bufLen, currentVAD, orderly, g_ctx,
                 lock, used>>

\* The end of what was given is queued again.
KeepTail ==
  /\ ppc = "keep" /\ PageGoto("ready")
  /\ LET all  == toFloat32Array(audioBufferQueue)
         from == IF Len(all) > keepLen THEN Len(all) - keepLen ELSE 0
     IN  audioBufferQueue' =
           append(clear(audioBufferQueue), SubSeq(all, from + 1, Len(all)))
  /\ UNCHANGED <<loadVars, queued, instance, doRecording, startEnabled, stopEnabled,
                 capture, bufLen, currentVAD, orderly, engineVars>>

-----------------------------------------------------------------------------
(* The page: ContinuousCapture                                             *)

\* Messages of the worklet.
Record(k) ==
  /\ ppc = "ready" /\ capture[k] = "running"
  /\ \E n \in Frames :
       /\ bufLen[k] + n <= MaxHeld
       /\ bufLen' = [bufLen EXCEPT ![k] = @ + n]
  /\ UNCHANGED <<loadVars, ppc, queued, audioBufferQueue, instance, doRecording,
                 startEnabled, stopEnabled, capture, currentVAD, orderly, engineVars>>

\* A timer calls _flush, which may have to wait for the mutex.
Flush ==
  /\ ppc = "ready" /\ \E k \in Continuous : Full(k)
  /\ PageGoto("flush")
  /\ UNCHANGED <<loadVars, queued, audioBufferQueue, instance, doRecording,
                 startEnabled, stopEnabled, capture, bufLen, currentVAD, orderly,
                 engineVars>>

\* All it holds is given and the end of it kept.
FlushGives ==
  /\ ppc = "flush" /\ PageGoto("ready")
  /\ \E k \in Continuous :
       /\ Full(k) /\ SetAudio
       /\ bufLen' = [bufLen EXCEPT ![k] = overlapSamples]
  /\ UNCHANGED <<loadVars, queued, audioBufferQueue, instance, doRecording,
                 startEnabled, stopEnabled, capture, currentVAD, orderly, g_ctx, lock,
                 used>>

-----------------------------------------------------------------------------
PageStep == Give \/ KeepTail \/ StopEnds \/ FlushGives

-----------------------------------------------------------------------------
(* The engine's worker: process_audio_thread                               *)

\* It takes the mutex; with nothing to do it sleeps, and holds it.
WorkerSleeps ==
  /\ wpc = "loop" /\ ~lock /\ ~shared
  /\ lock' = TRUE /\ wpc' = "sleep"
  /\ UNCHANGED <<loadVars, pageVars, g_ctx, shared, used>>

Released == lock' = FALSE

\* The mutex is given back: after the sleep, or after the text is stored.
WorkerWakes ==
  /\ wpc \in {"sleep", "store"}
  /\ Released /\ wpc' = "loop"
  /\ UNCHANGED <<loadVars, pageVars, g_ctx, shared, used>>

\* It takes the audio, gives the mutex back and calls whisper_full.
WorkerTakes ==
  /\ wpc = "loop" /\ ~lock /\ shared
  /\ shared' = FALSE /\ used' = g_ctx
  /\ wpc' = "infer"
  /\ UNCHANGED <<loadVars, pageVars, g_ctx, lock>>

\* whisper_full fails; or its text is to be stored, under the mutex.
WorkerHears ==
  /\ wpc = "infer"
  /\ \/ wpc' = "loop" /\ UNCHANGED lock
     \/ ~lock /\ lock' = TRUE /\ wpc' = "store"
  /\ UNCHANGED <<loadVars, pageVars, g_ctx, shared, used>>

WorkerStep == WorkerSleeps \/ WorkerWakes \/ WorkerTakes \/ WorkerHears

-----------------------------------------------------------------------------
\* Before the page's thread is free again it takes no event.
LoadEvent ==
  /\ ppc = "ready"
  /\ \E m \in Models : Choose(m) \/ LoadStep(m)
  /\ UNCHANGED <<pageVars, engineVars>>

Next ==
  \/ LoadEvent \/ StoreFS
  \/ Start \/ Stop \/ VoiceEnd \/ Flush \/ PageStep
  \/ \E c \in Captures : Started(c)
  \/ \E k \in Continuous : Record(k)
  \/ WorkerStep

Spec == Init /\ [][Next]_vars

(***************************************************************************)
(* Fairness: the worker's thread runs.  The page gets none: the worker      *)
(* gives the mutex back only to take it again at once, and std::mutex       *)
(* promises nothing to a thread that waits, so that a handler may wait in   *)
(* set_audio for ever.                                                      *)
(***************************************************************************)
FairSpec == Spec /\ WF_vars(WorkerStep)

-----------------------------------------------------------------------------
(* Properties                                                              *)

TypeOK ==
  /\ LoadTypeOK
  /\ ppc \in {"ready", "give", "keep", "stop_give", "stop", "flush"}
  /\ queued \in 0 .. MaxQueued
  /\ audioBufferQueue \in Ring
  /\ {instance, doRecording, startEnabled, stopEnabled, orderly} \subseteq BOOLEAN
  /\ {shared, lock} \subseteq BOOLEAN
  /\ capture \in [Captures -> {"none", "starting", "running"}]
  /\ bufLen \in [Continuous -> 0 .. MaxHeld]
  /\ currentVAD \subseteq Captures /\ Cardinality(currentVAD) <= 1
  /\ {g_ctx, used} \subseteq 0 .. 2
  /\ wpc \in {"none", "loop", "sleep", "infer", "store"}

(***************************************************************************)
(* The ring implements the queue AudioChunkBuffer promises: append, the     *)
(* tail kept by the page and clear act on its contents, oldest first, as    *)
(* they would on a sequence, wherever the ring wraps and whatever overflows.*)
(***************************************************************************)
Queue ==
  INSTANCE BoundedQueue WITH
    queue <- toFloat32Array(audioBufferQueue),
    Chunk <- {Samples(after, n) : after \in 0 .. MaxQueued, n \in Utterances}

QueueRefined == Queue!Spec

(***************************************************************************)
(* The worker never transcribes with a context that was freed: init frees   *)
(* the one there is without a look at the worker, and only the page's       *)
(* variable instance keeps it from being called again (onStart, init).      *)
(***************************************************************************)
ContextLive == wpc = "infer" => used = g_ctx /\ used # 0

(***************************************************************************)
(* When the page does not record nothing captures, unless Start was clicked *)
(* while there was a capture: while its start was still awaited, or after   *)
(* storeFS of a second model had enabled the button.  Then Stop stops the   *)
(* later one only (startRecording, stopRecording).                          *)
(***************************************************************************)
CaptureStops ==
  (orderly /\ ~doRecording) => \A c \in Captures : capture[c] # "running"

(***************************************************************************)
(* What the page hands over is taken, by itself or overwritten by what came *)
(* later, though the worker was asleep with the mutex, transcribing or      *)
(* storing a text when it came: the worker never waits for a mutex it holds *)
(* itself, and outlives inferences that fail (set_audio,                    *)
(* process_audio_thread).                                                   *)
(***************************************************************************)
AudioHeard == shared ~> ~shared

(***************************************************************************)
(* The user can always choose a model or start, or a load is on its way,    *)
(* unless a download failed, after which no callback is called and the      *)
(* buttons stay hidden until the page is loaded anew (loadRemote).          *)
(***************************************************************************)
LoadAnswered ==
  offered \/ startEnabled \/ stopEnabled \/ Pending # {} \/ silent

=============================================================================
