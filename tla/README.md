# A verification model of wstream

TLA+ models of [wstream](../src), checked with TLC and proved with TLAPS. The
program captures audio, has whisper.cpp transcribe it, logs the transcriptions
and sends them to WebSocket clients (`src/stream`); two browser variants run the
same engine as WebAssembly (`src/stream.wasm`, `src/stream2.wasm`).

Every definition is translated from the source; `PROJECT.json` maps each one to
the lines it models, lists the runs, the mutants that show each property can
fail, the hazards of the code, and the theorems.

To check a model: `tlc -config MCSharedState.cfg MCSharedState.tla`; to check
the proofs: `tlapm SharedStateProofs.tla`.

## 1. The system

### Inventory

| Component | State it keeps | Operations | Interacts with | What makes it correct |
|---|---|---|---|---|
| `shared_state` (stream.cpp 283-434) | `m_connections` under `m_mutex`; per client `alive`, `write_mtx`, a raw pointer to the stream | `join`, `leave`, `broadcast`, `close_all` | session threads, broadcast_thread, main | capacity respected; no use of a destroyed stream; one write at a time per stream; no slot or lock leaked; calls return |
| `do_session`, `send_json` (511-709) | the `websocket::stream` on the thread's stack, its handle | handshake, read loop, `ping`/`read`/`inject`/`control`/... handlers, teardown | the registry, `is_running`, the peer | replies exclude broadcasts; every way out gives the slot back; a shutdown it accepts is honoured |
| `TranscriptionQueue` (238-281) | moodycamel queue, `new_data`, mutex, condition variable | `push`, `wait_and_pop` | main (producer), broadcast_thread (consumer), `is_running` | no lost wake-up; nothing dropped, repeated or reordered |
| `TranscriptionLogger` (94-236) | queue, `m_buffer`, `m_new_data`, `m_running`, the file | `log`, `stop`, `writer_loop`, `flush_buffer_to_file` | main, the file system | the file is a prefix in order; complete after `stop`; survives failures to open |
| main, acceptor, `broadcast_thread` (711-782, 784-1015) | `is_running`, `pcmf32`, `pcmf32_old` | capture loop, inference, accept, broadcast loop, shutdown sequence | all of the above, SDL | every transcription reaches every client in order; the server ends when asked to |
| `audio_async` (common-sdl.cpp) | ring buffer, position, length under a mutex | `callback`, `get`, `clear`, `pause`, `resume`, `sdl_poll_events` | SDL's audio thread, main | `get` returns the newest samples in order |
| text filters (`remove_bracketed_text`, `lrtrim`, `process_text`) | none | pure | main | nothing outside brackets is lost |
| `run_ping`, `read_transcript_file`, token and host checks | none | one request, one answer | sessions | an answer to every request |
| stream.wasm engine (emscripten.cpp) | contexts, `running`, `worker`, `pcmf32`, `merged_transcription` | `init`, `free`, `set_audio`, `reset_transcription`, `stream_main` | the page's thread, a worker thread | one worker with a live context; audio in order and all of it taken; `init` returns |
| stream2.wasm engine (emscripten.cpp) | `g_ctx`, `sharedAudioBuffer` and `g_transcription`, `transcription_mutex` | `init`, `cleanup`, `set_audio`, `reset_transcription`, `process_audio_thread` | the page's thread, a worker thread | context alive while in use; what is handed over is taken |
| `HyniMerge` (hyni_merge.h) | none | `mergeStrings`, `findBestMatch` | the wasm engines | overlap removed once; no word lost while phrases do not come again |
| `AudioChunkBuffer` and the capture classes | a ring: `_buf`, `_head`, `_len`; a detector or worklet | `append`, `consume`, `clear`, `toFloat32Array`; start, stop, callbacks | worklet, page, engine | behaves as a queue that keeps the newest samples; Stop stops what captures |
| Agent, TTS, Calendar (stream2.wasm/index.html) | `_state`, `_slots`, `_history`, the utterance, the token | `start`, `handleTranscript`, `reset`, `_createEvent`, `speak`, `cancel`, `authorize`, `createEvent` | `/api/chat`, the speech engine, the calendar, the user | complete requests; one event per conversation; whoever awaits a consent keeps its callback; turns end |
| backend of the agent (server.py) | audio store | `/api/chat`, `/api/tts` | the page, a provider | only well formed answers pass |
| model cache (helpers.js) | IndexedDB | `fetchRemote`, `loadRemote` | the page | each call ends in exactly one callback |
| whisper.cpp, ggml | — | — | — | vendored, external |

### What is hard about it

* **Raw pointers across threads.** `broadcast()` and `close_all()` copy the list
  of clients under `m_mutex` and then use the streams without it, while each
  stream lives on the stack of a detached thread that may end at any moment.
* **Blocking writes under a lock.** A write holds the client's `write_mtx` and
  has no time-out; a peer that drains nothing holds up whoever waits for it.
* **One flag, many writers.** `is_running` is written by main, which stores the
  result of `sdl_poll_events()` before every look at the audio buffer, and by any
  session that accepts a remote shutdown.
* **Lock-free queue plus condition variable.** Both queues are filled outside the
  mutex that protects the flag of the condition variable; one of them (and the
  `stop` of the other) relies on a 100 ms time-out for shutting down.
* **Failures.** Writes and reads throw; the log file does not open, or a write to
  it fails without anyone looking; the process may crash with entries in memory.
* **Detached threads at the end.** main returns without waiting for sessions.
* **Promises that overlap.** In the page one thread runs everything, but `start()`
  and `handleTranscript()` are not awaited by who calls them: two of them can be
  on their way, a reset comes between a test and its use, speeches cancel one
  another, and a button stays enabled while its handler awaits.
* **A worker with a mutex it hardly ever gives back**, a context that another
  thread may free, and a flag that `init` sets before it joins who should read it.
* **Windows of audio that overlap**, merged by a search for three common words.

The complete list, with the line where each bites and the property that would
catch it, is `hazards` in `PROJECT.json`.

## 2. The modules

| Module | Models | Relation to the others |
|---|---|---|
| `SharedState` | `shared_state` and the life of session threads | the core; no dependence |
| `TranscriptLog` | what a transcription log promises (abstract) | — |
| `TranscriptionLogger` | `TranscriptionLogger` | implements `TranscriptLog` (`INSTANCE ... WITH`) |
| `TranscriptionQueue` | `TranscriptionQueue` | — |
| `BroadcastLoop` | what the server relies on between `push()` and `broadcast()` (abstract) | — |
| `TranscriptPipeline` | main, writer, broadcast_thread around the two queues | composes logger and queue; implements `BroadcastLoop` |
| `StreamServer` | the whole server | composes `SharedState` with main, acceptor, broadcast_thread and `is_running`; implements `BroadcastLoop` |
| `AudioCapture` | `audio_async` and main's window of samples | beside `TranscriptPipeline`: what main does before each inference |
| `HyniMerge` | `mergeStrings` and `findBestMatch`, as operators | — |
| `StreamWasm` | the engine of stream.wasm | extends `HyniMerge` |
| `AudioChunkBuffer` | the ring of utterances, as operators on a record | — |
| `BoundedQueue` | what that ring promises (abstract) | — |
| `ModelCache` | `loadRemote`, `fetchRemote` and the buttons that load a model | — |
| `Stream2Page` | the page of stream2.wasm and its engine | composes `ModelCache` and `AudioChunkBuffer` with page and worker; implements `BoundedQueue` |
| `Agent` | Agent, TTS and Calendar of that page, and what `/api/chat` lets pass | — |
| `MCSharedState`, `MCTranscriptPipeline`, `MCStreamServer`, `MCAudioCapture`, `MCStreamWasm`, `MCStream2Page`, `MCAgent` | instances for TLC | each extends its module |
| `SharedStateProofs`, `TranscriptPipelineProofs`, `TranscriptLogProofs`, `StreamServerProofs`, `AudioCaptureProofs`, `StreamWasmProofs`, `Stream2PageProofs`, `AgentProofs` | the theorems | each extends the module it is about (`TranscriptLogProofs`: `TranscriptPipeline`); `StreamServerProofs` instantiates `SharedStateProofs` |

### SharedState

One session thread, its stream and its handle are one thing, since `join` is
called once per session with that session's own stream. `pc[s]` is the place of
the thread in `do_session`:

| `pc` | Place in the code |
|---|---|
| `new` | no connection yet |
| `handshake` | from the start of `do_session` to the result of `join` |
| `full` | `ws.close(try_again_later)` after a refused `join` |
| `loop`, `read` | `while (is_running)` and the blocking `ws.read` |
| `reply`, `write` | `send_json`: before, and under, the lock |
| `visit`, `hold` | inside `broadcast()` (an inject): between two clients, and under the lock of `at` |
| `leave`, `erase` | the two blocks of `leave()` |
| `gone` | `do_session` has returned, the stream is destroyed |

Threads that are not sessions are `idle` or in `visit`/`hold`. `snapshot[t]` is
the local copy of `m_connections`. An action is one critical section, or one
blocking operation: `VisitLock`/`VisitDone` are the lock and the unlock around
`ws->write` (or `cancel`), `VisitSkip` is a lock that finds `alive` false.
`m_mutex` is held for a few instructions that take no other lock, so each of its
critical sections is one step. A message a client sends is abstracted to its
class: nothing happens, an answer is sent, a broadcast is made, or (in
`StreamServer`) the server is told to stop; the last two need the token, and
whether a client has it is left open. `peer` is the other end: `ok` drains what
it is sent, `stalled` does not, `closed` is gone, after which a read or a write
fails (a write may still succeed into the socket's buffer).

### TranscriptLog, TranscriptionLogger, TranscriptionQueue, BroadcastLoop, TranscriptPipeline

Transcriptions are the numbers 1, 2, ... in the order they are made; there is one
producer, so moodycamel's queue is FIFO. The two mutexes of condition variables
are held across two steps only by the consumer (from its test of the predicate
to its wait: `blocking`; in the queue also `reset` and `dequeue`), so `Holding`
says when the producer has to wait. Going to sleep, being notified (`woken`) and
timing out (`timedout`) are separate places: a notification given while the
consumer is in `blocking` is lost, as it is in the code. A spurious wake-up is
`woken` without a notification.

`TranscriptionLogger` has the two drains, one inside the loop that flushes at
the threshold, one after it that does not, and both kinds of failure: the file
does not open (the buffer is kept) and a write fails (the rest of the batch is
lost, as the stream ignores what follows and the buffer is cleared). `lost` is a
history variable of those. The refinement to `TranscriptLog` maps `closed` to
"the writer has exited" and adds to `lost` what the last flush left in the
buffer.

`TranscriptPipeline` is main with its calls (`mpc`, and `lpc`/`ppc` inside
them), the writer (`wpc`) and broadcast_thread (`cpc`), including the order of
the shutdown: clear the flag, join broadcast_thread, stop the logger, return.
`RemoteShutdown` is a session that clears `is_running` at any time; main may set
it again with its next `Poll`, after broadcast_thread has left its loop for it,
and then goes on logging and pushing with nobody to pop.

`BroadcastLoop` is the queue and its consumer without the mutex, the flag, the
condition variable and the time-outs: two counters, `is_running`, and the place
of broadcast_thread. A wait that begins after a quick dequeue in vain is one more
test of the loop (`Place`), since it ends with a look at `is_running` and, if that
is set, with a dequeue or a new turn. It is what `StreamServer` uses in place of
the queue.

### StreamServer

`Registry == INSTANCE SharedState` with broadcast_thread as the only broadcaster
and main as the only closer; each action of the registry is conjoined with what
happens outside it. `Poll` stores `sdl_poll_events()` into `is_running`;
`ControlShutdown` is the session's store; the tests of the flag are separate
steps of each thread. `close_all`, `ws_ioc.stop()`, the two joins and the return
are the steps from `down` to `returned`; after that nothing runs, as the process
is gone. The insides of the queue and the logger are `TranscriptPipeline`'s: here
the queue is two counters, `made` and `popped`, and both modules are shown to
implement `BroadcastLoop`, so that the counters promise what the queue keeps.

### AudioCapture

Samples are numbered in the order SDL delivers them; 0 stands for silence that
nobody recorded and `Garbage` for memory outside of a vector. `callback()`,
`get()` and `clear()` hold `m_mutex` from their first access to their last, so
each is one step of the ring (`Callback`, `Get`, `Take`), with their two-part
copies spelled out as functions of the index (`Stored`, `Newest`); main looks at
what `get()` returned in a step of its own, and the callback may run in between.
`resume()` is two steps, since SDL starts calling back before `m_running` is set.
`Window` is lines 919-953 and `Keep` the inference with line 992. A window shorter
than `n_samples_keep` makes `pcmf32.end() - n_samples_keep` undefined: `Keep` then
keeps garbage or crashes. `is_running` is reduced to what main does with it (go
on or leave), as `StreamServer` has its writers. `cleared` and `last` are history
variables.

Two things the code does that are easily missed, and that the model has: main
asks `get()` for one step, so its test for more than two (905) never succeeds, and
audio that arrives while an inference takes too long is dropped by the `clear()`
of 912 without the warning of 906; and a quit found by the inner loop still
transcribes a window, made of what the last `get()` returned, which may be
nothing new, little, or (before the first `get()`) 30 s of zeros.

### HyniMerge, StreamWasm

The page's thread calls `init`, `free`, `set_audio` and `reset_transcription`; one
worker per `init` runs `stream_main(i)`. `set_audio` and `reset_transcription`
hold `mutex` throughout, the worker while it takes a window and while it merges,
so each of these is one step; `wpc[i]` is where the worker started for slot `i`
is:

| `wpc` | Place in `stream_main` |
|---|---|
| `none`, `done` | no thread yet; it has returned |
| `test`, `look` | `while (running)`; under the mutex, with the audio |
| `infer`, `merge` | `whisper_full`; its text to be merged |
| `leave`, `freed` | before `whisper_free`; before the slot is set to null |

An `init` that has to join the old worker is `starting`, and the page's thread
with it: no other call is made meanwhile. Samples are numbered as they are
recorded and `pcmf32` is an interval of the recording, because the page hands
over the recording from some place on to its end. `speech`, one of `Speeches`, is
what is said: `whisper_full` hears one word in each sample, and words may come
again as often as they like. `mergeStrings` is translated in full on sequences of
words. History variables: `given` (how much the page gave last), `newest` (the
newest sample taken), `heard` (the interval of the recording the transcript
covers, as long as every window continued it), `orderly` (the last `init` found
no worker in its loop).

A window continues the transcript (`Continues`) when it overlaps what was heard by
three words and the phrase of three words it begins with was not said before
(`SaidAnew`). The second condition is not a convenience: `findBestMatch` takes the
first place at which a phrase occurs, and `mergeStrings` cuts the transcript there,
so with "a a a a", merged with the "a a a b" that begins one word later, the
transcript is "a a a b", a word short. Without `SaidAnew`, TLC finds exactly this.
No text of the repository promises more.

The model has two things a reader of the code may miss: of more audio than a
window the worker takes the end first and what lies before it in the next turn
(lines 97-98), and an `init` while a worker runs sets `running` again before that
worker can see that `free` cleared it, and then waits for it (141-144).

### AudioChunkBuffer, BoundedQueue, ModelCache, Stream2Page

`AudioChunkBuffer` translates the ring with its indices, its two-part copies and
what it drops; `BoundedQueue` is the queue it promises; `Stream2Page` uses the
first and refines the second by `queue <- toFloat32Array(audioBufferQueue)`.

The page's thread runs a handler at a time. Most are one step; those that call
`set_audio` rest at `ppc` = `give`, `keep`, `stop_give`, `stop` or `flush`, since
`set_audio` waits for `transcription_mutex`. `capture[c]` is a `SimpleVAD` (one of
`VADs`) or a `ContinuousCapture` (one of `Continuous`) whose start is awaited or
that captures, `currentVAD` the one that Stop knows; `bufLen` is how much a
continuous one holds, which a timer flushes to the engine, and Stop too. The worker
(`wpc`) sleeps with the mutex held (`lock`); `shared` is whether there is audio it
has not taken (`set_audio` replaces it), `g_ctx` which context there is, `used`
which one `whisper_full` was called with. `ModelCache` gives each model's load the
place `lpc` of the callback it waits for.

What the model shows of the code, beside the properties: the branch of
`stopRecording` that gives a last second to the engine is never reached with the
voice detector, because `onVoiceEnd` has given whatever reached 0.8 s, so what is
queued at the Stop is dropped; a second model that is stored while the page
records enables Start and disables Stop; a download that fails calls neither
callback, and the page is then dead until it is loaded anew (the run therefore
has `CHECK_DEADLOCK FALSE`).

### Agent

A turn is a call of `start()` or `handleTranscript()`; it rests at an await, which
is `pc`:

| `pc` | What is awaited |
|---|---|
| `greet`, `reply` | `/api/chat`, in `start` and in `handleTranscript` |
| `say`, `say_done` | the speech of a reply; of one that says `done` |
| `say_creating` | "Creating your event now..." |
| `authorize`, `post` | the consent; the calendar |
| `say_created`, `say_failed`, `sorry` | the speech after the event, after a failure of it, of a catch clause |

`voice[t]` is the utterance of turn `t`: `speak()` and `cancel()` take the voice
from all others, and whether the promise of one of those resolves depends on whether
it had begun to sound (`interrupted`) or not (`canceled`). `args[t]` is what the
turn asked the calendar for, read from `_slots` after the speech. `waiting` is the
stack of callbacks `authorize()` installs one over the other, each giving back the
one it found. Who calls it is a turn or the `Button`, whose handler is `button`:
`off` until `Calendar.init` has run (`Bootstrap`), `ready`, `asking` with its popup
open, `done`. Before `Bootstrap`, `authorize()` throws at once, which a turn treats
as a refused consent. The Start button is enabled by `storeFS` (`StoreFS`), again
for every model loaded, by a reset, and by a turn that has announced its event. The
conversational states, which behave alike, are one; `_history` is only sent.
`Replies` is what the backend lets pass: any state and slots, but `done` only with a
name and a date, which it does not parse.

History variables: `current[t]` (the turn began after the last start or reset),
`alone` (since then never two turns at once), `made` (events of this conversation).

## 3. What is checked

| Run | Instance | Properties and what they say |
|---|---|---|
| `registry` | 3 symmetric sessions, 2 slots, one broadcaster, one closer, 3 calls | `TypeOK` (with the capacity), `NoUseAfterFree`, `OneWriter`, `SlotsAccounted` in every interleaving |
| `registry_live` | 2 sessions, 2 slots, 2 calls, fair | `CallsReturn`: every broadcast and close_all returns; `SlotReclaimed`: a client that went away gives its slot back |
| `pipeline` | threshold 2, 3 transcriptions, 2 failures of the file, fair | `SleepersNotified`: no lost wake-up of broadcast_thread or of the writer; `NothingDropped`: order and completeness of delivery; `LogRefined`: the logger implements `TranscriptLog`; `LoopRefined`: queue and broadcast_thread implement `BroadcastLoop`; `ExitComplete`: the file is complete when main returns; `Delivered`, `ShutdownEnds` |
| `server` | 1 client that may stall, 2 transcriptions, fair | `Broadcasting`: what is pushed is handed to broadcast(); `QuitEndsServer`: closing the window ends the process |
| `server_clients` | 2 symmetric clients, 1 transcription, 1 inject | `EveryClientServed`: every transcription once and in order, with a second client that closes, leaves or injects meanwhile |
| `audio` | ring of 5, step 3, tail 2, callbacks of 1, 2 and 6 samples, 14 samples, fair | `RingHoldsNewest`: the ring holds the newest samples in order wherever it wraps; `WindowShape`: a window is the end of the last one and a step nobody has heard; `KeepWithinWindow`: line 992 leaves the window only on a quit; `StepReached`: the inner loop ends while audio arrives |
| `stream_wasm` | 2 contexts, least 3, window 4, 7 samples given by 1 and 3, two speeches in which phrases come again, fair | `ContextsOwned`: one worker, with a live context of its own; `TranscriptIsSpeech`: windows that continue the transcript give the speech; `WindowsAdvance`: audio is taken in order while no more than a window is given; `AudioTaken`: and all of it; `InitReturns`: an init that finds no worker in its loop returns |
| `stream2_page` | 1 model, a capture of each class, ring of 4, utterances of 1, 3 and 5, 6 samples, fair | `QueueRefined`: the ring implements `BoundedQueue`; `ContextLive`: `whisper_full` never has a freed context; `CaptureStops`: Stop leaves nothing capturing, unless Start was clicked twice; `LoadAnswered`: there is always a button or a load, unless a download failed; `AudioHeard`: what the page hands over is taken |
| `agent` | 2 turns and the button that authorizes, fair | `RequestsComplete`, `OneEvent`: while one turn runs at a time, requests are complete and one event at most is created; `CallbacksKept`: whoever awaits a consent keeps its callback, whatever popups are open; `TurnEnds`: every turn ends or waits for the user |
| `remote_shutdown` | 1 client | violated: see the findings |
| `sessions_left` | 1 client | violated: see the findings |
| `agent_events` | 2 turns | violated: see the findings |

One run per module also checks its `TypeOK`. Every property has a mutant, a
plausible bug in a definition of the model (the `Faulty...` operators), under which
the same run finds it violated.

### Bounds, and why they are enough

* *Registry*: three sessions for two slots is the least at which joins and leaves
  race for the last slot, and at which a session can broadcast to a second while
  a third leaves. Three calls let a broadcast, an inject and close_all overlap.
  The proofs remove these bounds.
* *Pipeline*: the threshold of 2 stands for the 10 of main. The code compares the
  length of the buffer with it and nothing else; three transcriptions give one
  flush in the loop and one at the exit. Two failures let a batch fail and fail
  again, or fail at each of the two flushes.
* *Server*: two transcriptions are needed for the order of deliveries, two
  clients for one to be harmed by another. `StallingPeers` is empty in
  `server_clients`: a stall only disables steps (every other action is enabled in
  the same way in a stalled state or not at all), so it adds no new safety
  behaviour but longer waits; `server` and `registry` have it.
* *Audio*: a ring of 5 that a step of 3 does not divide puts the start and the end
  of every copy at every position; a callback of 6 is larger than the ring, those
  of 1 and 2 leave a step incomplete or overfull. 14 samples give three windows
  and an overflow of the ring between them. The proofs remove these bounds.
* *StreamWasm*: two contexts are the least at which an `init` finds the old worker
  on its way out; a window of 4 with a least of 3 leaves room for audio that is
  too little, fits, or exceeds a window by 1 to 3, which is a rest that is taken
  and one that is not. Seven words make two overlaps of three words in a row; in
  "a b c a b c d" a phrase comes again later, in "a a a a b a c" it overlaps
  itself. The proof is for every speech.
* *Stream2Page*: utterances of 1, 3 and 5 for a ring of 4 leave it partly filled,
  replace it, and, 3 after a kept tail of 2, overflow it, which moves the head and
  splits the copies in two; `AppendKeepsNewest` is proved for every head. Six
  samples are enough for that. Two captures are what a double
  click makes; they are of different classes, so that each meets the other. A
  continuous capture holds 2 at most: too little, enough, and the tail of 1.
* *Agent*: two turns are needed, and enough, for one to disturb another; resets
  and starts are not bounded, `made` is counted to 2. With the button there are
  three callers of `authorize()`, the least at which a popup lies between two others.
* Symmetry is used in `registry` and `server_clients`, which check invariants
  only.

### Fairness, and why the code justifies it

* Each thread is sequential code that the operating system schedules, and a mutex
  that becomes free again and again is taken by a waiter eventually: strong
  fairness on all a thread does by itself (`Run`, `SessionRun`, `MainStep`,
  `BcStep`, the pipeline's `Main`). Strong fairness is about contended mutexes
  only; where a thread meets none, weak fairness is used (`Bc`, `WriterStep`).
* SDL goes on delivering while the device is on (`Callback` in `AudioCapture`); its
  `StepReached` says nothing of a device that falls silent.
* The 100 ms time-outs are `WriterRouses` and `PopRouses` under that fairness.
* Nothing makes a client connect, send, stop draining or close, the user quit,
  or inference succeed, nor (outside of `AudioCapture`) audio arrive: those actions
  have no fairness.
* In the page, a request to the backend is answered or fails, because its client
  has a time-out, and the speech engine ends what it was given: weak fairness of
  each turn (`TurnStep`). The user's consent is not a step of the turn.
* The worker of stream2.wasm sleeps with its mutex held and takes it again at once,
  and `std::mutex` is not fair: a handler of the page may wait in `set_audio` for
  ever, so the page has no fairness, and nothing is claimed of it. The worker is
  weakly fair (`WorkerStep`), since the page holds the mutex only while it copies,
  which is one step; `AudioHeard` rests on that alone.
* Worker and `join` of stream.wasm are
  never passed over: weak fairness (`InitReturn`, and `Worker`: there is one worker
  at a time, as `ContextsOwned` says).
* `PeerProgress` (and `PeerDrains` in the server) is an assumption about the
  outside: no peer stops draining for ever. The code has no time-out for a write,
  and without the assumption `CallsReturn`, `SlotReclaimed` and `QuitEndsServer`
  fail: one such peer holds its `write_mtx`, hence `close_all()`, hence main.

### Findings

* **A remote shutdown can be lost** (`remote_shutdown`, stream.cpp:890). The
  session stores `false` into `is_running`; main's next poll stores `true` over it.
  broadcast_thread or the session may have left its loop for it by then, and main
  captures on with nobody to broadcast. Only a store between a poll and its test,
  or during an inference, is noticed by main.
* **Sessions outlive the `io_context`** (`sessions_left`, stream.cpp:1002).
  `close_all()` cancels the sockets it finds registered; a blocking read is not
  interrupted, a session in its handshake is not registered, and nobody waits for
  the detached threads before main destroys `ws_ioc`.

* **An event may lack what the guard asks for** (`agent_events`,
  stream2.wasm/index.html:1165). "Safety guard: never create an event if required
  slots are absent" (1146) is said of a test that comes a speech earlier than the
  slots are read: a reset during that speech clears them, and cancels the speech,
  whose promise resolves. `RequestsComplete` shows that the guard does hold in a
  conversation of one turn at a time.

## 4. What is proved

For every number of sessions and threads, every capacity, every number of
transcriptions and failures, every flush threshold, all sizes of audio, windows,
rings and utterances, any number of contexts, captures, models and turns, from
the assumptions named in the modules (the sets of threads are disjoint, the
bounds are natural numbers, a step of audio fits into the ring and the kept tail
into a step, a window is no smaller than the least the worker accepts, the kept
tail smaller than what the engine requires):

| Theorem | Statement |
|---|---|
| `SharedStateProofs!TypeCorrect` | `Spec => []TypeOK`, the capacity included |
| `SharedStateProofs!StreamSafety` | `Spec => []NoUseAfterFree` |
| `SharedStateProofs!WriteExclusion` | `Spec => []OneWriter` |
| `SharedStateProofs!NoSlotLost` | `Spec => []SlotsAccounted` |
| `SharedStateProofs!NoCircularWait` | `Spec => []WaitsAreShort`: who waits for a lock waits for a thread that waits for none |
| `SharedStateProofs!CallsVisitAll` | `Spec => CallAdvances`: a call deals with each client of its snapshot once, then returns |
| `StreamServerProofs!ImplementsRegistry` | `Spec => Registry!Spec`: a behaviour of the server is one of the registry |
| `StreamServerProofs!ServerSafety` | `Spec => [](...)`: the three properties above, in the server |
| `StreamServerProofs!TypeCorrect` | `Spec => []TypeOK` |
| `StreamServerProofs!EveryoneIsServed` | `Spec => []EveryClientServed` |
| `StreamServerProofs!ImplementsLoop` | `Spec => LoopRefined`, the implementation of `BroadcastLoop` by two counters |
| `StreamServerProofs!ServerCalls` | `Spec => []WaitsAreShort /\ CallAdvances`, in the server |
| `StreamServerProofs!EndIsQuiet` | `Spec => []ReturnIsQuiet`: what main joins has ended, and nothing of its own goes on, when it returns |
| `TranscriptPipelineProofs!TypeCorrect` | `Spec => []TypeOK` |
| `TranscriptPipelineProofs!SleepersAreNotified` | `Spec => []SleepersNotified` |
| `TranscriptPipelineProofs!DeliveryInOrder` | `Spec => []NothingDropped` |
| `TranscriptPipelineProofs!ImplementsLoop` | `Spec => LoopRefined`, the implementation of `BroadcastLoop` by queue and condition variable |
| `TranscriptPipelineProofs!JoinDoesAdvance` | `Spec => JoinAdvances`: once joined, broadcast_thread is at most seven of its steps from its end |
| `TranscriptPipelineProofs!BroadcastThreadEnds` | `FairSpec /\ GuardsSuffice => (mpc = "down" ~> mpc = "stop")` |
| `TranscriptLogProofs!NothingLostAtExit` | `Spec => []ExitComplete` |
| `TranscriptLogProofs!StopDoesAdvance` | `Spec => StopAdvances`: after `stop()` each step of the writer brings it nearer its end |
| `TranscriptLogProofs!LogIsRefined` | `Spec => LogRefined`, the implementation of `TranscriptLog` |
| `AudioCaptureProofs!TypeCorrect` | `Spec => []TypeOK` |
| `AudioCaptureProofs!RingIsARing` | `Spec => []RingHoldsNewest` |
| `AudioCaptureProofs!WindowsAreShaped` | `Spec => []WindowShape` |
| `AudioCaptureProofs!KeepStaysWithin` | `Spec => []KeepWithinWindow` |
| `StreamWasmProofs!MergeKeeps` | for any two texts: `mergeStrings` returns a beginning of A and the whole of B; all of A if nothing is common |
| `StreamWasmProofs!MergeAtFirst` | for any two texts: if B begins with a phrase of A, `mergeStrings` returns A up to where that phrase occurs first, and B |
| `StreamWasmProofs!TypeCorrect` | `Spec => []TypeOK` |
| `StreamWasmProofs!ContextsAreOwned` | `Spec => []ContextsOwned` |
| `StreamWasmProofs!SpeechIsTranscribed` | `Spec => []TranscriptIsSpeech` |
| `StreamWasmProofs!WindowsDoAdvance` | `Spec => WindowsAdvance` |
| `StreamWasmProofs!InitDoesReturn` | `FairSpec /\ GuardsSuffice => InitReturns` |
| `Stream2PageProofs!AppendKeepsNewest` | for any ring and chunk: `append` keeps the newest samples of both, in order |
| `Stream2PageProofs!ConsumeTakesOldest` | for any ring: `consume` takes the oldest and keeps the others |
| `Stream2PageProofs!RingImplementsQueue` | `Spec => QueueRefined`, the implementation of `BoundedQueue` |
| `Stream2PageProofs!TypeCorrect` | `Spec => []TypeOK` |
| `Stream2PageProofs!ContextIsLive` | `Spec => []ContextLive` |
| `Stream2PageProofs!CapturesStop` | `Spec => []CaptureStops` |
| `Stream2PageProofs!LoadsAnswered` | `Spec => []LoadAnswered` |
| `Stream2PageProofs!AudioIsHeard` | `FairSpec /\ GuardsSuffice => AudioHeard` |
| `AgentProofs!TypeCorrect` | `Spec => []TypeOK`, the height of the stack of callbacks included |
| `AgentProofs!RequestsAreComplete` | `Spec => []RequestsComplete` |
| `AgentProofs!AtMostOneEvent` | `Spec => []OneEvent` |
| `AgentProofs!CallbacksAreKept` | `Spec => []CallbacksKept` |
| `AgentProofs!TurnsNeverStick` | `Spec => []TurnsCanStep`: a turn on its way always has a step |
| `AgentProofs!TurnsDoAdvance` | `Spec => TurnsAdvance`: and is at most fifteen of its steps from its end |
| `AgentProofs!TurnsEnd` | `FairSpec /\ GuardsSuffice => TurnEnds` |

**Registry.** None of the safety properties is inductive: that a stream in use
exists does not by itself prevent its session from leaving. The inductive
invariant `IInv` adds that a thread inside a stream owns its lock and the session
is alive (`UserOwns`), that an owned lock is owned by a thread inside the stream
(`OwnerUses`), and that `alive` and membership are functions of the session's
place (`SlotInv`). `LeaveMark` needs a free lock, so by `UserOwns` nobody is
inside when `alive` is cleared; from there on `VisitLock` refuses the handle, and
the stream is destroyed only two steps later. `OwnerUses` is what makes the lock
a mutex: without it a session could end while its lock is owned by nobody alive.

**Waiting.** A thread that owns a `write_mtx` is inside `write()` or `cancel()` and
takes no second one there, and `broadcast()` gives each lock back before it takes
the next: with `OwnerUses` this excludes a circle of waits, of any length and
among any sessions that inject at once (`WaitsAreShort`). What is left to wait for
is one peer. `CallAdvances` is the other half of a call that returns: its snapshot
loses a handle with each visit, none is visited twice, and only one that is no
longer `alive` is passed over (`VisitInv`: inside a call there is something left to
visit, and the stream in use is part of it).

**Server.** Each action of `StreamServer` is one of the registry's or leaves its
variables alone, so the server implements the registry under the identity
mapping, and the theorems of `SharedStateProofs` are instantiated, not proved
again. `EveryClientServed` then needs three facts more. Between two calls of
`broadcast()` its snapshot is empty, and a transcription is popped only then
(`CallInv`); a session that has not joined is in no snapshot and was sent nothing
(`UnjoinedInv`); and a registered client was sent the transcriptions from its
join to the last one begun, or to the one before it while it still is in the
snapshot (`ServedInv`, element by element). The step that matters is `VisitSkip`:
it takes a client from the snapshot unsent, and the registry's `SlotInv` says that
a client that is not `alive` has left. That the two counters stand for the queue is
`ImplementsLoop`; the end of the server (`EndInv`) rests on `is_running` staying
false once main has left its loop and on main being in `close_all()` only while it
is at that place.

**Wake-ups.** `SleepersNotified` speaks of a sleeping thread only. The invariant
follows it from its last look at the queue: while it is on its way to sleep, an
element in the queue comes with the flag set or with a producer about to set it
(`QFlagged`); when it holds the mutex before its wait the flag is down, and when
it sleeps with the flag up the notification is still to come (`QAnnounced`).
The writer's argument is the same, with its last look being the end of its drain.

**Order.** `NothingDropped` equates a concatenation with 1, ..., n; its inductive
form says the same element by element (`InOrder`) and counts (`Taken + Len(queue)
= Pushed`), with the places at which `item` and `ppc` are clear (`OrderType`).

**The loop.** Each step of `push()` and of `wait_and_pop` is shown to be one of
`BroadcastLoop` or a stutter: the enqueue is `Push`, a dequeue that finds something
`Take`, one that does not `Miss` (by `InOrder` the queue is empty exactly when all
that was pushed is gone), and the reset of the flag is `Test`, because it comes
before the second look at `is_running`. It is there that an element is not taken
from the queue for a call that then returns nothing.

**The two joins.** `BcLeft` and `WriterLeft` say how far each thread is from its end
once its flag is cleared: at most seven steps for broadcast_thread, whatever is
queued; for the writer two for each entry of its queue and seven more. That they
never rise needs the order of the shutdown: main pushes nothing while it joins and
logs nothing after `stop()` (`JoinInv`, `MainPlace`), and no poll sets `is_running`
again. A notification that comes too early changes nothing, because a sleeping
thread has a step of its own, its time-out.

**The log.** What is settled (written or lost), the writer's buffer and its queue
are consecutive pieces of 1, ..., accepted (`Pieces`); a file that never failed
holds all that is settled (`Clean`); the places of main and the writer say which
pieces are empty (`MainPlace`, `WriterPlace`). The point is that `m_running` is
cleared only by `stop()`, which main calls after its last `log()`: so the drain
after the writer's loop finds the last entry, and at the exit the file is
complete. For the refinement each flush is shown to be the abstract `Flush` (in
the loop) or `Close` (after it), with the buffer as the batch; a file that does
not open is a `Retry`, or a `Close` that gives the batch up; `log()` is `Accept`;
everything else is a stutter.

**Audio.** After a callback of s samples the one delivered i samples ago is in
what was stored (i < s) or where sample i - s was before, because `m_audio_pos`
advances by s: with the index bounds (`RingType`) the ring is inductive. `get()`
reads it backwards, so what it returns ends with the newest sample; every sample
in the ring is newer than `cleared`, and no window contains one that is
(`LastHeard`, `NewSamples`), since the `clear()` of a step follows its `get()`.
That a window has at least a step, and a step at least the tail, keeps line 992
inside; `KeptTail` says what it keeps.

**Types of the sequences.** That what is delivered, written or kept are numbers of
transcriptions or samples that exist follows from the same invariants: each
element of the queue and of what was sent is between 1 and what was made (order
and count), each one of the ring and of a window is a sample delivered, silence or
garbage.

**StreamWasm.** `worker` is the only thread that can be anywhere but `none` or
`done`, its context is live until it frees it itself, and an `init` that waits has
chosen another slot (`Owners`): a slot is free only when null, which the worker
makes it as its last step. What lies in `pcmf32` is newer than what was taken as
long as it fits into a window (`Order`). For the transcript, a window whose first phrase
the transcript has replaces all of it from where that phrase occurs first
(`MergeAtFirst`, for any two texts): the first trigram of the window is a common
one, and no other of its trigrams is looked at before it. If the window begins at
sample f of what was heard and the phrase there was not said before (`SaidAnew`),
that place is f, and the words before f followed by the window's are those of the
interval that both cover (`MergeSpeech`). Nothing is assumed of the words
otherwise.

**Stream2Page.** The ring's contents are a function of the index (`At`), for which
each of the two-part copies is shown to be what a copy in one part would be; that
`append` and `consume` act as on a sequence follows by cases on where head and
tail lie. The context is safe because the page never calls `init` again once it
succeeded (`instance`), and the worker is started only by a `set_audio` that found
`instance` set (`EngineInv`). Until Start is clicked out of turn at most one
capture exists, and if it runs, it is `currentVAD` (`CaptureInv`), whichever of the
two classes it is of.

**Agent.** The properties hold while a conversation has one turn at a time, so the
invariant (`AloneInv`) speaks of that turn alone (`Solo`): it belongs to the
conversation; once it has passed the guard the slots stay complete, since nobody
else merges and a reset would make the turn an earlier one; after an event the
state is one that ignores texts, so no further turn begins.
For the callbacks no such condition is needed: a call of `authorize()` pushes its
caller, who was not asking and so was not on the stack, and only the caller on top
gets an answer, which pops it (`Pushed`, `Answers`); every other step leaves the
stack and who asks alone (`CallbacksStep`). That the stack is no higher than there
are callers is then the pigeonhole principle (`StackBound`).
For the end of turns, a turn that awaits a speech has one, sounding or cancelled
(`SpeechInv`): whoever takes the voice leaves the promise of the other to resolve.
`Rank` counts the steps a turn has left, twice the awaits and one for a speech that
does not sound yet; a cancellation by another turn can only lower it.

**Liveness.** `TurnEnds`, `AudioHeard`, `InitReturns` and the join of
broadcast_thread are proved from ranks of fixed height: from each rank, fairness
takes the system to a lower one. The prover has no rules for ENABLED, so that the
guards of a step are enough for it to be enabled is a hypothesis of these theorems,
`GuardsSuffice`, written out in each module: it adds no assumption about the
code, as it follows from the definitions of the actions. It also holds on the
instances: a module that extends, say, `MCAgent` and `AgentProofs`, with the
instance's cfg and `GuardsSuffice` (for `[]P` and for a quantified formula, its
state predicate as an invariant), was checked by TLC for `agent`, `stream2_page`,
`stream_wasm` and `pipeline`. These modules hold nothing else and are not part of
the project, so they are not among its runs. For `AudioHeard` the invariant
(`WorkerInv`) says that the worker has the mutex only where it gives it back by
itself, and that it runs while there is audio for it; for `InitReturns`
(`JoinInv`), that the worker an orderly `init` waits for is past its loop.

**Only model-checked.** `CallsReturn`, `SlotReclaimed`, `Delivered`, `ShutdownEnds`,
`Broadcasting`, `QuitEndsServer`, `StepReached` and `AudioTaken`. Their rank is the
length of a queue, the size of a snapshot or an amount of audio, without a bound
that is known beforehand, and that a rank which falls again and again reaches its
end is an induction over temporal formulas, which the prover cannot do; for the
first, the second and the fourth the fall itself is proved (`CallAdvances`,
`JoinAdvances`, `StopAdvances`). Every invariant, every action property and every
refinement that a run checks is proved. Induction over data and RECURSIVE
operators are out of reach too; no module here needs them.

## 5. What is not modelled

* whisper.cpp, ggml, miniaudio and json.hpp, which make up all but a small part of
  the lines under `src/`: vendored libraries. For the models, `whisper_full`
  fails, yields a text or yields none.
* The text filters (`remove_bracketed_text`, `lrtrim`, `process_text`): one scan
  over characters each; the models speak of transcriptions, not of their
  characters.
* What messages say and answers contain, `run_ping`, `read_transcript_file`, token
  and host checks: sequential, without shared state; they decide only which
  answer a session sends.
* The VAD branch of main (`use_vad` is a constant `false`), `pop()` of the queue
  (no caller), `is_client_connected` and `client_count` (no effect).
* Control frames that Boost.Beast writes by itself inside `ws.read`, and the text
  of a transcription (a text that is not UTF-8 makes `dump()` throw).
* Of stream.wasm, the two status strings (read by the display only); of
  stream2.wasm, `g_transcription`, which page and worker touch without a common
  lock (a data race on a string; the agent may find a text at any poll), and
  `cleanup`, which the page never calls.
* Of the page of stream2.wasm, the choice of the provider and the store of the last
  audio (one assignment each, read by nothing that is modelled), and the
  microphone hearing the agent's own voice.
* The A/B test of that page (index.html:755-889), as a component: its lines, scores
  and buttons. What it does to the page is in `Stream2Page`, since it drives the same
  handlers: `begin()` calls `stopRecording()` if the page records, sets `use-vad`,
  resets the transcription and calls `onStart()`; `finish()`, after the last line or
  an abort, calls `stopRecording()` if the page still records. These are `Stop`,
  which is therefore possible while the page records even when a second model has
  disabled the Stop button, and `Start`, whose button is enabled whenever `begin()`
  gets there (`storeFS` enabled it, and only a capture that runs disables it). The
  Start Session button clicks Start, which has no effect when that is disabled.
* Static pages and the file server of stream.wasm, build and deployment files.

## 6. Plan

Done, in this order: registry (core) with its proofs; log, queue and pipeline with
the wake-up, order and refinement proofs; the whole server; the audio path with
its proofs; the agent; the engine of stream.wasm with the merge of transcripts;
the page of stream2.wasm with its ring, its engine and the load of its model;
proofs of the server on top of the registry's, and of every invariant that was
only model-checked; the loop between queue and server as a specification both
implement; progress (no circular wait, calls, joins and turns that advance) and,
from it, the liveness whose rank is bounded.

What could follow:

1. **Ranks for what is only model-checked** — the fall of a rank as an action
   property, as for the two joins, for the session's way out (`SlotReclaimed`) and
   for the worker's audio (`AudioTaken`).
2. **Agent over the engine** — `Agent` and `Stream2Page` share the poll and
   `reset_transcription`: a composition would show when a text spoken before a
   reset reaches the conversation after it.
3. **A server whose peers may stall for ever**, with the progress that is left to
   the other clients as properties.
