------------------------------ MODULE StreamWasm ------------------------------
(***************************************************************************)
(* The engine of src/stream.wasm/emscripten.cpp: the functions it exports   *)
(* to the page, called by the page's thread one at a time, and stream_main, *)
(* the worker each successful init starts.  set_audio, get_transcribed and  *)
(* reset_transcription hold mutex throughout and the worker holds it while  *)
(* it takes a window and while it merges, so each of these is one step.     *)
(*                                                                         *)
(* Audio is numbered in the order it is recorded.  The page gives the       *)
(* recording from some place on to its end, so pcmf32 is an interval of     *)
(* numbers.  Each sample holds one word of the speech, which may come again *)
(* and again, and whisper_full hears it right.                              *)
(*                                                                         *)
(* Left out: the two status lines, which only the page's display reads, and *)
(* `transcribed`, which nothing fills.                                      *)
(***************************************************************************)
EXTENDS HyniMerge, FiniteSets

CONSTANTS
  MAX_CONTEXTS,
  MIN_AUDIO_SAMPLES,
  WINDOW_SAMPLES,
  MaxRecorded,     \* bound: samples recorded
  Recordings,      \* numbers of samples recorded between two calls of set_audio
  Vocabulary,      \* the words there are
  Speeches         \* what may be said: the word in each sample

ASSUME StreamAssumption ==
  /\ MAX_CONTEXTS \in Nat \ {0}
  /\ MIN_AUDIO_SAMPLES \in Nat \ {0}
  /\ WINDOW_SAMPLES \in Nat /\ WINDOW_SAMPLES >= MIN_AUDIO_SAMPLES
  /\ MaxRecorded \in Nat
  /\ Recordings \subseteq Nat \ {0}
  /\ Speeches \subseteq [1 .. MaxRecorded -> Vocabulary]

VARIABLES
  contexts,   \* [slots -> null, live, or freed and not yet null]
  running,
  worker,     \* the slot of the thread `worker` stands for, 0 when there is none
  pcmf32,     \* interval of samples
  merged_transcription,
  wpc,        \* [slots -> place of the worker started for the slot]
  window,     \* [slots -> interval: its pcmf32_window]
  starting,   \* the slot of an init that joins the old worker, 0 when none does
  speech,     \* what is said
  recorded,   \* samples recorded so far
  given,      \* history: size of the last audio given
  newest,     \* history: the newest sample ever taken
  heard,      \* history: the samples the transcript covers, Empty when it is empty or
              \* a window did not continue it
  orderly     \* history: the last init was called with no worker in its loop

history == <<given, newest, heard, orderly>>
vars == <<contexts, running, worker, pcmf32, merged_transcription, wpc, window,
          starting, speech, recorded, history>>

Slots == 1 .. MAX_CONTEXTS

Interval == [first : 1 .. MaxRecorded + 1, last : 0 .. MaxRecorded]

Empty == [first |-> 1, last |-> 0]

Size(audio) == audio.last - audio.first + 1

Looping == {i \in Slots : wpc[i] \in {"test", "look", "infer", "merge"}}

Init ==
  /\ contexts = [i \in Slots |-> "null"]
  /\ running = FALSE /\ worker = 0
  /\ pcmf32 = Empty /\ merged_transcription = <<>>
  /\ wpc = [i \in Slots |-> "none"]
  /\ window = [i \in Slots |-> Empty]
  /\ starting = 0 /\ speech \in Speeches /\ recorded = 0
  /\ given = 0 /\ newest = 0 /\ heard = Empty /\ orderly = TRUE

-----------------------------------------------------------------------------
(* Faulty variants, used by no specification: see the definitions named.   *)

\* FreeSlots: a slot being freed is taken for a free one.
FaultyFreeSlots == {i \in Slots : contexts[i] # "live"}

\* Left: the newest window stays in pcmf32.
FaultyLeft == pcmf32

\* Joined: init waits for the worker it is about to start.
FaultyJoined == wpc[starting] = "done"

\* Enough: a full window is needed.
FaultyEnough == Size(pcmf32) >= WINDOW_SAMPLES

\* Left: a whole window is taken off, though there is less.
FaultyRest == [pcmf32 EXCEPT !.last = @ - WINDOW_SAMPLES]

-----------------------------------------------------------------------------
(* The page's thread                                                       *)

InPage == starting = 0

\* Where init looks for a place for the context.
FreeSlots == {i \in Slots : contexts[i] = "null"}

Joinable == worker # 0

Joined == wpc[worker] = "done"

\* worker = std::thread(stream_main, i)
Start(i) ==
  /\ wpc' = [wpc EXCEPT ![i] = "test"]
  /\ worker' = i

\* init, when the model loads; running is set before the old worker is waited for.
\* When it does not, or there is no place, nothing changes and init returns 0.
InitCall ==
  /\ InPage
  /\ \E i \in FreeSlots :
       /\ IsLeast(i, FreeSlots)
       /\ contexts' = [contexts EXCEPT ![i] = "live"]
       /\ IF Joinable
            THEN starting' = i /\ UNCHANGED <<wpc, worker>>
            ELSE Start(i) /\ UNCHANGED starting
  /\ running' = TRUE
  /\ orderly' = (Looping = {})
  /\ UNCHANGED <<pcmf32, merged_transcription, window, speech, recorded, given, newest,
                 heard>>

\* join returns.
InitReturn ==
  /\ starting # 0 /\ Joined
  /\ Start(starting)
  /\ starting' = 0
  /\ UNCHANGED <<contexts, running, pcmf32, merged_transcription, window, speech, recorded,
                 history>>

\* free
FreeCall ==
  /\ InPage /\ running
  /\ running' = FALSE
  /\ UNCHANGED <<contexts, worker, pcmf32, merged_transcription, wpc, window, starting,
                 speech, recorded, history>>

\* set_audio: what the worker has not taken gives way to the recording from sample
\* first on.
SetAudio ==
  /\ InPage
  /\ \E i \in Slots : contexts[i] # "null"
  /\ \E n \in Recordings :
       /\ recorded + n <= MaxRecorded
       /\ recorded' = recorded + n
  /\ \E first \in 1 .. recorded' :
       /\ pcmf32' = [first |-> first, last |-> recorded']
       /\ given' = Size(pcmf32')
  /\ UNCHANGED <<contexts, running, worker, merged_transcription, wpc, window, starting,
                 speech, newest, heard, orderly>>

\* reset_transcription
ResetTranscription ==
  /\ InPage /\ merged_transcription # <<>>
  /\ merged_transcription' = <<>> /\ heard' = Empty
  /\ UNCHANGED <<contexts, running, worker, pcmf32, wpc, window, starting, speech,
                 recorded, given, newest, orderly>>

-----------------------------------------------------------------------------
(* stream_main(i)                                                          *)

Goto(i, there) == wpc' = [wpc EXCEPT ![i] = there]

\* The window is not read again.
Forget(i) == window' = [window EXCEPT ![i] = Empty]

\* while (running)
Test(i) ==
  /\ wpc[i] = "test"
  /\ Goto(i, IF running THEN "look" ELSE "leave")
  /\ UNCHANGED <<contexts, running, worker, pcmf32, merged_transcription, window,
                 starting, speech, recorded, history>>

Enough == Size(pcmf32) >= MIN_AUDIO_SAMPLES

\* The window is the end of pcmf32 ...
Newest ==
  IF Size(pcmf32) <= WINDOW_SAMPLES THEN pcmf32
  ELSE [first |-> pcmf32.last - WINDOW_SAMPLES + 1, last |-> pcmf32.last]

\* ... and what lies before it waits for the next turn.
Left == [pcmf32 EXCEPT !.last = Newest.first - 1]

Take(i) ==
  /\ wpc[i] = "look" /\ Enough
  /\ window' = [window EXCEPT ![i] = Newest]
  /\ pcmf32' = Left
  /\ newest' = IF Newest.last > newest THEN Newest.last ELSE newest
  /\ Goto(i, "infer")
  /\ UNCHANGED <<contexts, running, worker, merged_transcription, starting, speech,
                 recorded, given, heard, orderly>>

\* Too little audio: sleep and test again.
Sleep(i) ==
  /\ wpc[i] = "look" /\ ~Enough
  /\ Goto(i, "test")
  /\ UNCHANGED <<contexts, running, worker, pcmf32, merged_transcription, window,
                 starting, speech, recorded, history>>

\* whisper_full; a failure ends the loop, and no segment leaves the transcript alone.
Infer(i) ==
  /\ wpc[i] = "infer"
  /\ \/ Goto(i, "merge") /\ UNCHANGED window
     \/ \E there \in {"test", "leave"} : Goto(i, there) /\ Forget(i)
  /\ UNCHANGED <<contexts, running, worker, pcmf32, merged_transcription, starting,
                 speech, recorded, history>>

\* The words in an interval of the recording.
Words(audio) == [k \in 1 .. Size(audio) |-> speech[audio.first + k - 1]]

\* The window begins within the transcript, at least three words before its end, and
\* does not end before it ...
Overlaps(audio) ==
  /\ heard.first <= audio.first
  /\ audio.first + 2 <= heard.last
  /\ heard.last <= audio.last

\* ... and the phrase of three words it begins with was not said before in what the
\* transcript covers.
SaidAnew(audio) ==
  \A b \in heard.first .. audio.first - 1 : ~SameTrigram(speech, b, speech, audio.first)

Continues(audio) == heard # Empty /\ Overlaps(audio) /\ SaidAnew(audio)

Merge(i) ==
  /\ wpc[i] = "merge"
  /\ merged_transcription' = mergeStrings(merged_transcription, Words(window[i]))
  /\ heard' = IF merged_transcription = <<>> THEN window[i]
              ELSE IF Continues(window[i]) THEN [heard EXCEPT !.last = window[i].last]
              ELSE Empty
  /\ Goto(i, "test") /\ Forget(i)
  /\ UNCHANGED <<contexts, running, worker, pcmf32, starting, speech, recorded, given,
                 newest, orderly>>

\* The context is freed and then, in a second step, its place.
Leave(i) ==
  /\ \/ /\ wpc[i] = "leave"
        /\ contexts' = [contexts EXCEPT ![i] = "freed"]
        /\ Goto(i, "freed")
     \/ /\ wpc[i] = "freed"
        /\ contexts' = [contexts EXCEPT ![i] = "null"]
        /\ Goto(i, "done")
  /\ UNCHANGED <<running, worker, pcmf32, merged_transcription, window, starting,
                 speech, recorded, history>>

WorkerStep(i) == Test(i) \/ Take(i) \/ Sleep(i) \/ Infer(i) \/ Merge(i) \/ Leave(i)

-----------------------------------------------------------------------------
Worker == \E i \in Slots : WorkerStep(i)

Next ==
  \/ InitCall \/ InitReturn \/ FreeCall \/ SetAudio \/ ResetTranscription
  \/ Worker

Spec == Init /\ [][Next]_vars

(***************************************************************************)
(* Fairness: the worker thread, the one there is at a time, runs, and join   *)
(* returns when it can.                                                     *)
(***************************************************************************)
FairSpec == Spec /\ WF_vars(InitReturn) /\ WF_vars(Worker)

-----------------------------------------------------------------------------
(* Properties                                                              *)

TypeOK ==
  /\ contexts \in [Slots -> {"null", "live", "freed"}]
  /\ running \in BOOLEAN
  /\ worker \in 0 .. MAX_CONTEXTS /\ starting \in 0 .. MAX_CONTEXTS
  /\ pcmf32 \in Interval
  /\ merged_transcription \in Seq(Vocabulary)
  /\ wpc \in [Slots -> {"none", "test", "look", "infer", "merge", "leave", "freed", "done"}]
  /\ window \in [Slots -> Interval]
  /\ speech \in Speeches
  /\ {recorded, given, newest} \subseteq 0 .. MaxRecorded
  /\ heard \in Interval
  /\ orderly \in BOOLEAN

(***************************************************************************)
(* However inits, free and failures follow one another, at most one worker  *)
(* takes audio, and the context it transcribes with is neither freed nor    *)
(* another worker's (init, the end of stream_main).                         *)
(***************************************************************************)
ContextsOwned ==
  /\ Cardinality(Looping) <= 1
  /\ \A i \in Looping : contexts[i] = "live"

(***************************************************************************)
(* While the page gives no more than a window at a time, the worker takes   *)
(* audio in the order of the recording, and none of it twice.  With more,   *)
(* it goes back: first the newest window, then what lies before it          *)
(* (lines 97-98).                                                           *)
(***************************************************************************)
WindowsAdvance ==
  [][\A i \in Slots :
       (wpc[i] = "look" /\ wpc'[i] = "infer" /\ given <= WINDOW_SAMPLES) =>
         window'[i].last > newest]_vars

(***************************************************************************)
(* The transcript is the speech from its first word to its last, with every *)
(* word once and in order, however often words come again, as long as each  *)
(* window overlaps it by three words or more and begins with a phrase that  *)
(* was not said before.  A phrase that was is found where it was said       *)
(* first, and what was said in between is lost (mergeStrings,               *)
(* findBestMatch).                                                          *)
(***************************************************************************)
TranscriptIsSpeech == heard # Empty => merged_transcription = Words(heard)

(***************************************************************************)
(* What the page gives is transcribed: when it gives no more, the worker    *)
(* takes all that is left, down to less than the least it accepts, unless   *)
(* the engine stops (the loop of stream_main).                              *)
(***************************************************************************)
AudioTaken ==
  (Size(pcmf32) >= MIN_AUDIO_SAMPLES) ~>
    (Size(pcmf32) < MIN_AUDIO_SAMPLES \/ Looping = {})

(***************************************************************************)
(* An init called when no worker was in its loop returns.  Called while one *)
(* is, it sets running again before the worker can see that free cleared    *)
(* it, and waits until an inference fails (lines 141-144).                  *)
(***************************************************************************)
InitReturns == (starting # 0 /\ orderly) ~> (starting = 0)

=============================================================================
