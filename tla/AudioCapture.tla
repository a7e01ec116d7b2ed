---------------------------- MODULE AudioCapture ----------------------------
(***************************************************************************)
(* How the wstream server captures audio: class audio_async of             *)
(* src/stream/common-sdl.cpp, whose callback() SDL's audio thread runs,    *)
(* and the capture loop of main (src/stream/stream.cpp), which takes       *)
(* samples with get() and clear() and builds the window for inference.     *)
(*                                                                         *)
(* Samples are numbered in the order SDL delivers them, 0 being silence    *)
(* that was never recorded and Garbage what lies outside of a buffer.      *)
(* callback(), get() and clear() each hold m_mutex throughout, so each is  *)
(* one step; between main's get() and clear() the callback may run.        *)
(***************************************************************************)
EXTENDS Integers, Sequences

CONSTANTS
  Capacity,       \* m_audio.size(): 10 s of samples
  n_samples_step, \* 3 s: one step of audio
  n_samples_keep, \* 200 ms: kept from one window for the next
  n_samples_len,  \* 10 s
  n_samples_30s,  \* 30 s: initial size of pcmf32_new
  Chunks,         \* numbers of samples of a callback
  MaxSamples      \* bound: samples delivered in a behaviour

ASSUME CaptureAssumption ==
  /\ {Capacity, n_samples_step, n_samples_keep, n_samples_len, n_samples_30s,
      MaxSamples} \subseteq Nat
  /\ n_samples_step \in 1 .. Capacity
  /\ n_samples_keep <= n_samples_step
  /\ n_samples_step <= n_samples_len
  /\ n_samples_keep <= n_samples_30s
  /\ Chunks \subseteq Nat \ {0}

VARIABLES
  device_on,    \* SDL runs the callback
  m_running, m_audio, m_audio_pos, m_audio_len,
  captured,     \* number of samples SDL has delivered
  pcmf32_new, pcmf32_old, pcmf32,
  leaving,      \* is_running was found false in the inner loop
  mpc,          \* place of main
  cleared,      \* history: samples delivered when the ring was last empty
  last          \* history: newest sample given to whisper_full, if any

ringVars == <<device_on, m_running, m_audio, m_audio_pos, m_audio_len, captured, cleared>>
windowVars == <<pcmf32_new, pcmf32_old, pcmf32, last>>
vars == <<ringVars, windowVars, leaving, mpc>>

Garbage == -1

Smaller(a, b) == IF a < b THEN a ELSE b

Larger(a, b) == IF a > b THEN a ELSE b

\* The last n elements of a sequence.
Suffix(seq, n) == SubSeq(seq, Len(seq) - n + 1, Len(seq))

\* audio_async::init succeeded.
Init ==
  /\ device_on = FALSE
  /\ m_running = FALSE
  /\ m_audio = [k \in 0 .. Capacity - 1 |-> 0]
  /\ m_audio_pos = 0
  /\ m_audio_len = 0
  /\ captured = 0
  /\ pcmf32_new = [i \in 1 .. n_samples_30s |-> 0]
  /\ pcmf32_old = <<>>
  /\ pcmf32 = [i \in 1 .. n_samples_30s |-> 0]
  /\ leaving = FALSE
  /\ mpc = "start"
  /\ cleared = 0
  /\ last = 0

-----------------------------------------------------------------------------
(* Faulty variants, used by no specification: see the definitions named.   *)

\* Stored: the second part of the copy starts with the first sample again.
FaultyStored(n, first) ==
  [k \in 0 .. Capacity - 1 |->
     IF m_audio_pos + n > Capacity /\ k < m_audio_pos + n - Capacity THEN first + k
     ELSE IF k >= m_audio_pos /\ k < m_audio_pos + n THEN first + (k - m_audio_pos)
     ELSE m_audio[k]]

\* Grown: the length of the last callback instead of the sum.
FaultyGrown(n) == n

\* Grown: the ring's length is not capped.
FaultyUncapped(n) == m_audio_len + n

\* StepReady: a window is made of whatever there is.
FaultyStepReady == Len(pcmf32_new) >= 1

\* Take: the step is handed over without clear().
FaultyTake ==
  /\ mpc = "look"
  /\ Len(pcmf32_new) >= n_samples_step
  /\ mpc' = "window"
  /\ UNCHANGED <<ringVars, windowVars, leaving>>

-----------------------------------------------------------------------------
(* audio_async                                                             *)

\* memcpy of n samples, the first being number `first`, to position `to`.
Filled(to, n, first) ==
  [k \in 0 .. Capacity - 1 |->
     IF k \in to .. to + n - 1 THEN first + (k - to) ELSE m_audio[k]]

\* The ring after n samples, the first being number `first`: in two parts when
\* they pass its end.
Stored(n, first) ==
  IF m_audio_pos + n > Capacity
    THEN LET n0 == Capacity - m_audio_pos
         IN  [k \in 0 .. Capacity - 1 |->
                IF k < n - n0 THEN first + n0 + k
                ELSE Filled(m_audio_pos, n0, first)[k]]
    ELSE Filled(m_audio_pos, n, first)

\* How many samples get(step_ms) returns.
Available == Smaller(n_samples_step, m_audio_len)

\* What get(step_ms) returns: the last samples, in two parts when they pass the
\* end of the ring.
Newest ==
  LET n  == Available
      d  == m_audio_pos - n
      s0 == IF d < 0 THEN d + Capacity ELSE d
      n0 == IF s0 + n > Capacity THEN Capacity - s0 ELSE n
  IN  [i \in 1 .. n |-> IF i <= n0 THEN m_audio[s0 + i - 1] ELSE m_audio[i - n0 - 1]]

\* m_audio_len after a callback of n samples.
Grown(n) == Smaller(m_audio_len + n, Capacity)

\* m_audio_pos after a callback of n samples.
Advanced(n) == (m_audio_pos + n) % Capacity

\* SDL delivers n samples.  Until m_running is set they are ignored; of more than
\* the ring can hold the last are kept.
Callback ==
  /\ device_on
  /\ \E n \in Chunks :
       /\ captured + n <= MaxSamples
       /\ captured' = captured + n
       /\ IF m_running
            THEN LET s == Smaller(n, Capacity)
                 IN  /\ m_audio' = Stored(s, captured + (n - s) + 1)
                     /\ m_audio_pos' = Advanced(s)
                     /\ m_audio_len' = Grown(s)
                     /\ UNCHANGED cleared
            ELSE /\ cleared' = captured'
                 /\ UNCHANGED <<m_audio, m_audio_pos, m_audio_len>>
  /\ UNCHANGED <<device_on, m_running, windowVars, leaving, mpc>>

\* clear(): m_running is true whenever main calls it.
Clear ==
  /\ m_audio_pos' = 0
  /\ m_audio_len' = 0
  /\ cleared' = captured
  /\ UNCHANGED <<device_on, m_running, m_audio, captured>>

\* resume(): SDL starts calling back before m_running is set.
ResumeDevice ==
  /\ mpc = "start"
  /\ device_on' = TRUE
  /\ mpc' = "resume"
  /\ UNCHANGED <<m_running, m_audio, m_audio_pos, m_audio_len, captured, cleared,
                 windowVars, leaving>>

ResumeFlag ==
  /\ mpc = "resume"
  /\ m_running' = TRUE
  /\ mpc' = "test"
  /\ UNCHANGED <<device_on, m_audio, m_audio_pos, m_audio_len, captured, cleared,
                 windowVars, leaving>>

\* pause()
Pause ==
  /\ mpc = "down"
  /\ device_on' = FALSE
  /\ m_running' = FALSE
  /\ mpc' = "paused"
  /\ UNCHANGED <<m_audio, m_audio_pos, m_audio_len, captured, cleared, windowVars,
                 leaving>>

-----------------------------------------------------------------------------
(* main                                                                    *)

\* A step of main that touches nothing but its place.
MainGoto(there) ==
  mpc' = there /\ UNCHANGED <<ringVars, windowVars>>

\* while (is_running), and the poll after it.
LoopTest ==
  /\ mpc = "test"
  /\ \/ ~leaving /\ MainGoto("inner")
     \/ MainGoto("down")
  /\ UNCHANGED leaving

\* The poll of the inner loop, which leaves main's loop after one more window.
InnerPoll ==
  /\ mpc = "inner"
  /\ \/ MainGoto("get") /\ UNCHANGED leaving
     \/ MainGoto("window") /\ leaving' = TRUE

\* audio.get(step_ms, pcmf32_new)
Get ==
  /\ mpc = "get"
  /\ pcmf32_new' = Newest
  /\ mpc' = "look"
  /\ UNCHANGED <<ringVars, pcmf32_old, pcmf32, last, leaving>>

\* get(step_ms) never returns this much: main drops audio, with clear(), only
\* without its warning.
TooFull == Len(pcmf32_new) > 2 * n_samples_step

StepReady == Len(pcmf32_new) >= n_samples_step

\* What get() did not return is lost: what is older than a step, and what SDL
\* delivered since.
Take ==
  /\ mpc = "look"
  /\ TooFull \/ StepReady
  /\ Clear
  /\ mpc' = IF TooFull THEN "inner" ELSE "window"
  /\ UNCHANGED <<windowVars, leaving>>

\* Too little: sleep for a millisecond and look again.
TooLittle ==
  /\ mpc = "look"
  /\ ~TooFull /\ ~StepReady
  /\ MainGoto("inner")
  /\ UNCHANGED leaving

\* pcmf32 is the end of the last window and what is new.
Window ==
  /\ mpc = "window"
  /\ LET room == Larger(0, n_samples_keep + n_samples_len - Len(pcmf32_new))
         take == Smaller(Len(pcmf32_old), room)
     IN  pcmf32' = Suffix(pcmf32_old, take) \o pcmf32_new
  /\ pcmf32_old' = pcmf32'
  /\ mpc' = IF pcmf32' = <<>> THEN "test" ELSE "infer"
  /\ UNCHANGED <<ringVars, pcmf32_new, last, leaving>>

\* whisper_full succeeds, and the end of the window is kept.  A window shorter
\* than n_samples_keep has no such end: pcmf32.end() - n_samples_keep lies before
\* its first element, and what is kept is arbitrary, if the process survives.
Keep ==
  /\ mpc = "infer"
  /\ last' = pcmf32[Len(pcmf32)]
  /\ IF Len(pcmf32) >= n_samples_keep
       THEN pcmf32_old' = Suffix(pcmf32, n_samples_keep) /\ mpc' = "test"
       ELSE /\ pcmf32_old' = [i \in 1 .. n_samples_keep |-> Garbage]
            /\ mpc' \in {"test", "crashed"}
  /\ UNCHANGED <<ringVars, pcmf32_new, pcmf32, leaving>>

\* whisper_full fails: break.
InferFails ==
  /\ mpc = "infer"
  /\ MainGoto("down")
  /\ UNCHANGED leaving

MainStep ==
  \/ ResumeDevice \/ ResumeFlag \/ LoopTest \/ InnerPoll \/ Get \/ Take
  \/ TooLittle \/ Window \/ Keep \/ InferFails \/ Pause

Finished == mpc \in {"paused", "crashed"} /\ UNCHANGED vars

Next == Callback \/ MainStep \/ Finished

Spec == Init /\ [][Next]_vars

(***************************************************************************)
(* Fairness: main runs, and SDL goes on delivering samples while the       *)
(* device is on.                                                           *)
(***************************************************************************)
FairSpec == Spec /\ WF_vars(MainStep) /\ WF_vars(Callback)

-----------------------------------------------------------------------------
(* Properties                                                              *)

Sample == 0 .. MaxSamples

Samples == Seq(Sample \cup {Garbage})

TypeOK ==
  /\ device_on \in BOOLEAN /\ m_running \in BOOLEAN /\ leaving \in BOOLEAN
  /\ m_audio \in [0 .. Capacity - 1 -> Sample]
  /\ m_audio_pos \in 0 .. Capacity - 1
  /\ m_audio_len \in 0 .. Capacity
  /\ captured \in Sample /\ cleared \in 0 .. captured
  /\ pcmf32_new \in Samples /\ pcmf32_old \in Samples /\ pcmf32 \in Samples
  /\ last \in Sample \cup {Garbage}
  /\ mpc \in {"start", "resume", "test", "inner", "get", "look", "window",
              "infer", "down", "paused", "crashed"}

\* Samples delivered since the ring was last empty.
Held == captured - cleared

\* The position of the sample delivered i samples before the newest.
Back(i) == LET k == m_audio_pos - 1 - i IN IF k < 0 THEN k + Capacity ELSE k

(***************************************************************************)
(* However callbacks and clear() follow one another, and wherever the      *)
(* samples start and end in m_audio, the ring holds the newest samples     *)
(* delivered since it was last empty, as many as fit, in order             *)
(* (audio_async::callback, clear).                                         *)
(***************************************************************************)
RingHoldsNewest ==
  /\ m_audio_len = Smaller(Held, Capacity)
  /\ \A i \in 0 .. m_audio_len - 1 : m_audio[Back(i)] = captured - i

(***************************************************************************)
(* What main gives to whisper_full while it captures on: the end of the    *)
(* window before, if there was one, and then a step of consecutive         *)
(* samples, none of which any window had before (get, clear, lines         *)
(* 903-929 and 992 of main).                                               *)
(***************************************************************************)
WindowShape ==
  (mpc = "infer" /\ ~leaving) =>
    LET kept == Len(pcmf32) - n_samples_step
    IN  /\ kept = IF last = 0 THEN 0 ELSE n_samples_keep
        /\ \A i \in 1 .. kept : pcmf32[i] = last - kept + i
        /\ pcmf32[kept + 1] > last
        /\ \A i \in 1 .. n_samples_step : pcmf32[kept + i] = pcmf32[kept + 1] + i - 1

(***************************************************************************)
(* The iterator arithmetic of line 992 stays within the window unless the  *)
(* user quits: main never captures on with a tail read from outside of     *)
(* pcmf32.                                                                 *)
(***************************************************************************)
KeepWithinWindow ==
  /\ (mpc = "infer" /\ Len(pcmf32) < n_samples_keep) => leaving
  /\ mpc = "crashed" => leaving

(***************************************************************************)
(* While SDL delivers samples, main gets out of its inner loop: although   *)
(* get() and the callback alternate freely, a step is found complete (the  *)
(* loop of lines 898-917, Grown).                                          *)
(***************************************************************************)
StepReached ==
  (mpc = "inner" /\ captured + n_samples_step <= MaxSamples) ~> (mpc = "window")

=============================================================================
