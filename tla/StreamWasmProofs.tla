--------------------------- MODULE StreamWasmProofs ---------------------------
(***************************************************************************)
(* Proofs about StreamWasm and HyniMerge: how mergeStrings joins overlaps,  *)
(* that contexts are owned by one worker, that audio is taken in the order  *)
(* of the recording and that overlapping windows are merged into the        *)
(* speech, for any number of contexts and any sizes.                        *)
(***************************************************************************)
EXTENDS StreamWasm, FiniteSetTheorems, TLAPS

-----------------------------------------------------------------------------
(* mergeStrings                                                            *)

\* A set of numbers has a least element: among the intervals 0 .. n, for n in the
\* set, one contains no other.
LEMMA LeastExists ==
  ASSUME NEW S \in SUBSET Nat, S # {}
  PROVE  \E x \in S : IsLeast(x, S)
<1>. DEFINE T == {0 .. n : n \in S}
<1>. DEFINE R == StrictSubsetOrdering(Nat)
<1>1. T \subseteq FiniteSubsetsOf(Nat)
  <2>1. \A n \in S : 0 .. n \in SUBSET Nat /\ IsFiniteSet(0 .. n) BY FS_Interval
  <2>. QED BY <2>1 DEF FiniteSubsetsOf
<1>2. T # {} OBVIOUS
<1>3. IsWellFoundedOn(R, FiniteSubsetsOf(Nat))
  BY FS_StrictSubsetOrderingWellFounded
<1>4. PICK I \in T : \A J \in T : ~ (<<J, I>> \in R)
  <2>. HIDE DEF R, T
  <2>. QED BY <1>1, <1>2, <1>3, WFMin
<1>5. PICK x \in S : I = 0 .. x OBVIOUS
<1>6. ASSUME NEW y \in S, y < x PROVE FALSE
  <2>1. 0 .. y \subseteq 0 .. x BY <1>6
  <2>2. x \in 0 .. x /\ x \notin 0 .. y BY <1>6
  <2>3. <<0 .. y, 0 .. x>> \in R BY <2>1, <2>2 DEF StrictSubsetOrdering
  <2>. QED BY <1>4, <1>5, <2>3
<1>. QED BY <1>6 DEF IsLeast

\* A match is the place of a word of base that two others follow.
LEMMA MatchType ==
  ASSUME NEW S, NEW base \in Seq(S), NEW tail \in Seq(S)
  PROVE  /\ findBestMatch(base, tail) \in -1 .. Len(base)
         /\ findBestMatch(base, tail) < 0 <=> Common(base, tail) = {}
<1>. DEFINE C == Common(base, tail)
<1>1. CASE C = {} BY <1>1 DEF findBestMatch
<1>2. CASE C # {}
  <2>1. C \in SUBSET Nat BY DEF Common
  <2>. DEFINE i == CHOOSE x \in C : IsLeast(x, C)
              O == Occurrences(base, tail, i)
              b == CHOOSE x \in O : IsLeast(x, O)
  <2>2. i \in C BY <1>2, <2>1, LeastExists
  <2>3. O # {} BY <2>2 DEF Common
  <2>4. O \in SUBSET (1 .. Len(base) - 2) BY DEF Occurrences
  <2>5. b \in O
    <3>1. O \in SUBSET Nat BY <2>4
    <3>2. \E x \in O : IsLeast(x, O)
      <4>. HIDE DEF O
      <4>. QED BY <2>3, <3>1, LeastExists
    <3>. HIDE DEF O, i
    <3>. QED BY <3>2
  <2>6. findBestMatch(base, tail) = b - 1 BY <1>2 DEF findBestMatch
  <2>7. b \in 1 .. Len(base) - 2 BY <2>4, <2>5
  <2>8. Len(base) \in Nat /\ Common(base, tail) # {} BY <1>2
  <2>. HIDE DEF b
  <2>. QED BY <2>6, <2>7, <2>8
<1>. QED BY <1>1, <1>2

(***************************************************************************)
(* Whatever the texts, the result is some beginning of A, without its       *)
(* punctuation, followed by the whole of B; all of A when the texts have no *)
(* three words in common (mergeStrings).                                    *)
(***************************************************************************)
THEOREM MergeKeeps ==
  ASSUME NEW S, NEW A \in Seq(S), NEW B \in Seq(S)
  PROVE  /\ \E n \in 0 .. Len(A) : mergeStrings(A, B) = SubSeq(A, 1, n) \o B
         /\ Common(A, B) = {} => mergeStrings(A, B) = A \o B
<1>1. A \o B = SubSeq(A, 1, Len(A)) \o B /\ Len(A) \in 0 .. Len(A) OBVIOUS
<1>2. CASE A = <<>> \/ B = <<>> BY <1>1, <1>2 DEF mergeStrings
<1>3. CASE ~(A = <<>> \/ B = <<>>)
  <2>1. CASE findBestMatch(A, B) < 0 BY <1>1, <1>3, <2>1 DEF mergeStrings
  <2>2. CASE ~(findBestMatch(A, B) < 0)
    <3>1. mergeStrings(A, B) = SubSeq(A, 1, findBestMatch(A, B)) \o B
      BY <1>3, <2>2 DEF mergeStrings
    <3>2. findBestMatch(A, B) \in 0 .. Len(A) /\ Common(A, B) # {} BY <2>2, MatchType
    <3>. QED BY <3>1, <3>2
  <2>. QED BY <2>1, <2>2
<1>. QED BY <1>2, <1>3

(***************************************************************************)
(* A window whose first phrase of three words the transcript has replaces   *)
(* all that follows the place where the phrase was said first: what was     *)
(* said between that place and the window is lost, and with nothing between *)
(* them nothing is (findBestMatch, mergeStrings).                           *)
(***************************************************************************)
THEOREM MergeAtFirst ==
  ASSUME NEW S, NEW A \in Seq(S), NEW B \in Seq(S), Len(B) >= 3,
         NEW b \in 1 .. Len(A) - 2, SameTrigram(A, b, B, 1),
         \A c \in 1 .. b - 1 : ~SameTrigram(A, c, B, 1)
  PROVE  mergeStrings(A, B) = SubSeq(A, 1, b - 1) \o B
<1>1. Len(A) \in Nat /\ Len(B) \in Nat OBVIOUS
<1>. DEFINE O == Occurrences(A, B, 1)
<1>2. b \in O BY DEF Occurrences
<1>3. O \subseteq Nat /\ \A c \in O : ~(c < b)
  <2>1. ASSUME NEW c \in O PROVE c \in Nat /\ ~(c < b)
    <3>1. c \in 1 .. Len(A) - 2 /\ SameTrigram(A, c, B, 1) BY DEF Occurrences
    <3>2. c < b => c \in 1 .. b - 1 BY <1>1, <3>1
    <3>. QED BY <1>1, <3>1, <3>2
  <2>. QED BY <2>1
<1>4. \A x \in O : IsLeast(x, O) <=> x = b
  <2>. HIDE DEF O
  <2>. QED BY <1>1, <1>2, <1>3 DEF IsLeast
<1>5. (CHOOSE x \in O : IsLeast(x, O)) = b
  <2>. HIDE DEF O
  <2>. QED BY <1>2, <1>4
<1>6. 1 \in Common(A, B)
  <2>1. 1 \in 1 .. Len(B) - 2 BY <1>1
  <2>. QED BY <1>2, <2>1 DEF Common
<1>7. \A x \in Common(A, B) : IsLeast(x, Common(A, B)) <=> x = 1
  <2>1. Common(A, B) \subseteq Nat /\ \A x \in Common(A, B) : 1 <= x BY DEF Common
  <2>. QED BY <1>6, <2>1 DEF IsLeast
<1>8. (CHOOSE x \in Common(A, B) : IsLeast(x, Common(A, B))) = 1 BY <1>6, <1>7
<1>9. findBestMatch(A, B) = b - 1 BY <1>5, <1>6, <1>8 DEF findBestMatch
<1>10. ~(b - 1 < 0) /\ A # <<>> /\ B # <<>> BY <1>1
<1>. QED BY <1>9, <1>10 DEF mergeStrings

-----------------------------------------------------------------------------
(* The inductive invariant                                                 *)

Places == {"none", "test", "look", "infer", "merge", "leave", "freed", "done"}

\* The places of a thread that runs.
Alive == {"test", "look", "infer", "merge", "leave", "freed"}

Types ==
  /\ contexts \in [Slots -> {"null", "live", "freed"}]
  /\ running \in BOOLEAN
  /\ worker \in 0 .. MAX_CONTEXTS /\ starting \in 0 .. MAX_CONTEXTS
  /\ pcmf32 \in Interval
  /\ merged_transcription \in Seq(Vocabulary)
  /\ wpc \in [Slots -> Places]
  /\ window \in [Slots -> Interval]
  /\ recorded \in 0 .. MaxRecorded /\ given \in 0 .. MaxRecorded
  /\ newest \in 0 .. MaxRecorded
  /\ speech \in Speeches /\ heard \in Interval
  /\ orderly \in BOOLEAN

\* TypeOK in the terms of the proof.
LEMMA TypesAre == TypeOK <=> Types
BY DEF TypeOK, Types, Places

\* The thread that runs is the one `worker` stands for; its context is live, or
\* freed and not yet null; an init that waits has a live context, no thread yet for
\* it and another to wait for.
Owners ==
  /\ \A i \in Slots :
       /\ wpc[i] \in Alive => i = worker
       /\ wpc[i] \in Alive => contexts[i] = IF wpc[i] = "freed" THEN "freed" ELSE "live"
  /\ starting # 0 =>
       /\ starting \in Slots /\ worker # 0
       /\ contexts[starting] = "live" /\ wpc[starting] \notin Alive

\* A window has a word.
Heard == \A i \in Slots : wpc[i] \in {"infer", "merge"} => Size(window[i]) >= 1

\* What waits in pcmf32 is newer than what was taken, if it fits into a window.
Order ==
  /\ newest <= recorded /\ pcmf32.last <= recorded
  /\ given <= WINDOW_SAMPLES =>
       /\ Size(pcmf32) <= WINDOW_SAMPLES
       /\ Size(pcmf32) <= 0 \/ pcmf32.last > newest

WasmInv == Types /\ Owners /\ Heard /\ Order /\ TranscriptIsSpeech

\* A step that leaves the audio and the windows alone keeps what is said of them.
AudioVars == <<pcmf32, merged_transcription, speech, recorded, given, newest, heard>>

\* What touches neither audio nor transcript keeps their order.
LEMMA AudioKept ==
  ASSUME Order, TranscriptIsSpeech, UNCHANGED AudioVars
  PROVE  Order' /\ TranscriptIsSpeech'
<1>1. Order' BY DEF Order, AudioVars, Size
<1>2. TranscriptIsSpeech' BY DEF TranscriptIsSpeech, AudioVars, Words, Size
<1>. QED BY <1>1, <1>2

\* The engine starts in the invariant.
LEMMA InitHolds == ASSUME Init PROVE WasmInv
<1>0. /\ MAX_CONTEXTS \in Nat \ {0} /\ MaxRecorded \in Nat /\ WINDOW_SAMPLES \in Nat
  BY StreamAssumption
<1>1. Empty \in Interval BY <1>0 DEF Empty, Interval
<1>2. Types
  <2>1. wpc \in [Slots -> Places] /\ contexts \in [Slots -> {"null", "live", "freed"}]
    BY DEF Init, Places
  <2>2. window \in [Slots -> Interval] /\ pcmf32 \in Interval /\ heard \in Interval
    BY <1>1 DEF Init
  <2>3. /\ worker \in 0 .. MAX_CONTEXTS /\ starting \in 0 .. MAX_CONTEXTS
        /\ recorded \in 0 .. MaxRecorded /\ given \in 0 .. MaxRecorded
        /\ newest \in 0 .. MaxRecorded
        /\ merged_transcription \in Seq(Vocabulary)
    BY <1>0 DEF Init
  <2>4. running \in BOOLEAN /\ orderly \in BOOLEAN /\ speech \in Speeches BY DEF Init
  <2>. QED BY <2>1, <2>2, <2>3, <2>4 DEF Types
<1>3. Owners BY DEF Init, Owners, Alive
<1>4. Heard BY DEF Init, Heard
<1>5. Order BY <1>0 DEF Init, Order, Size, Empty
<1>6. TranscriptIsSpeech BY DEF Init, TranscriptIsSpeech
<1>. QED BY <1>2, <1>3, <1>4, <1>5, <1>6 DEF WasmInv

-----------------------------------------------------------------------------
(* The page                                                                *)

\* init keeps the invariant up to its join,
LEMMA InitCallKept == ASSUME WasmInv, InitCall PROVE WasmInv'
<1>1. PICK i \in FreeSlots :
        /\ contexts' = [contexts EXCEPT ![i] = "live"]
        /\ IF Joinable
             THEN starting' = i /\ UNCHANGED <<wpc, worker>>
             ELSE Start(i) /\ UNCHANGED starting
  BY DEF InitCall
<1>2. /\ starting = 0 /\ running' = TRUE
      /\ orderly' = (Looping = {})
      /\ UNCHANGED <<pcmf32, merged_transcription, window, speech, recorded, given, newest,
                     heard>>
  BY DEF InitCall, InPage
<1>3. i \in Slots /\ contexts[i] = "null" BY DEF FreeSlots
<1>4. Types /\ Owners /\ Heard /\ Order /\ TranscriptIsSpeech BY DEF WasmInv
<1>5. MAX_CONTEXTS \in Nat \ {0} /\ i \in 0 .. MAX_CONTEXTS
  BY <1>3, StreamAssumption DEF Slots
<1>6. wpc[i] \notin Alive BY <1>3, <1>4 DEF Owners
<1>7. orderly' \in BOOLEAN BY <1>2
<1>8. ASSUME Joinable PROVE Types' /\ Owners'
  <2>1. starting' = i /\ UNCHANGED <<wpc, worker>> BY <1>1, <1>8
  <2>2. Types' BY <1>1, <1>2, <1>4, <1>5, <1>7, <2>1 DEF Types
  <2>3. Owners'
    BY <1>1, <1>3, <1>4, <1>6, <1>8, <2>1 DEF Types, Owners, Joinable
  <2>. QED BY <2>2, <2>3
<1>9. ASSUME ~Joinable PROVE Types' /\ Owners'
  <2>1. /\ wpc' = [wpc EXCEPT ![i] = "test"] /\ worker' = i /\ starting' = starting
    BY <1>1, <1>9 DEF Start
  <2>2. wpc' \in [Slots -> Places] BY <1>4, <2>1 DEF Types, Places
  <2>3. Types' BY <1>1, <1>2, <1>4, <1>5, <1>7, <2>1, <2>2 DEF Types
  <2>4. \A j \in Slots : wpc[j] \notin Alive
    BY <1>4, <1>9 DEF Owners, Joinable, Slots
  <2>5. \A j \in Slots : wpc'[j] \in Alive => j = i BY <1>4, <2>1, <2>4 DEF Types
  <2>6. contexts'[i] = "live" /\ wpc'[i] = "test" BY <1>1, <1>3, <1>4, <2>1 DEF Types
  <2>7. Owners' BY <1>2, <2>1, <2>5, <2>6 DEF Owners
  <2>. QED BY <2>3, <2>7
<1>10. Heard'
  <2>1. \A j \in Slots : wpc'[j] \in {"infer", "merge"} => wpc[j] = wpc'[j]
    BY <1>1, <1>4 DEF Types, Start
  <2>. QED BY <1>2, <1>4, <2>1 DEF Heard
<1>11. Order' /\ TranscriptIsSpeech' BY <1>2, <1>4, AudioKept DEF AudioVars
<1>. QED BY <1>8, <1>9, <1>10, <1>11 DEF WasmInv

\* and from the join to its return.
LEMMA InitReturnKept == ASSUME WasmInv, InitReturn PROVE WasmInv'
<1>1. /\ starting # 0 /\ wpc[worker] = "done"
      /\ wpc' = [wpc EXCEPT ![starting] = "test"] /\ worker' = starting
      /\ starting' = 0
      /\ UNCHANGED <<contexts, running, pcmf32, merged_transcription, window, speech, recorded,
                     given, newest, heard, orderly>>
  BY DEF InitReturn, Joined, Start, history
<1>2. Types /\ Owners /\ Heard /\ Order /\ TranscriptIsSpeech BY DEF WasmInv
<1>3. MAX_CONTEXTS \in Nat \ {0} BY StreamAssumption
<1>4. starting \in Slots BY <1>1, <1>2, <1>3 DEF Types, Slots
<1>5. wpc' \in [Slots -> Places] BY <1>1, <1>2 DEF Types, Places
<1>6. Types' BY <1>1, <1>2, <1>3, <1>5 DEF Types
<1>7. \A j \in Slots : wpc[j] \notin Alive BY <1>1, <1>2 DEF Owners, Alive
<1>8. /\ \A j \in Slots : wpc'[j] \in Alive => j = starting
      /\ wpc'[starting] = "test" /\ contexts'[starting] = "live"
  BY <1>1, <1>2, <1>4, <1>7 DEF Types, Owners
<1>9. Owners' BY <1>1, <1>8 DEF Owners
<1>10. Heard'
  <2>1. \A j \in Slots : wpc'[j] \in {"infer", "merge"} => wpc[j] = wpc'[j]
    BY <1>1, <1>2 DEF Types
  <2>. QED BY <1>1, <1>2, <2>1 DEF Heard
<1>11. Order' /\ TranscriptIsSpeech' BY <1>1, <1>2, AudioKept DEF AudioVars
<1>. QED BY <1>6, <1>9, <1>10, <1>11 DEF WasmInv

\* free keeps it.
LEMMA FreeCallKept == ASSUME WasmInv, FreeCall PROVE WasmInv'
<1>1. /\ running' = FALSE
      /\ UNCHANGED <<contexts, worker, pcmf32, merged_transcription, wpc, window, starting,
                     speech, recorded, given, newest, heard, orderly>>
  BY DEF FreeCall, history
<1>2. Types /\ Owners /\ Heard /\ Order /\ TranscriptIsSpeech BY DEF WasmInv
<1>3. Types' BY <1>1, <1>2 DEF Types
<1>4. Owners' /\ Heard' BY <1>1, <1>2 DEF Owners, Heard
<1>5. Order' /\ TranscriptIsSpeech' BY <1>1, <1>2, AudioKept DEF AudioVars
<1>. QED BY <1>3, <1>4, <1>5 DEF WasmInv

\* How many numbers an interval within 1 .. n has.
LEMMA SizeBound ==
  ASSUME NEW first \in Int, NEW last \in Int, NEW n \in Nat,
         1 <= first, first <= last, last <= n
  PROVE  last - first + 1 \in 1 .. n
OBVIOUS

\* set_audio keeps it: the audio has grown at its end.
LEMMA SetAudioKept == ASSUME WasmInv, SetAudio PROVE WasmInv'
<1>1. PICK n \in Recordings : recorded + n <= MaxRecorded /\ recorded' = recorded + n
  BY DEF SetAudio
<1>2. PICK first \in 1 .. recorded' :
        pcmf32' = [first |-> first, last |-> recorded'] /\ given' = Size(pcmf32')
  BY DEF SetAudio
<1>3. UNCHANGED <<contexts, running, worker, merged_transcription, wpc, window, starting,
                  speech, newest, heard, orderly>>
  BY DEF SetAudio
<1>4. Types /\ Owners /\ Heard /\ Order /\ TranscriptIsSpeech BY DEF WasmInv
<1>5. n \in Nat /\ n > 0 /\ MaxRecorded \in Nat /\ WINDOW_SAMPLES \in Nat
  BY StreamAssumption
<1>6. recorded' \in 0 .. MaxRecorded /\ recorded' > recorded
  BY <1>1, <1>4, <1>5 DEF Types
<1>7. given' = recorded' - first + 1 /\ Size(pcmf32') = given' BY <1>2 DEF Size
<1>8. pcmf32' \in Interval
  <2>1. first \in 1 .. MaxRecorded + 1 BY <1>5, <1>6
  <2>. QED BY <1>2, <1>6, <2>1 DEF Interval
<1>9. given' \in 0 .. MaxRecorded /\ given' >= 1
  <2>1. recorded' - first + 1 \in 1 .. MaxRecorded
    <3>1. first \in Int /\ 1 <= first /\ first <= recorded' BY <1>6
    <3>2. recorded' \in Int /\ recorded' <= MaxRecorded BY <1>5, <1>6
    <3>. QED BY <1>5, <3>1, <3>2, SizeBound
  <2>. QED BY <1>5, <1>7, <2>1
<1>10. Types' BY <1>3, <1>4, <1>6, <1>8, <1>9 DEF Types
<1>11. Owners' /\ Heard' BY <1>3, <1>4 DEF Owners, Heard
<1>12. Order'
  <2>1. pcmf32'.last = recorded' /\ newest' = newest BY <1>2, <1>3
  <2>2. newest <= recorded /\ newest \in Nat BY <1>4 DEF Order, Types
  <2>3. pcmf32'.last > newest' /\ newest' <= recorded' /\ recorded' \in Nat
    BY <1>4, <1>5, <1>6, <2>1, <2>2 DEF Types
  <2>. HIDE DEF Size
  <2>4. given' <= WINDOW_SAMPLES' => Size(pcmf32') <= WINDOW_SAMPLES' BY <1>7
  <2>5. newest' <= recorded' /\ pcmf32'.last <= recorded' BY <2>1, <2>3
  <2>6. Size(pcmf32)' = Size(pcmf32') BY DEF Size
  <2>. QED BY <2>3, <2>4, <2>5, <2>6 DEF Order
<1>13. TranscriptIsSpeech' BY <1>3, <1>4 DEF TranscriptIsSpeech, Words, Size
<1>. QED BY <1>10, <1>11, <1>12, <1>13 DEF WasmInv

\* reset_transcription keeps it: what was heard so far no longer counts.
LEMMA ResetKept == ASSUME WasmInv, ResetTranscription PROVE WasmInv'
<1>1. /\ merged_transcription' = <<>> /\ heard' = Empty
      /\ UNCHANGED <<contexts, running, worker, pcmf32, wpc, window, starting, speech,
                     recorded, given, newest, orderly>>
  BY DEF ResetTranscription
<1>2. Types /\ Owners /\ Heard /\ Order BY DEF WasmInv
<1>3. merged_transcription' \in Seq(Vocabulary) BY <1>1
<1>4. heard' \in Interval
  <2>1. MaxRecorded \in Nat BY StreamAssumption
  <2>. QED BY <1>1, <2>1 DEF Empty, Interval
<1>5. Types' BY <1>1, <1>2, <1>3, <1>4 DEF Types
<1>6. Owners' /\ Heard' /\ Order' BY <1>1, <1>2 DEF Owners, Heard, Order, Size
<1>7. TranscriptIsSpeech' BY <1>1 DEF TranscriptIsSpeech, Empty
<1>. QED BY <1>5, <1>6, <1>7 DEF WasmInv

-----------------------------------------------------------------------------
(* The worker                                                              *)

\* A worker that keeps its context goes from one place to another.
LEMMA Moved ==
  ASSUME Types, Owners, NEW i \in Slots, NEW there \in Alive \ {"freed"},
         wpc[i] \in Alive \ {"freed"}, Goto(i, there),
         UNCHANGED <<contexts, worker, starting>>
  PROVE  /\ wpc' \in [Slots -> Places] /\ Owners'
         /\ \A j \in Slots : wpc'[j] = IF j = i THEN there ELSE wpc[j]
<1>1. wpc' = [wpc EXCEPT ![i] = there] BY DEF Goto
<1>2. wpc' \in [Slots -> Places] BY <1>1 DEF Types, Places, Alive
<1>3. \A j \in Slots : wpc'[j] = IF j = i THEN there ELSE wpc[j] BY <1>1 DEF Types
<1>4. Owners' BY <1>3 DEF Owners
<1>. QED BY <1>2, <1>3, <1>4

\* The worker's test of g_running keeps it,
LEMMA TestKept == ASSUME WasmInv, NEW i \in Slots, Test(i) PROVE WasmInv'
<1>1. /\ wpc[i] = "test" /\ Goto(i, IF running THEN "look" ELSE "leave")
      /\ UNCHANGED <<contexts, running, worker, pcmf32, merged_transcription, window,
                     starting, speech, recorded, given, newest, heard, orderly>>
  BY DEF Test, history
<1>2. Types /\ Owners /\ Heard /\ Order /\ TranscriptIsSpeech BY DEF WasmInv
<1>3. PICK there \in {"look", "leave"} : Goto(i, there) BY <1>1
<1>4. /\ wpc' \in [Slots -> Places] /\ Owners'
      /\ \A j \in Slots : wpc'[j] = IF j = i THEN there ELSE wpc[j]
  <2>1. there \in Alive \ {"freed"} /\ wpc[i] \in Alive \ {"freed"} BY <1>1 DEF Alive
  <2>. QED BY <1>1, <1>2, <1>3, <2>1, Moved
<1>5. Types' BY <1>1, <1>2, <1>4 DEF Types
<1>6. Heard' BY <1>1, <1>2, <1>4 DEF Heard
<1>7. Order' /\ TranscriptIsSpeech' BY <1>1, <1>2, AudioKept DEF AudioVars
<1>. QED BY <1>4, <1>5, <1>6, <1>7 DEF WasmInv

\* its sleep when there is too little audio,
LEMMA SleepKept == ASSUME WasmInv, NEW i \in Slots, Sleep(i) PROVE WasmInv'
<1>1. /\ wpc[i] = "look" /\ Goto(i, "test")
      /\ UNCHANGED <<contexts, running, worker, pcmf32, merged_transcription, window,
                     starting, speech, recorded, given, newest, heard, orderly>>
  BY DEF Sleep, history
<1>2. Types /\ Owners /\ Heard /\ Order /\ TranscriptIsSpeech BY DEF WasmInv
<1>3. /\ wpc' \in [Slots -> Places] /\ Owners'
      /\ \A j \in Slots : wpc'[j] = IF j = i THEN "test" ELSE wpc[j]
  <2>1. "test" \in Alive \ {"freed"} /\ wpc[i] \in Alive \ {"freed"} BY <1>1 DEF Alive
  <2>. QED BY <1>1, <1>2, <2>1, Moved
<1>4. Types' BY <1>1, <1>2, <1>3 DEF Types
<1>5. Heard' BY <1>1, <1>2, <1>3 DEF Heard
<1>6. Order' /\ TranscriptIsSpeech' BY <1>1, <1>2, AudioKept DEF AudioVars
<1>. QED BY <1>3, <1>4, <1>5, <1>6 DEF WasmInv

\* What a worker takes and leaves.
LEMMA Taken ==
  ASSUME Types, Order, Enough
  PROVE  /\ Newest \in Interval /\ Size(Newest) >= 1 /\ Left \in Interval
         /\ Newest.last = pcmf32.last /\ Left.last < pcmf32.last
         /\ Size(pcmf32) <= WINDOW_SAMPLES => Size(Left) = 0
         /\ given <= WINDOW_SAMPLES => Newest.last > newest
<1>1. /\ WINDOW_SAMPLES \in Nat /\ WINDOW_SAMPLES >= 1 /\ MIN_AUDIO_SAMPLES \in Nat
      /\ MIN_AUDIO_SAMPLES >= 1 /\ MaxRecorded \in Nat
  BY StreamAssumption
<1>2. PICK f \in 1 .. MaxRecorded + 1, l \in 0 .. MaxRecorded :
        pcmf32 = [first |-> f, last |-> l]
  BY DEF Types, Interval
<1>3. Size(pcmf32) = l - f + 1 BY <1>2 DEF Size
<1>4. l - f + 1 >= 1 BY <1>1, <1>3 DEF Enough
<1>5. CASE l - f + 1 <= WINDOW_SAMPLES
  <2>1. Newest = [first |-> f, last |-> l] BY <1>2, <1>3, <1>5 DEF Newest
  <2>2. Left = [first |-> f, last |-> f - 1] BY <1>2, <2>1 DEF Left
  <2>3. /\ Size(Newest) = l - f + 1 /\ Size(Left) = (f - 1) - f + 1
        /\ Newest.last = l /\ Left.last = f - 1 /\ pcmf32.last = l
    BY <1>2, <2>1, <2>2 DEF Size
  <2>4. Newest \in Interval /\ Left \in Interval BY <1>1, <2>1, <2>2 DEF Interval
  <2>5. given <= WINDOW_SAMPLES => l > newest BY <1>2, <1>3, <1>4 DEF Order
  <2>. QED BY <1>4, <2>3, <2>4, <2>5
<1>6. CASE l - f + 1 > WINDOW_SAMPLES
  <2>. DEFINE g == l - WINDOW_SAMPLES + 1
  <2>1. g \in 1 .. MaxRecorded + 1 /\ g - 1 \in 0 .. MaxRecorded /\ g - 1 < l
    BY <1>1, <1>6
  <2>2. Newest = [first |-> g, last |-> l]
    <3>1. ~(Size(pcmf32) <= WINDOW_SAMPLES) BY <1>1, <1>3, <1>6
    <3>. QED BY <1>2, <3>1 DEF Newest
  <2>3. Size(Newest) = WINDOW_SAMPLES BY <1>1, <2>2 DEF Size
  <2>4. Left = [first |-> f, last |-> g - 1] BY <1>2, <2>2 DEF Left
  <2>5. Newest \in Interval /\ Left \in Interval BY <2>1, <2>2, <2>4 DEF Interval
  <2>6. Newest.last = l /\ Left.last = g - 1 /\ pcmf32.last = l BY <1>2, <2>2, <2>4
  <2>7. ~(Size(pcmf32) <= WINDOW_SAMPLES) /\ ~(given <= WINDOW_SAMPLES)
    BY <1>1, <1>3, <1>6 DEF Order
  <2>. QED BY <1>1, <2>1, <2>3, <2>5, <2>6, <2>7
<1>. QED BY <1>1, <1>5, <1>6

\* its taking of a window,
LEMMA TakeKept == ASSUME WasmInv, NEW i \in Slots, Take(i) PROVE WasmInv'
<1>1. /\ wpc[i] = "look" /\ Enough /\ Goto(i, "infer")
      /\ window' = [window EXCEPT ![i] = Newest]
      /\ pcmf32' = Left
      /\ newest' = IF Newest.last > newest THEN Newest.last ELSE newest
      /\ UNCHANGED <<contexts, running, worker, merged_transcription, starting, speech, recorded,
                     given, heard, orderly>>
  BY DEF Take
<1>2. Types /\ Owners /\ Heard /\ Order /\ TranscriptIsSpeech BY DEF WasmInv
<1>3. /\ Newest \in Interval /\ Size(Newest) >= 1 /\ Left \in Interval
      /\ Newest.last = pcmf32.last /\ Left.last < pcmf32.last
      /\ Size(pcmf32) <= WINDOW_SAMPLES => Size(Left) = 0
  BY <1>1, <1>2, Taken
<1>4. /\ wpc' \in [Slots -> Places] /\ Owners'
      /\ \A j \in Slots : wpc'[j] = IF j = i THEN "infer" ELSE wpc[j]
  <2>1. "infer" \in Alive \ {"freed"} /\ wpc[i] \in Alive \ {"freed"} BY <1>1 DEF Alive
  <2>. QED BY <1>1, <1>2, <2>1, Moved
<1>5. MaxRecorded \in Nat /\ WINDOW_SAMPLES \in Nat BY StreamAssumption
<1>6. /\ newest \in Nat /\ recorded \in Nat /\ Left.last \in Nat /\ pcmf32.last \in Nat
      /\ Newest.last \in 0 .. MaxRecorded /\ given \in Nat
  <2>1. \A audio \in Interval : audio.last \in 0 .. MaxRecorded BY DEF Interval
  <2>. QED BY <1>2, <1>3, <1>5, <2>1 DEF Types
<1>7. window' \in [Slots -> Interval] BY <1>1, <1>2, <1>3 DEF Types
<1>8. newest' \in 0 .. MaxRecorded BY <1>1, <1>2, <1>6 DEF Types
<1>9. Types' BY <1>1, <1>2, <1>3, <1>4, <1>7, <1>8 DEF Types
<1>10. Heard'
  <2>1. \A j \in Slots : window'[j] = IF j = i THEN Newest ELSE window[j]
    BY <1>1, <1>2 DEF Types
  <2>2. \A j \in Slots : wpc'[j] \in {"infer", "merge"} => Size(window'[j]) >= 1
    <3>. HIDE DEF Newest, Size
    <3>. QED BY <1>2, <1>3, <1>4, <2>1 DEF Heard
  <2>. QED BY <2>2 DEF Heard, Size
<1>11. Order'
  <2>1. newest <= recorded /\ pcmf32.last <= recorded BY <1>2 DEF Order
  <2>2. given <= WINDOW_SAMPLES => Size(pcmf32) <= WINDOW_SAMPLES BY <1>2 DEF Order
  <2>3. newest' <= recorded' /\ pcmf32'.last <= recorded'
    BY <1>1, <1>3, <1>6, <2>1
  <2>4. given' <= WINDOW_SAMPLES => Size(pcmf32') = 0 BY <1>1, <1>3, <2>2
  <2>5. Size(pcmf32)' = Size(pcmf32') BY DEF Size
  <2>. HIDE DEF Size
  <2>. QED BY <1>5, <2>3, <2>4, <2>5 DEF Order
<1>12. TranscriptIsSpeech' BY <1>1, <1>2 DEF TranscriptIsSpeech, Words, Size
<1>. QED BY <1>4, <1>9, <1>10, <1>11, <1>12 DEF WasmInv

\* The audio is dropped.
LEMMA Forgotten ==
  ASSUME Types, NEW i \in Slots, Forget(i)
  PROVE  /\ window' \in [Slots -> Interval]
         /\ \A j \in Slots \ {i} : window'[j] = window[j]
<1>1. MaxRecorded \in Nat BY StreamAssumption
<1>2. Empty \in Interval BY <1>1 DEF Empty, Interval
<1>. QED BY <1>2 DEF Forget, Types

\* and the inference, failed or not.
LEMMA InferKept == ASSUME WasmInv, NEW i \in Slots, Infer(i) PROVE WasmInv'
<1>1. /\ wpc[i] = "infer"
      /\ \/ Goto(i, "merge") /\ UNCHANGED window
         \/ \E there \in {"test", "leave"} : Goto(i, there) /\ Forget(i)
      /\ UNCHANGED <<contexts, running, worker, pcmf32, merged_transcription, starting,
                     speech, recorded, given, newest, heard, orderly>>
  BY DEF Infer, history
<1>2. Types /\ Owners /\ Heard /\ Order /\ TranscriptIsSpeech BY DEF WasmInv
<1>3. PICK there \in {"merge", "test", "leave"} :
        /\ Goto(i, there)
        /\ \/ there = "merge" /\ UNCHANGED window
           \/ there # "merge" /\ Forget(i)
  BY <1>1
<1>4. /\ wpc' \in [Slots -> Places] /\ Owners'
      /\ \A j \in Slots : wpc'[j] = IF j = i THEN there ELSE wpc[j]
  <2>1. there \in Alive \ {"freed"} /\ wpc[i] \in Alive \ {"freed"} BY <1>1 DEF Alive
  <2>. QED BY <1>1, <1>2, <1>3, <2>1, Moved
<1>5. /\ window' \in [Slots -> Interval]
      /\ \A j \in Slots \ {i} : window'[j] = window[j]
      /\ there = "merge" => window'[i] = window[i]
  BY <1>2, <1>3, Forgotten DEF Types
<1>6. Types' BY <1>1, <1>2, <1>4, <1>5 DEF Types
<1>7. Heard' BY <1>1, <1>2, <1>4, <1>5 DEF Heard, Size
<1>8. Order' /\ TranscriptIsSpeech' BY <1>1, <1>2, AudioKept DEF AudioVars
<1>. QED BY <1>4, <1>6, <1>7, <1>8 DEF WasmInv

\* A beginning of a sequence is over the same set.
LEMMA Prefix ==
  ASSUME NEW S, NEW s \in Seq(S), NEW n \in 0 .. Len(s)
  PROVE  SubSeq(s, 1, n) \in Seq(S)
OBVIOUS

\* A function on 1 .. n is a sequence.
LEMMA FunctionIsSeq ==
  ASSUME NEW S, NEW n \in Nat, NEW f \in [1 .. n -> S]
  PROVE  f \in Seq(S) /\ Len(f) = n
OBVIOUS

\* The words of an interval.
LEMMA WordsType ==
  ASSUME speech \in Speeches, NEW audio \in Interval, Size(audio) >= 1
  PROVE  /\ Words(audio) \in Seq(Vocabulary)
         /\ Len(Words(audio)) = Size(audio) /\ Size(audio) \in Nat
         /\ \A k \in 1 .. Size(audio) : Words(audio)[k] = speech[audio.first + k - 1]
<1>1. MaxRecorded \in Nat /\ speech \in [1 .. MaxRecorded -> Vocabulary]
  BY StreamAssumption
<1>2. PICK f \in 1 .. MaxRecorded + 1, l \in 0 .. MaxRecorded :
        audio = [first |-> f, last |-> l]
  BY DEF Interval
<1>3. Size(audio) = l - f + 1 /\ l - f + 1 \in Nat BY <1>1, <1>2 DEF Size
<1>. DEFINE n == l - f + 1
<1>4. Words(audio) = [k \in 1 .. n |-> speech[f + k - 1]] BY <1>2, <1>3 DEF Words
<1>5. \A k \in 1 .. n : speech[f + k - 1] \in Vocabulary
  <2>1. \A k \in 1 .. n : f + k - 1 \in 1 .. MaxRecorded BY <1>1
  <2>. QED BY <1>1, <2>1
<1>6. n \in Nat /\ Words(audio) \in [1 .. n -> Vocabulary] BY <1>3, <1>4, <1>5
<1>7. Words(audio) \in Seq(Vocabulary) /\ Len(Words(audio)) = n BY <1>6, FunctionIsSeq
<1>. QED BY <1>2, <1>3, <1>4, <1>7

\* Sequences with the same elements are the same.
LEMMA SameSeq ==
  ASSUME NEW S, NEW s \in Seq(S), NEW t \in Seq(S), Len(s) = Len(t),
         \A k \in 1 .. Len(s) : s[k] = t[k]
  PROVE  s = t
OBVIOUS

\* A beginning of a sequence and what is put after it.
LEMMA BeginningJoined ==
  ASSUME NEW S, NEW A \in Seq(S), NEW B \in Seq(S), NEW n \in 0 .. Len(A)
  PROVE  /\ SubSeq(A, 1, n) \o B \in Seq(S)
         /\ Len(SubSeq(A, 1, n) \o B) = n + Len(B)
         /\ \A k \in 1 .. n : (SubSeq(A, 1, n) \o B)[k] = A[k]
         /\ \A k \in 1 .. Len(B) : (SubSeq(A, 1, n) \o B)[n + k] = B[k]
<1>. DEFINE P == SubSeq(A, 1, n)
<1>1. P \in Seq(S) /\ Len(P) = n /\ n \in Nat /\ \A k \in 1 .. n : P[k] = A[k] OBVIOUS
<1>. HIDE DEF P
<1>2. P \o B \in Seq(S) /\ Len(P \o B) = n + Len(B) BY <1>1
<1>3. \A k \in 1 .. n : (P \o B)[k] = P[k] BY <1>1
<1>4. \A k \in 1 .. Len(B) : (P \o B)[n + k] = B[k] BY <1>1
<1>. QED BY <1>1, <1>2, <1>3, <1>4 DEF P

\* The transcript of what was heard, and a window that continues it, are merged into
\* the words of both.
LEMMA MergeSpeech ==
  ASSUME Types, NEW audio \in Interval, Size(audio) >= 1,
         merged_transcription = Words(heard), Overlaps(audio), SaidAnew(audio)
  PROVE  mergeStrings(merged_transcription, Words(audio))
           = Words([heard EXCEPT !.last = audio.last])
<1>1. PICK h \in 1 .. MaxRecorded + 1, m \in 0 .. MaxRecorded :
        heard = [first |-> h, last |-> m]
  BY DEF Types, Interval
<1>2. PICK f \in 1 .. MaxRecorded + 1, l \in 0 .. MaxRecorded :
        audio = [first |-> f, last |-> l]
  BY DEF Interval
<1>3. MaxRecorded \in Nat /\ speech \in Speeches BY StreamAssumption DEF Types
<1>4. h <= f /\ f + 2 <= m /\ m <= l BY <1>1, <1>2 DEF Overlaps
<1>5. Size(heard) = m - h + 1 /\ Size(audio) = l - f + 1 BY <1>1, <1>2 DEF Size
<1>. DEFINE A == Words(heard)
            B == Words(audio)
            all == [first |-> h, last |-> l]
            d == f - h
<1>6. /\ A \in Seq(Vocabulary) /\ Len(A) = m - h + 1
      /\ \A k \in 1 .. m - h + 1 : A[k] = speech[h + k - 1]
  <2>1. heard \in Interval /\ Size(heard) >= 1 BY <1>3, <1>4, <1>5 DEF Types
  <2>. QED BY <1>1, <1>3, <1>5, <2>1, WordsType
<1>7. /\ B \in Seq(Vocabulary) /\ Len(B) = l - f + 1
      /\ \A k \in 1 .. l - f + 1 : B[k] = speech[f + k - 1]
  BY <1>2, <1>3, <1>5, WordsType
<1>8. /\ Words(all) \in Seq(Vocabulary) /\ Len(Words(all)) = l - h + 1
      /\ \A k \in 1 .. l - h + 1 : Words(all)[k] = speech[h + k - 1]
  <2>1. all \in Interval /\ Size(all) = l - h + 1 /\ all.first = h BY DEF Interval, Size
  <2>2. l - h + 1 >= 1 BY <1>3, <1>4
  <2>. HIDE DEF all
  <2>. QED BY <1>3, <2>1, <2>2, WordsType
<1>. HIDE DEF A, B
<1>9. mergeStrings(A, B) = SubSeq(A, 1, d) \o B
  <2>1. d + 1 \in 1 .. Len(A) - 2 /\ Len(B) >= 3 BY <1>3, <1>4, <1>6, <1>7
  <2>2. ASSUME NEW c \in 1 .. d + 1
        PROVE  SameTrigram(A, c, B, 1) <=> SameTrigram(speech, h + c - 1, speech, f)
    <3>1. ASSUME NEW k \in 0 .. 2
          PROVE  A[c + k] = speech[(h + c - 1) + k] /\ B[1 + k] = speech[f + k]
      <4>1. c + k \in 1 .. m - h + 1 /\ 1 + k \in 1 .. l - f + 1 BY <1>3, <1>4
      <4>2. h + (c + k) - 1 = (h + c - 1) + k /\ f + (1 + k) - 1 = f + k BY <1>3
      <4>. QED BY <1>6, <1>7, <4>1, <4>2
    <3>. QED BY <3>1 DEF SameTrigram
  <2>3. SameTrigram(A, d + 1, B, 1)
    <3>1. d + 1 \in 1 .. d + 1 /\ h + (d + 1) - 1 = f BY <1>3, <1>4
    <3>. QED BY <2>2, <3>1 DEF SameTrigram
  <2>4. ASSUME NEW c \in 1 .. (d + 1) - 1 PROVE ~SameTrigram(A, c, B, 1)
    <3>1. c \in 1 .. d + 1 /\ h + c - 1 \in h .. f - 1 BY <1>3, <1>4
    <3>2. \A b \in h .. f - 1 : ~SameTrigram(speech, b, speech, f)
      BY <1>1, <1>2 DEF SaidAnew
    <3>. QED BY <2>2, <3>1, <3>2
  <2>5. mergeStrings(A, B) = SubSeq(A, 1, (d + 1) - 1) \o B
    <3>. HIDE DEF d
    <3>. QED BY <1>6, <1>7, <2>1, <2>3, <2>4, MergeAtFirst
  <2>6. (d + 1) - 1 = d BY <1>3
  <2>. QED BY <2>5, <2>6
<1>10. SubSeq(A, 1, d) \o B = Words(all)
  <2>1. d \in 0 .. Len(A) /\ d \in Nat /\ Len(A) \in Nat /\ Len(B) \in Nat
    BY <1>3, <1>4, <1>6, <1>7
  <2>. DEFINE C == SubSeq(A, 1, d) \o B
  <2>2. /\ C \in Seq(Vocabulary) /\ Len(C) = d + Len(B)
        /\ \A k \in 1 .. d : C[k] = A[k]
        /\ \A k \in 1 .. Len(B) : C[d + k] = B[k]
    <3>. HIDE DEF d
    <3>1. A \in Seq(Vocabulary) /\ B \in Seq(Vocabulary) /\ d \in 0 .. Len(A)
      BY <1>6, <1>7, <2>1
    <3>. QED BY <3>1, BeginningJoined
  <2>. HIDE DEF C, all
  <2>3. Len(C) = Len(Words(all)) BY <1>3, <1>7, <1>8, <2>2
  <2>4. ASSUME NEW k \in 1 .. Len(C) PROVE C[k] = Words(all)[k]
    <3>1. k \in 1 .. l - h + 1 BY <1>8, <2>3
    <3>2. CASE k <= d
      <4>1. k \in 1 .. d /\ k \in 1 .. m - h + 1 BY <1>3, <1>4, <3>1, <3>2
      <4>. QED BY <1>6, <1>8, <2>2, <3>1, <4>1
    <3>3. CASE k > d
      <4>1. k - d \in 1 .. l - f + 1 /\ d + (k - d) = k /\ f + (k - d) - 1 = h + k - 1
        BY <1>3, <1>4, <3>1, <3>3
      <4>2. C[d + (k - d)] = B[k - d] BY <1>7, <2>2, <4>1
      <4>. QED BY <1>7, <1>8, <3>1, <4>1, <4>2
    <3>. QED BY <1>3, <3>1, <3>2, <3>3
  <2>5. C = Words(all) BY <1>8, <2>2, <2>3, <2>4, SameSeq
  <2>. QED BY <2>5 DEF C
<1>11. [heard EXCEPT !.last = audio.last] = all BY <1>1, <1>2
<1>. QED BY <1>9, <1>10, <1>11 DEF A, B

\* Merging the window's words keeps it: they overlap what is there, or follow it.
LEMMA MergeKept == ASSUME WasmInv, NEW i \in Slots, Merge(i) PROVE WasmInv'
<1>1. /\ wpc[i] = "merge" /\ Goto(i, "test") /\ Forget(i)
      /\ merged_transcription' = mergeStrings(merged_transcription, Words(window[i]))
      /\ heard' = IF merged_transcription = <<>> THEN window[i]
                  ELSE IF Continues(window[i]) THEN [heard EXCEPT !.last = window[i].last]
                  ELSE Empty
      /\ UNCHANGED <<contexts, running, worker, pcmf32, starting, speech, recorded, given, newest,
                     orderly>>
  BY DEF Merge
<1>2. Types /\ Owners /\ Heard /\ Order /\ TranscriptIsSpeech BY DEF WasmInv
<1>3. /\ wpc' \in [Slots -> Places] /\ Owners'
      /\ \A j \in Slots : wpc'[j] = IF j = i THEN "test" ELSE wpc[j]
  <2>1. "test" \in Alive \ {"freed"} /\ wpc[i] \in Alive \ {"freed"} BY <1>1 DEF Alive
  <2>. QED BY <1>1, <1>2, <2>1, Moved
<1>4. window[i] \in Interval /\ Size(window[i]) >= 1 BY <1>1, <1>2 DEF Types, Heard
<1>5. Words(window[i]) \in Seq(Vocabulary) BY <1>2, <1>4, WordsType DEF Types
<1>6. merged_transcription' \in Seq(Vocabulary)
  <2>1. merged_transcription \in Seq(Vocabulary) BY <1>2 DEF Types
  <2>2. PICK n \in 0 .. Len(merged_transcription) :
          merged_transcription' = SubSeq(merged_transcription, 1, n) \o Words(window[i])
    BY <1>1, <1>5, <2>1, MergeKeeps
  <2>3. SubSeq(merged_transcription, 1, n) \in Seq(Vocabulary) BY <2>1, Prefix
  <2>. QED BY <1>5, <2>2, <2>3
<1>7. window' \in [Slots -> Interval] /\ \A j \in Slots \ {i} : window'[j] = window[j]
  BY <1>1, <1>2, Forgotten
<1>8. heard' \in Interval
  <2>1. MaxRecorded \in Nat BY StreamAssumption
  <2>2. Empty \in Interval BY <2>1 DEF Empty, Interval
  <2>3. heard \in Interval BY <1>2 DEF Types
  <2>4. [heard EXCEPT !.last = window[i].last] \in Interval BY <1>4, <2>3 DEF Interval
  <2>. QED BY <1>1, <1>4, <2>2, <2>4
<1>9. Types' BY <1>1, <1>2, <1>3, <1>6, <1>7, <1>8 DEF Types
<1>10. Heard' BY <1>2, <1>3, <1>7 DEF Heard, Size
<1>11. Order' BY <1>1, <1>2 DEF Order, Size
<1>12. TranscriptIsSpeech'
  <2>1. Words(heard)' = Words(heard') BY <1>1 DEF Words, Size
  <2>2. heard' # Empty => merged_transcription' = Words(heard')
    <3>1. CASE merged_transcription = <<>>
      <4>1. merged_transcription' = <<>> \o Words(window[i])
        BY <1>1, <3>1 DEF mergeStrings
      <4>2. <<>> \o Words(window[i]) = Words(window[i]) BY <1>5
      <4>. QED BY <1>1, <3>1, <4>1, <4>2
    <3>2. CASE merged_transcription # <<>> /\ Continues(window[i])
      <4>1. merged_transcription = Words(heard)
        BY <1>2, <3>2 DEF Continues, TranscriptIsSpeech
      <4>2. Overlaps(window[i]) /\ SaidAnew(window[i]) BY <3>2 DEF Continues
      <4>. QED BY <1>1, <1>2, <1>4, <3>2, <4>1, <4>2, MergeSpeech
    <3>3. CASE merged_transcription # <<>> /\ ~Continues(window[i]) BY <1>1, <3>3
    <3>. QED BY <3>1, <3>2, <3>3
  <2>3. Empty' = Empty BY DEF Empty
  <2>. QED BY <2>1, <2>2, <2>3 DEF TranscriptIsSpeech
<1>. QED BY <1>3, <1>9, <1>10, <1>11, <1>12 DEF WasmInv

\* The end of the worker keeps it: it frees the context it owns.
LEMMA LeaveKept == ASSUME WasmInv, NEW i \in Slots, Leave(i) PROVE WasmInv'
<1>1. /\ \/ /\ wpc[i] = "leave"
            /\ contexts' = [contexts EXCEPT ![i] = "freed"]
            /\ wpc' = [wpc EXCEPT ![i] = "freed"]
         \/ /\ wpc[i] = "freed"
            /\ contexts' = [contexts EXCEPT ![i] = "null"]
            /\ wpc' = [wpc EXCEPT ![i] = "done"]
      /\ UNCHANGED <<running, worker, pcmf32, merged_transcription, window, starting,
                     speech, recorded, given, newest, heard, orderly>>
  BY DEF Leave, Goto, history
<1>2. Types /\ Owners /\ Heard /\ Order /\ TranscriptIsSpeech BY DEF WasmInv
<1>3. /\ wpc' \in [Slots -> Places] /\ wpc'[i] \in {"freed", "done"}
      /\ \A j \in Slots \ {i} : wpc'[j] = wpc[j]
  BY <1>1, <1>2 DEF Types, Places
<1>4. contexts' \in [Slots -> {"null", "live", "freed"}] BY <1>1, <1>2 DEF Types
<1>5. Types' BY <1>1, <1>2, <1>3, <1>4 DEF Types
<1>6. /\ \A j \in Slots \ {i} : contexts'[j] = contexts[j]
      /\ wpc'[i] = "freed" => contexts'[i] = "freed"
  BY <1>1, <1>2 DEF Types
<1>7. i = worker BY <1>1, <1>2 DEF Owners, Alive
<1>8. starting # 0 =>
        /\ starting \in Slots /\ worker # 0 /\ starting # i
        /\ contexts[starting] = "live" /\ wpc[starting] \notin Alive
  BY <1>1, <1>2 DEF Owners, Alive
<1>9. Owners'
  <2>1. starting # 0 => contexts'[starting] = "live" /\ wpc'[starting] \notin Alive
    BY <1>3, <1>6, <1>8
  <2>2. ASSUME NEW j \in Slots
        PROVE  /\ wpc'[j] \in Alive => j = worker
               /\ wpc'[j] \in Alive =>
                    contexts'[j] = IF wpc'[j] = "freed" THEN "freed" ELSE "live"
    <3>1. CASE j = i BY <1>3, <1>6, <1>7, <3>1 DEF Alive
    <3>2. CASE j # i BY <1>2, <1>3, <1>6, <3>2 DEF Owners
    <3>. QED BY <3>1, <3>2
  <2>. QED BY <1>1, <1>8, <2>1, <2>2 DEF Owners
<1>10. Heard' BY <1>1, <1>2, <1>3 DEF Heard, Size
<1>11. Order' /\ TranscriptIsSpeech' BY <1>1, <1>2, AudioKept DEF AudioVars
<1>. QED BY <1>5, <1>9, <1>10, <1>11 DEF WasmInv

-----------------------------------------------------------------------------
\* A step that changes nothing keeps it.
LEMMA Stutter == ASSUME WasmInv, UNCHANGED vars PROVE WasmInv'
<1>1. /\ UNCHANGED <<contexts, running, worker, pcmf32, merged_transcription, wpc, window,
                     starting, speech, recorded, given, newest, heard, orderly>>
  BY DEF vars, history
<1>2. Types /\ Owners /\ Heard /\ Order /\ TranscriptIsSpeech BY DEF WasmInv
<1>3. Types' /\ Owners' /\ Heard' BY <1>1, <1>2 DEF Types, Owners, Heard
<1>4. Order' /\ TranscriptIsSpeech' BY <1>1, <1>2, AudioKept DEF AudioVars
<1>. QED BY <1>3, <1>4 DEF WasmInv

\* The invariant holds in every behaviour.
LEMMA Invariance == Spec => []WasmInv
<1>1. Init => WasmInv BY InitHolds
<1>2. WasmInv /\ [Next]_vars => WasmInv'
  <2> SUFFICES ASSUME WasmInv, [Next]_vars PROVE WasmInv'
    OBVIOUS
  <2>1. CASE InitCall BY <2>1, InitCallKept
  <2>2. CASE InitReturn BY <2>2, InitReturnKept
  <2>3. CASE FreeCall BY <2>3, FreeCallKept
  <2>4. CASE SetAudio BY <2>4, SetAudioKept
  <2>5. CASE ResetTranscription BY <2>5, ResetKept
  <2>6. CASE Worker
    BY <2>6, TestKept, TakeKept, SleepKept, InferKept, MergeKept, LeaveKept
    DEF Worker, WorkerStep
  <2>7. CASE UNCHANGED vars BY <2>7, Stutter
  <2>. QED BY <2>1, <2>2, <2>3, <2>4, <2>5, <2>6, <2>7 DEF Next
<1>. QED BY <1>1, <1>2, PTL DEF Spec

(***************************************************************************)
(* Every state of a run has the types named; in particular what the worker  *)
(* takes and leaves are intervals of the recording (stream_main).           *)
(***************************************************************************)
THEOREM TypeCorrect == Spec => []TypeOK
<1>1. WasmInv => TypeOK BY TypesAre DEF WasmInv
<1>. QED BY <1>1, Invariance, PTL

(***************************************************************************)
(* For any number of contexts, one worker at most is in its loop, and its   *)
(* context is neither freed nor another's (init, stream_main).              *)
(***************************************************************************)
THEOREM ContextsAreOwned == Spec => []ContextsOwned
<1>1. WasmInv => ContextsOwned
  <2> SUFFICES ASSUME WasmInv PROVE ContextsOwned
    OBVIOUS
  <2>1. Owners BY DEF WasmInv
  <2>2. \A i \in Looping : i \in Slots /\ wpc[i] \in Alive \ {"freed"}
    BY DEF Looping, Alive
  <2>3. Looping \subseteq {worker} BY <2>1, <2>2 DEF Owners
  <2>4. IsFiniteSet({worker}) /\ Cardinality({worker}) = 1 BY FS_Singleton
  <2>5. Cardinality(Looping) <= 1 BY <2>3, <2>4, FS_Subset
  <2>6. \A i \in Looping : contexts[i] = "live" BY <2>1, <2>2 DEF Owners
  <2>. QED BY <2>5, <2>6 DEF ContextsOwned
<1>. QED BY <1>1, Invariance, PTL

(***************************************************************************)
(* For any sizes and whatever is said, phrases that come again included:    *)
(* while each window overlaps the transcript by three words or more and     *)
(* begins with a phrase not said before, the transcript is the speech, no   *)
(* word lost, repeated or moved (mergeStrings).                             *)
(***************************************************************************)
THEOREM SpeechIsTranscribed == Spec => []TranscriptIsSpeech
<1>1. WasmInv => TranscriptIsSpeech BY DEF WasmInv
<1>. QED BY <1>1, Invariance, PTL

(***************************************************************************)
(* For any sizes, audio given in pieces no larger than a window is taken in *)
(* the order of the recording, and none of it twice (stream_main).          *)
(***************************************************************************)
THEOREM WindowsDoAdvance == Spec => WindowsAdvance
<1>1. WasmInv /\ [Next]_vars =>
        [\A i \in Slots :
           (wpc[i] = "look" /\ wpc'[i] = "infer" /\ given <= WINDOW_SAMPLES) =>
             window'[i].last > newest]_vars
  <2> SUFFICES ASSUME WasmInv, Next, NEW i \in Slots,
                      wpc[i] = "look", wpc'[i] = "infer", given <= WINDOW_SAMPLES
               PROVE  window'[i].last > newest
    OBVIOUS
  <2>1. Types /\ Order /\ wpc \in [Slots -> Places] BY DEF WasmInv, Types
  <2>2. Take(i)
    <3>1. CASE InitCall \/ InitReturn \/ FreeCall \/ SetAudio \/ ResetTranscription
      BY <2>1, <3>1
      DEF InitCall, InitReturn, FreeCall, SetAudio, ResetTranscription, Start
    <3>2. CASE Worker
      <4>1. PICK j \in Slots : WorkerStep(j) BY <3>2 DEF Worker
      <4>2. CASE Take(j) BY <2>1, <4>2 DEF Take, Goto
      <4>3. CASE Test(j) \/ Sleep(j) \/ Infer(j) \/ Merge(j) \/ Leave(j)
        BY <2>1, <4>3 DEF Test, Sleep, Infer, Merge, Leave, Goto
      <4>. QED BY <4>1, <4>2, <4>3 DEF WorkerStep
    <3>. QED BY <3>1, <3>2 DEF Next
  <2>3. Enough /\ window' = [window EXCEPT ![i] = Newest] BY <2>2 DEF Take
  <2>4. Newest.last > newest BY <2>1, <2>3, Taken
  <2>5. window'[i] = Newest
    <3>. HIDE DEF Newest
    <3>. QED BY <2>1, <2>3 DEF Types
  <2>. QED BY <2>4, <2>5
<1>. QED BY <1>1, Invariance, PTL DEF Spec, WindowsAdvance

-----------------------------------------------------------------------------
(* The end of init                                                         *)

\* What join waits for: the worker's thread has run since it was started, and if init
\* was called with no worker in its loop it is past it.
Ending == {"leave", "freed", "done"}

JoinInv ==
  /\ worker # 0 => worker \in Slots /\ wpc[worker] # "none"
  /\ starting # 0 /\ orderly => wpc[worker] \in Ending

\* The steps of a thread are those of the one `worker` stands for.
LEMMA OneWorker ==
  ASSUME WasmInv, Worker
  PROVE  WorkerStep(worker) /\ worker \in Slots
<1>1. PICK i \in Slots : WorkerStep(i) BY DEF Worker
<1>2. wpc[i] \in Alive
  BY <1>1 DEF WorkerStep, Test, Take, Sleep, Infer, Merge, Leave, Alive
<1>. QED BY <1>1, <1>2 DEF WasmInv, Owners

\* Such a step leaves the thread somewhere, and an ending one nearer to its end.
LEMMA WorkerMoves ==
  ASSUME WasmInv, Worker
  PROVE  /\ UNCHANGED <<worker, starting, orderly>>
         /\ wpc'[worker] # "none"
         /\ wpc[worker] = "leave" => wpc'[worker] = "freed"
         /\ wpc[worker] = "freed" => wpc'[worker] = "done"
         /\ wpc[worker] # "done"
<1>1. WorkerStep(worker) /\ worker \in Slots BY OneWorker
<1>2. wpc \in [Slots -> Places] BY DEF WasmInv, Types
<1>. QED
  BY <1>1, <1>2 DEF WorkerStep, Test, Take, Sleep, Infer, Merge, Leave, Goto, history

\* The page leaves the thread where it is while init waits for it.
LEMMA PageWaits ==
  ASSUME starting # 0, [Next]_vars, ~Worker, ~InitReturn
  PROVE  UNCHANGED <<worker, starting, orderly, wpc>>
BY DEF Next, InitCall, FreeCall, SetAudio, ResetTranscription, InPage, vars, history

LEMMA JoinInvariance == Spec => []JoinInv
<1>1. Init => JoinInv BY DEF Init, JoinInv
<1>2. WasmInv /\ JoinInv /\ [Next]_vars => JoinInv'
  <2> SUFFICES ASSUME WasmInv, JoinInv, [Next]_vars PROVE JoinInv'
    OBVIOUS
  <2>0. wpc \in [Slots -> Places] /\ 0 \notin Slots BY DEF WasmInv, Types, Slots
  <2>1. CASE InitCall
    <3>1. PICK i \in FreeSlots :
            IF Joinable THEN starting' = i /\ UNCHANGED <<wpc, worker>>
                        ELSE Start(i) /\ UNCHANGED starting
      BY <2>1 DEF InitCall
    <3>2. starting = 0 /\ orderly' = (Looping = {}) /\ i \in Slots
      BY <2>1, <3>1 DEF InitCall, InPage, FreeSlots
    <3>3. CASE Joinable
      <4>1. worker \in Slots /\ wpc[worker] \in Places \ {"none"}
        BY <2>0, <3>3 DEF JoinInv, Joinable
      <4>2. Looping = {} => wpc[worker] \in Ending
        BY <4>1 DEF Looping, Places, Ending
      <4>. QED BY <3>1, <3>2, <3>3, <4>1, <4>2 DEF JoinInv
    <3>4. CASE ~Joinable
      BY <2>0, <3>1, <3>2, <3>4 DEF JoinInv, Start
    <3>. QED BY <3>3, <3>4
  <2>2. CASE InitReturn
    <3>1. starting \in Slots BY <2>2 DEF WasmInv, Owners, InitReturn
    <3>. QED BY <2>0, <2>2, <3>1 DEF InitReturn, Start, JoinInv
  <2>3. CASE Worker BY <2>3, OneWorker, WorkerMoves DEF JoinInv, Ending
  <2>4. CASE FreeCall \/ SetAudio \/ ResetTranscription \/ UNCHANGED vars
    BY <2>4 DEF FreeCall, SetAudio, ResetTranscription, vars, history, JoinInv
  <2>. QED BY <2>1, <2>2, <2>3, <2>4 DEF Next
<1>. QED BY <1>1, <1>2, Invariance, PTL DEF Spec

(***************************************************************************)
(* The prover has no rules for ENABLED: that a step whose guards hold is    *)
(* ENABLED is a hypothesis.                                                 *)
(***************************************************************************)
GuardsSuffice ==
  /\ [](starting # 0 /\ Joined => ENABLED <<InitReturn>>_vars)
  /\ [](worker # 0 /\ wpc[worker] \in {"leave", "freed"} => ENABLED <<Worker>>_vars)

\* An orderly init that waits, by what the old worker has still to do.
Awaiting(place) == starting # 0 /\ orderly /\ wpc[worker] = place

\* One step of the worker while init waits.
LEMMA Waits ==
  ASSUME WasmInv, [Next]_vars, NEW place \in {"leave", "freed"}, Awaiting(place)
  PROVE  \/ Awaiting(place)' /\ ~Worker
         \/ Worker /\ Awaiting(IF place = "leave" THEN "freed" ELSE "done")'
<1>1. ~InitReturn BY DEF InitReturn, Joined, Awaiting
<1>2. CASE Worker BY <1>2, WorkerMoves DEF Awaiting
<1>3. CASE ~Worker BY <1>1, <1>3, PageWaits DEF Awaiting
<1>. QED BY <1>2, <1>3

(***************************************************************************)
(* An init called with no worker in its loop returns: the old worker is on  *)
(* its way out, and nothing the page can do keeps it (init, stream_main).   *)
(***************************************************************************)
THEOREM InitDoesReturn == FairSpec /\ GuardsSuffice => InitReturns
<1>1. JoinInv /\ starting # 0 /\ orderly
        => Awaiting("leave") \/ Awaiting("freed") \/ Awaiting("done")
  BY DEF JoinInv, Awaiting, Ending
<1>2. WasmInv /\ Awaiting("leave") /\ [Next]_vars
        => Awaiting("leave")' \/ Awaiting("freed")'
  BY Waits
<1>3. WasmInv /\ Awaiting("leave") /\ [Next]_vars /\ <<Worker>>_vars => Awaiting("freed")'
  BY Waits
<1>4. WasmInv /\ Awaiting("freed") /\ [Next]_vars
        => Awaiting("freed")' \/ Awaiting("done")'
  BY Waits
<1>5. WasmInv /\ Awaiting("freed") /\ [Next]_vars /\ <<Worker>>_vars => Awaiting("done")'
  BY Waits
<1>6. WasmInv /\ Awaiting("done") /\ [Next]_vars => Awaiting("done")' \/ (starting = 0)'
  BY PageWaits, WorkerMoves DEF Awaiting, InitReturn
<1>7. <<InitReturn>>_vars => (starting = 0)' BY DEF InitReturn
<1>8. /\ Awaiting("done") => starting # 0 /\ Joined
      /\ WasmInv /\ (Awaiting("leave") \/ Awaiting("freed"))
           => worker # 0 /\ wpc[worker] \in {"leave", "freed"}
  BY DEF Awaiting, Joined, WasmInv, Owners
<1>. QED BY <1>1, <1>2, <1>3, <1>4, <1>5, <1>6, <1>7, <1>8, Invariance, JoinInvariance, PTL
         DEF FairSpec, Spec, GuardsSuffice, InitReturns

=============================================================================
