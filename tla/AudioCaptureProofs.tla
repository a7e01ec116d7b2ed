------------------------- MODULE AudioCaptureProofs -------------------------
(***************************************************************************)
(* Proofs about AudioCapture, for every size of the ring, of a step, of    *)
(* what is kept and of the callbacks: the ring holds the newest samples,   *)
(* every window is the end of the one before and a new step, and line 992  *)
(* stays within the window while main captures on.                         *)
(*                                                                         *)
(* The argument: after a callback the sample delivered i samples ago is    *)
(* either in what was stored or where sample i - s was before (BackAfter,  *)
(* StoredAt), so the ring is inductive with its index bounds; get() reads  *)
(* it backwards from the next position (GetAt).  What get() returns is     *)
(* newer than `cleared`, and what main has heard is not (LastHeard), as    *)
(* clear() follows the get() of every step that becomes a window.          *)
(***************************************************************************)
EXTENDS AudioCapture, SequenceTheorems, TLAPS

\* The sizes, as numbers.
LEMMA Sizes ==
  /\ Capacity \in Nat /\ Capacity >= 1
  /\ n_samples_step \in Nat /\ n_samples_step >= 1 /\ n_samples_step <= Capacity
  /\ n_samples_keep \in Nat /\ n_samples_keep <= n_samples_step
  /\ n_samples_len \in Nat /\ n_samples_step <= n_samples_len
  /\ n_samples_30s \in Nat /\ MaxSamples \in Nat
  /\ Chunks \subseteq Nat
BY CaptureAssumption

\* The ring is not empty.
LEMMA RingSize == Capacity \in Nat /\ Capacity >= 1
BY Sizes

\* The position of the next sample is taken modulo the size of the ring.
LEMMA Wrap ==
  ASSUME NEW a \in Nat, a < 2 * Capacity
  PROVE  a % Capacity = IF a < Capacity THEN a ELSE a - Capacity
<1>. USE RingSize
<1>1. CASE a < Capacity
  BY <1>1
<1>2. CASE a >= Capacity
  <2>1. a = (a - Capacity) + 1 * Capacity /\ a - Capacity \in 0 .. Capacity - 1
    BY <1>2
  <2>. QED  BY <2>1, <1>2, SMTT(30)
<1>. QED  BY <1>1, <1>2

-----------------------------------------------------------------------------
(* The ring                                                                *)

\* What is where in the ring after n samples.
LEMMA StoredAt ==
  ASSUME m_audio_pos \in Nat, m_audio_pos < Capacity,
         NEW n \in Nat, n <= Capacity, NEW first \in Int,
         NEW k \in 0 .. Capacity - 1
  PROVE  Stored(n, first)[k] =
           IF k >= m_audio_pos /\ k < m_audio_pos + n THEN first + (k - m_audio_pos)
           ELSE IF k + Capacity < m_audio_pos + n
                  THEN first + (k + Capacity - m_audio_pos)
           ELSE m_audio[k]
<1>. USE RingSize
<1>1. CASE m_audio_pos + n > Capacity
  <2>. DEFINE n0 == Capacity - m_audio_pos
  <2>1. n0 \in Nat /\ n0 >= 1 /\ m_audio_pos + n0 = Capacity
    OBVIOUS
  <2>2. Stored(n, first)[k] =
          IF k < n - n0 THEN first + n0 + k
          ELSE IF k \in m_audio_pos .. m_audio_pos + n0 - 1
                 THEN first + (k - m_audio_pos) ELSE m_audio[k]
    BY <1>1 DEF Stored, Filled
  <2>. HIDE DEF n0
  <2>3. (k < n - n0) <=> k + Capacity < m_audio_pos + n
    BY <2>1
  <2>4. k + Capacity < m_audio_pos + n => ~(k >= m_audio_pos)
    OBVIOUS
  <2>5. (k \in m_audio_pos .. m_audio_pos + n0 - 1) <=> k >= m_audio_pos
    BY <2>1
  <2>6. first + n0 + k = first + (k + Capacity - m_audio_pos)
    BY <2>1
  <2>7. k < m_audio_pos + n
    BY <1>1
  <2>. QED  BY <2>2, <2>3, <2>4, <2>5, <2>6, <2>7
<1>2. CASE ~(m_audio_pos + n > Capacity)
  <2>1. Stored(n, first)[k] =
          IF k \in m_audio_pos .. m_audio_pos + n - 1
            THEN first + (k - m_audio_pos) ELSE m_audio[k]
    BY <1>2 DEF Stored, Filled
  <2>2. (k \in m_audio_pos .. m_audio_pos + n - 1)
          <=> (k >= m_audio_pos /\ k < m_audio_pos + n)
    OBVIOUS
  <2>3. ~(k + Capacity < m_audio_pos + n)
    BY <1>2
  <2>. QED  BY <2>1, <2>2, <2>3
<1>. QED  BY <1>1, <1>2

\* The next position stays in the ring.
LEMMA AdvancedTo ==
  ASSUME m_audio_pos \in Nat, m_audio_pos < Capacity, NEW n \in Nat, n <= Capacity
  PROVE  Advanced(n) = IF m_audio_pos + n < Capacity THEN m_audio_pos + n
                       ELSE (m_audio_pos + n) - Capacity
<1>1. m_audio_pos + n \in Nat /\ m_audio_pos + n < 2 * Capacity
  BY RingSize
<1>. DEFINE a == m_audio_pos + n
<1>. HIDE DEF a
<1>2. a \in Nat /\ a < 2 * Capacity
  BY <1>1 DEF a
<1>3. a % Capacity = IF a < Capacity THEN a ELSE a - Capacity
  BY <1>2, Wrap
<1>4. Advanced(n) = a % Capacity
  BY Zenon DEF Advanced, a
<1>5. Advanced(n) = IF a < Capacity THEN a ELSE a - Capacity
  BY <1>3, <1>4
<1>. QED  BY <1>5 DEF a

\* Where the sample delivered i samples before the newest is, when s samples
\* have been stored from position pos of a ring of c: np is the next position
\* and p that of the sample.
LEMMA BackAfter ==
  ASSUME NEW c \in Nat, NEW pos \in Nat, pos < c,
         NEW s \in Nat, s <= c, NEW i \in Nat, i < c,
         NEW np \in Int, np = IF pos + s < c THEN pos + s ELSE (pos + s) - c,
         NEW p \in Int, p = IF np - 1 - i < 0 THEN np - 1 - i + c ELSE np - 1 - i
  PROVE  /\ p \in 0 .. c - 1
         /\ i < s => IF p >= pos /\ p < pos + s THEN p - pos = s - 1 - i
                     ELSE p + c < pos + s /\ p + c - pos = s - 1 - i
         /\ i >= s =>
              /\ ~(p >= pos /\ p < pos + s)
              /\ ~(p + c < pos + s)
              /\ p = IF pos - 1 - (i - s) < 0 THEN pos - 1 - (i - s) + c
                     ELSE pos - 1 - (i - s)
<1>1. CASE pos + s < c
  BY <1>1
<1>2. CASE pos + s >= c
  BY <1>2
<1>. QED  BY <1>1, <1>2

RingType ==
  /\ captured \in Nat /\ cleared \in Nat /\ cleared <= captured
  /\ m_audio_pos \in Nat /\ m_audio_pos < Capacity
  /\ m_audio_len \in Nat
  /\ DOMAIN m_audio = 0 .. Capacity - 1

RingInv == RingType /\ RingHoldsNewest

\* One callback of n samples, the last s of which are stored.
LEMMA CallbackStores ==
  ASSUME RingInv, NEW n \in Nat, n >= 1, NEW s \in Nat, s = Smaller(n, Capacity),
         captured' = captured + n, UNCHANGED cleared,
         m_audio' = Stored(s, captured + (n - s) + 1),
         m_audio_pos' = Advanced(s),
         m_audio_len' = Grown(s)
  PROVE  RingInv'
<1>1. s >= 1 /\ s <= Capacity /\ s <= n /\ (s < n => s = Capacity)
  BY RingSize DEF Smaller
<1>2. /\ captured \in Nat /\ cleared \in Nat /\ cleared <= captured
      /\ m_audio_pos \in Nat /\ m_audio_pos < Capacity /\ m_audio_len \in Nat
  BY DEF RingInv, RingType
<1>3. m_audio_len = Smaller(captured - cleared, Capacity)
  BY DEF RingInv, RingHoldsNewest, Held
<1>4. m_audio_len' = Smaller(captured' - cleared, Capacity)
  BY <1>1, <1>2, <1>3, RingSize DEF Grown, Smaller
<1>5. m_audio_pos' = IF m_audio_pos + s < Capacity THEN m_audio_pos + s
                     ELSE (m_audio_pos + s) - Capacity
  BY <1>1, <1>2, AdvancedTo
<1>6. RingType'
  <2>1. captured' \in Nat /\ cleared' \in Nat /\ cleared' <= captured'
    BY <1>2
  <2>2. m_audio_pos' \in Nat /\ m_audio_pos' < Capacity
    BY <1>1, <1>2, <1>5, RingSize
  <2>3. m_audio_len' \in Nat
    BY <1>2, <1>4, <2>1, RingSize DEF Smaller
  <2>4. DOMAIN m_audio' = 0 .. Capacity - 1
    BY DEF Stored, Filled
  <2>. QED  BY <2>1, <2>2, <2>3, <2>4 DEF RingType
<1>7. ASSUME NEW i \in 0 .. m_audio_len' - 1
      PROVE  m_audio'[Back(i)'] = captured' - i
  <2>. DEFINE p == Back(i)'
              x == captured + (n - s) + 1
  <2>1. i \in Nat /\ i < Capacity /\ i < m_audio_len'
    BY <1>2, <1>4, <1>6, RingSize DEF Smaller, RingType
  <2>2. /\ p = IF m_audio_pos' - 1 - i < 0 THEN m_audio_pos' - 1 - i + Capacity
               ELSE m_audio_pos' - 1 - i
        /\ p \in Int /\ m_audio_pos' \in Int
    <3>1. m_audio_pos' \in Int
      BY <1>6 DEF RingType
    <3>2. p = IF m_audio_pos' - 1 - i < 0 THEN m_audio_pos' - 1 - i + Capacity
              ELSE m_audio_pos' - 1 - i
      BY Zenon DEF Back
    <3>. HIDE DEF p
    <3>. QED  BY <2>1, <3>1, <3>2, RingSize
  <2>3. x \in Int
    BY <1>2
  <2>. HIDE DEF p, x
  <2>4. /\ p \in 0 .. Capacity - 1
        /\ i < s => IF p >= m_audio_pos /\ p < m_audio_pos + s
                      THEN p - m_audio_pos = s - 1 - i
                    ELSE /\ p + Capacity < m_audio_pos + s
                         /\ p + Capacity - m_audio_pos = s - 1 - i
        /\ i >= s =>
             /\ ~(p >= m_audio_pos /\ p < m_audio_pos + s)
             /\ ~(p + Capacity < m_audio_pos + s)
             /\ p = IF m_audio_pos - 1 - (i - s) < 0
                      THEN m_audio_pos - 1 - (i - s) + Capacity
                    ELSE m_audio_pos - 1 - (i - s)
    BY <1>1, <1>2, <1>5, <2>1, <2>2, RingSize, BackAfter
  <2>5. m_audio'[p] = IF p >= m_audio_pos /\ p < m_audio_pos + s THEN x + (p - m_audio_pos)
                      ELSE IF p + Capacity < m_audio_pos + s
                             THEN x + (p + Capacity - m_audio_pos)
                      ELSE m_audio[p]
    <3>1. m_audio'[p] = Stored(s, x)[p]
      BY DEF x
    <3>. QED  BY <1>1, <1>2, <2>3, <2>4, <3>1, StoredAt
  <2>6. CASE i < s
    <3>1. m_audio'[p] = x + (s - 1 - i)
      BY <2>4, <2>5, <2>6
    <3>. QED  BY <3>1, <1>2, <2>1 DEF p, x
  <2>7. CASE i >= s
    <3>1. s = n /\ i - s \in 0 .. m_audio_len - 1
      BY <1>1, <1>2, <1>3, <1>4, <2>1, <2>7, RingSize DEF Smaller
    <3>2. p = Back(i - s)
      BY <2>4, <2>7 DEF Back
    <3>3. m_audio'[p] = m_audio[p]
      BY <2>4, <2>5, <2>7
    <3>4. m_audio[Back(i - s)] = captured - (i - s)
      BY <3>1 DEF RingInv, RingHoldsNewest
    <3>5. captured' - i = captured - (i - s)
      BY <1>2, <3>1, <2>1
    <3>. QED  BY <3>2, <3>3, <3>4, <3>5 DEF p
  <2>. QED  BY <2>6, <2>7, <2>1
<1>. QED  BY <1>4, <1>6, <1>7 DEF RingInv, RingHoldsNewest, Held

\* Samples are ignored only before the ring has any.
Idle ==
  /\ (~m_running /\ mpc # "paused") => m_audio_len = 0
  /\ mpc = "paused" => ~device_on

\* The ring is left alone.
LEMMA RingKept ==
  ASSUME RingInv, UNCHANGED <<m_audio, m_audio_pos, m_audio_len, captured, cleared>>
  PROVE  RingInv'
BY DEF RingInv, RingType, RingHoldsNewest, Held, Back

\* clear()
LEMMA ClearEmpties ==
  ASSUME RingInv, Clear
  PROVE  RingInv'
<1>1. RingType'
  BY RingSize DEF RingInv, RingType, Clear
<1>2. m_audio_len' = Smaller(Held', Capacity)
  BY RingSize DEF RingInv, RingType, Clear, Held, Smaller
<1>3. 0 .. m_audio_len' - 1 = {}
  BY DEF Clear
<1>. QED  BY <1>1, <1>2, <1>3 DEF RingInv, RingHoldsNewest

\* Every step keeps the ring's invariant: only a callback and clear() touch it.
LEMMA RingStep ==
  ASSUME RingInv, Idle, [Next]_vars
  PROVE  RingInv' /\ Idle'
<1>1. CASE Callback
  <2>1. PICK n \in Chunks :
          /\ captured' = captured + n
          /\ IF m_running
               THEN LET s == Smaller(n, Capacity)
                    IN  /\ m_audio' = Stored(s, captured + (n - s) + 1)
                        /\ m_audio_pos' = Advanced(s)
                        /\ m_audio_len' = Grown(s)
                        /\ UNCHANGED cleared
               ELSE /\ cleared' = captured'
                    /\ UNCHANGED <<m_audio, m_audio_pos, m_audio_len>>
    BY <1>1 DEF Callback
  <2>2. n \in Nat /\ n >= 1
    BY CaptureAssumption
  <2>3. device_on /\ UNCHANGED <<device_on, m_running, mpc>>
    BY <1>1 DEF Callback
  <2>4. CASE m_running
    <3>1. Smaller(n, Capacity) \in Nat
      BY <2>2, RingSize DEF Smaller
    <3>2. RingInv'
      BY <2>1, <2>2, <2>4, <3>1, CallbackStores
    <3>. QED  BY <2>3, <2>4, <3>2 DEF Idle
  <2>5. CASE ~m_running
    <3>1. m_audio_len = 0 /\ m_audio_len' = 0
      BY <2>1, <2>3, <2>5 DEF Idle
    <3>2. RingType'
      BY <2>1, <2>2, <2>5 DEF RingInv, RingType
    <3>3. m_audio_len' = Smaller(Held', Capacity)
      BY <2>1, <2>5, <3>1, <3>2, RingSize DEF Held, Smaller, RingType
    <3>4. 0 .. m_audio_len' - 1 = {}
      BY <3>1
    <3>5. RingInv'
      BY <3>2, <3>3, <3>4 DEF RingInv, RingHoldsNewest
    <3>. QED  BY <2>3, <3>1, <3>5 DEF Idle
  <2>. QED  BY <2>4, <2>5
<1>2. CASE Take
  <2>1. RingInv'
    BY <1>2, ClearEmpties DEF Take
  <2>. QED  BY <1>2, <2>1 DEF Take, Clear, Idle
<1>3. CASE ResumeDevice \/ ResumeFlag \/ Pause
  <2>1. RingInv'
    BY <1>3, RingKept DEF ResumeDevice, ResumeFlag, Pause
  <2>. QED  BY <1>3, <2>1 DEF ResumeDevice, ResumeFlag, Pause, Idle
<1>4. CASE LoopTest \/ InnerPoll \/ Get \/ TooLittle \/ Window \/ Keep \/ InferFails
  <2>1. UNCHANGED ringVars /\ mpc # "paused" /\ mpc' # "paused"
    BY <1>4 DEF LoopTest, InnerPoll, Get, TooLittle, Window, Keep, InferFails, MainGoto
  <2>2. RingInv'
    BY <2>1, RingKept DEF ringVars
  <2>. QED  BY <2>1, <2>2 DEF Idle, ringVars
<1>5. CASE Finished \/ UNCHANGED vars
  <2>1. UNCHANGED ringVars /\ UNCHANGED mpc
    BY <1>5 DEF Finished, vars
  <2>2. RingInv'
    BY <2>1, RingKept DEF ringVars
  <2>. QED  BY <2>1, <2>2 DEF Idle, ringVars
<1>. QED  BY <1>1, <1>2, <1>3, <1>4, <1>5 DEF Next, MainStep

\* The ring starts empty.
LEMMA RingInit ==
  ASSUME Init
  PROVE  RingInv /\ Idle
<1>1. RingType
  BY RingSize DEF Init, RingType
<1>2. m_audio_len = Smaller(Held, Capacity) /\ m_audio_len = 0
  BY RingSize DEF Init, Held, Smaller
<1>3. 0 .. m_audio_len - 1 = {}
  BY <1>2
<1>. QED  BY <1>1, <1>2, <1>3 DEF RingInv, RingHoldsNewest, Idle, Init

(***************************************************************************)
(* audio_async keeps the newest samples in order, for every capacity and   *)
(* every sequence of callbacks, however large, and of clear().             *)
(***************************************************************************)
THEOREM RingIsARing == Spec => []RingHoldsNewest
<1>1. Init => RingInv /\ Idle
  BY RingInit
<1>2. RingInv /\ Idle /\ [Next]_vars => (RingInv /\ Idle)'
  BY RingStep
<1>3. RingInv => RingHoldsNewest
  BY DEF RingInv
<1>. QED  BY <1>1, <1>2, <1>3, PTL DEF Spec

-----------------------------------------------------------------------------
(* The window                                                              *)

WindowType ==
  /\ pcmf32_new \in Seq(Int) /\ pcmf32_old \in Seq(Int) /\ pcmf32 \in Seq(Int)
  /\ last \in Int /\ leaving \in BOOLEAN
  /\ mpc = "infer" => pcmf32 # <<>>

\* Where leaving can be: on the way from the inner loop to the end.
Leaving ==
  /\ leaving => mpc \in {"window", "infer", "test", "down", "paused", "crashed"}
  /\ mpc = "crashed" => leaving

\* n consecutive samples, newer than those of the last window.
Fresh(seq, n) ==
  /\ Len(seq) = n
  /\ \A i \in 1 .. n : seq[i] = seq[1] + i - 1
  /\ n >= 1 => seq[1] > last

\* The end of the last window, if there was one.
IsTail(seq) ==
  /\ Len(seq) = IF last = 0 THEN 0 ELSE n_samples_keep
  /\ \A i \in 1 .. Len(seq) : seq[i] = last - Len(seq) + i

KeptTail ==
  (~leaving /\ mpc \in {"start", "resume", "test", "inner", "get", "look", "window"})
    => IsTail(pcmf32_old)

NewSamples ==
  /\ mpc = "look" => /\ Fresh(pcmf32_new, Len(pcmf32_new))
                     /\ Len(pcmf32_new) <= n_samples_step
                     /\ \A i \in 1 .. Len(pcmf32_new) : pcmf32_new[i] <= captured
  /\ (mpc = "window" /\ ~leaving) =>
       /\ Fresh(pcmf32_new, n_samples_step)
       /\ \A i \in 1 .. Len(pcmf32_new) : pcmf32_new[i] <= cleared
  /\ (mpc = "infer" /\ ~leaving) =>
       \A i \in 1 .. Len(pcmf32) : pcmf32[i] <= cleared

LastHeard == ~leaving => last >= 0 /\ last <= cleared

WindowInv == WindowType /\ Leaving /\ KeptTail /\ NewSamples /\ LastHeard /\ WindowShape

\* Where get() finds the i-th of the last n samples: s0 is the position of the
\* first and n0 the number of those before the end of the ring.
LEMMA GetAt ==
  ASSUME NEW c \in Nat, NEW pos \in Nat, pos < c, NEW n \in Nat, n <= c,
         NEW i \in 1 .. n,
         NEW s0 \in Int, s0 = IF pos - n < 0 THEN (pos - n) + c ELSE pos - n,
         NEW n0 \in Int, n0 = IF s0 + n > c THEN c - s0 ELSE n
  PROVE  (IF i <= n0 THEN s0 + i - 1 ELSE i - n0 - 1)
           = (IF pos - 1 - (n - i) < 0 THEN (pos - 1 - (n - i)) + c
              ELSE pos - 1 - (n - i))
<1>1. CASE pos - n < 0
  <2>1. s0 = (pos - n) + c
    BY <1>1
  <2>2. CASE s0 + n > c
    <3>1. n0 = n - pos
      BY <2>1, <2>2
    <3>. QED  BY <2>1, <3>1
  <2>3. CASE ~(s0 + n > c)
    <3>1. n0 = n /\ pos = 0
      BY <2>1, <2>3
    <3>. QED  BY <2>1, <3>1
  <2>. QED  BY <2>2, <2>3
<1>2. CASE ~(pos - n < 0)
  BY <1>2
<1>. QED  BY <1>1, <1>2

\* What get() returns is the end of what was delivered.
LEMMA NewestSamples ==
  ASSUME RingInv
  PROVE  /\ Available \in Nat /\ Available <= n_samples_step
         /\ Available <= captured - cleared
         /\ Newest \in Seq(Int) /\ Len(Newest) = Available
         /\ \A i \in 1 .. Available : Newest[i] = captured - Available + i
<1>1. /\ captured \in Nat /\ cleared \in Nat /\ cleared <= captured
      /\ m_audio_pos \in Nat /\ m_audio_pos < Capacity /\ m_audio_len \in Nat
  BY DEF RingInv, RingType
<1>2. m_audio_len <= captured - cleared /\ m_audio_len <= Capacity
  BY <1>1, RingSize DEF RingInv, RingHoldsNewest, Held, Smaller
<1>3. /\ Available \in Nat /\ Available <= n_samples_step /\ Available <= m_audio_len
  BY <1>1, Sizes DEF Available, Smaller
<1>. DEFINE n  == Available
            d  == m_audio_pos - n
            s0 == IF d < 0 THEN d + Capacity ELSE d
            n0 == IF s0 + n > Capacity THEN Capacity - s0 ELSE n
            at(i) == IF i <= n0 THEN s0 + i - 1 ELSE i - n0 - 1
<1>4. Newest = [i \in 1 .. n |-> m_audio[at(i)]]
  BY DEF Newest
<1>5. ASSUME NEW i \in 1 .. n
      PROVE  at(i) = Back(n - i) /\ n - i \in 0 .. m_audio_len - 1
  <2>. HIDE DEF n
  <2>1. n - i \in 0 .. m_audio_len - 1 /\ n <= Capacity
    BY <1>1, <1>2, <1>3, RingSize DEF n
  <2>2. s0 \in Int /\ n0 \in Int /\ n \in Nat
    BY <1>1, <1>3, RingSize DEF n
  <2>3. s0 = IF m_audio_pos - n < 0 THEN (m_audio_pos - n) + Capacity ELSE m_audio_pos - n
    OBVIOUS
  <2>4. n0 = IF s0 + n > Capacity THEN Capacity - s0 ELSE n
    OBVIOUS
  <2>. HIDE DEF s0, n0
  <2>5. at(i) = IF m_audio_pos - 1 - (n - i) < 0
                  THEN (m_audio_pos - 1 - (n - i)) + Capacity
                ELSE m_audio_pos - 1 - (n - i)
    BY <1>1, <2>1, <2>2, <2>3, <2>4, RingSize, GetAt
  <2>. QED  BY <2>1, <2>5 DEF Back, n
<1>. HIDE DEF at
<1>6. ASSUME NEW i \in 1 .. n
      PROVE  m_audio[at(i)] = captured - n + i
  <2>1. m_audio[Back(n - i)] = captured - (n - i)
    BY <1>5 DEF RingInv, RingHoldsNewest
  <2>2. captured - (n - i) = captured - n + i
    BY <1>1, <1>3
  <2>. QED  BY <1>5, <2>1, <2>2
<1>7. Newest = [i \in 1 .. n |-> captured - n + i]
  BY <1>4, <1>6
<1>. QED  BY <1>1, <1>2, <1>3, <1>7

\* get(): in the order of delivery, and newer than what clear() took.
LEMMA GetKeeps ==
  ASSUME RingInv, WindowInv, Get
  PROVE  WindowInv'
<1>. DEFINE n == Available
<1>1. /\ n \in Nat /\ n <= n_samples_step /\ n <= captured - cleared
      /\ pcmf32_new' \in Seq(Int) /\ Len(pcmf32_new') = n
      /\ \A i \in 1 .. n : pcmf32_new'[i] = captured - n + i
  BY NewestSamples DEF Get
<1>2. /\ mpc = "get" /\ mpc' = "look" /\ UNCHANGED <<captured, cleared>>
      /\ UNCHANGED <<pcmf32_old, pcmf32, last, leaving>>
  BY DEF Get, ringVars
<1>3. captured \in Nat /\ cleared \in Nat /\ last \in Int /\ ~leaving /\ last <= cleared
  BY <1>2 DEF RingInv, RingType, WindowInv, WindowType, Leaving, LastHeard
<1>. HIDE DEF n
<1>4. \A i \in 1 .. n : pcmf32_new'[i] = pcmf32_new'[1] + i - 1
  <2>. SUFFICES ASSUME NEW i \in 1 .. n
                PROVE  pcmf32_new'[i] = pcmf32_new'[1] + i - 1
    OBVIOUS
  <2>1. 1 \in 1 .. n
    BY <1>1
  <2>2. pcmf32_new'[1] = captured - n + 1 /\ pcmf32_new'[i] = captured - n + i
    BY <1>1, <2>1
  <2>. QED  BY <1>1, <1>3, <2>2
<1>5. n >= 1 => pcmf32_new'[1] > last
  <2>. SUFFICES ASSUME n >= 1 PROVE pcmf32_new'[1] > last
    OBVIOUS
  <2>1. pcmf32_new'[1] = captured - n + 1
    BY <1>1
  <2>. QED  BY <1>1, <1>3, <2>1
<1>6. \A i \in 1 .. n : pcmf32_new'[i] <= captured
  <2>. SUFFICES ASSUME NEW i \in 1 .. n PROVE pcmf32_new'[i] <= captured
    OBVIOUS
  <2>1. pcmf32_new'[i] = captured - n + i
    BY <1>1
  <2>. QED  BY <1>1, <1>3, <2>1
<1>7. NewSamples'
  BY <1>1, <1>2, <1>4, <1>5, <1>6 DEF NewSamples, Fresh
<1>8. WindowType' /\ Leaving' /\ KeptTail' /\ LastHeard' /\ WindowShape'
  BY <1>1, <1>2 DEF WindowInv, WindowType, Leaving, KeptTail, IsTail, LastHeard, WindowShape
<1>. QED  BY <1>7, <1>8 DEF WindowInv

\* clear(): the step is older than what will be delivered.
LEMMA TakeKeeps ==
  ASSUME RingInv, WindowInv, Take
  PROVE  WindowInv'
<1>1. /\ mpc = "look" /\ captured' = captured /\ cleared' = captured
      /\ UNCHANGED <<pcmf32_new, pcmf32_old, pcmf32, last, leaving>>
  BY DEF Take, Clear, windowVars
<1>2. captured \in Nat /\ cleared \in Nat /\ cleared <= captured
  BY DEF RingInv, RingType
<1>3. /\ Len(pcmf32_new) \in Nat /\ Len(pcmf32_new) <= n_samples_step
      /\ Fresh(pcmf32_new, Len(pcmf32_new))
      /\ \A i \in 1 .. Len(pcmf32_new) : pcmf32_new[i] <= captured
      /\ last \in Int /\ ~leaving /\ last >= 0 /\ last <= cleared
  BY <1>1 DEF WindowInv, WindowType, NewSamples, Leaving, LastHeard
<1>4. ~TooFull
  BY <1>3, Sizes DEF TooFull
<1>5. mpc' = "window" /\ Len(pcmf32_new) = n_samples_step
  <2>1. StepReady /\ mpc' = "window"
    BY <1>4 DEF Take
  <2>. QED  BY <1>3, <2>1, Sizes DEF StepReady
<1>6. NewSamples'
  BY <1>1, <1>3, <1>5 DEF NewSamples, Fresh
<1>7. LastHeard'
  BY <1>1, <1>2, <1>3 DEF LastHeard
<1>8. WindowType' /\ Leaving' /\ KeptTail' /\ WindowShape'
  BY <1>1, <1>5 DEF WindowInv, WindowType, Leaving, KeptTail, IsTail, WindowShape
<1>. QED  BY <1>6, <1>7, <1>8 DEF WindowInv

\* Where the elements of a concatenation are.
LEMMA Concatenation ==
  ASSUME NEW s \in Seq(Int), NEW t \in Seq(Int)
  PROVE  /\ Len(s \o t) = Len(s) + Len(t)
         /\ \A i \in 1 .. Len(s) : (s \o t)[i] = s[i]
         /\ \A i \in 1 .. Len(t) : (s \o t)[Len(s) + i] = t[i]
OBVIOUS

\* The window: the tail and the step.
LEMMA WindowKeeps ==
  ASSUME RingInv, WindowInv, Window
  PROVE  WindowInv'
<1>. DEFINE room == Larger(0, n_samples_keep + n_samples_len - Len(pcmf32_new))
            take == Smaller(Len(pcmf32_old), room)
<1>1. /\ mpc = "window" /\ UNCHANGED <<captured, cleared, pcmf32_new, last, leaving>>
      /\ pcmf32' = Suffix(pcmf32_old, take) \o pcmf32_new
      /\ pcmf32_old' = pcmf32'
      /\ mpc' = IF pcmf32' = <<>> THEN "test" ELSE "infer"
  BY DEF Window, ringVars
<1>2. pcmf32_old \in Seq(Int) /\ pcmf32_new \in Seq(Int) /\ last \in Int
  BY DEF WindowInv, WindowType
<1>3. take \in 0 .. Len(pcmf32_old)
  BY <1>2, Sizes DEF Smaller, Larger
<1>4. pcmf32' \in Seq(Int)
  <2>. HIDE DEF take
  <2>1. Suffix(pcmf32_old, take) \in Seq(Int)
    BY <1>2, <1>3 DEF Suffix
  <2>. QED  BY <1>1, <1>2, <2>1
<1>5. WindowType' /\ Leaving' /\ LastHeard'
  BY <1>1, <1>4 DEF WindowInv, WindowType, Leaving, LastHeard
<1>6. CASE leaving
  BY <1>1, <1>5, <1>6 DEF WindowInv, KeptTail, NewSamples, WindowShape
<1>7. CASE ~leaving
  <2>1. /\ Fresh(pcmf32_new, n_samples_step) /\ IsTail(pcmf32_old)
        /\ \A i \in 1 .. Len(pcmf32_new) : pcmf32_new[i] <= cleared
        /\ last >= 0 /\ last <= cleared /\ cleared \in Nat
    BY <1>1, <1>7 DEF WindowInv, NewSamples, KeptTail, LastHeard, RingInv, RingType
  <2>2. Len(pcmf32_new) = n_samples_step
    BY <2>1 DEF Fresh
  <2>3. /\ Len(pcmf32_old) \in Nat
        /\ Len(pcmf32_old) = IF last = 0 THEN 0 ELSE n_samples_keep
    BY <1>2, <2>1 DEF IsTail
  <2>4. take = Len(pcmf32_old)
    BY <2>2, <2>3, Sizes DEF Smaller, Larger
  <2>5. pcmf32' = pcmf32_old \o pcmf32_new
    <3>1. Suffix(pcmf32_old, take) = pcmf32_old
      BY <1>2, <2>3, <2>4 DEF Suffix
    <3>. QED  BY <1>1, <3>1
  <2>. DEFINE kept == Len(pcmf32_old)
  <2>6. /\ Len(pcmf32') = kept + n_samples_step
        /\ \A i \in 1 .. kept : pcmf32'[i] = pcmf32_old[i]
        /\ \A i \in 1 .. n_samples_step : pcmf32'[kept + i] = pcmf32_new[i]
    BY <1>2, <2>2, <2>5, Concatenation
  <2>. HIDE DEF kept
  <2>7. mpc' = "infer"
    BY <1>1, <2>3, <2>6, Sizes DEF kept
  <2>8. \A i \in 1 .. n_samples_step : pcmf32_new[i] = pcmf32_new[1] + i - 1
    BY <2>1 DEF Fresh
  <2>9. pcmf32_new[1] > last /\ pcmf32_new[1] = pcmf32'[kept + 1]
    BY <2>1, <2>6, Sizes DEF Fresh
  <2>10. \A i \in 1 .. kept : pcmf32_old[i] = last - kept + i
    BY <2>1 DEF IsTail, kept
  <2>11. WindowShape'
    <3>1. Len(pcmf32') - n_samples_step = kept
      BY <2>3, <2>6, Sizes DEF kept
    <3>2. kept = IF last = 0 THEN 0 ELSE n_samples_keep
      BY <2>3 DEF kept
    <3>3. \A i \in 1 .. kept : pcmf32'[i] = last - kept + i
      BY <2>6, <2>10
    <3>4. \A i \in 1 .. n_samples_step : pcmf32'[kept + i] = pcmf32'[kept + 1] + i - 1
      BY <2>6, <2>8, <2>9
    <3>. QED  BY <1>1, <2>9, <3>1, <3>2, <3>3, <3>4 DEF WindowShape
  <2>12. \A i \in 1 .. Len(pcmf32') : pcmf32'[i] <= cleared
    <3>. SUFFICES ASSUME NEW i \in 1 .. Len(pcmf32') PROVE pcmf32'[i] <= cleared
      OBVIOUS
    <3>1. CASE i \in 1 .. kept
      <4>1. pcmf32'[i] = last - kept + i
        BY <2>6, <2>10, <3>1
      <4>. QED  BY <1>2, <2>1, <2>3, <3>1, <4>1 DEF kept
    <3>2. CASE ~(i \in 1 .. kept)
      <4>1. i - kept \in 1 .. n_samples_step /\ i = kept + (i - kept)
        BY <2>3, <2>6, <3>2, Sizes DEF kept
      <4>2. pcmf32'[i] = pcmf32_new[i - kept]
        BY <2>6, <4>1
      <4>. QED  BY <2>1, <2>2, <4>1, <4>2
    <3>. QED  BY <3>1, <3>2
  <2>13. NewSamples' /\ KeptTail'
    BY <1>1, <2>7, <2>12 DEF NewSamples, KeptTail
  <2>. QED  BY <1>5, <2>11, <2>13 DEF WindowInv
<1>. QED  BY <1>6, <1>7

\* Which elements the last n are.
LEMMA SuffixOf ==
  ASSUME NEW s \in Seq(Int), NEW n \in Nat, n <= Len(s)
  PROVE  /\ Suffix(s, n) \in Seq(Int) /\ Len(Suffix(s, n)) = n
         /\ \A i \in 1 .. n : Suffix(s, n)[i] = s[(Len(s) - n) + i]
<1>1. /\ Len(s) - n + 1 \in 1 .. Len(s) + 1
      /\ Len(s) - (Len(s) - n + 1) + 1 = n
  OBVIOUS
<1>2. /\ Suffix(s, n) \in Seq(Int) /\ Len(Suffix(s, n)) = n
  BY <1>1 DEF Suffix
<1>3. ASSUME NEW i \in 1 .. n
      PROVE  Suffix(s, n)[i] = s[(Len(s) - n) + i]
  <2>1. Suffix(s, n)[i] = s[(Len(s) - n + 1) + i - 1]
    BY <1>1 DEF Suffix
  <2>2. (Len(s) - n + 1) + i - 1 = (Len(s) - n) + i
    OBVIOUS
  <2>. QED  BY <2>1, <2>2
<1>. QED  BY <1>2, <1>3

\* The tail: the end of the step, which is never shorter.
LEMMA KeepKeeps ==
  ASSUME RingInv, WindowInv, Keep
  PROVE  WindowInv'
<1>1. /\ mpc = "infer" /\ UNCHANGED <<captured, cleared, pcmf32_new, pcmf32, leaving>>
      /\ last' = pcmf32[Len(pcmf32)]
      /\ mpc' \in {"test", "crashed"}
      /\ Len(pcmf32) >= n_samples_keep =>
           pcmf32_old' = Suffix(pcmf32, n_samples_keep) /\ mpc' = "test"
      /\ ~(Len(pcmf32) >= n_samples_keep) =>
           pcmf32_old' = [i \in 1 .. n_samples_keep |-> Garbage]
  BY DEF Keep, ringVars
<1>2. pcmf32 \in Seq(Int) /\ pcmf32_new \in Seq(Int) /\ leaving \in BOOLEAN
  BY DEF WindowInv, WindowType
<1>3. pcmf32_old' \in Seq(Int)
  <2>1. CASE Len(pcmf32) >= n_samples_keep
    BY <1>1, <1>2, <2>1, Sizes, SuffixOf
  <2>2. CASE ~(Len(pcmf32) >= n_samples_keep)
    <3>1. [i \in 1 .. n_samples_keep |-> Garbage] \in Seq(Int)
      BY Sizes DEF Garbage
    <3>. QED  BY <1>1, <2>2, <3>1
  <2>. QED  BY <2>1, <2>2
<1>4. pcmf32 # <<>> /\ last' \in Int
  <2>1. pcmf32 # <<>>
    BY <1>1 DEF WindowInv, WindowType
  <2>2. Len(pcmf32) \in 1 .. Len(pcmf32)
    BY <1>2, <2>1
  <2>. QED  BY <1>1, <1>2, <2>1, <2>2
<1>5. WindowType'
  BY <1>1, <1>2, <1>3, <1>4 DEF WindowType
<1>6. CASE leaving
  BY <1>1, <1>5, <1>6 DEF WindowInv, Leaving, KeptTail, NewSamples, LastHeard, WindowShape
<1>7. CASE ~leaving
  <2>. DEFINE kept == Len(pcmf32) - n_samples_step
              first == pcmf32[kept + 1]
  <2>1. /\ kept = IF last = 0 THEN 0 ELSE n_samples_keep
        /\ first > last
        /\ \A i \in 1 .. n_samples_step : pcmf32[kept + i] = first + i - 1
    BY <1>1, <1>7 DEF WindowInv, WindowShape
  <2>2. /\ last \in Int /\ last >= 0
        /\ \A i \in 1 .. Len(pcmf32) : pcmf32[i] <= cleared
    BY <1>1, <1>7 DEF WindowInv, WindowType, NewSamples, LastHeard
  <2>3. /\ kept \in Nat /\ Len(pcmf32) = kept + n_samples_step
        /\ Len(pcmf32) >= n_samples_keep
        /\ first \in Int
    <3>1. kept \in Nat
      BY <2>1, Sizes
    <3>2. Len(pcmf32) = kept + n_samples_step
      BY <1>2, Sizes
    <3>. HIDE DEF kept
    <3>3. kept + 1 \in 1 .. Len(pcmf32)
      BY <3>1, <3>2, Sizes
    <3>. QED  BY <1>2, <3>1, <3>2, <3>3, Sizes
  <2>. HIDE DEF kept, first
  <2>4. last' = first + n_samples_step - 1 /\ last' <= cleared /\ last' > 0
    <3>1. Len(pcmf32) \in 1 .. Len(pcmf32)
      BY <2>3, Sizes
    <3>2. last' <= cleared
      BY <1>1, <2>2, <3>1
    <3>3. last' = first + n_samples_step - 1
      BY <1>1, <2>1, <2>3, Sizes
    <3>. QED  BY <2>2, <2>1, <2>3, <3>2, <3>3, Sizes
  <2>5. pcmf32_old' = Suffix(pcmf32, n_samples_keep) /\ mpc' = "test"
    BY <1>1, <2>3
  <2>6. /\ Len(pcmf32_old') = n_samples_keep
        /\ \A i \in 1 .. n_samples_keep :
             pcmf32_old'[i] = pcmf32[(Len(pcmf32) - n_samples_keep) + i]
    BY <1>2, <2>3, <2>5, Sizes, SuffixOf
  <2>7. \A i \in 1 .. n_samples_keep : pcmf32_old'[i] = last' - n_samples_keep + i
    <3>. SUFFICES ASSUME NEW i \in 1 .. n_samples_keep
                  PROVE  pcmf32_old'[i] = last' - n_samples_keep + i
      OBVIOUS
    <3>. DEFINE j == (n_samples_step - n_samples_keep) + i
    <3>1. j \in 1 .. n_samples_step
      BY Sizes
    <3>2. (Len(pcmf32) - n_samples_keep) + i = kept + j
      BY <2>3, Sizes
    <3>. HIDE DEF j
    <3>3. pcmf32_old'[i] = first + j - 1
      BY <2>1, <2>6, <3>1, <3>2
    <3>. QED  BY <2>3, <2>4, <3>3, Sizes DEF j
  <2>8. IsTail(pcmf32_old)'
    BY <2>4, <2>6, <2>7 DEF IsTail
  <2>. QED  BY <1>1, <1>5, <1>7, <2>4, <2>5, <2>8
              DEF WindowInv, Leaving, KeptTail, NewSamples, LastHeard, WindowShape
<1>. QED  BY <1>6, <1>7

\* Steps that leave the window alone; the samples delivered only grow.
LEMMA OthersKeep ==
  ASSUME RingInv, WindowInv,
         Callback \/ ResumeDevice \/ ResumeFlag \/ LoopTest \/ InnerPoll
           \/ TooLittle \/ InferFails \/ Pause \/ Finished \/ UNCHANGED vars
  PROVE  WindowInv'
<1>1. /\ UNCHANGED windowVars
      /\ captured \in Int /\ captured' \in Int /\ captured' >= captured
      /\ cleared \in Int /\ cleared' \in Int /\ cleared' >= cleared
  <2>1. CASE Callback
    <3>1. PICK n \in Chunks :
            captured' = captured + n /\ (cleared' = cleared \/ cleared' = captured')
      BY <2>1 DEF Callback
    <3>. QED  BY <2>1, <3>1, CaptureAssumption DEF Callback, RingInv, RingType
  <2>2. CASE ~Callback
    <3>1. UNCHANGED windowVars /\ UNCHANGED <<captured, cleared>>
      BY <2>2 DEF ResumeDevice, ResumeFlag, LoopTest, InnerPoll, TooLittle, InferFails,
                  Pause, Finished, MainGoto, vars, ringVars
    <3>. QED  BY <3>1 DEF RingInv, RingType
  <2>. QED  BY <2>1, <2>2
<1>2. \/ UNCHANGED <<mpc, leaving>>
      \/ /\ UNCHANGED leaving
         /\ \/ mpc = "start" /\ mpc' = "resume"
            \/ mpc = "resume" /\ mpc' = "test"
            \/ mpc = "test" /\ mpc' = "inner" /\ ~leaving
            \/ mpc = "inner" /\ mpc' = "get"
            \/ mpc = "look" /\ mpc' = "inner"
            \/ mpc # "crashed" /\ mpc' \in {"down", "paused"}
      \/ mpc = "inner" /\ mpc' = "window" /\ leaving' = TRUE
  BY DEF Callback, ResumeDevice, ResumeFlag, LoopTest, InnerPoll, TooLittle, InferFails,
         Pause, Finished, MainGoto, vars
<1>3. WindowType' /\ Leaving'
  <2>1. WindowType'
    BY <1>1, <1>2 DEF WindowInv, WindowType, windowVars
  <2>2. Leaving'
    BY <1>2 DEF WindowInv, Leaving
  <2>. QED  BY <2>1, <2>2
<1>4. KeptTail' /\ WindowShape'
  BY <1>1, <1>2 DEF WindowInv, KeptTail, IsTail, WindowShape, windowVars
<1>5. LastHeard'
  BY <1>1, <1>2 DEF WindowInv, WindowType, LastHeard, windowVars
<1>6. NewSamples'
  <2>1. CASE mpc' = "look"
    <3>1. mpc = "look"
      BY <1>2, <2>1
    <3>2. \A i \in 1 .. Len(pcmf32_new) : pcmf32_new[i] <= captured /\ pcmf32_new[i] \in Int
      BY <3>1 DEF WindowInv, WindowType, NewSamples
    <3>3. \A i \in 1 .. Len(pcmf32_new) : pcmf32_new[i] <= captured'
      BY <1>1, <3>2
    <3>4. Fresh(pcmf32_new, Len(pcmf32_new))' /\ Len(pcmf32_new') <= n_samples_step
      BY <1>1, <3>1 DEF WindowInv, NewSamples, Fresh, windowVars
    <3>. QED  BY <1>1, <2>1, <3>3, <3>4 DEF NewSamples, windowVars
  <2>2. CASE mpc' = "window" /\ ~leaving'
    <3>1. mpc = "window" /\ ~leaving
      BY <1>2, <2>2
    <3>2. /\ Fresh(pcmf32_new, n_samples_step)
          /\ \A i \in 1 .. Len(pcmf32_new) : pcmf32_new[i] <= cleared /\ pcmf32_new[i] \in Int
      BY <3>1 DEF WindowInv, WindowType, NewSamples
    <3>3. \A i \in 1 .. Len(pcmf32_new) : pcmf32_new[i] <= cleared'
      BY <1>1, <3>2
    <3>. QED  BY <1>1, <2>2, <3>2, <3>3 DEF NewSamples, Fresh, windowVars
  <2>3. CASE mpc' = "infer" /\ ~leaving'
    <3>1. mpc = "infer" /\ ~leaving
      BY <1>2, <2>3
    <3>2. \A i \in 1 .. Len(pcmf32) : pcmf32[i] <= cleared /\ pcmf32[i] \in Int
      BY <3>1 DEF WindowInv, WindowType, NewSamples
    <3>3. \A i \in 1 .. Len(pcmf32) : pcmf32[i] <= cleared'
      BY <1>1, <3>2
    <3>. QED  BY <1>1, <2>3, <3>3 DEF NewSamples, windowVars
  <2>. QED  BY <2>1, <2>2, <2>3 DEF NewSamples
<1>. QED  BY <1>3, <1>4, <1>5, <1>6 DEF WindowInv

\* Before the first window there is no tail and nothing was heard.
LEMMA WindowInit ==
  ASSUME Init
  PROVE  WindowInv
<1>1. WindowType
  <2>1. [i \in 1 .. n_samples_30s |-> 0] \in Seq(Int)
    BY Sizes
  <2>2. /\ pcmf32_new = [i \in 1 .. n_samples_30s |-> 0]
        /\ pcmf32 = [i \in 1 .. n_samples_30s |-> 0]
        /\ pcmf32_old = <<>> /\ last = 0 /\ leaving = FALSE /\ mpc = "start"
    BY DEF Init
  <2>3. pcmf32_new \in Seq(Int) /\ pcmf32 \in Seq(Int)
    BY <2>1, <2>2, Zenon
  <2>4. pcmf32_old \in Seq(Int) /\ last \in Int
    BY <2>2
  <2>5. leaving \in BOOLEAN
    BY DEF Init
  <2>6. mpc # "infer"
    BY DEF Init
  <2>. QED  BY <2>3, <2>4, <2>5, <2>6 DEF WindowType
<1>. QED BY <1>1 DEF Init, WindowInv, Leaving, KeptTail, IsTail, NewSamples, LastHeard,
                    WindowShape

\* Every step keeps the invariants of the ring and of the window.
LEMMA CaptureStep ==
  ASSUME RingInv, Idle, WindowInv, [Next]_vars
  PROVE  (RingInv /\ Idle /\ WindowInv)'
<1>1. RingInv' /\ Idle'
  BY RingStep
<1>2. WindowInv'
  BY GetKeeps, TakeKeeps, WindowKeeps, KeepKeeps, OthersKeep DEF Next, MainStep
<1>. QED  BY <1>1, <1>2

(***************************************************************************)
(* Every window main gives to whisper_full while it captures on is the end *)
(* of the one before and a step of consecutive samples that no window had  *)
(* before (get, clear, lines 903-929 and 992 of main).                     *)
(***************************************************************************)
THEOREM WindowsAreShaped == Spec => []WindowShape
<1>1. Init => RingInv /\ Idle /\ WindowInv
  BY RingInit, WindowInit
<1>2. RingInv /\ Idle /\ WindowInv /\ [Next]_vars => (RingInv /\ Idle /\ WindowInv)'
  BY CaptureStep
<1>3. WindowInv => WindowShape
  BY DEF WindowInv
<1>. QED  BY <1>1, <1>2, <1>3, PTL DEF Spec

(***************************************************************************)
(* Line 992 reads outside of the window only when the user has quit.       *)
(***************************************************************************)
THEOREM KeepStaysWithin == Spec => []KeepWithinWindow
<1>1. Init => RingInv /\ Idle /\ WindowInv
  BY RingInit, WindowInit
<1>2. RingInv /\ Idle /\ WindowInv /\ [Next]_vars => (RingInv /\ Idle /\ WindowInv)'
  BY CaptureStep
<1>3. WindowInv => KeepWithinWindow
  <2>. SUFFICES ASSUME WindowInv PROVE KeepWithinWindow
    OBVIOUS
  <2>1. mpc = "crashed" => leaving
    BY DEF WindowInv, Leaving
  <2>2. ASSUME mpc = "infer", ~leaving
        PROVE  ~(Len(pcmf32) < n_samples_keep)
    <3>1. Len(pcmf32) - n_samples_step = IF last = 0 THEN 0 ELSE n_samples_keep
      BY <2>2 DEF WindowInv, WindowShape
    <3>2. Len(pcmf32) \in Nat
      BY DEF WindowInv, WindowType
    <3>. QED  BY <3>1, <3>2, Sizes
  <2>3. leaving \in BOOLEAN
    BY DEF WindowInv, WindowType
  <2>. QED  BY <2>1, <2>2, <2>3 DEF KeepWithinWindow
<1>. QED  BY <1>1, <1>2, <1>3, PTL DEF Spec

-----------------------------------------------------------------------------
(* Types                                                                   *)

\* What a sample of a window may be.
Value == Sample \cup {Garbage}

ValueType ==
  /\ device_on \in BOOLEAN /\ m_running \in BOOLEAN
  /\ captured \in Sample
  /\ m_audio \in [0 .. Capacity - 1 -> Sample]
  /\ pcmf32_new \in Seq(Value) /\ pcmf32_old \in Seq(Value) /\ pcmf32 \in Seq(Value)
  /\ last \in Value
  /\ mpc \in {"start", "resume", "test", "inner", "get", "look", "window",
              "infer", "down", "paused", "crashed"}

\* The last elements of a sequence, and two sequences in a row, are over the same set.
LEMMA SuffixOver ==
  ASSUME NEW S, NEW q \in Seq(S), NEW n \in Nat, n <= Len(q)
  PROVE  Suffix(q, n) \in Seq(S)
<1>1. Len(q) - n + 1 \in Int /\ Len(q) \in Int
  OBVIOUS
<1>2. \A i \in Len(q) - n + 1 .. Len(q) : q[i] \in S
  <2>. SUFFICES ASSUME NEW i \in Len(q) - n + 1 .. Len(q) PROVE q[i] \in S
    OBVIOUS
  <2>1. i \in 1 .. Len(q)
    OBVIOUS
  <2>. QED  BY <2>1, ElementOfSeq
<1>. QED  BY <1>1, <1>2, SubSeqProperties DEF Suffix

\* A repeated element makes a sequence.
LEMMA Constantly ==
  ASSUME NEW S, NEW e \in S, NEW n \in Nat
  PROVE  [i \in 1 .. n |-> e] \in Seq(S)
OBVIOUS

\* A callback stores samples that were delivered.
LEMMA StoredType ==
  ASSUME RingType, ValueType, NEW n \in Chunks, captured + n <= MaxSamples
  PROVE  LET s == Smaller(n, Capacity)
         IN  Stored(s, captured + (n - s) + 1) \in [0 .. Capacity - 1 -> Sample]
<1>. DEFINE s == Smaller(n, Capacity)
            first == captured + (n - s) + 1
<1>1. n \in Nat /\ captured \in Nat /\ MaxSamples \in Nat
  BY Sizes DEF ValueType, Sample
<1>2. s \in Nat /\ s <= n /\ s <= Capacity
  BY <1>1, RingSize DEF Smaller
<1>3. first \in Nat /\ first + s <= MaxSamples + 1
  BY <1>1, <1>2
<1>. HIDE DEF s, first
<1>4. DOMAIN Stored(s, first) = 0 .. Capacity - 1
      /\ Stored(s, first) = [k \in 0 .. Capacity - 1 |-> Stored(s, first)[k]]
  BY DEF Stored, Filled
<1>5. ASSUME NEW k \in 0 .. Capacity - 1 PROVE Stored(s, first)[k] \in Sample
  <2>1. m_audio_pos \in Nat /\ m_audio_pos < Capacity /\ first \in Int
    BY <1>3 DEF RingType
  <2>2. Stored(s, first)[k] =
          IF k >= m_audio_pos /\ k < m_audio_pos + s THEN first + (k - m_audio_pos)
          ELSE IF k + Capacity < m_audio_pos + s THEN first + (k + Capacity - m_audio_pos)
          ELSE m_audio[k]
    BY <1>2, <2>1, StoredAt
  <2>3. CASE k >= m_audio_pos /\ k < m_audio_pos + s
    <3>1. first + (k - m_audio_pos) \in 0 .. MaxSamples
      BY <1>1, <1>2, <1>3, <2>1, <2>3
    <3>. QED  BY <2>2, <2>3, <3>1 DEF Sample
  <2>4. CASE ~(k >= m_audio_pos /\ k < m_audio_pos + s) /\ k + Capacity < m_audio_pos + s
    <3>1. first + (k + Capacity - m_audio_pos) \in 0 .. MaxSamples
      BY <1>1, <1>2, <1>3, <2>1, <2>4, RingSize
    <3>. QED  BY <2>2, <2>4, <3>1 DEF Sample
  <2>5. CASE ~(k >= m_audio_pos /\ k < m_audio_pos + s) /\ ~(k + Capacity < m_audio_pos + s)
    BY <2>2, <2>5 DEF ValueType
  <2>. QED  BY <2>3, <2>4, <2>5
<1>. QED  BY <1>4, <1>5 DEF s, first

\* What get() returns are samples.
LEMMA NewestType ==
  ASSUME RingInv, ValueType
  PROVE  Newest \in Seq(Value)
<1>1. /\ Available \in Nat /\ Available <= captured - cleared
      /\ Newest \in Seq(Int) /\ Len(Newest) = Available
      /\ \A i \in 1 .. Available : Newest[i] = captured - Available + i
  BY NewestSamples
<1>2. captured \in Nat /\ cleared \in Nat /\ captured <= MaxSamples /\ MaxSamples \in Nat
  BY Sizes DEF RingInv, RingType, ValueType, Sample
<1>3. ASSUME NEW i \in 1 .. Len(Newest) PROVE Newest[i] \in Value
  <2>1. captured - Available + i \in 0 .. MaxSamples
    BY <1>1, <1>2
  <2>. QED  BY <1>1, <2>1 DEF Value, Sample
<1>4. \A q \in Seq(Int) : (\A i \in 1 .. Len(q) : q[i] \in Value) => q \in Seq(Value)
  <2>. HIDE DEF Value
  <2>. QED  OBVIOUS
<1>. QED  BY <1>1, <1>3, <1>4

\* Every step keeps the types.
LEMMA ValueStep ==
  ASSUME RingInv, WindowInv, ValueType, [Next]_vars
  PROVE  ValueType'
<1>. USE DEF ValueType
<1>1. CASE Callback
  <2>1. PICK n \in Chunks :
          /\ captured + n <= MaxSamples /\ captured' = captured + n
          /\ IF m_running
               THEN m_audio' = LET s == Smaller(n, Capacity)
                               IN  Stored(s, captured + (n - s) + 1)
               ELSE m_audio' = m_audio
    BY <1>1 DEF Callback
  <2>2. m_audio' \in [0 .. Capacity - 1 -> Sample]
    BY <2>1, StoredType DEF RingInv
  <2>3. n \in Nat
    BY CaptureAssumption
  <2>4. captured' \in Sample
    BY <2>1, <2>3, Sizes DEF Sample
  <2>. QED  BY <1>1, <2>2, <2>4 DEF Callback, windowVars
<1>2. CASE ResumeDevice \/ ResumeFlag \/ Pause
  BY <1>2 DEF ResumeDevice, ResumeFlag, Pause, windowVars
<1>3. CASE LoopTest \/ InnerPoll \/ TooLittle \/ InferFails
  BY <1>3 DEF LoopTest, InnerPoll, TooLittle, InferFails, MainGoto, ringVars, windowVars
<1>4. CASE Take
  BY <1>4 DEF Take, Clear, windowVars
<1>5. CASE Get
  BY <1>5, NewestType DEF Get, ringVars
<1>6. CASE Window
  <2>. DEFINE room == Larger(0, n_samples_keep + n_samples_len - Len(pcmf32_new))
              take == Smaller(Len(pcmf32_old), room)
  <2>1. Len(pcmf32_old) \in Nat /\ Len(pcmf32_new) \in Nat
    BY DEF WindowInv, WindowType
  <2>2. take \in Nat /\ take <= Len(pcmf32_old)
    BY <2>1, Sizes DEF Smaller, Larger
  <2>. HIDE DEF take
  <2>3. Suffix(pcmf32_old, take) \in Seq(Value)
    BY <2>2, SuffixOver
  <2>4. Suffix(pcmf32_old, take) \o pcmf32_new \in Seq(Value)
    BY <2>3, ConcatProperties
  <2>. QED  BY <1>6, <2>4 DEF Window, ringVars, take
<1>7. CASE Keep
  <2>1. Len(pcmf32) \in 1 .. Len(pcmf32)
    BY <1>7 DEF Keep, WindowInv, WindowType
  <2>2. pcmf32[Len(pcmf32)] \in Value
    BY <2>1, ElementOfSeq
  <2>3. Len(pcmf32) >= n_samples_keep => Suffix(pcmf32, n_samples_keep) \in Seq(Value)
    BY <2>1, SuffixOver, Sizes
  <2>4. [i \in 1 .. n_samples_keep |-> Garbage] \in Seq(Value)
    BY Constantly, Sizes DEF Value
  <2>. QED  BY <1>7, <2>2, <2>3, <2>4 DEF Keep, ringVars
<1>8. CASE Finished \/ UNCHANGED vars
  BY <1>8 DEF Finished, vars, ringVars, windowVars
<1>. QED
  BY <1>1, <1>2, <1>3, <1>4, <1>5, <1>6, <1>7, <1>8 DEF Next, MainStep

(***************************************************************************)
(* Every variable keeps its type: a window holds nothing but samples that  *)
(* were delivered, silence, and what line 992 may read outside of it.      *)
(***************************************************************************)
THEOREM TypeCorrect == Spec => []TypeOK
<1>1. Init => ValueType
  <2>. SUFFICES ASSUME Init PROVE ValueType
    OBVIOUS
  <2>1. 0 \in Sample /\ 0 \in Value
    BY Sizes DEF Sample, Value
  <2>2. pcmf32_new \in Seq(Value) /\ pcmf32 \in Seq(Value)
    BY <2>1, Constantly, Sizes DEF Init
  <2>3. pcmf32_old \in Seq(Value)
    BY DEF Init
  <2>. QED  BY <2>1, <2>2, <2>3 DEF Init, ValueType
<1>2. Init => RingInv /\ Idle /\ WindowInv
  BY RingInit, WindowInit
<1>3. RingInv /\ Idle /\ WindowInv /\ ValueType /\ [Next]_vars
        => (RingInv /\ Idle /\ WindowInv /\ ValueType)'
  BY CaptureStep, ValueStep
<1>4. RingInv /\ WindowInv /\ ValueType => TypeOK
  BY Sizes DEF RingInv, RingType, RingHoldsNewest, Smaller, Held, WindowInv, WindowType,
     ValueType, TypeOK, Sample, Samples, Value
<1>. QED  BY <1>1, <1>2, <1>3, <1>4, PTL DEF Spec

=============================================================================
