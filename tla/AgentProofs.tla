----------------------------- MODULE AgentProofs -----------------------------
(***************************************************************************)
(* Proofs about Agent: a conversation in which one turn runs at a time      *)
(* asks the calendar only for complete events and creates one at most, who  *)
(* awaits a consent keeps its callback and every turn ends, whatever the    *)
(* set of turns.                                                            *)
(***************************************************************************)
EXTENDS Agent, FiniteSetTheorems, TLAPS

Voices == {"none", "pending", "sounding", "interrupted", "canceled"}

Requests == {"none", "complete", "incomplete", "unparsable"}

\* The awaits of a turn that is done with its event.
Over == {"free", "say_created", "say_failed", "sorry"}

\* TypeOK, with names for its sets and without the bound of the stack.
Types ==
  /\ state \in {"idle", "talking", "creating", "done", "error"}
  /\ slots \in [name : Slot, dateTime : Slot]
  /\ pc \in [Turns -> Awaits] /\ voice \in [Turns -> Voices]
  /\ args \in [Turns -> Requests] /\ waiting \in Seq(Callers)
  /\ token \in BOOLEAN /\ agentSessionActive \in BOOLEAN
  /\ startEnabled \in BOOLEAN /\ resetEnabled \in BOOLEAN
  /\ button \in {"off", "ready", "asking", "done"}
  /\ alone \in BOOLEAN /\ current \in [Turns -> BOOLEAN] /\ made \in 0 .. 2

\* A turn that is none has nothing, and one that asks for a consent says nothing.
FreeInv ==
  \A t \in Turns :
    /\ pc[t] = "free" => voice[t] = "none" /\ args[t] = "none"
    /\ pc[t] = "authorize" => voice[t] = "none"

\* What a turn awaits, wants and may have done, when no other is there.
Solo(t) ==
  /\ pc[t] # "free" => current[t]
  /\ pc[t] = "say_creating" => SlotsComplete
  /\ args[t] \in {"none", "complete"}
  /\ made = 0 \/ pc[t] \in Over

AloneInv ==
  alone =>
    /\ \A t, u \in InFlight : t = u
    /\ \A t \in Turns : Solo(t)
    /\ made = 0 \/ (made = 1 /\ state \in {"done", "error"})

AgentInv == Types /\ FreeInv /\ AloneInv /\ CallbacksKept

-----------------------------------------------------------------------------
(* Types                                                                   *)

\* stop(): cancelled speech has its type, and who was silent stays silent.
LEMMA CancelledType ==
  ASSUME voice \in [Turns -> Voices]
  PROVE  /\ Cancelled \in [Turns -> Voices]
         /\ \A t \in Turns : voice[t] = "none" => Cancelled[t] = "none"
BY DEF Cancelled, Voices

\* A speech begins.
LEMMA SayType ==
  ASSUME voice \in [Turns -> Voices], pc \in [Turns -> Awaits],
         NEW t \in Turns, NEW await \in Awaits, Say(t, await)
  PROVE  /\ voice' \in [Turns -> Voices] /\ pc' \in [Turns -> Awaits]
         /\ pc'[t] = await
         /\ \A u \in Turns \ {t} :
              pc'[u] = pc[u] /\ (voice[u] = "none" => voice'[u] = "none")
<1>1. /\ Cancelled \in [Turns -> Voices]
      /\ \A u \in Turns : voice[u] = "none" => Cancelled[u] = "none"
  BY CancelledType
<1>2. /\ voice' = [Cancelled EXCEPT ![t] = "pending"]
      /\ pc' = [pc EXCEPT ![t] = await]
  BY DEF Say
<1>. HIDE DEF Cancelled
<1>. QED BY <1>1, <1>2 DEF Voices

\* A turn ends.
LEMMA FinishType ==
  ASSUME voice \in [Turns -> Voices], pc \in [Turns -> Awaits],
         args \in [Turns -> Requests], current \in [Turns -> BOOLEAN],
         NEW t \in Turns, Finish(t)
  PROVE  /\ voice' \in [Turns -> Voices] /\ pc' \in [Turns -> Awaits]
         /\ args' \in [Turns -> Requests] /\ current' \in [Turns -> BOOLEAN]
         /\ pc'[t] = "free" /\ voice'[t] = "none" /\ args'[t] = "none"
         /\ \A u \in Turns \ {t} : /\ pc'[u] = pc[u] /\ voice'[u] = voice[u]
                                   /\ args'[u] = args[u] /\ current'[u] = current[u]
BY DEF Finish, Voices, Awaits, Requests

\* createEvent is called.
LEMMA RequestType ==
  ASSUME Types, NEW t \in Turns, Request(t)
  PROVE  /\ voice' \in [Turns -> Voices] /\ pc' \in [Turns -> Awaits]
         /\ args' \in [Turns -> Requests] /\ waiting' \in Seq(Callers)
         /\ state' = state \/ state' = "error"
         /\ pc'[t] \in {"post", "authorize", "say_failed"}
         /\ pc'[t] = "authorize" => voice'[t] = "none"
         /\ SlotsComplete => args'[t] = "complete"
         /\ \A u \in Turns \ {t} : /\ pc'[u] = pc[u] /\ args'[u] = args[u]
                                   /\ voice[u] = "none" => voice'[u] = "none"
<1>1. /\ args' \in [Turns -> Requests]
      /\ SlotsComplete => args'[t] = "complete"
      /\ \A u \in Turns \ {t} : args'[u] = args[u]
  BY DEF Request, Types, Requests, SlotsComplete
<1>2. CASE token \/ button # "off"
  <2>1. /\ voice' = [voice EXCEPT ![t] = "none"]
        /\ pc' = [pc EXCEPT ![t] = IF token THEN "post" ELSE "authorize"]
        /\ waiting' = IF token THEN waiting ELSE Installed(t)
        /\ state' = state
    BY <1>2 DEF Request
  <2>2. waiting' \in Seq(Callers) BY <2>1 DEF Installed, Types, Callers
  <2>. QED BY <1>1, <2>1, <2>2 DEF Types, Voices, Awaits
<1>3. CASE ~(token \/ button # "off")
  <2>1. state' = "error" /\ Say(t, "say_failed") /\ waiting' = waiting
    BY <1>3 DEF Request, Fail
  <2>2. "say_failed" \in Awaits BY DEF Awaits
  <2>. QED BY <1>1, <2>1, <2>2, SayType DEF Types
<1>. QED BY <1>2, <1>3

\* What a reply says, merged into the slots, has the type of slots.
LEMMA MergedType ==
  ASSUME slots \in [name : Slot, dateTime : Slot], NEW r \in Replies
  PROVE  Merged(r) \in [name : Slot, dateTime : Slot]
<1>1. r.name \in Slot /\ r.dateTime \in Slot BY DEF Replies
<1>. QED BY <1>1 DEF Merged

\* Cleared slots have it too.
LEMMA NoSlotsType == NoSlots \in [name : Slot, dateTime : Slot]
BY DEF NoSlots, Slot

-----------------------------------------------------------------------------
(* What a step of turn t does: its effect on the turn, and that the others  *)
(* keep their places.                                                       *)

\* The other turns are left alone, but for what they were saying.
OthersKept(t) ==
  \A u \in Turns \ {t} :
    /\ pc'[u] = pc[u] /\ args'[u] = args[u] /\ current'[u] = current[u]
    /\ voice[u] = "none" => voice'[u] = "none"

\* An apology.
LEMMA FailStep ==
  ASSUME Types, NEW t \in Turns, NEW await \in {"sorry", "say_failed"}, Fail(t, await),
         UNCHANGED <<args, current>>
  PROVE  /\ state' = "error" /\ voice' \in [Turns -> Voices] /\ pc' \in [Turns -> Awaits]
         /\ pc'[t] = await /\ OthersKept(t)
<1>1. state' = "error" /\ Say(t, await) BY DEF Fail
<1>2. await \in Awaits BY DEF Awaits
<1>. QED BY <1>1, <1>2, SayType DEF Types, OthersKept

\* An answer of the model: the turn goes on to speak, and only its own slots change.
LEMMA ReplyStep ==
  ASSUME Types, NEW t \in Turns, Reply(t)
  PROVE  /\ Types' /\ OthersKept(t) /\ alone' = alone /\ made' = made
         /\ pc[t] \in {"greet", "reply"} /\ pc'[t] \in {"say", "say_done"}
         /\ args'[t] = args[t] /\ current'[t] = current[t]
<1>1. PICK r \in Replies :
        /\ slots' = Merged(r)
        /\ state' = r.next_state
        /\ Say(t, IF pc[t] = "reply" /\ r.next_state = "done" THEN "say_done" ELSE "say")
  BY DEF Reply
<1>2. PICK await \in {"say", "say_done"} : Say(t, await)
  BY <1>1
<1>3. await \in Awaits BY DEF Awaits
<1>4. /\ voice' \in [Turns -> Voices] /\ pc' \in [Turns -> Awaits] /\ pc'[t] = await
      /\ \A u \in Turns \ {t} :
           pc'[u] = pc[u] /\ (voice[u] = "none" => voice'[u] = "none")
  BY <1>2, <1>3, SayType DEF Types
<1>5. /\ UNCHANGED <<args, waiting, token, pageVars, current, alone, made>>
      /\ pc[t] \in {"greet", "reply"}
  BY DEF Reply, history
<1>6. slots' \in [name : Slot, dateTime : Slot]
  BY <1>1, MergedType DEF Types
<1>7. state' \in {"idle", "talking", "creating", "done", "error"}
  BY <1>1 DEF Replies
<1>8. Types'
  BY <1>4, <1>5, <1>6, <1>7 DEF Types, pageVars
<1>. QED BY <1>2, <1>4, <1>5, <1>8 DEF OthersKept

\* No answer, or one that does not parse: the turn apologises.
LEMMA ReplyFailsStep ==
  ASSUME Types, NEW t \in Turns, ReplyFails(t)
  PROVE  /\ Types' /\ OthersKept(t) /\ UNCHANGED <<alone, made, slots>>
         /\ pc[t] \in {"greet", "reply"} /\ pc'[t] = "sorry"
         /\ args'[t] = args[t] /\ current'[t] = current[t]
<1>1. /\ pc[t] \in {"greet", "reply"} /\ Fail(t, "sorry")
      /\ UNCHANGED <<slots, args, waiting, token, pageVars, history>>
  BY DEF ReplyFails
<1>2. UNCHANGED <<args, current, alone, made, slots>> BY <1>1 DEF history
<1>3. /\ state' = "error" /\ voice' \in [Turns -> Voices] /\ pc' \in [Turns -> Awaits]
      /\ pc'[t] = "sorry" /\ OthersKept(t)
  BY <1>1, <1>2, FailStep
<1>4. Types' BY <1>1, <1>2, <1>3 DEF Types, pageVars, history
<1>. QED BY <1>1, <1>2, <1>3, <1>4

\* The speech begins to sound: nothing but the voice changes.
LEMMA SoundsStep ==
  ASSUME Types, NEW t \in Turns, Sounds(t)
  PROVE  /\ Types' /\ OthersKept(t) /\ UNCHANGED <<alone, made, slots, state>>
         /\ voice[t] # "none" /\ pc'[t] = pc[t]
         /\ args'[t] = args[t] /\ current'[t] = current[t]
<1>1. /\ voice[t] = "pending" /\ voice' = [voice EXCEPT ![t] = "sounding"]
      /\ UNCHANGED <<state, slots, pc, args, waiting, token, pageVars, history>>
  BY DEF Sounds
<1>2. voice' \in [Turns -> Voices] BY <1>1 DEF Types, Voices
<1>3. Types' BY <1>1, <1>2 DEF Types, pageVars, history
<1>4. OthersKept(t) BY <1>1 DEF OthersKept, history, Types
<1>. QED BY <1>1, <1>3, <1>4 DEF history

\* A turn goes on when its speech has ended.
LEMMA SpokenStep ==
  ASSUME Types, NEW t \in Turns, Spoken(t)
  PROVE  /\ Types' /\ OthersKept(t) /\ UNCHANGED <<alone, made, slots>>
         /\ voice[t] # "none" /\ (pc'[t] = "authorize" => voice'[t] = "none")
         /\ \/ pc'[t] = "free" /\ voice'[t] = "none" /\ args'[t] = "none"
               /\ (pc[t] \in Over => state' = state)
            \/ /\ pc[t] = "say_done" /\ pc'[t] = "say_creating" /\ SlotsComplete
               /\ args'[t] = args[t] /\ current'[t] = current[t]
            \/ /\ pc[t] = "say_creating" /\ pc'[t] \in {"post", "authorize", "say_failed"}
               /\ (SlotsComplete => args'[t] = "complete") /\ current'[t] = current[t]
<1>1. /\ voice[t] # "none"
      /\ UNCHANGED <<slots, token, agentSessionActive, resetEnabled, button, alone, made>>
  BY DEF Spoken
<1>2. CASE pc[t] = "say_done" /\ SlotsComplete
  <2>1. /\ state' = "creating" /\ Say(t, "say_creating")
        /\ UNCHANGED <<args, waiting, startEnabled, current>>
    BY <1>2 DEF Spoken
  <2>2. "say_creating" \in Awaits BY DEF Awaits
  <2>3. /\ voice' \in [Turns -> Voices] /\ pc' \in [Turns -> Awaits]
        /\ pc'[t] = "say_creating"
        /\ \A u \in Turns \ {t} :
             pc'[u] = pc[u] /\ (voice[u] = "none" => voice'[u] = "none")
    BY <2>1, <2>2, SayType DEF Types
  <2>4. Types' BY <1>1, <2>1, <2>3 DEF Types
  <2>. QED BY <1>1, <1>2, <2>1, <2>3, <2>4 DEF OthersKept
<1>3. CASE pc[t] = "say_creating"
  <2>1. Request(t) /\ UNCHANGED <<startEnabled, current>>
    BY <1>3 DEF Spoken
  <2>2. /\ voice' \in [Turns -> Voices] /\ pc' \in [Turns -> Awaits]
        /\ args' \in [Turns -> Requests] /\ waiting' \in Seq(Callers)
        /\ state' = state \/ state' = "error"
        /\ pc'[t] \in {"post", "authorize", "say_failed"}
        /\ pc'[t] = "authorize" => voice'[t] = "none"
        /\ SlotsComplete => args'[t] = "complete"
        /\ \A u \in Turns \ {t} : /\ pc'[u] = pc[u] /\ args'[u] = args[u]
                                  /\ voice[u] = "none" => voice'[u] = "none"
    BY <2>1, RequestType
  <2>3. Types' BY <1>1, <2>1, <2>2 DEF Types
  <2>. QED BY <1>1, <1>3, <2>1, <2>2, <2>3 DEF OthersKept
<1>4. CASE pc[t] # "say_creating" /\ ~(pc[t] = "say_done" /\ SlotsComplete)
  <2>1. /\ Finish(t) /\ UNCHANGED waiting
        /\ state' = state \/ (pc[t] = "say_done" /\ state' = "talking")
        /\ startEnabled' = startEnabled \/ startEnabled' = TRUE
    BY <1>4 DEF Spoken
  <2>2. /\ voice' \in [Turns -> Voices] /\ pc' \in [Turns -> Awaits]
        /\ args' \in [Turns -> Requests] /\ current' \in [Turns -> BOOLEAN]
        /\ pc'[t] = "free" /\ voice'[t] = "none" /\ args'[t] = "none"
        /\ \A u \in Turns \ {t} : /\ pc'[u] = pc[u] /\ voice'[u] = voice[u]
                                  /\ args'[u] = args[u] /\ current'[u] = current[u]
    BY <2>1, FinishType DEF Types
  <2>3. Types' BY <1>1, <2>1, <2>2 DEF Types
  <2>. QED BY <1>1, <2>1, <2>2, <2>3 DEF OthersKept, Over
<1>. QED BY <1>2, <1>3, <1>4

\* A speech that fails sends the turn to an apology, or ends it.
LEMMA SpeechFailsStep ==
  ASSUME Types, NEW t \in Turns, SpeechFails(t)
  PROVE  /\ Types' /\ OthersKept(t) /\ UNCHANGED <<alone, made, slots>>
         /\ voice[t] # "none"
         /\ \/ pc'[t] = "free" /\ voice'[t] = "none" /\ args'[t] = "none"
               /\ state' = state
            \/ pc'[t] \in {"sorry", "say_failed"} /\ state' = "error"
               /\ args'[t] = args[t] /\ current'[t] = current[t]
<1>1. /\ voice[t] # "none"
      /\ UNCHANGED <<slots, waiting, token, pageVars, alone, made>>
  BY DEF SpeechFails
<1>2. CASE pc[t] = "sorry"
  <2>1. Finish(t) /\ UNCHANGED state BY <1>2 DEF SpeechFails
  <2>2. /\ voice' \in [Turns -> Voices] /\ pc' \in [Turns -> Awaits]
        /\ args' \in [Turns -> Requests] /\ current' \in [Turns -> BOOLEAN]
        /\ pc'[t] = "free" /\ voice'[t] = "none" /\ args'[t] = "none"
        /\ \A u \in Turns \ {t} : /\ pc'[u] = pc[u] /\ voice'[u] = voice[u]
                                  /\ args'[u] = args[u] /\ current'[u] = current[u]
    BY <2>1, FinishType DEF Types
  <2>3. Types' BY <1>1, <2>1, <2>2 DEF Types, pageVars
  <2>. QED BY <1>1, <2>1, <2>2, <2>3 DEF OthersKept
<1>3. CASE pc[t] # "sorry"
  <2>1. PICK await \in {"sorry", "say_failed"} :
          Fail(t, await) /\ UNCHANGED <<args, current>>
    BY <1>3 DEF SpeechFails
  <2>2. /\ state' = "error" /\ voice' \in [Turns -> Voices] /\ pc' \in [Turns -> Awaits]
        /\ pc'[t] = await /\ OthersKept(t)
    BY <2>1, FailStep
  <2>3. Types' BY <1>1, <2>1, <2>2 DEF Types, pageVars
  <2>. QED BY <1>1, <2>1, <2>2, <2>3
<1>. QED BY <1>2, <1>3

\* The callback's answer is popped, the last one first.
LEMMA Popped ==
  ASSUME waiting \in Seq(Callers)
  PROVE  Restored \in Seq(Callers)
<1>1. Len(waiting) \in Nat OBVIOUS
<1>2. \A i \in 1 .. Len(waiting) - 1 : i \in 1 .. Len(waiting) BY <1>1
<1>3. CASE waiting = <<>>
  BY <1>3 DEF Restored
<1>4. CASE waiting # <<>>
  BY <1>1, <1>2, <1>4 DEF Restored
<1>. QED BY <1>3, <1>4

\* The consent is given or refused.
LEMMA ConsentStep ==
  ASSUME Types, NEW t \in Turns, Consent(t)
  PROVE  /\ Types' /\ OthersKept(t) /\ UNCHANGED <<alone, made, slots>>
         /\ pc[t] = "authorize" /\ pc'[t] \in {"post", "say_failed"}
         /\ args'[t] = args[t] /\ current'[t] = current[t]
<1>1. /\ pc[t] = "authorize"
      /\ waiting' = Restored
      /\ UNCHANGED <<slots, args, pageVars, history>>
  BY DEF Consent, Answered
<1>2. UNCHANGED <<args, current, alone, made, slots>> BY <1>1 DEF history
<1>3. waiting' \in Seq(Callers) BY <1>1, Popped DEF Types
<1>4. CASE token' = TRUE /\ pc' = [pc EXCEPT ![t] = "post"] /\ UNCHANGED <<state, voice>>
  <2>1. pc' \in [Turns -> Awaits] BY <1>4 DEF Types, Awaits
  <2>2. Types' BY <1>1, <1>3, <1>4, <2>1 DEF Types, pageVars, history
  <2>. QED BY <1>1, <1>2, <1>4, <2>2 DEF OthersKept, Types
<1>5. CASE Fail(t, "say_failed") /\ UNCHANGED token
  <2>1. /\ state' = "error" /\ voice' \in [Turns -> Voices] /\ pc' \in [Turns -> Awaits]
        /\ pc'[t] = "say_failed" /\ OthersKept(t)
    BY <1>2, <1>5, FailStep
  <2>2. Types' BY <1>1, <1>3, <1>5, <2>1 DEF Types, pageVars, history
  <2>. QED BY <1>1, <1>2, <2>1, <2>2
<1>. QED BY <1>4, <1>5 DEF Consent

\* The calendar stores an event or does not.
LEMMA StoreStep ==
  ASSUME Types, NEW t \in Turns, Store(t) \/ UNCHANGED history
  PROVE  /\ made' \in {made, made + 1} /\ made' \in 0 .. 2
         /\ UNCHANGED <<current, alone>>
<1>1. made \in 0 .. 2 BY DEF Types
<1>2. CASE Store(t)
  <2>1. /\ made' = IF current[t] /\ made < 2 THEN made + 1 ELSE made
        /\ UNCHANGED <<current, alone>>
    BY <1>2 DEF Store
  <2>. QED BY <1>1, <2>1
<1>3. CASE UNCHANGED history
  BY <1>1, <1>3 DEF history
<1>. QED BY <1>2, <1>3

\* The calendar answers that the event is created.
LEMMA CreatedStep ==
  ASSUME Types, NEW t \in Turns, Created(t)
  PROVE  /\ Types' /\ OthersKept(t) /\ UNCHANGED <<alone, slots>>
         /\ pc[t] = "post" /\ pc'[t] = "say_created" /\ state' = "done"
         /\ args'[t] = args[t] /\ current'[t] = current[t] /\ made' \in {made, made + 1}
<1>1. /\ pc[t] = "post" /\ state' = "done" /\ Say(t, "say_created") /\ Store(t)
      /\ UNCHANGED <<slots, args, waiting, token, pageVars>>
  BY DEF Created
<1>2. "say_created" \in Awaits BY DEF Awaits
<1>3. /\ voice' \in [Turns -> Voices] /\ pc' \in [Turns -> Awaits]
      /\ pc'[t] = "say_created"
      /\ \A u \in Turns \ {t} :
           pc'[u] = pc[u] /\ (voice[u] = "none" => voice'[u] = "none")
  BY <1>1, <1>2, SayType DEF Types
<1>4. /\ made' \in {made, made + 1} /\ made' \in 0 .. 2
      /\ UNCHANGED <<current, alone>>
  BY <1>1, StoreStep
<1>5. Types' BY <1>1, <1>3, <1>4 DEF Types, pageVars
<1>. QED BY <1>1, <1>3, <1>4, <1>5 DEF OthersKept

\* The calendar refuses, or its answer is lost.
LEMMA CreateFailsStep ==
  ASSUME Types, NEW t \in Turns, CreateFails(t)
  PROVE  /\ Types' /\ OthersKept(t) /\ UNCHANGED <<alone, slots>>
         /\ pc[t] = "post" /\ pc'[t] = "say_failed" /\ state' = "error"
         /\ args'[t] = args[t] /\ current'[t] = current[t] /\ made' \in {made, made + 1}
<1>1. /\ pc[t] = "post" /\ Fail(t, "say_failed") /\ (Store(t) \/ UNCHANGED history)
      /\ UNCHANGED <<slots, args, waiting, token, pageVars>>
  BY DEF CreateFails
<1>2. /\ made' \in {made, made + 1} /\ made' \in 0 .. 2
      /\ UNCHANGED <<current, alone>>
  BY <1>1, StoreStep
<1>3. /\ state' = "error" /\ voice' \in [Turns -> Voices] /\ pc' \in [Turns -> Awaits]
      /\ pc'[t] = "say_failed" /\ OthersKept(t)
  BY <1>1, <1>2, FailStep
<1>4. Types' BY <1>1, <1>2, <1>3 DEF Types, pageVars
<1>. QED BY <1>1, <1>2, <1>3, <1>4

-----------------------------------------------------------------------------
(* The invariant                                                           *)

\* A turn that is on its way, alone, steps: nobody else is there.
LEMMA SoloKept ==
  ASSUME Types, FreeInv, AloneInv, NEW t \in Turns, pc[t] # "free", OthersKept(t),
         alone' = alone,
         pc'[t] = "free" => voice'[t] = "none" /\ args'[t] = "none",
         pc'[t] = "authorize" => voice'[t] = "none",
         alone => /\ Solo(t)'
                  /\ made' = 0 \/ (made' = 1 /\ state' \in {"done", "error"})
  PROVE  FreeInv' /\ AloneInv'
<1>1. FreeInv'
  BY DEF FreeInv, OthersKept
<1>2. ASSUME alone'
      PROVE  /\ \A u \in Turns \ {t} : pc[u] = "free" /\ pc'[u] = "free"
             /\ \A u \in Turns \ {t} : args'[u] = "none"
  <2>1. \A u \in Turns \ {t} : pc[u] = "free" BY <1>2 DEF AloneInv, InFlight
  <2>. QED BY <2>1 DEF OthersKept, FreeInv
<1>3. ASSUME alone', NEW u \in Turns PROVE Solo(u)'
  <2>1. CASE u = t
    BY <1>3, <2>1
  <2>2. CASE u # t
    BY <1>2, <1>3, <2>2 DEF Solo, Over
  <2>. QED BY <2>1, <2>2
<1>4. ASSUME alone' PROVE \A u, v \in InFlight' : u = v
  <2>1. \A u \in Turns : u # t => pc'[u] = "free" BY <1>2, <1>4
  <2>. QED BY <2>1 DEF InFlight
<1>5. AloneInv' BY <1>3, <1>4 DEF AloneInv
<1>. QED BY <1>1, <1>5

\* A step of a turn keeps the invariant,
LEMMA TurnKept ==
  ASSUME Types, FreeInv, AloneInv, NEW t \in Turns, TurnStep(t) \/ Consent(t)
  PROVE  Types' /\ FreeInv' /\ AloneInv'
<1>0. /\ voice[t] # "none" => pc[t] \notin {"free", "authorize"}
      /\ alone => Solo(t)
      /\ alone => made = 0 \/ (made = 1 /\ state \in {"done", "error"})
  BY DEF FreeInv, AloneInv
<1>1. CASE Reply(t)
  <2>1. /\ Types' /\ OthersKept(t) /\ alone' = alone /\ made' = made
        /\ pc[t] \in {"greet", "reply"} /\ pc'[t] \in {"say", "say_done"}
        /\ args'[t] = args[t] /\ current'[t] = current[t]
    BY <1>1, ReplyStep
  <2>2. alone => made = 0 /\ current[t] BY <1>0, <2>1 DEF Solo, Over
  <2>3. alone => Solo(t)' BY <1>0, <2>1, <2>2 DEF Solo
  <2>. QED BY <2>1, <2>2, <2>3, SoloKept
<1>2. CASE ReplyFails(t)
  <2>1. /\ Types' /\ OthersKept(t) /\ UNCHANGED <<alone, made, slots>>
        /\ pc[t] \in {"greet", "reply"} /\ pc'[t] = "sorry"
        /\ args'[t] = args[t] /\ current'[t] = current[t]
    BY <1>2, ReplyFailsStep
  <2>2. alone => made = 0 /\ current[t] BY <1>0, <2>1 DEF Solo, Over
  <2>3. alone => Solo(t)' BY <1>0, <2>1, <2>2 DEF Solo
  <2>. QED BY <2>1, <2>2, <2>3, SoloKept
<1>3. CASE Sounds(t)
  <2>1. /\ Types' /\ OthersKept(t) /\ UNCHANGED <<alone, made, slots, state>>
        /\ voice[t] # "none" /\ pc'[t] = pc[t]
        /\ args'[t] = args[t] /\ current'[t] = current[t]
    BY <1>3, SoundsStep
  <2>2. alone => Solo(t)' BY <1>0, <2>1 DEF Solo, SlotsComplete
  <2>. QED BY <1>0, <2>1, <2>2, SoloKept
<1>4. CASE Spoken(t)
  <2>1. /\ Types' /\ OthersKept(t) /\ UNCHANGED <<alone, made, slots>>
        /\ voice[t] # "none" /\ (pc'[t] = "authorize" => voice'[t] = "none")
        /\ \/ pc'[t] = "free" /\ voice'[t] = "none" /\ args'[t] = "none"
              /\ (pc[t] \in Over => state' = state)
           \/ /\ pc[t] = "say_done" /\ pc'[t] = "say_creating" /\ SlotsComplete
              /\ args'[t] = args[t] /\ current'[t] = current[t]
           \/ /\ pc[t] = "say_creating" /\ pc'[t] \in {"post", "authorize", "say_failed"}
              /\ (SlotsComplete => args'[t] = "complete") /\ current'[t] = current[t]
    BY <1>4, SpokenStep
  <2>2. alone => Solo(t)' BY <1>0, <2>1 DEF Solo, SlotsComplete, Over
  <2>3. alone => made' = 0 \/ (made' = 1 /\ state' \in {"done", "error"})
    BY <1>0, <2>1 DEF Solo, Over
  <2>. QED BY <1>0, <2>1, <2>2, <2>3, SoloKept
<1>5. CASE SpeechFails(t)
  <2>1. /\ Types' /\ OthersKept(t) /\ UNCHANGED <<alone, made, slots>>
        /\ voice[t] # "none"
        /\ \/ pc'[t] = "free" /\ voice'[t] = "none" /\ args'[t] = "none"
              /\ state' = state
           \/ pc'[t] \in {"sorry", "say_failed"} /\ state' = "error"
              /\ args'[t] = args[t] /\ current'[t] = current[t]
    BY <1>5, SpeechFailsStep
  <2>2. alone => Solo(t)' BY <1>0, <2>1 DEF Solo, Over
  <2>3. alone => made' = 0 \/ (made' = 1 /\ state' \in {"done", "error"})
    BY <1>0, <2>1
  <2>. QED BY <1>0, <2>1, <2>2, <2>3, SoloKept
<1>6. CASE Created(t)
  <2>1. /\ Types' /\ OthersKept(t) /\ UNCHANGED <<alone, slots>>
        /\ pc[t] = "post" /\ pc'[t] = "say_created" /\ state' = "done"
        /\ args'[t] = args[t] /\ current'[t] = current[t] /\ made' \in {made, made + 1}
    BY <1>6, CreatedStep
  <2>2. alone => made = 0 /\ current[t] BY <1>0, <2>1 DEF Solo, Over
  <2>3. alone => Solo(t)' BY <1>0, <2>1, <2>2 DEF Solo, Over
  <2>4. alone => made' = 0 \/ (made' = 1 /\ state' \in {"done", "error"})
    BY <2>1, <2>2
  <2>. QED BY <2>1, <2>3, <2>4, SoloKept
<1>7. CASE CreateFails(t)
  <2>1. /\ Types' /\ OthersKept(t) /\ UNCHANGED <<alone, slots>>
        /\ pc[t] = "post" /\ pc'[t] = "say_failed" /\ state' = "error"
        /\ args'[t] = args[t] /\ current'[t] = current[t] /\ made' \in {made, made + 1}
    BY <1>7, CreateFailsStep
  <2>2. alone => made = 0 /\ current[t] BY <1>0, <2>1 DEF Solo, Over
  <2>3. alone => Solo(t)' BY <1>0, <2>1, <2>2 DEF Solo, Over
  <2>4. alone => made' = 0 \/ (made' = 1 /\ state' \in {"done", "error"})
    BY <2>1, <2>2
  <2>. QED BY <2>1, <2>3, <2>4, SoloKept
<1>8. CASE Consent(t)
  <2>1. /\ Types' /\ OthersKept(t) /\ UNCHANGED <<alone, made, slots>>
        /\ pc[t] = "authorize" /\ pc'[t] \in {"post", "say_failed"}
        /\ args'[t] = args[t] /\ current'[t] = current[t]
    BY <1>8, ConsentStep
  <2>2. alone => made = 0 /\ current[t] BY <1>0, <2>1 DEF Solo, Over
  <2>3. alone => Solo(t)' BY <1>0, <2>1, <2>2 DEF Solo
  <2>. QED BY <2>1, <2>2, <2>3, SoloKept
<1>. QED BY <1>1, <1>2, <1>3, <1>4, <1>5, <1>6, <1>7, <1>8 DEF TurnStep

\* Start, Reset: a new conversation, alone if no turn is on its way.
LEMMA StartKept ==
  ASSUME Types, FreeInv, AloneInv, NEW t \in Turns, Start(t)
  PROVE  Types' /\ FreeInv' /\ AloneInv'
<1>1. /\ pc[t] = "free" /\ state' = "talking" /\ slots' = NoSlots
      /\ made' = 0
      /\ pc' = [pc EXCEPT ![t] = "greet"]
      /\ agentSessionActive' = TRUE /\ startEnabled' = FALSE /\ resetEnabled' = TRUE
      /\ current' = [u \in Turns |-> u = t]
      /\ alone' = (InFlight = {})
      /\ UNCHANGED <<voice, args, waiting, token, button>>
  BY DEF Start, NewSession, InFlight
<1>3. alone' \in BOOLEAN BY <1>1
<1>4. current' \in [Turns -> BOOLEAN] /\ current'[t] BY <1>1
<1>5. pc' \in [Turns -> Awaits] BY <1>1 DEF Types, Awaits
<1>6. Types'
  <2>1. /\ state' \in {"idle", "talking", "creating", "done", "error"}
        /\ made' \in 0 .. 2
    BY <1>1
  <2>2. slots' \in [name : Slot, dateTime : Slot] BY <1>1, NoSlotsType
  <2>3. pc' \in [Turns -> Awaits] /\ voice' \in [Turns -> Voices]
    BY <1>1, <1>5 DEF Types
  <2>4. /\ args' \in [Turns -> Requests] /\ waiting' \in Seq(Callers)
        /\ token' \in BOOLEAN /\ button' \in {"off", "ready", "asking", "done"}
    BY <1>1 DEF Types
  <2>5. /\ agentSessionActive' \in BOOLEAN /\ startEnabled' \in BOOLEAN
        /\ resetEnabled' \in BOOLEAN
    BY <1>1
  <2>. QED BY <1>3, <1>4, <2>1, <2>2, <2>3, <2>4, <2>5 DEF Types
<1>7. \A u \in Turns : pc'[u] = IF u = t THEN "greet" ELSE pc[u] BY <1>1 DEF Types
<1>8. FreeInv' BY <1>1, <1>7 DEF FreeInv
<1>9. ASSUME alone', NEW u \in Turns PROVE Solo(u)' /\ (u # t => pc'[u] = "free")
  <2>1. pc[u] = "free" BY <1>1, <1>9 DEF InFlight
  <2>2. args'[u] = "none" BY <1>1, <2>1 DEF FreeInv
  <2>. QED BY <1>1, <1>4, <1>7, <2>1, <2>2 DEF Solo
<1>10. AloneInv' BY <1>1, <1>9 DEF AloneInv, InFlight
<1>. QED BY <1>6, <1>8, <1>10

\* a reset keeps it,
LEMMA ResetKept ==
  ASSUME Types, FreeInv, AloneInv, Reset
  PROVE  Types' /\ FreeInv' /\ AloneInv'
<1>1. /\ state' = "idle" /\ slots' = NoSlots
      /\ made' = 0
      /\ voice' = Cancelled
      /\ agentSessionActive' = FALSE /\ startEnabled' = TRUE /\ resetEnabled' = FALSE
      /\ current' = [u \in Turns |-> FALSE]
      /\ alone' = (InFlight = {})
      /\ UNCHANGED <<pc, args, waiting, token, button>>
  BY DEF Reset, NewSession
<1>3. alone' \in BOOLEAN BY <1>1
<1>4. current' \in [Turns -> BOOLEAN] BY <1>1
<1>5. /\ voice' \in [Turns -> Voices]
      /\ \A u \in Turns : voice[u] = "none" => voice'[u] = "none"
  BY <1>1, CancelledType DEF Types
<1>6. Types'
  <2>1. /\ state' \in {"idle", "talking", "creating", "done", "error"}
        /\ made' \in 0 .. 2
    BY <1>1
  <2>2. slots' \in [name : Slot, dateTime : Slot] BY <1>1, NoSlotsType
  <2>3. pc' \in [Turns -> Awaits] /\ voice' \in [Turns -> Voices]
    BY <1>1, <1>5 DEF Types
  <2>4. /\ args' \in [Turns -> Requests] /\ waiting' \in Seq(Callers)
        /\ token' \in BOOLEAN /\ button' \in {"off", "ready", "asking", "done"}
    BY <1>1 DEF Types
  <2>5. /\ agentSessionActive' \in BOOLEAN /\ startEnabled' \in BOOLEAN
        /\ resetEnabled' \in BOOLEAN
    BY <1>1
  <2>. QED BY <1>3, <1>4, <2>1, <2>2, <2>3, <2>4, <2>5 DEF Types
<1>7. FreeInv' BY <1>1, <1>5 DEF FreeInv
<1>8. ASSUME alone', NEW u \in Turns PROVE Solo(u)' /\ pc'[u] = "free"
  <2>1. pc[u] = "free" BY <1>1, <1>8 DEF InFlight
  <2>2. args'[u] = "none" BY <1>1, <2>1 DEF FreeInv
  <2>. QED BY <1>1, <2>1, <2>2 DEF Solo
<1>9. AloneInv' BY <1>1, <1>8 DEF AloneInv, InFlight
<1>. QED BY <1>6, <1>7, <1>9

\* the start of a turn by the poll keeps it,
LEMMA PollKept ==
  ASSUME Types, FreeInv, AloneInv, NEW t \in Turns, Poll(t)
  PROVE  Types' /\ FreeInv' /\ AloneInv'
<1>1. /\ state \in {"talking", "creating"} /\ pc[t] = "free"
      /\ pc' = [pc EXCEPT ![t] = "reply"]
      /\ current' = [current EXCEPT ![t] = TRUE]
      /\ alone' = (alone /\ InFlight = {})
      /\ UNCHANGED <<state, slots, voice, args, waiting, token, pageVars, made>>
  BY DEF Poll, ActiveStates, InFlight
<1>2. alone' \in BOOLEAN
  <2>. DEFINE nobody == InFlight = {}
  <2>1. alone \in BOOLEAN /\ nobody \in BOOLEAN BY DEF Types
  <2>2. alone' = (alone /\ nobody) BY <1>1
  <2>. HIDE DEF nobody
  <2>. QED BY <2>1, <2>2
<1>3. pc' \in [Turns -> Awaits] /\ current' \in [Turns -> BOOLEAN]
  BY <1>1 DEF Types, Awaits
<1>4. Types' BY <1>1, <1>2, <1>3 DEF Types, pageVars
<1>5. \A u \in Turns : pc'[u] = IF u = t THEN "reply" ELSE pc[u] BY <1>1 DEF Types
<1>6. FreeInv' BY <1>1, <1>5 DEF FreeInv
<1>7. ASSUME alone'
      PROVE  made' = 0 /\ \A u \in Turns : pc[u] = "free" /\ Solo(u)
  <2>1. alone /\ InFlight = {} BY <1>1, <1>7
  <2>. QED BY <1>1, <2>1 DEF AloneInv, InFlight
<1>8. ASSUME alone', NEW u \in Turns PROVE Solo(u)' /\ (u # t => pc'[u] = "free")
  <2>1. pc[u] = "free" /\ args[u] \in {"none", "complete"} BY <1>7, <1>8 DEF Solo
  <2>2. u = t => current'[u] BY <1>1 DEF Types
  <2>. QED BY <1>1, <1>5, <1>7, <1>8, <2>1, <2>2 DEF Solo
<1>9. AloneInv' BY <1>7, <1>8 DEF AloneInv, InFlight
<1>. QED BY <1>4, <1>6, <1>9

\* and so does what leaves the conversation alone.
Aloof ==
  UNCHANGED <<state, slots, pc, voice, args, agentSessionActive, resetEnabled, history>>

LEMMA AloofSteps ==
  ASSUME Types,
         \/ StoreFS \/ Bootstrap \/ AuthClick \/ AuthAnswered \/ TokenExpires
         \/ UNCHANGED vars
  PROVE  Aloof /\ Types'
<1>1. /\ Aloof /\ token' \in BOOLEAN /\ startEnabled' \in BOOLEAN
      /\ button' \in {"off", "ready", "asking", "done"}
  BY DEF Aloof, StoreFS, Bootstrap, AuthClick, AuthAnswered, TokenExpires, vars, pageVars,
         Types
<1>2. waiting' \in Seq(Callers)
  <2>1. CASE AuthClick BY <2>1 DEF AuthClick, Installed, Types, Callers
  <2>2. CASE AuthAnswered BY <2>2, Popped DEF AuthAnswered, Answered, Types
  <2>3. CASE UNCHANGED waiting BY <2>3 DEF Types
  <2>. QED BY <2>1, <2>2, <2>3 DEF StoreFS, Bootstrap, TokenExpires, vars
<1>3. Types' BY <1>1, <1>2 DEF Aloof, Types, history
<1>. QED BY <1>1, <1>3

LEMMA AloofKept ==
  ASSUME FreeInv, AloneInv, Aloof
  PROVE  FreeInv' /\ AloneInv'
<1>1. UNCHANGED <<state, slots, pc, voice, args, current, alone, made>>
  BY DEF Aloof, history
<1>2. FreeInv' BY <1>1 DEF FreeInv
<1>3. AloneInv' BY <1>1 DEF AloneInv, InFlight, Solo, SlotsComplete
<1>. QED BY <1>2, <1>3

-----------------------------------------------------------------------------
(* The callbacks of authorize()                                            *)

\* Nobody begins or ceases to ask.
LEMMA NooneAsks ==
  ASSUME CallbacksKept, UNCHANGED waiting, \A c \in Callers : Asks(c)' <=> Asks(c)
  PROVE  CallbacksKept'
BY DEF CallbacksKept

\* A caller that begins to ask installs its callback.
LEMMA Pushed ==
  ASSUME Types, CallbacksKept, NEW c \in Callers, ~Asks(c), waiting' = Installed(c),
         \A d \in Callers : Asks(d)' <=> d = c \/ Asks(d)
  PROVE  CallbacksKept'
<1>. DEFINE n == Len(waiting)
<1>1. /\ n \in Nat /\ Len(waiting') = n + 1 /\ waiting'[n + 1] = c
      /\ \A i \in 1 .. n : waiting'[i] = waiting[i]
  BY DEF Types, Installed
<1>2. \A i \in 1 .. n : waiting[i] \in Callers /\ Asks(waiting[i]) /\ waiting[i] # c
  BY DEF CallbacksKept
<1>3. \A d \in Callers : Asks(d) => \E i \in 1 .. n : waiting[i] = d
  BY DEF CallbacksKept
<1>4. \A i, j \in 1 .. n : waiting[i] = waiting[j] => i = j BY DEF CallbacksKept
<1>. HIDE DEF n
<1>5. 1 .. n + 1 = (1 .. n) \cup {n + 1} BY <1>1
<1>6. \A i, j \in 1 .. Len(waiting') : waiting'[i] = waiting'[j] => i = j
  BY <1>1, <1>2, <1>4, <1>5
<1>7. \A i \in 1 .. Len(waiting') : waiting'[i] \in {d \in Callers : Asks(d)'}
  BY <1>1, <1>2, <1>5
<1>8. ASSUME NEW d \in Callers, Asks(d)'
      PROVE  \E i \in 1 .. Len(waiting') : waiting'[i] = d
  <2>1. CASE d = c BY <1>1, <1>5, <2>1
  <2>2. CASE d # c
    <3>1. PICK i \in 1 .. n : waiting[i] = d BY <1>3, <1>8, <2>2
    <3>. QED BY <1>1, <1>5, <3>1
  <2>. QED BY <2>1, <2>2
<1>9. {waiting'[i] : i \in 1 .. Len(waiting')} = {d \in Callers : Asks(d)'}
  BY <1>7, <1>8
<1>. QED BY <1>6, <1>9 DEF CallbacksKept

\* The first k members of a sequence.
LEMMA FirstOnes ==
  ASSUME NEW S, NEW q \in Seq(S), NEW k \in 0 .. Len(q)
  PROVE  /\ Len(SubSeq(q, 1, k)) = k
         /\ \A i \in 1 .. k : SubSeq(q, 1, k)[i] = q[i]
<1>1. k \in Nat /\ Len(q) \in Nat /\ k <= Len(q) OBVIOUS
<1>2. Len(SubSeq(q, 1, k)) = k BY <1>1
<1>3. ASSUME NEW i \in 1 .. k PROVE SubSeq(q, 1, k)[i] = q[i] BY <1>1
<1>. QED BY <1>2, <1>3

\* A caller that is answered takes its callback, the last, away.
LEMMA Answers ==
  ASSUME Types, CallbacksKept, NEW c \in Callers, Answered(c),
         \A d \in Callers : Asks(d)' <=> d # c /\ Asks(d)
  PROVE  CallbacksKept'
<1>. DEFINE n == Len(waiting)
<1>1. /\ n \in Nat \ {0} /\ waiting[n] = c
      /\ Len(waiting') = n - 1 /\ \A i \in 1 .. n - 1 : waiting'[i] = waiting[i]
  <2>1. waiting # <<>> /\ waiting[n] = c /\ waiting' = SubSeq(waiting, 1, n - 1)
    BY DEF Answered, Restored
  <2>2. waiting \in Seq(Callers) /\ n \in Nat \ {0} BY <2>1 DEF Types
  <2>3. n - 1 \in 0 .. n BY <2>2
  <2>4. /\ Len(SubSeq(waiting, 1, n - 1)) = n - 1
        /\ \A i \in 1 .. n - 1 : SubSeq(waiting, 1, n - 1)[i] = waiting[i]
    BY <2>2, <2>3, FirstOnes
  <2>. HIDE DEF n
  <2>. QED BY <2>1, <2>2, <2>4
<1>2. \A i \in 1 .. n : waiting[i] \in Callers /\ Asks(waiting[i])
  BY DEF CallbacksKept
<1>3. \A d \in Callers : Asks(d) => \E i \in 1 .. n : waiting[i] = d
  BY DEF CallbacksKept
<1>4. \A i, j \in 1 .. n : waiting[i] = waiting[j] => i = j BY DEF CallbacksKept
<1>. HIDE DEF n
<1>5. n \in 1 .. n /\ \A i \in 1 .. n : i # n <=> i \in 1 .. n - 1 BY <1>1
<1>6. \A i \in 1 .. n - 1 : i \in 1 .. n BY <1>1
<1>7. \A i, j \in 1 .. Len(waiting') : waiting'[i] = waiting'[j] => i = j
  BY <1>1, <1>4, <1>6
<1>8. \A i \in 1 .. Len(waiting') : waiting'[i] \in {d \in Callers : Asks(d)'}
  BY <1>1, <1>2, <1>4, <1>5, <1>6
<1>9. \A d \in Callers : Asks(d)' => \E i \in 1 .. Len(waiting') : waiting'[i] = d
  BY <1>1, <1>3, <1>5
<1>10. {waiting'[i] : i \in 1 .. Len(waiting')} = {d \in Callers : Asks(d)'}
  BY <1>8, <1>9
<1>. QED BY <1>7, <1>10 DEF CallbacksKept

\* Who asks, when only turn t moves.
LEMMA AsksOthers ==
  ASSUME NEW t \in Turns, OthersKept(t), UNCHANGED button
  PROVE  /\ \A c \in Callers \ {t} : Asks(c)' <=> Asks(c)
         /\ Asks(t) <=> pc[t] = "authorize"
         /\ Asks(t)' <=> pc'[t] = "authorize"
<1>1. t # Button BY TurnsAssumption
<1>. QED BY <1>1 DEF OthersKept, Asks, Callers

\* A step of a turn that neither asks nor is answered.
LEMMA Unasked ==
  ASSUME CallbacksKept, NEW t \in Turns, OthersKept(t), UNCHANGED <<waiting, button>>,
         pc[t] # "authorize", pc'[t] # "authorize"
  PROVE  CallbacksKept'
BY AsksOthers, NooneAsks

LEMMA CallbacksOfTurn ==
  ASSUME Types, CallbacksKept, NEW t \in Turns, TurnStep(t) \/ Consent(t), FreeInv
  PROVE  CallbacksKept'
<1>0. voice[t] # "none" => pc[t] # "authorize" BY DEF FreeInv
<1>1. CASE Reply(t)
  BY <1>1, ReplyStep, Unasked DEF Reply, pageVars
<1>2. CASE ReplyFails(t)
  BY <1>2, ReplyFailsStep, Unasked DEF ReplyFails, pageVars
<1>3. CASE Sounds(t)
  BY <1>0, <1>3, SoundsStep, Unasked DEF Sounds, pageVars
<1>4. CASE Spoken(t)
  <2>1. /\ OthersKept(t) /\ UNCHANGED button
        /\ pc[t] # "authorize" /\ (pc'[t] = "authorize" => pc[t] = "say_creating")
    BY <1>0, <1>4, SpokenStep DEF Spoken
  <2>2. CASE pc'[t] # "authorize"
    <3>1. UNCHANGED waiting
      BY <1>4, <2>2 DEF Spoken, Request, Types
    <3>. QED BY <2>1, <2>2, <3>1, Unasked
  <2>3. CASE pc'[t] = "authorize"
    <3>1. Request(t) BY <1>4, <2>1, <2>3 DEF Spoken
    <3>2. waiting' = Installed(t)
      BY <2>3, <3>1 DEF Request, Fail, Say, Types
    <3>3. t \in Callers /\ \A d \in Callers : Asks(d)' <=> d = t \/ Asks(d)
      BY <2>1, <2>3, AsksOthers DEF Callers
    <3>4. ~Asks(t) BY <2>1, AsksOthers
    <3>. QED BY <3>2, <3>3, <3>4, Pushed
  <2>. QED BY <2>2, <2>3
<1>5. CASE SpeechFails(t)
  <2>1. OthersKept(t) /\ pc'[t] # "authorize" BY <1>5, SpeechFailsStep
  <2>2. UNCHANGED <<waiting, button>> BY <1>5 DEF SpeechFails, pageVars
  <2>3. pc[t] # "authorize" BY <1>0, <1>5, SpeechFailsStep
  <2>. QED BY <2>1, <2>2, <2>3, Unasked
<1>6. CASE Created(t)
  BY <1>6, CreatedStep, Unasked DEF Created, pageVars
<1>7. CASE CreateFails(t)
  BY <1>7, CreateFailsStep, Unasked DEF CreateFails, pageVars
<1>8. CASE Consent(t)
  <2>1. OthersKept(t) /\ pc[t] = "authorize" /\ pc'[t] # "authorize"
    BY <1>8, ConsentStep
  <2>2. Answered(t) /\ UNCHANGED button BY <1>8 DEF Consent, pageVars
  <2>3. t \in Callers /\ \A d \in Callers : Asks(d)' <=> d # t /\ Asks(d)
    BY <2>1, <2>2, AsksOthers DEF Callers
  <2>. QED BY <2>2, <2>3, Answers
<1>. QED BY <1>1, <1>2, <1>3, <1>4, <1>5, <1>6, <1>7, <1>8 DEF TurnStep

\* What a conversation begins and ends with, and the button, which asks by itself.
LEMMA CallbacksOfPage ==
  ASSUME Types, CallbacksKept,
         \/ Reset \/ StoreFS \/ Bootstrap \/ AuthClick \/ AuthAnswered \/ TokenExpires
         \/ UNCHANGED vars
         \/ \E t \in Turns : Start(t) \/ Poll(t)
  PROVE  CallbacksKept'
<1>1. CASE AuthClick
  <2>1. Button \in Callers /\ ~Asks(Button) BY <1>1 DEF AuthClick, Callers, Asks
  <2>2. CASE token
    <3>1. \A c \in Callers : Asks(c)' <=> Asks(c) BY <1>1, <2>2 DEF AuthClick, Asks
    <3>. QED BY <1>1, <2>2, <3>1, NooneAsks DEF AuthClick
  <2>3. CASE ~token
    <3>1. \A c \in Callers : Asks(c)' <=> c = Button \/ Asks(c)
      BY <1>1, <2>3 DEF AuthClick, Asks
    <3>. QED BY <1>1, <2>1, <2>3, <3>1, Pushed DEF AuthClick
  <2>. QED BY <2>2, <2>3
<1>2. CASE AuthAnswered
  <2>1. Button \in Callers /\ Answered(Button) BY <1>2 DEF AuthAnswered, Callers
  <2>2. \A c \in Callers : Asks(c)' <=> c # Button /\ Asks(c)
    BY <1>2 DEF AuthAnswered, Asks
  <2>. QED BY <2>1, <2>2, Answers
<1>3. CASE Reset \/ StoreFS \/ Bootstrap \/ TokenExpires \/ UNCHANGED vars
  <2>1. UNCHANGED <<pc, waiting>> /\ (button' = "asking" <=> button = "asking")
    BY <1>3 DEF Reset, StoreFS, Bootstrap, TokenExpires, vars, pageVars
  <2>2. \A c \in Callers : Asks(c)' <=> Asks(c) BY <2>1 DEF Asks
  <2>. QED BY <2>1, <2>2, NooneAsks
<1>4. CASE \E t \in Turns : Start(t) \/ Poll(t)
  <2>1. PICK t \in Turns, await \in {"greet", "reply"} :
          /\ pc[t] = "free" /\ pc' = [pc EXCEPT ![t] = await]
          /\ UNCHANGED <<waiting, button>>
    BY <1>4 DEF Start, Poll, InFlight, pageVars
  <2>2. \A u \in Turns : pc'[u] = "authorize" <=> pc[u] = "authorize"
    BY <2>1 DEF Types
  <2>3. \A c \in Callers : Asks(c)' <=> Asks(c) BY <2>1, <2>2 DEF Asks, Callers
  <2>. QED BY <2>1, <2>3, NooneAsks
<1>. QED BY <1>1, <1>2, <1>3, <1>4

LEMMA CallbacksStep ==
  ASSUME Types, FreeInv, CallbacksKept, [Next]_vars
  PROVE  CallbacksKept'
BY CallbacksOfTurn, CallbacksOfPage DEF Next

\* A stack with each of the callers once at most is no higher than they are many.
LEMMA StackBound ==
  ASSUME waiting \in Seq(Callers), CallbacksKept
  PROVE  Len(waiting) <= Cardinality(Callers)
<1>1. IsFiniteSet(Callers) BY TurnsAssumption, FS_AddElement DEF Callers
<1>2. Cardinality(Callers) \in Nat BY <1>1, FS_CardinalityType
<1>3. /\ Len(waiting) \in Nat /\ IsFiniteSet(1 .. Len(waiting))
      /\ Cardinality(1 .. Len(waiting)) = Len(waiting)
  <2>1. Len(waiting) \in Nat OBVIOUS
  <2>. QED BY <2>1, FS_Interval
<1>4. ASSUME Cardinality(Callers) < Cardinality(1 .. Len(waiting)) PROVE FALSE
  <2>1. waiting \in [1 .. Len(waiting) -> Callers] OBVIOUS
  <2>2. \E i, j \in 1 .. Len(waiting) : i # j /\ waiting[i] = waiting[j]
    BY <1>1, <1>3, <1>4, <2>1, FS_PigeonHole
  <2>. QED BY <2>2 DEF CallbacksKept
<1>. QED BY <1>2, <1>3, <1>4

\* The invariant holds in every behaviour.
LEMMA Invariance == Spec => []AgentInv
<1>1. Init => AgentInv
  <2> SUFFICES ASSUME Init PROVE AgentInv
    OBVIOUS
  <2>1. Types
    <3>1. pc \in [Turns -> Awaits] BY DEF Init, Awaits
    <3>2. voice \in [Turns -> Voices] /\ args \in [Turns -> Requests]
      BY DEF Init, Voices, Requests
    <3>3. slots \in [name : Slot, dateTime : Slot]
      BY NoSlotsType DEF Init
    <3>4. /\ state \in {"idle", "talking", "creating", "done", "error"}
          /\ waiting \in Seq(Callers) /\ made \in 0 .. 2
          /\ current \in [Turns -> BOOLEAN]
      BY DEF Init
    <3>5. /\ token \in BOOLEAN /\ agentSessionActive \in BOOLEAN
          /\ startEnabled \in BOOLEAN /\ resetEnabled \in BOOLEAN
          /\ button \in {"off", "ready", "asking", "done"} /\ alone \in BOOLEAN
      BY DEF Init
    <3>. QED BY <3>1, <3>2, <3>3, <3>4, <3>5 DEF Types
  <2>2. FreeInv BY DEF Init, FreeInv
  <2>3. AloneInv BY DEF Init, AloneInv, InFlight, Solo
  <2>4. CallbacksKept BY DEF Init, CallbacksKept, Asks, Callers
  <2>. QED BY <2>1, <2>2, <2>3, <2>4 DEF AgentInv
<1>2. AgentInv /\ [Next]_vars => AgentInv'
  <2> SUFFICES ASSUME AgentInv, [Next]_vars PROVE AgentInv'
    OBVIOUS
  <2>1. Types /\ FreeInv /\ AloneInv /\ CallbacksKept BY DEF AgentInv
  <2>2. Types' /\ FreeInv' /\ AloneInv'
    BY <2>1, StartKept, ResetKept, PollKept, TurnKept, AloofSteps, AloofKept DEF Next
  <2>3. CallbacksKept' BY <2>1, CallbacksStep
  <2>. QED BY <2>2, <2>3 DEF AgentInv
<1>. QED BY <1>1, <1>2, PTL DEF Spec

-----------------------------------------------------------------------------

(***************************************************************************)
(* Every state of a run has the types named; in particular there are never  *)
(* more callbacks installed than calls that may ask for a consent           *)
(* (Calendar.authorize).                                                    *)
(***************************************************************************)
THEOREM TypeCorrect == Spec => []TypeOK
<1>1. AgentInv => TypeOK
  <2> SUFFICES ASSUME AgentInv PROVE TypeOK
    OBVIOUS
  <2>1. Types /\ CallbacksKept BY DEF AgentInv
  <2>2. Len(waiting) <= Cardinality(Callers) BY <2>1, StackBound DEF Types
  <2>. QED BY <2>1, <2>2 DEF Types, TypeOK, Voices, Requests
<1>. QED BY <1>1, Invariance, PTL

(***************************************************************************)
(* What a conversation of one turn at a time asks of the calendar has a     *)
(* name and a date that parses (handleTranscript, _createEvent).            *)
(***************************************************************************)
THEOREM RequestsAreComplete == Spec => []RequestsComplete
<1>1. AgentInv => RequestsComplete
  BY DEF AgentInv, AloneInv, Solo, RequestsComplete
<1>. QED BY <1>1, Invariance, PTL

(***************************************************************************)
(* Such a conversation creates at most one event (ACTIVE_STATES).           *)
(***************************************************************************)
THEOREM AtMostOneEvent == Spec => []OneEvent
<1>1. AgentInv => OneEvent BY DEF AgentInv, AloneInv, OneEvent
<1>. QED BY <1>1, Invariance, PTL

(***************************************************************************)
(* However many popups are open, whoever awaits a consent has its callback  *)
(* installed, once, and nobody else has (Calendar.authorize).               *)
(***************************************************************************)
THEOREM CallbacksAreKept == Spec => []CallbacksKept
<1>1. AgentInv => CallbacksKept BY DEF AgentInv
<1>. QED BY <1>1, Invariance, PTL

-----------------------------------------------------------------------------
(* The end of a turn                                                       *)

\* The awaits a turn leaves by a step that fairness promises.
Underway(t) == pc[t] \notin {"free", "authorize"}

\* Those at which it speaks.
Speeches == {"say", "say_done", "say_creating", "say_created", "say_failed", "sorry"}

\* How far an await is from the end of the turn, at most.
Distance(await) ==
  CASE await \in {"greet", "reply"} -> 7
    [] await = "say_done"     -> 6
    [] await = "say_creating" -> 5
    [] await = "post"         -> 4
    [] await = "say_created"  -> 3
    [] await \in {"say", "say_failed"} -> 2
    [] await = "sorry"        -> 1
    [] OTHER -> 0

\* A speech that does not sound yet is one step more.
Rank(t) ==
  IF Underway(t) THEN 2 * Distance(pc[t]) + (IF voice[t] = "pending" THEN 1 ELSE 0)
  ELSE 0

\* Nothing is lost: a turn that waits for its speech has one, which will end or fail.
SpeechInv == \A t \in Turns : pc[t] \in Speeches => voice[t] # "none"

\* What a turn does next it can do.
CanStep(t) == pc[t] \in {"greet", "reply", "post"} \/ voice[t] # "none"

TurnsCanStep == \A t \in Turns : Underway(t) => CanStep(t)

\* No step takes a turn away from its end, least of all those of other turns, which
\* may cancel its speech, and each of its own brings it nearer.
TurnsAdvance ==
  [][\A t \in Turns : Underway(t) => /\ Rank(t)' <= Rank(t)
                                     /\ TurnStep(t) => Rank(t)' < Rank(t)]_vars

\* A step that turn t takes does no more to the others than cut their speeches short.
Aside(t) ==
  \A u \in Turns \ {t} :
    /\ pc'[u] = pc[u]
    /\ voice'[u] = "pending" => voice[u] = "pending"
    /\ voice'[u] = "none" => voice[u] = "none"

LEMMA CancelledSpeech ==
  ASSUME Types, NEW u \in Turns
  PROVE  Cancelled[u] # "pending" /\ (Cancelled[u] = "none" => voice[u] = "none")
BY DEF Cancelled, Types

\* A turn says something and waits for the end of it.
LEMMA SayAside ==
  ASSUME Types, NEW t \in Turns, NEW await, Say(t, await)
  PROVE  Aside(t) /\ pc'[t] = await /\ voice'[t] = "pending"
<1>1. /\ voice' = [Cancelled EXCEPT ![t] = "pending"]
      /\ pc' = [pc EXCEPT ![t] = await]
  BY DEF Say
<1>2. DOMAIN Cancelled = Turns BY DEF Cancelled
<1>. HIDE DEF Cancelled
<1>3. voice'[t] = "pending" /\ \A u \in Turns \ {t} : voice'[u] = Cancelled[u]
  BY <1>1, <1>2
<1>4. pc'[t] = await /\ \A u \in Turns \ {t} : pc'[u] = pc[u] BY <1>1 DEF Types
<1>. QED BY <1>3, <1>4, CancelledSpeech DEF Aside

\* The turn is over.
LEMMA FinishAside ==
  ASSUME Types, NEW t \in Turns, Finish(t)
  PROVE  Aside(t) /\ pc'[t] = "free"
BY DEF Finish, Types, Aside

\* Every await that can be left is at some distance.
LEMMA DistanceType ==
  ASSUME Types, NEW t \in Turns
  PROVE  /\ Distance(pc[t]) \in 0 .. 7
         /\ Underway(t) => Distance(pc[t]) > 0
BY DEF Types, Awaits, Distance, Underway

LEMMA RankType ==
  ASSUME NEW t \in Turns
  PROVE  /\ Types => Rank(t) \in 0 .. 15 /\ (Rank(t) = 0 => ~Underway(t))
         /\ Types' => Rank(t)' \in 0 .. 15
<1>1. Types => /\ Distance(pc[t]) \in 0 .. 7
               /\ Underway(t) => Distance(pc[t]) > 0
  BY DistanceType
<1>2. Types' => Distance(pc[t])' \in 0 .. 7 BY DEF Types, Awaits, Distance
<1>. HIDE DEF Distance
<1>. QED BY <1>1, <1>2 DEF Rank

\* Shorter ways have lower ranks, whatever is to be said on them.
LEMMA Nearer ==
  ASSUME Types, Types', NEW t \in Turns, Underway(t),
         Underway(t)' => Distance(pc[t])' < Distance(pc[t])
  PROVE  Rank(t)' < Rank(t)
<1>1. Distance(pc[t]) \in 1 .. 7 BY DistanceType
<1>2. Distance(pc[t])' \in 0 .. 7 BY DEF Types, Awaits, Distance
<1>. HIDE DEF Distance
<1>3. CASE ~Underway(t)' BY <1>1, <1>3 DEF Rank
<1>4. CASE Underway(t)' BY <1>1, <1>2, <1>4 DEF Rank
<1>. QED BY <1>3, <1>4

\* The facts about a step of turn t the proofs need.
Moves(t) ==
  /\ Aside(t)
  /\ Underway(t) => Rank(t)' < Rank(t)
  /\ pc'[t] \in Speeches => voice'[t] # "none"

\* An answer, or none.
LEMMA ReplyMoves ==
  ASSUME Types, NEW t \in Turns, Reply(t) \/ ReplyFails(t)
  PROVE  Moves(t)
<1>1. PICK await \in {"say", "say_done", "sorry"} : Say(t, await)
  BY DEF Reply, ReplyFails, Fail
<1>2. pc[t] \in {"greet", "reply"} BY DEF Reply, ReplyFails
<1>3. Aside(t) /\ pc'[t] = await /\ voice'[t] = "pending" BY <1>1, SayAside
<1>4. Types' BY ReplyStep, ReplyFailsStep
<1>5. Distance(pc[t])' < Distance(pc[t]) BY <1>2, <1>3 DEF Distance
<1>. QED BY <1>3, <1>4, <1>5, Nearer DEF Moves

\* The speech begins to sound.
LEMMA SoundsMoves ==
  ASSUME Types, NEW t \in Turns, Sounds(t)
  PROVE  Moves(t)
<1>1. /\ voice[t] = "pending" /\ voice' = [voice EXCEPT ![t] = "sounding"] /\ pc' = pc
  BY DEF Sounds
<1>2. Aside(t) /\ voice'[t] = "sounding" BY <1>1 DEF Aside, Types
<1>3. Underway(t) => Rank(t)' < Rank(t)
  <2>1. Distance(pc[t]) \in 0 .. 7 /\ pc'[t] = pc[t] BY <1>1, DistanceType
  <2>. HIDE DEF Distance
  <2>. QED BY <1>1, <1>2, <2>1 DEF Rank, Underway
<1>. QED BY <1>2, <1>3 DEF Moves

\* The speech has ended, or failed.
LEMMA SpeechMoves ==
  ASSUME Types, NEW t \in Turns, Spoken(t) \/ SpeechFails(t)
  PROVE  Moves(t)
<1>0. Types' BY SpokenStep, SpeechFailsStep
<1>1. CASE \E await \in Speeches :
             Say(t, await) /\ (Underway(t) => Distance(await) < Distance(pc[t]))
  <2>1. PICK await \in Speeches :
          Say(t, await) /\ (Underway(t) => Distance(await) < Distance(pc[t]))
    BY <1>1
  <2>2. Aside(t) /\ pc'[t] = await /\ voice'[t] = "pending" BY <2>1, SayAside
  <2>. HIDE DEF Distance
  <2>. QED BY <1>0, <2>1, <2>2, Nearer DEF Moves
<1>2. CASE Finish(t)
  <2>1. Aside(t) /\ pc'[t] = "free" BY <1>2, FinishAside
  <2>. QED BY <1>0, <2>1, Nearer DEF Moves, Underway, Speeches
<1>3. CASE pc[t] = "say_creating" /\ Request(t)
  <2>1. CASE token \/ button # "off"
    <3>1. Aside(t) /\ pc'[t] \in {"post", "authorize"}
      BY <1>3, <2>1 DEF Request, Types, Aside
    <3>2. Distance(pc[t])' < Distance(pc[t]) BY <1>3, <3>1 DEF Distance
    <3>. QED BY <1>0, <3>1, <3>2, Nearer DEF Moves, Speeches
  <2>2. CASE ~(token \/ button # "off")
    <3>1. Say(t, "say_failed") BY <1>3, <2>2 DEF Request, Fail
    <3>2. "say_failed" \in Speeches /\ Distance("say_failed") < Distance(pc[t])
      BY <1>3 DEF Speeches, Distance
    <3>. QED BY <1>1, <3>1, <3>2
  <2>. QED BY <2>1, <2>2
<1>4. CASE Spoken(t)
  BY <1>1, <1>2, <1>3, <1>4 DEF Spoken, Speeches, Distance
<1>5. CASE SpeechFails(t)
  <2>1. CASE pc[t] = "sorry" BY <1>2, <1>5, <2>1 DEF SpeechFails
  <2>2. CASE pc[t] = "say_created"
    BY <1>1, <1>5, <2>2 DEF SpeechFails, Fail, Speeches, Distance
  <2>3. CASE pc[t] \notin {"sorry", "say_created"}
    <3>1. Say(t, "sorry") BY <1>5, <2>3 DEF SpeechFails, Fail
    <3>2. Underway(t) => Distance("sorry") < Distance(pc[t])
      BY <2>3 DEF Underway, Distance, Types, Awaits
    <3>. QED BY <1>1, <3>1, <3>2 DEF Speeches
  <2>. QED BY <2>1, <2>2, <2>3
<1>. QED BY <1>4, <1>5

\* The calendar has answered, or the user.
LEMMA AnswerMoves ==
  ASSUME Types, NEW t \in Turns, Created(t) \/ CreateFails(t) \/ Consent(t)
  PROVE  Moves(t)
<1>0. Types' BY CreatedStep, CreateFailsStep, ConsentStep
<1>1. CASE Created(t) \/ CreateFails(t)
  <2>1. pc[t] = "post" BY <1>1 DEF Created, CreateFails
  <2>2. PICK await \in {"say_created", "say_failed"} : Say(t, await)
    BY <1>1 DEF Created, CreateFails, Fail
  <2>3. Aside(t) /\ pc'[t] = await /\ voice'[t] = "pending" BY <2>2, SayAside
  <2>4. Distance(pc[t])' < Distance(pc[t]) BY <2>1, <2>3 DEF Distance
  <2>. QED BY <1>0, <2>3, <2>4, Nearer DEF Moves
<1>2. CASE Consent(t)
  <2>1. ~Underway(t) BY <1>2 DEF Consent, Underway
  <2>2. CASE pc' = [pc EXCEPT ![t] = "post"] /\ UNCHANGED voice
    BY <2>1, <2>2 DEF Moves, Aside, Types, Speeches
  <2>3. CASE Say(t, "say_failed")
    BY <2>1, <2>3, SayAside DEF Moves
  <2>. QED BY <1>2, <2>2, <2>3 DEF Consent, Fail
<1>. QED BY <1>1, <1>2

LEMMA TurnMoves ==
  ASSUME Types, NEW t \in Turns, TurnStep(t) \/ Consent(t)
  PROVE  Moves(t)
BY ReplyMoves, SoundsMoves, SpeechMoves, AnswerMoves DEF TurnStep

\* What else happens costs no turn its speech, its place or a step.
Quiet ==
  \A u \in Turns :
    /\ pc[u] # "free" => pc'[u] = pc[u]
    /\ pc'[u] \notin Speeches \/ pc'[u] = pc[u]
    /\ voice'[u] = "pending" => voice[u] = "pending"
    /\ voice'[u] = "none" => voice[u] = "none"

LEMMA OthersQuiet ==
  ASSUME Types,
         \/ Reset \/ StoreFS \/ Bootstrap \/ AuthClick \/ AuthAnswered \/ TokenExpires
         \/ UNCHANGED vars
         \/ \E t \in Turns : Start(t) \/ Poll(t)
  PROVE  Quiet
<1>1. CASE Reset BY <1>1, CancelledSpeech DEF Reset, Quiet
<1>2. CASE UNCHANGED <<pc, voice>> BY <1>2 DEF Quiet
<1>3. CASE \E t \in Turns : Start(t) \/ Poll(t)
  BY <1>3 DEF Start, Poll, Quiet, InFlight, Speeches, Types
<1>. QED
  BY <1>1, <1>2, <1>3 DEF StoreFS, Bootstrap, AuthClick, AuthAnswered, TokenExpires, vars

LEMMA SpeechInvariance == Spec => [](Types /\ SpeechInv)
<1>1. Init => SpeechInv BY DEF Init, SpeechInv, Speeches
<1>2. Types /\ SpeechInv /\ [Next]_vars => SpeechInv'
  <2> SUFFICES ASSUME Types, SpeechInv, [Next]_vars PROVE SpeechInv'
    OBVIOUS
  <2>1. ASSUME NEW t \in Turns, TurnStep(t) \/ Consent(t) PROVE SpeechInv'
    BY <2>1, TurnMoves DEF SpeechInv, Moves, Aside
  <2>2. ASSUME Quiet PROVE SpeechInv' BY <2>2 DEF SpeechInv, Quiet, Types
  <2>. QED BY <2>1, <2>2, OthersQuiet DEF Next
<1>3. AgentInv => Types BY DEF AgentInv
<1>. QED BY <1>1, <1>2, <1>3, Invariance, PTL DEF Spec

\* A turn that others pass by keeps its rank, or loses a step of it.
LEMMA RankKept ==
  ASSUME Types, NEW t \in Turns, pc'[t] = pc[t],
         voice'[t] = "pending" => voice[t] = "pending"
  PROVE  Rank(t)' <= Rank(t)
<1>1. Distance(pc[t]) \in 0 .. 7 /\ Distance(pc[t])' = Distance(pc[t])
  BY DistanceType DEF Types
<1>. HIDE DEF Distance
<1>. QED BY <1>1 DEF Rank, Underway

\* What TurnsAdvance says of one step.
LEMMA StepAdvances ==
  ASSUME Types, Types', [Next]_vars, NEW t \in Turns, Underway(t)
  PROVE  Rank(t)' <= Rank(t) /\ (TurnStep(t) => Rank(t)' < Rank(t))
<1>1. CASE TurnStep(t) \/ Consent(t)
  <2>1. Rank(t)' < Rank(t) BY <1>1, TurnMoves DEF Moves
  <2>2. Rank(t) \in Nat /\ Rank(t)' \in Nat BY RankType
  <2>. QED BY <2>1, <2>2
<1>2. CASE \E u \in Turns \ {t} : TurnStep(u) \/ Consent(u)
  <2>1. pc'[t] = pc[t] /\ (voice'[t] = "pending" => voice[t] = "pending")
    BY <1>2, TurnMoves DEF Moves, Aside
  <2>. QED BY <1>1, <2>1, RankKept
<1>3. CASE Quiet
  <2>1. pc'[t] = pc[t] /\ (voice'[t] = "pending" => voice[t] = "pending")
    BY <1>3 DEF Quiet, Underway
  <2>. QED BY <1>1, <2>1, RankKept
<1>. QED BY <1>1, <1>2, <1>3, OthersQuiet DEF Next

(***************************************************************************)
(* A turn on its way is never left without a step of its own: when it waits *)
(* for a speech there is one, however many were cancelled (TTS.cancel).     *)
(***************************************************************************)
THEOREM TurnsNeverStick == Spec => []TurnsCanStep
<1>1. Types /\ SpeechInv => TurnsCanStep
  BY DEF Types, SpeechInv, TurnsCanStep, Underway, CanStep, Speeches, Awaits
<1>. QED BY <1>1, SpeechInvariance, PTL

(***************************************************************************)
(* A turn has at most fifteen steps of its own before it is over or asks    *)
(* for a consent, and no other turn, reset or start gives it one more.      *)
(***************************************************************************)
THEOREM TurnsDoAdvance == Spec => TurnsAdvance
<1>1. Types /\ Types' /\ [Next]_vars =>
        [\A t \in Turns : Underway(t) => /\ Rank(t)' <= Rank(t)
                                         /\ TurnStep(t) => Rank(t)' < Rank(t)]_vars
  BY StepAdvances
<1>. QED BY <1>1, SpeechInvariance, PTL DEF Spec, TurnsAdvance

-----------------------------------------------------------------------------
(* Liveness, from the advance.  The prover has no rules for ENABLED: that a  *)
(* turn which can step by its guards is one whose TurnStep is ENABLED, as    *)
(* the definitions say, is a hypothesis.                                     *)

MayStep(t) == [](CanStep(t) => ENABLED <<TurnStep(t)>>_vars)

GuardsSuffice == \A t \in Turns : MayStep(t)

At(t, n) == Rank(t) = n
Below(t, n) == Rank(t) < n
Descends(t, n) == At(t, n) ~> Below(t, n)

\* A step from each rank to a lower one.
LEMMA Descent ==
  ASSUME NEW t \in Turns, NEW n \in 1 .. 15
  PROVE  Spec /\ Runs(t) /\ MayStep(t) => Descends(t, n)
<1>1. At(t, n) => Underway(t) BY DEF At, Rank
<1>2. Types /\ Types' /\ At(t, n) /\ [Next]_vars => At(t, n)' \/ Below(t, n)'
  <2> SUFFICES ASSUME Types, Types', At(t, n), [Next]_vars
               PROVE  At(t, n)' \/ Below(t, n)'
    OBVIOUS
  <2>1. Rank(t)' <= n BY <1>1, StepAdvances DEF At
  <2>2. Rank(t)' \in Nat BY RankType
  <2>. QED BY <2>1, <2>2 DEF At, Below
<1>3. Types /\ Types' /\ [Next]_vars /\ At(t, n) /\ <<TurnStep(t)>>_vars => Below(t, n)'
  BY <1>1, StepAdvances DEF At, Below
<1>4. Types /\ SpeechInv /\ At(t, n) => CanStep(t)
  BY <1>1 DEF Types, SpeechInv, Underway, CanStep, Speeches, Awaits
<1>. QED BY <1>2, <1>3, <1>4, SpeechInvariance, PTL DEF Spec, Runs, MayStep, Descends

LEMMA FairTurn ==
  ASSUME NEW t \in Turns
  PROVE  FairSpec /\ GuardsSuffice => Spec /\ Runs(t) /\ MayStep(t)
BY DEF FairSpec, GuardsSuffice

\* From each rank the turn gets to the next.
LEMMA FairDescent ==
  ASSUME NEW t \in Turns, NEW n \in 1 .. 15
  PROVE  FairSpec /\ GuardsSuffice => Descends(t, n)
<1>1. FairSpec /\ GuardsSuffice => Spec /\ Runs(t) /\ MayStep(t) BY FairTurn
<1>2. Spec /\ Runs(t) /\ MayStep(t) => Descends(t, n) BY Descent
<1>. QED BY <1>1, <1>2, PTL

\* Whoever is below a rank is at the next or below it.
LEMMA Ladder ==
  ASSUME Types, NEW t \in Turns
  PROVE  /\ \A n \in 1 .. 15 : Below(t, n + 1) => At(t, n) \/ Below(t, n)
         /\ Below(t, 16)
         /\ Below(t, 1) => ~Underway(t)
BY RankType DEF Below, At

(***************************************************************************)
(* A turn ends, or waits for a consent, whatever the set of turns.          *)
(***************************************************************************)
THEOREM TurnsEnd == FairSpec /\ GuardsSuffice => TurnEnds
<1> SUFFICES ASSUME NEW t \in Turns
             PROVE  FairSpec /\ GuardsSuffice
                      => ((pc[t] # "free") ~> (pc[t] \in {"free", "authorize"}))
  BY DEF TurnEnds
<1>0. Types => /\ Below(t, 16)
               /\ Below(t, 1) => pc[t] \in {"free", "authorize"}
  BY Ladder DEF Underway
<1>1. Types =>
        /\ Below(t, 2) => At(t, 1) \/ Below(t, 1)
        /\ Below(t, 3) => At(t, 2) \/ Below(t, 2)
        /\ Below(t, 4) => At(t, 3) \/ Below(t, 3)
        /\ Below(t, 5) => At(t, 4) \/ Below(t, 4)
        /\ Below(t, 6) => At(t, 5) \/ Below(t, 5)
        /\ Below(t, 7) => At(t, 6) \/ Below(t, 6)
        /\ Below(t, 8) => At(t, 7) \/ Below(t, 7)
        /\ Below(t, 9) => At(t, 8) \/ Below(t, 8)
        /\ Below(t, 10) => At(t, 9) \/ Below(t, 9)
        /\ Below(t, 11) => At(t, 10) \/ Below(t, 10)
        /\ Below(t, 12) => At(t, 11) \/ Below(t, 11)
        /\ Below(t, 13) => At(t, 12) \/ Below(t, 12)
        /\ Below(t, 14) => At(t, 13) \/ Below(t, 13)
        /\ Below(t, 15) => At(t, 14) \/ Below(t, 14)
        /\ Below(t, 16) => At(t, 15) \/ Below(t, 15)
  BY Ladder
<1>2. FairSpec /\ GuardsSuffice => Descends(t, 1) BY FairDescent
<1>3. FairSpec /\ GuardsSuffice => Descends(t, 2) BY FairDescent
<1>4. FairSpec /\ GuardsSuffice => Descends(t, 3) BY FairDescent
<1>5. FairSpec /\ GuardsSuffice => Descends(t, 4) BY FairDescent
<1>6. FairSpec /\ GuardsSuffice => Descends(t, 5) BY FairDescent
<1>7. FairSpec /\ GuardsSuffice => Descends(t, 6) BY FairDescent
<1>8. FairSpec /\ GuardsSuffice => Descends(t, 7) BY FairDescent
<1>9. FairSpec /\ GuardsSuffice => Descends(t, 8) BY FairDescent
<1>10. FairSpec /\ GuardsSuffice => Descends(t, 9) BY FairDescent
<1>11. FairSpec /\ GuardsSuffice => Descends(t, 10) BY FairDescent
<1>12. FairSpec /\ GuardsSuffice => Descends(t, 11) BY FairDescent
<1>13. FairSpec /\ GuardsSuffice => Descends(t, 12) BY FairDescent
<1>14. FairSpec /\ GuardsSuffice => Descends(t, 13) BY FairDescent
<1>15. FairSpec /\ GuardsSuffice => Descends(t, 14) BY FairDescent
<1>16. FairSpec /\ GuardsSuffice => Descends(t, 15) BY FairDescent
<1>. QED
  BY <1>0, <1>1, <1>2, <1>3, <1>4, <1>5, <1>6, <1>7, <1>8, <1>9, <1>10, <1>11, <1>12,
     <1>13, <1>14, <1>15, <1>16, SpeechInvariance, PTL
     DEF FairSpec, Descends

=============================================================================
