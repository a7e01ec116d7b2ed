-------------------------------- MODULE Agent --------------------------------
(***************************************************************************)
(* The voice scheduling agent of src/stream2.wasm/index.html: Agent, with   *)
(* TTS, Calendar.authorize and createEvent, the buttons to start, reset and *)
(* authorize and the timer that polls the transcription and hands it to the *)
(* agent; when there is a text is the engine's business (Stream2Page).      *)
(*                                                                         *)
(* start() and handleTranscript() are asynchronous and nothing waits for    *)
(* them: each call is a turn, at rest at an await (pc) while handlers and   *)
(* other turns run.  A step is what the page's thread runs between two      *)
(* awaits.  The model behind /api/chat, the speech engine, the calendar and *)
(* the user are the environment.                                            *)
(*                                                                         *)
(* The states greeting, get_name, get_datetime, get_title and confirming    *)
(* behave alike and are one, "talking"; the title is optional and nothing   *)
(* depends on it; _history is only sent to the language model, whose reply  *)
(* is any the backend lets pass; an empty speech is one that ends at once.  *)
(***************************************************************************)
EXTENDS Naturals, Sequences, FiniteSets

CONSTANTS
  Turns,  \* bound: as many calls may be on their way at once
  Button  \* the handler of the button that authorizes the calendar

ASSUME TurnsAssumption == IsFiniteSet(Turns) /\ Turns # {} /\ Button \notin Turns

VARIABLES
  state, slots,         \* _state and _slots
  pc,                   \* what a turn awaits, "free" when there is no such turn
  voice,                \* the utterance of a turn
  args,                 \* what a turn asked Calendar.createEvent for
  waiting,              \* callers whose callback authorize() installed, the last on top
  token,                \* _hasToken()
  agentSessionActive, startEnabled, resetEnabled,
  button,               \* of the calendar: off until Calendar.init, ready, asking, done
  current,              \* history: the turn began after the last start or reset
  alone,                \* history: since then never two turns at once
  made                  \* history: events since then by turns begun since then

pageVars == <<agentSessionActive, startEnabled, resetEnabled, button>>
history == <<current, alone, made>>
vars == <<state, slots, pc, voice, args, waiting, token, pageVars, history>>

\* A slot of a reply is null, or a text: one that serves ("given") or one that does
\* not, an empty name or what is no date ("useless").
Slot == {"null", "given", "useless"}

NoSlots == [name |-> "null", dateTime |-> "null"]

InFlight == {t \in Turns : pc[t] # "free"}

\* Who may call authorize(), and who awaits its promise.
Callers == Turns \cup {Button}

Asks(c) == IF c = Button THEN button = "asking" ELSE pc[c] = "authorize"

Init ==
  /\ state = "idle" /\ slots = NoSlots
  /\ pc = [t \in Turns |-> "free"]
  /\ voice = [t \in Turns |-> "none"]
  /\ args = [t \in Turns |-> "none"]
  /\ waiting = <<>>
  /\ token = FALSE
  /\ agentSessionActive = FALSE /\ startEnabled = FALSE /\ resetEnabled = FALSE
  /\ button = "off"
  /\ current = [t \in Turns |-> FALSE]
  /\ alone = TRUE /\ made = 0

-----------------------------------------------------------------------------
(* The backend: POST /api/chat of server.py                                *)

\* A reply the backend lets pass: "done" only with a name and a date, though it
\* does not parse the date.
Replies ==
  {r \in [next_state : {"talking", "done"}, name : Slot, dateTime : Slot] :
     r.next_state = "done" => r.name = "given" /\ r.dateTime # "null"}

-----------------------------------------------------------------------------
(* Faulty variants, used by no specification: see the definitions named.   *)

\* SlotsComplete: the date is not looked at.
FaultyComplete == slots.name = "given"

\* ActiveStates: texts are handled in state done, too.
FaultyActiveStates == {"talking", "creating", "done"}

\* Cancelled: the utterance is dropped and its promise never settles.
FaultyCancelled ==
  [t \in Turns |-> IF voice[t] \in {"pending", "sounding"} THEN "none" ELSE voice[t]]

\* Installed: the callback that was there is forgotten.
FaultyInstalled(c) == <<c>>

\* Restored: the callback that was there is not given back.
FaultyRestored == waiting

-----------------------------------------------------------------------------
(* TTS                                                                     *)

\* synth.cancel(): the utterance gets its error event later; one that had not
\* begun to sound is "canceled", which rejects, not "interrupted".
Cancelled ==
  [t \in Turns |-> CASE voice[t] = "pending"  -> "canceled"
                     [] voice[t] = "sounding" -> "interrupted"
                     [] OTHER -> voice[t]]

isSpeaking == \E t \in Turns : voice[t] = "sounding"

\* speak() for turn t, which then is at the await named.
Say(t, await) ==
  /\ voice' = [Cancelled EXCEPT ![t] = "pending"]
  /\ pc' = [pc EXCEPT ![t] = await]

\* onstart
Sounds(t) ==
  /\ voice[t] = "pending"
  /\ voice' = [voice EXCEPT ![t] = "sounding"]
  /\ UNCHANGED <<state, slots, pc, args, waiting, token, pageVars, history>>

-----------------------------------------------------------------------------
(* Agent                                                                   *)

ActiveStates == {"talking", "creating"}

\* _merge: only what is not null.
Merged(r) ==
  [name     |-> IF r.name = "null" THEN slots.name ELSE r.name,
   dateTime |-> IF r.dateTime = "null" THEN slots.dateTime ELSE r.dateTime]

\* _slots.name and _isValidISO(_slots.dateTime)
SlotsComplete == slots.name = "given" /\ slots.dateTime = "given"

\* The turn is over.
Finish(t) ==
  /\ pc' = [pc EXCEPT ![t] = "free"]
  /\ voice' = [voice EXCEPT ![t] = "none"]
  /\ args' = [args EXCEPT ![t] = "none"]
  /\ current' = [current EXCEPT ![t] = FALSE]

\* A catch clause: state error, and an apology.
Fail(t, await) ==
  /\ state' = "error"
  /\ Say(t, await)

\* A new conversation, or none: what start() and reset() do at once.
NewSession(s) ==
  /\ state' = s
  /\ slots' = NoSlots
  /\ made' = 0

\* The synchronous part of start(), in the handler of the Start button.
Start(t) ==
  /\ startEnabled /\ t \notin InFlight
  /\ NewSession("talking")
  /\ pc' = [pc EXCEPT ![t] = "greet"]
  /\ agentSessionActive' = TRUE
  /\ startEnabled' = FALSE /\ resetEnabled' = TRUE
  /\ current' = [u \in Turns |-> u = t]
  /\ alone' = (InFlight = {})
  /\ UNCHANGED <<voice, args, waiting, token, button>>

\* The Reset button: turns on their way go on.
Reset ==
  /\ resetEnabled
  /\ NewSession("idle")
  /\ voice' = Cancelled
  /\ agentSessionActive' = FALSE
  /\ startEnabled' = TRUE /\ resetEnabled' = FALSE
  /\ current' = [t \in Turns |-> FALSE]
  /\ alone' = (InFlight = {})
  /\ UNCHANGED <<pc, args, waiting, token, button>>

\* storeFS: a model is there, the first or another.
StoreFS ==
  /\ ~startEnabled
  /\ startEnabled' = TRUE
  /\ UNCHANGED <<state, slots, pc, voice, args, waiting, token, agentSessionActive,
                 resetEnabled, button, history>>

\* The timer finds a text that is not blank and hands it to handleTranscript, which
\* ignores it in a state that is not active.
Poll(t) ==
  /\ agentSessionActive /\ ~isSpeaking /\ state \in ActiveStates
  /\ t \notin InFlight
  /\ pc' = [pc EXCEPT ![t] = "reply"]
  /\ current' = [current EXCEPT ![t] = TRUE]
  /\ alone' = (alone /\ InFlight = {})
  /\ UNCHANGED <<state, slots, voice, args, waiting, token, pageVars, made>>

\* _callLLM resolves; start() does not look at next_state again after the speech.
Reply(t) ==
  /\ pc[t] \in {"greet", "reply"}
  /\ \E r \in Replies :
       /\ slots' = Merged(r)
       /\ state' = r.next_state
       /\ Say(t, IF pc[t] = "reply" /\ r.next_state = "done" THEN "say_done" ELSE "say")
  /\ UNCHANGED <<args, waiting, token, pageVars, history>>

\* _callLLM throws: no connection, a timeout, an answer the backend refuses.
ReplyFails(t) ==
  /\ pc[t] \in {"greet", "reply"}
  /\ Fail(t, "sorry")
  /\ UNCHANGED <<slots, args, waiting, token, pageVars, history>>

\* authorize() installs a callback that keeps the one it finds.
Installed(c) == Append(waiting, c)

\* The speech before createEvent is over: the arguments are what _slots holds
\* now; without a token authorize() opens the popup of the consent, or throws
\* before Calendar.init.
Request(t) ==
  /\ args' = [args EXCEPT ![t] =
       IF slots.dateTime = "useless" THEN "unparsable"
       ELSE IF slots.name = "given" /\ slots.dateTime = "given" THEN "complete"
       ELSE "incomplete"]
  /\ IF token \/ button # "off"
       THEN /\ voice' = [voice EXCEPT ![t] = "none"]
            /\ pc' = [pc EXCEPT ![t] = IF token THEN "post" ELSE "authorize"]
            /\ waiting' = IF token THEN waiting ELSE Installed(t)
            /\ UNCHANGED state
       ELSE Fail(t, "say_failed") /\ UNCHANGED waiting

\* The promise of speak() resolves, at onend or an error "interrupted".  The
\* second test of the slots, in _createEvent, follows the first at once.
Spoken(t) ==
  /\ voice[t] \in {"sounding", "interrupted"}
  /\ CASE pc[t] = "say_done" ->
            IF SlotsComplete
              THEN state' = "creating" /\ Say(t, "say_creating")
                   /\ UNCHANGED <<args, waiting, startEnabled, current>>
              ELSE state' = "talking" /\ Finish(t)
                   /\ UNCHANGED <<waiting, startEnabled>>
       [] pc[t] = "say_creating" ->
            Request(t) /\ UNCHANGED <<startEnabled, current>>
       [] pc[t] = "say_created" ->
            Finish(t) /\ startEnabled' = TRUE /\ UNCHANGED <<state, waiting>>
       [] OTHER ->
            Finish(t) /\ UNCHANGED <<state, waiting, startEnabled>>
  /\ UNCHANGED <<slots, token, agentSessionActive, resetEnabled, button, alone, made>>

\* It rejects: any other error.  The inner catch is createEvent's.
SpeechFails(t) ==
  /\ voice[t] \in {"pending", "sounding", "canceled"}
  /\ CASE pc[t] = "sorry" -> Finish(t) /\ UNCHANGED state
       [] pc[t] = "say_created" -> Fail(t, "say_failed") /\ UNCHANGED <<args, current>>
       [] OTHER -> Fail(t, "sorry") /\ UNCHANGED <<args, current>>
  /\ UNCHANGED <<slots, waiting, token, pageVars, alone, made>>

-----------------------------------------------------------------------------
(* Calendar                                                                *)

\* Calendar.init, when the page is loaded and the backend knows a client.
Bootstrap ==
  /\ button = "off"
  /\ button' = "ready"
  /\ UNCHANGED <<state, slots, pc, voice, args, waiting, token, agentSessionActive,
                 startEnabled, resetEnabled, history>>

\* The button calls authorize() by itself.
AuthClick ==
  /\ button = "ready"
  /\ button' = IF token THEN "done" ELSE "asking"
  /\ waiting' = IF token THEN waiting ELSE Installed(Button)
  /\ UNCHANGED <<state, slots, pc, voice, args, token, agentSessionActive, startEnabled,
                 resetEnabled, history>>

\* A callback gives back the one it found.
Restored == SubSeq(waiting, 1, Len(waiting) - 1)

\* The user answers a popup: the answer goes to the callback installed last.
Answered(c) ==
  /\ waiting # <<>> /\ waiting[Len(waiting)] = c
  /\ waiting' = Restored

Consent(t) ==
  /\ pc[t] = "authorize" /\ Answered(t)
  /\ \/ /\ token' = TRUE
        /\ pc' = [pc EXCEPT ![t] = "post"]
        /\ UNCHANGED <<state, voice>>
     \/ Fail(t, "say_failed") /\ UNCHANGED token
  /\ UNCHANGED <<slots, args, pageVars, history>>

AuthAnswered ==
  /\ button = "asking" /\ Answered(Button)
  /\ \/ token' = TRUE /\ button' = "done"
     \/ button' = "ready" /\ UNCHANGED token
  /\ UNCHANGED <<state, slots, pc, voice, args, agentSessionActive, startEnabled,
                 resetEnabled, history>>

TokenExpires ==
  /\ token
  /\ token' = FALSE
  /\ UNCHANGED <<state, slots, pc, voice, args, waiting, pageVars, history>>

\* The calendar stores an event; without a date it is that of new Date(null).
Store(t) ==
  /\ args[t] \in {"complete", "incomplete"}
  /\ made' = IF current[t] /\ made < 2 THEN made + 1 ELSE made
  /\ UNCHANGED <<current, alone>>

Created(t) ==
  /\ pc[t] = "post"
  /\ Store(t)
  /\ state' = "done" /\ Say(t, "say_created")
  /\ UNCHANGED <<slots, args, waiting, token, pageVars>>

\* A date that is none throws; so does a refusal, or an answer that gets lost,
\* whether or not the event was stored.
CreateFails(t) ==
  /\ pc[t] = "post"
  /\ Store(t) \/ UNCHANGED history
  /\ Fail(t, "say_failed")
  /\ UNCHANGED <<slots, args, waiting, token, pageVars>>

-----------------------------------------------------------------------------
TurnStep(t) ==
  \/ Reply(t) \/ ReplyFails(t) \/ Sounds(t) \/ Spoken(t) \/ SpeechFails(t)
  \/ Created(t) \/ CreateFails(t)

Next ==
  \/ StoreFS \/ Reset \/ Bootstrap \/ AuthClick \/ AuthAnswered \/ TokenExpires
  \/ \E t \in Turns : Start(t) \/ Poll(t) \/ TurnStep(t) \/ Consent(t)

Spec == Init /\ [][Next]_vars

(***************************************************************************)
(* Fairness: a request is answered or fails (the backend's client has a     *)
(* timeout) and the speech engine ends what it was given.  The user need    *)
(* not answer a popup.                                                      *)
(***************************************************************************)
Runs(t) == WF_vars(TurnStep(t))

FairSpec == Spec /\ \A t \in Turns : Runs(t)

-----------------------------------------------------------------------------
(* Properties                                                              *)

Awaits ==
  {"free", "greet", "reply", "say", "say_done", "say_creating", "authorize", "post",
   "say_created", "say_failed", "sorry"}

TypeOK ==
  /\ state \in {"idle", "talking", "creating", "done", "error"}
  /\ slots \in [name : Slot, dateTime : Slot]
  /\ pc \in [Turns -> Awaits]
  /\ voice \in [Turns -> {"none", "pending", "sounding", "interrupted", "canceled"}]
  /\ args \in [Turns -> {"none", "complete", "incomplete", "unparsable"}]
  /\ waiting \in Seq(Callers) /\ Len(waiting) <= Cardinality(Callers)
  /\ {token, agentSessionActive, startEnabled, resetEnabled, alone}
       \subseteq BOOLEAN
  /\ button \in {"off", "ready", "asking", "done"}
  /\ current \in [Turns -> BOOLEAN]
  /\ made \in 0 .. 2

(***************************************************************************)
(* "Safety guard: never create an event if required slots are absent"      *)
(* (index.html:1146).  The guard is before the speech and the arguments     *)
(* are read after it.                                                       *)
(***************************************************************************)
EventsComplete == \A t \in Turns : pc[t] = "say_created" => args[t] = "complete"

(***************************************************************************)
(* The guard serves a conversation in which one turn runs at a time:        *)
(* whatever the replies correct or leave out, what is asked of the calendar *)
(* has a name and a date that parses, though the backend looks at neither   *)
(* the merged slots nor the date, and the guard is a speech and a consent   *)
(* ahead of the request.                                                    *)
(***************************************************************************)
RequestsComplete == alone => \A t \in Turns : args[t] \in {"none", "complete"}

(***************************************************************************)
(* Such a conversation creates at most one event, even when the calendar's  *)
(* answer is lost or the speech after it fails (ACTIVE_STATES, the states   *)
(* _createEvent leaves behind).                                             *)
(***************************************************************************)
OneEvent == alone => made <= 1

(***************************************************************************)
(* Whoever awaits a consent can still be given it: its callback is on the   *)
(* stack, once, however many popups of turns, of earlier conversations and  *)
(* of the button are open, and in whatever order they are answered          *)
(* (Calendar.authorize).                                                    *)
(***************************************************************************)
CallbacksKept ==
  /\ {waiting[i] : i \in 1 .. Len(waiting)} = {c \in Callers : Asks(c)}
  /\ \A i, j \in 1 .. Len(waiting) : waiting[i] = waiting[j] => i = j

(***************************************************************************)
(* A turn ends, though speeches cancel one another and a reset cancels      *)
(* them all, unless it waits for the user's consent (TTS.speak, cancel).    *)
(***************************************************************************)
TurnEnds ==
  \A t \in Turns : (pc[t] # "free") ~> (pc[t] \in {"free", "authorize"})

=============================================================================
