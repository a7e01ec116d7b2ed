---------------------------- MODULE StreamServer ----------------------------
(***************************************************************************)
(* The wstream server (src/stream/stream.cpp) as a whole: the capture loop *)
(* of main, broadcast_thread, the acceptor's thread and the detached       *)
(* session threads, which meet in the registry of clients (SharedState)    *)
(* and in the global flag is_running.                                      *)
(*                                                                         *)
(* is_running is written by main, which stores the result of               *)
(* sdl_poll_events() into it before every chunk of audio, and by any       *)
(* session that handles a "control" message with action "shutdown"; every  *)
(* thread leaves its loop when it reads false.                             *)
(*                                                                         *)
(* Audio, inference and text are left out: inference may fail, yield a     *)
(* text or none.  Logging and the waiting inside TranscriptionQueue are    *)
(* TranscriptPipeline's: here the queue hands transcriptions 1, 2, ... to  *)
(* broadcast_thread in order.                                              *)
(***************************************************************************)
EXTENDS Integers, Sequences, FiniteSets

CONSTANTS
  Sessions, BroadcastThread, Main, NoThread,
  WSTREAM_MAX_CLIENTS,
  StallingPeers,      \* bound: the sessions whose peer may stop draining for a while
  MaxTranscriptions,  \* bound: transcriptions in a behaviour
  MaxInjects          \* bound: an inject is one of the first MaxInjects calls

ASSUME ServerAssumption ==
  /\ {BroadcastThread, Main, NoThread} \cap Sessions = {}
  /\ BroadcastThread # Main /\ NoThread \notin {BroadcastThread, Main}
  /\ WSTREAM_MAX_CLIENTS \in Nat
  /\ StallingPeers \subseteq Sessions
  /\ MaxTranscriptions \in Nat
  /\ MaxInjects \in Nat

VARIABLES
  \* the registry, its threads and the peers: see SharedState
  m_connections, alive, write_mtx, pc, snapshot, at, peer, calls,
  is_running,
  quit,       \* an SDL_QUIT event waits to be polled
  asked,      \* history: a shutdown was asked for over the network
  mpc,        \* place of main
  ws,         \* the acceptor's thread: "listening" or "exited"
  bpc,        \* place of broadcast_thread: "test", "pop", "call" or "exited"
  made,       \* transcriptions pushed to the queue
  popped,     \* ... and popped by broadcast_thread
  first,      \* history: broadcasts begun when the session joined
  got         \* history: the transcriptions the session's peer was sent

registryVars == <<m_connections, alive, write_mtx, pc, snapshot, at, peer, calls>>
mainVars == <<quit, mpc, made>>
bcVars == <<bpc, popped>>
historyVars == <<asked, first, got>>
vars == <<registryVars, is_running, mainVars, ws, bcVars, historyVars>>

Registry == INSTANCE SharedState
  WITH Broadcasters <- {BroadcastThread}, Closers <- {Main},
       MaxCalls <- MaxInjects + MaxTranscriptions + 1

Init ==
  /\ Registry!Init
  /\ is_running = TRUE
  /\ quit = FALSE
  /\ asked = FALSE
  /\ mpc = "test"
  /\ ws = "listening"
  /\ bpc = "test"
  /\ made = 0
  /\ popped = 0
  /\ first = [s \in Sessions |-> 0]
  /\ got = [s \in Sessions |-> <<>>]

\* Calls of broadcast() that broadcast_thread has begun.
Begun == IF bpc = "call" THEN popped - 1 ELSE popped

\* The next place of main, in a step that is main's alone.
MainGoto(there) == mpc' = there /\ UNCHANGED <<registryVars, ws, bcVars, historyVars>>

-----------------------------------------------------------------------------
(* Faulty variants, used by no specification: see the definitions named.   *)

\* Poll: the result of the poll in the inner loop ignored.
FaultyPoll ==
  /\ mpc \in {"poll", "inner"}
  /\ is_running' = (~quit \/ mpc = "inner")
  /\ quit' = FALSE
  /\ MainGoto(IF mpc = "poll" THEN "check" ELSE "inner_check")
  /\ UNCHANGED made

\* BcPop: true returned although try_dequeue found nothing.
FaultyBcPop ==
  /\ bpc = "pop"
  /\ popped' = popped + 1
  /\ bpc' = "call"
  /\ UNCHANGED <<registryVars, is_running, mainVars, ws, historyVars>>

\* BcPop: the thread's loop ends with the first false.
FaultyBcPopEnds ==
  /\ bpc = "pop"
  /\ IF popped < made
       THEN popped' = popped + 1 /\ bpc' = "call"
       ELSE bpc' = "exited" /\ UNCHANGED popped
  /\ UNCHANGED <<registryVars, is_running, mainVars, ws, historyVars>>

-----------------------------------------------------------------------------
(* main: the capture loop                                                  *)

\* while (is_running), the outer loop.
LoopTest ==
  /\ mpc = "test"
  /\ MainGoto(IF is_running THEN "poll" ELSE "down")
  /\ UNCHANGED <<is_running, quit, made>>

\* is_running = sdl_poll_events(), at the head of the outer loop and again before
\* every look at the audio buffer; a quit event is consumed by the poll.
Poll ==
  /\ mpc \in {"poll", "inner"}
  /\ is_running' = ~quit
  /\ quit' = FALSE
  /\ MainGoto(IF mpc = "poll" THEN "check" ELSE "inner_check")
  /\ UNCHANGED made

\* if (!is_running) break
PollCheck ==
  /\ mpc = "check"
  /\ MainGoto(IF is_running THEN "inner" ELSE "down")
  /\ UNCHANGED <<is_running, quit, made>>

\* The inner loop: left by a quit, or once a step of audio is there.  Leaving it
\* by a quit leads to one more inference, on what was captured before.
InnerCheck ==
  /\ mpc = "inner_check"
  /\ \/ MainGoto("infer")
     \/ is_running /\ MainGoto("inner")
  /\ UNCHANGED <<is_running, quit, made>>

\* whisper_full fails: break; a text is pushed to the queue; or there is none.
Infer ==
  /\ mpc = "infer"
  /\ \/ MainGoto("down") /\ UNCHANGED made
     \/ made < MaxTranscriptions /\ made' = made + 1 /\ MainGoto("test")
     \/ MainGoto("test") /\ UNCHANGED made
  /\ UNCHANGED <<is_running, quit>>

\* The user closes the program.
QuitEvent ==
  /\ mpc \notin {"down", "close", "closing", "join_ws", "join_bc", "returned"}
  /\ quit' = TRUE
  /\ UNCHANGED <<registryVars, is_running, mpc, made, ws, bcVars, historyVars>>

-----------------------------------------------------------------------------
(* main: shutting down                                                     *)

Down ==
  /\ mpc = "down"
  /\ is_running' = FALSE
  /\ MainGoto("close")
  /\ UNCHANGED <<quit, made>>

\* state->close_all()
CloseAll ==
  /\ \/ mpc = "close" /\ Registry!CloseAllBegin(Main) /\ mpc' = "closing"
     \/ (Registry!VisitSkip(Main) \/ Registry!VisitLock(Main) \/ Registry!VisitDone(Main))
          /\ UNCHANGED mpc
  /\ UNCHANGED <<is_running, quit, made, ws, bcVars, historyVars>>

\* close_all returned; ws_ioc.stop() makes the acceptor's thread leave run().
StopIoc ==
  /\ mpc = "closing"
  /\ pc[Main] = "idle"
  /\ MainGoto("join_ws")
  /\ UNCHANGED <<is_running, quit, made>>

JoinWs ==
  /\ mpc = "join_ws"
  /\ ws = "exited"
  /\ MainGoto("join_bc")
  /\ UNCHANGED <<is_running, quit, made>>

\* Join, stop the logger, return: the locals of main, ws_ioc among them, are
\* destroyed and the process ends.
Return ==
  /\ mpc = "join_bc"
  /\ bpc = "exited"
  /\ MainGoto("returned")
  /\ UNCHANGED <<is_running, quit, made>>

MainStep ==
  \/ LoopTest \/ Poll \/ PollCheck \/ InnerCheck \/ Infer
  \/ Down \/ CloseAll \/ StopIoc \/ JoinWs \/ Return

-----------------------------------------------------------------------------
(* The acceptor's thread                                                   *)

Accept(s) ==
  /\ ws = "listening"
  /\ Registry!Accept(s)
  /\ UNCHANGED <<is_running, mainVars, ws, bcVars, historyVars>>

\* An error of bind or of accept ends the thread, as ws_ioc.stop() does.
AcceptorEnds ==
  /\ ws = "listening"
  /\ ws' = "exited"
  /\ UNCHANGED <<registryVars, is_running, mainVars, bcVars, historyVars>>

-----------------------------------------------------------------------------
(* broadcast_thread                                                        *)

BcTest ==
  /\ bpc = "test"
  /\ pc[BroadcastThread] = "idle"
  /\ bpc' = IF is_running THEN "pop" ELSE "exited"
  /\ UNCHANGED <<registryVars, is_running, mainVars, ws, popped, historyVars>>

\* wait_and_pop: a transcription, or false after a time-out or a shutdown.
BcPop ==
  /\ bpc = "pop"
  /\ IF popped < made
       THEN \/ popped' = popped + 1 /\ bpc' = "call"
            \/ ~is_running /\ bpc' = "test" /\ UNCHANGED popped
       ELSE bpc' = "test" /\ UNCHANGED popped
  /\ UNCHANGED <<registryVars, is_running, mainVars, ws, historyVars>>

\* state->broadcast(transcription)
BcBroadcast ==
  \/ /\ bpc = "call"
     /\ Registry!BroadcastBegin(BroadcastThread)
     /\ bpc' = "test"
     /\ UNCHANGED <<is_running, mainVars, ws, popped, historyVars>>
  \/ /\ Registry!VisitSkip(BroadcastThread) \/ Registry!VisitLock(BroadcastThread)
     /\ UNCHANGED <<is_running, mainVars, ws, bcVars, historyVars>>
  \/ /\ Registry!VisitDone(BroadcastThread)
     /\ LET s == at[BroadcastThread]
        IN  got' = IF peer[s] = "ok" THEN [got EXCEPT ![s] = Append(@, popped)] ELSE got
     /\ UNCHANGED <<is_running, mainVars, ws, bcVars, asked, first>>

BcStep == BcTest \/ BcPop \/ BcBroadcast

-----------------------------------------------------------------------------
(* Session threads                                                         *)

Join(s) ==
  /\ Registry!Join(s)
  /\ first' = [first EXCEPT ![s] = Begun]
  /\ UNCHANGED <<is_running, mainVars, ws, bcVars, asked, got>>

\* "control" with action "shutdown" and a valid token.
ControlShutdown(s) ==
  /\ Registry!HandleSilently(s)
  /\ is_running' = FALSE
  /\ asked' = TRUE
  /\ UNCHANGED <<mainVars, ws, bcVars, first, got>>

\* "inject" with a valid token: the session broadcasts.
Inject(s) ==
  /\ calls < MaxInjects
  /\ Registry!BroadcastBegin(s)
  /\ UNCHANGED <<is_running, mainVars, ws, bcVars, historyVars>>

\* What a session does by itself once a message, or the end, has come.
SessionRun(s) ==
  /\ \/ is_running /\ Registry!StartRead(s)
     \/ ~is_running /\ Registry!LoopExit(s)
     \/ Registry!ReadFails(s) \/ Registry!CloseFull(s)
     \/ Registry!SendLock(s) \/ Registry!SendDone(s) \/ Registry!SendFails(s)
     \/ Registry!VisitSkip(s) \/ Registry!VisitLock(s) \/ Registry!VisitDone(s)
     \/ Registry!LeaveMark(s) \/ Registry!LeaveErase(s)
  /\ UNCHANGED <<is_running, mainVars, ws, bcVars, historyVars>>

SessionEvent(s) ==
  \/ Accept(s) \/ Join(s) \/ ControlShutdown(s) \/ Inject(s)
  \/ /\ Registry!HandshakeEnds(s) \/ Registry!HandleSilently(s) \/ Registry!HandleReply(s)
     /\ UNCHANGED <<is_running, mainVars, ws, bcVars, historyVars>>

PeerDrains(s) ==
  /\ Registry!PeerResumes(s) \/ Registry!PeerCloses(s)
  /\ UNCHANGED <<is_running, mainVars, ws, bcVars, historyVars>>

PeerStalls(s) ==
  /\ s \in StallingPeers
  /\ Registry!PeerStalls(s)
  /\ UNCHANGED <<is_running, mainVars, ws, bcVars, historyVars>>

-----------------------------------------------------------------------------

\* Nothing runs once main has returned: the process is gone.
Next ==
  \/ /\ mpc # "returned"
     /\ \/ MainStep \/ QuitEvent \/ AcceptorEnds \/ BcStep
        \/ \E s \in Sessions :
             SessionRun(s) \/ SessionEvent(s) \/ PeerDrains(s) \/ PeerStalls(s)
  \/ mpc = "returned" /\ UNCHANGED vars

Spec == Init /\ [][Next]_vars

(***************************************************************************)
(* Fairness, as for the registry: every thread runs and gets a mutex that  *)
(* is free again and again; the acceptor's thread ends after ws_ioc.stop;  *)
(* no peer stops draining for ever.  Nothing makes a client connect or     *)
(* send, the user quit, or audio arrive.                                   *)
(***************************************************************************)
Fairness ==
  /\ SF_vars(mpc # "returned" /\ MainStep)
  /\ SF_vars(mpc # "returned" /\ BcStep)
  /\ WF_vars(mpc = "join_ws" /\ AcceptorEnds)
  /\ \A s \in Sessions :
       /\ SF_vars(mpc # "returned" /\ SessionRun(s))
       /\ WF_vars(mpc # "returned" /\ PeerDrains(s))

FairSpec == Spec /\ Fairness

-----------------------------------------------------------------------------
(* Properties                                                              *)

\* Each variable has its type, those of the registry included.
TypeOK ==
  /\ Registry!TypeOK
  /\ is_running \in BOOLEAN /\ quit \in BOOLEAN /\ asked \in BOOLEAN
  /\ mpc \in {"test", "poll", "check", "inner", "inner_check", "infer", "down",
              "close", "closing", "join_ws", "join_bc", "returned"}
  /\ ws \in {"listening", "exited"}
  /\ bpc \in {"test", "pop", "call", "exited"}
  /\ made \in 0 .. MaxTranscriptions /\ popped \in 0 .. made
  /\ first \in [Sessions -> 0 .. popped]
  /\ got \in [Sessions -> Seq(1 .. popped)]

\* Every client that is registered and not gone has been sent every
\* transcription whose broadcast began after it joined, once and in order (but
\* for the one being broadcast, if its turn has not come): a client that
\* stalls, closes or leaves costs the others nothing but time.
EveryClientServed ==
  \A s \in Sessions :
    pc[s] \in Registry!LivePCs /\ peer[s] # "closed" =>
      LET last == IF s \in snapshot[BroadcastThread] THEN Begun - 1 ELSE Begun
      IN  got[s] = [i \in 1 .. last - first[s] |-> first[s] + i]

\* broadcast_thread and the queue, here two counters, do what the detailed ones of
\* TranscriptPipeline are shown to do as well.
Loop ==
  INSTANCE BroadcastLoop WITH pushed <- made, place <- bpc

LoopRefined == Loop!Spec

\* A transcription that was pushed is handed to broadcast(), unless the server is
\* going down: broadcast_thread stays while main captures.  (A shutdown asked
\* for over the network is apart: main may undo it after broadcast_thread has
\* left its loop for it.)
Broadcasting ==
  \A n \in 1 .. MaxTranscriptions :
    made = n ~> (Begun >= n \/ asked \/ mpc \in {"down", "close", "closing",
                                                  "join_ws", "join_bc", "returned"})

\* When the user closes the program the server ends: close_all returns, both
\* threads can be joined, main returns.
QuitEndsServer == quit ~> mpc = "returned"

\* "Server control": a session that accepted a shutdown ends the server.
ShutdownHonoured == asked ~> mpc = "returned"

\* "close active sessions and cancel the acceptor": no session thread is left when
\* main returns and destroys the io_context their sockets belong to.
SessionsClosed ==
  mpc = "returned" => \A s \in Sessions : pc[s] \in {"new", "gone"}

=============================================================================
