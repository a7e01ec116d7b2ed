---------------------------- MODULE SharedState ----------------------------
(***************************************************************************)
(* The registry of WebSocket clients of wstream, class shared_state of     *)
(* src/stream/stream.cpp, together with the threads that use it:           *)
(*   - one detached session thread per connection (do_session), which owns *)
(*     the websocket::stream `ws` and registers a pointer to it;           *)
(*   - threads that call broadcast() (broadcast_thread, and a session      *)
(*     handling an "inject" message);                                      *)
(*   - threads that call close_all() (main, while it shuts down).          *)
(*                                                                         *)
(* The registry hands out raw pointers to streams that live on the         *)
(* session threads' stacks.  What keeps them valid is the protocol of      *)
(* `alive` and the per-client `write_mtx`, and that is what is modelled:   *)
(* a session is identified with its stream and its client_handle (join is  *)
(* called once per session, with the address of its own stream).           *)
(*                                                                         *)
(* Every critical section of m_mutex is a few instructions that take no    *)
(* other lock, so it is one atomic step and m_mutex is not a variable.     *)
(* The order of m_connections decides nothing but the order in which a     *)
(* loop visits a snapshot, so it is a set, visited in any order.           *)
(***************************************************************************)
EXTENDS Integers, FiniteSets

CONSTANTS
  Sessions,             \* the session threads, their streams, their handles
  Broadcasters,         \* other threads that call broadcast()
  Closers,              \* threads that call close_all()
  NoThread,             \* owner of a free mutex
  WSTREAM_MAX_CLIENTS,  \* capacity of the registry
  MaxCalls              \* bound: calls of broadcast() and close_all() in a behaviour

Threads == Sessions \cup Broadcasters \cup Closers

ASSUME ThreadAssumption ==
  /\ Sessions \cap Broadcasters = {}
  /\ Sessions \cap Closers = {}
  /\ Broadcasters \cap Closers = {}
  /\ NoThread \notin Threads

ASSUME BoundAssumption ==
  WSTREAM_MAX_CLIENTS \in Nat /\ MaxCalls \in Nat

VARIABLES
  m_connections,  \* the handles registered
  alive,          \* client_handle::alive
  write_mtx,      \* owner of client_handle::write_mtx
  pc,             \* where each thread is
  snapshot,       \* handles the loop of broadcast/close_all has still to visit
  at,             \* the handle whose stream the thread is using
  peer,           \* the other end: draining, not draining, or gone
  calls           \* calls of broadcast() and close_all() so far

vars == <<m_connections, alive, write_mtx, pc, snapshot, at, peer, calls>>

\* Places of a session thread at which its handle is registered and alive.
LivePCs == {"loop", "read", "reply", "write", "visit", "hold", "leave"}

\* Every place of a session thread; "new" and "gone" are those without a stream.
SessionPCs == LivePCs \cup {"new", "handshake", "full", "erase", "gone"}

OtherPCs == {"idle", "visit", "hold"}

Init ==
  /\ m_connections = {}
  /\ alive = [s \in Sessions |-> FALSE]
  /\ write_mtx = [s \in Sessions |-> NoThread]
  /\ pc = [t \in Threads |-> IF t \in Sessions THEN "new" ELSE "idle"]
  /\ snapshot = [t \in Threads |-> {}]
  /\ at = [t \in Threads |-> NoThread]
  /\ peer = [s \in Sessions |-> "ok"]
  /\ calls = 0

\* The next place of thread t.
Goto(t, there) == pc' = [pc EXCEPT ![t] = there]

\* Where a thread goes when its call of broadcast() or close_all() returns.
Home(t) == IF t \in Sessions THEN "loop" ELSE "idle"

\* What is left to visit once h has been dealt with.
AfterVisit(t, h) ==
  /\ snapshot' = [snapshot EXCEPT ![t] = @ \ {h}]
  /\ Goto(t, IF snapshot[t] = {h} THEN Home(t) ELSE "visit")

-----------------------------------------------------------------------------
(* Faulty variants of definitions below, each with one plausible bug.  No  *)
(* specification uses them: they serve to check that the properties fail   *)
(* when one of them takes the place of the definition named first.         *)

\* HasRoom: compared with <= instead of <.
FaultyHasRoom == Cardinality(m_connections) <= WSTREAM_MAX_CLIENTS

\* LeaveMark: `alive` flipped without taking write_mtx.
FaultyLeaveMark(s) ==
  /\ pc[s] = "leave"
  /\ alive' = [alive EXCEPT ![s] = FALSE]
  /\ Goto(s, "erase")
  /\ UNCHANGED <<m_connections, write_mtx, snapshot, at, peer, calls>>

\* SendLock: a reply written without taking write_mtx.
FaultySendLock(s) ==
  /\ pc[s] = "reply"
  /\ Goto(s, "write")
  /\ UNCHANGED <<m_connections, alive, write_mtx, snapshot, at, peer, calls>>

\* SendFails: the exception leaves do_session without reaching leave().
FaultySendFails(s) ==
  /\ pc[s] = "write"
  /\ peer[s] = "closed"
  /\ write_mtx' = [write_mtx EXCEPT ![s] = NoThread]
  /\ at' = [at EXCEPT ![s] = NoThread]
  /\ Goto(s, "gone")
  /\ UNCHANGED <<m_connections, alive, snapshot, peer, calls>>

\* SendFails: lock() and unlock() in place of the guard, no unlock on a throw.
FaultySendFailsLocked(s) ==
  /\ pc[s] = "write"
  /\ peer[s] = "closed"
  /\ at' = [at EXCEPT ![s] = NoThread]
  /\ Goto(s, "leave")
  /\ UNCHANGED <<m_connections, alive, write_mtx, snapshot, peer, calls>>

\* VisitDone: the same in broadcast(), a throwing write keeps the lock.
FaultyVisitDone(t) ==
  /\ pc[t] = "hold"
  /\ t \in Closers \/ peer[at[t]] # "stalled"
  /\ write_mtx' = IF peer[at[t]] = "closed" THEN write_mtx
                  ELSE [write_mtx EXCEPT ![at[t]] = NoThread]
  /\ at' = [at EXCEPT ![t] = NoThread]
  /\ AfterVisit(t, at[t])
  /\ UNCHANGED <<m_connections, alive, peer, calls>>

\* VisitDone: the exception of one client caught outside the loop over them.
FaultyVisitDoneAborts(t) ==
  /\ pc[t] = "hold"
  /\ t \in Closers \/ peer[at[t]] # "stalled"
  /\ write_mtx' = [write_mtx EXCEPT ![at[t]] = NoThread]
  /\ at' = [at EXCEPT ![t] = NoThread]
  /\ IF peer[at[t]] = "closed"
       THEN snapshot' = [snapshot EXCEPT ![t] = {}] /\ Goto(t, Home(t))
       ELSE AfterVisit(t, at[t])
  /\ UNCHANGED <<m_connections, alive, peer, calls>>

-----------------------------------------------------------------------------
(* do_session: the life of one connection.                                 *)

\* The acceptor starts a detached thread; ws is constructed.
Accept(s) ==
  /\ pc[s] = "new"
  /\ Goto(s, "handshake")
  /\ UNCHANGED <<m_connections, alive, write_mtx, snapshot, at, peer, calls>>

\* A forbidden origin returns, a failed read or accept throws: no handle yet,
\* so leave() does nothing and ws is destroyed.
HandshakeEnds(s) ==
  /\ pc[s] = "handshake"
  /\ Goto(s, "gone")
  /\ UNCHANGED <<m_connections, alive, write_mtx, snapshot, at, peer, calls>>

HasRoom == Cardinality(m_connections) < WSTREAM_MAX_CLIENTS

\* shared_state::join, atomic under m_mutex.
Join(s) ==
  /\ pc[s] = "handshake"
  /\ IF HasRoom
       THEN /\ m_connections' = m_connections \cup {s}
            /\ alive' = [alive EXCEPT ![s] = TRUE]
            /\ Goto(s, "loop")
       ELSE /\ Goto(s, "full")
            /\ UNCHANGED <<m_connections, alive>>
  /\ UNCHANGED <<write_mtx, snapshot, at, peer, calls>>

\* ws.close(try_again_later) waits for the peer's close frame or its end.
CloseFull(s) ==
  /\ pc[s] = "full"
  /\ peer[s] # "stalled"
  /\ Goto(s, "gone")
  /\ UNCHANGED <<m_connections, alive, write_mtx, snapshot, at, peer, calls>>

\* while (is_running) ws.read(buffer).  The flag belongs to the environment of
\* the registry: either outcome of the test is possible here.
StartRead(s) ==
  /\ pc[s] = "loop"
  /\ Goto(s, "read")
  /\ UNCHANGED <<m_connections, alive, write_mtx, snapshot, at, peer, calls>>

LoopExit(s) ==
  /\ pc[s] = "loop"
  /\ Goto(s, "leave")
  /\ UNCHANGED <<m_connections, alive, write_mtx, snapshot, at, peer, calls>>

\* ws.read throws: the peer is gone and all it sent has been read.
ReadFails(s) ==
  /\ pc[s] = "read"
  /\ peer[s] = "closed"
  /\ Goto(s, "leave")
  /\ UNCHANGED <<m_connections, alive, write_mtx, snapshot, at, peer, calls>>

\* A message that changes no state and gets no answer: not an object, "reset",
\* an unknown type, an "inject" with no text or too much.
HandleSilently(s) ==
  /\ pc[s] = "read"
  /\ peer[s] # "closed"
  /\ Goto(s, "loop")
  /\ UNCHANGED <<m_connections, alive, write_mtx, snapshot, at, peer, calls>>

\* Any message answered with send_json: an error, diagnostic_result,
\* transcript_content, status.
HandleReply(s) ==
  /\ pc[s] = "read"
  /\ peer[s] # "closed"
  /\ Goto(s, "reply")
  /\ at' = [at EXCEPT ![s] = s]
  /\ UNCHANGED <<m_connections, alive, write_mtx, snapshot, peer, calls>>

\* send_json: lock_guard, then a blocking write.
SendLock(s) ==
  /\ pc[s] = "reply"
  /\ write_mtx[s] = NoThread
  /\ write_mtx' = [write_mtx EXCEPT ![s] = s]
  /\ Goto(s, "write")
  /\ UNCHANGED <<m_connections, alive, snapshot, at, peer, calls>>

SendDone(s) ==
  /\ pc[s] = "write"
  /\ peer[s] # "stalled"
  /\ write_mtx' = [write_mtx EXCEPT ![s] = NoThread]
  /\ at' = [at EXCEPT ![s] = NoThread]
  /\ Goto(s, "loop")
  /\ UNCHANGED <<m_connections, alive, snapshot, peer, calls>>

\* ws.write throws: the guard releases the lock, do_session's catch is reached.
SendFails(s) ==
  /\ pc[s] = "write"
  /\ peer[s] = "closed"
  /\ write_mtx' = [write_mtx EXCEPT ![s] = NoThread]
  /\ at' = [at EXCEPT ![s] = NoThread]
  /\ Goto(s, "leave")
  /\ UNCHANGED <<m_connections, alive, snapshot, peer, calls>>

\* shared_state::leave, its first block: flip `alive` under write_mtx.
LeaveMark(s) ==
  /\ pc[s] = "leave"
  /\ write_mtx[s] = NoThread
  /\ alive' = [alive EXCEPT ![s] = FALSE]
  /\ Goto(s, "erase")
  /\ UNCHANGED <<m_connections, write_mtx, snapshot, at, peer, calls>>

\* ... and its second, under m_mutex; do_session returns and ws is destroyed.
LeaveErase(s) ==
  /\ pc[s] = "erase"
  /\ m_connections' = m_connections \ {s}
  /\ Goto(s, "gone")
  /\ UNCHANGED <<alive, write_mtx, snapshot, at, peer, calls>>

-----------------------------------------------------------------------------
(* broadcast() and close_all(): a snapshot taken under m_mutex, then one   *)
(* critical section of write_mtx per handle.                               *)

CallsFrom(t) == IF t \in Sessions THEN pc[t] = "read" /\ peer[t] # "closed"
                                  ELSE pc[t] = "idle"

\* Start of a call: an empty registry returns at once, the rest is one snapshot.
BeginCall(t) ==
  /\ CallsFrom(t)
  /\ calls < MaxCalls
  /\ calls' = calls + 1
  /\ snapshot' = [snapshot EXCEPT ![t] = m_connections]
  /\ Goto(t, IF m_connections = {} THEN Home(t) ELSE "visit")
  /\ UNCHANGED <<m_connections, alive, write_mtx, at, peer>>

\* A session gets here with a valid "inject", broadcast_thread with a
\* transcription it popped.
BroadcastBegin(t) == t \in Sessions \cup Broadcasters /\ BeginCall(t)

CloseAllBegin(t) == t \in Closers /\ BeginCall(t)

\* The lock is taken but the session is tearing down: skip the handle.
VisitSkip(t) ==
  /\ pc[t] = "visit"
  /\ \E h \in snapshot[t] :
       /\ write_mtx[h] = NoThread
       /\ ~alive[h]
       /\ AfterVisit(t, h)
  /\ UNCHANGED <<m_connections, alive, write_mtx, at, peer, calls>>

\* The lock is taken and the stream may be used.
VisitLock(t) ==
  /\ pc[t] = "visit"
  /\ \E h \in snapshot[t] :
       /\ write_mtx[h] = NoThread
       /\ alive[h]
       /\ write_mtx' = [write_mtx EXCEPT ![h] = t]
       /\ at' = [at EXCEPT ![t] = h]
  /\ Goto(t, "hold")
  /\ UNCHANGED <<m_connections, alive, snapshot, peer, calls>>

\* broadcast: ws->write returns, or throws and is caught; it blocks while the
\* peer drains nothing.  close_all: cancel() never blocks.
VisitDone(t) ==
  /\ pc[t] = "hold"
  /\ t \in Closers \/ peer[at[t]] # "stalled"
  /\ write_mtx' = [write_mtx EXCEPT ![at[t]] = NoThread]
  /\ at' = [at EXCEPT ![t] = NoThread]
  /\ AfterVisit(t, at[t])
  /\ UNCHANGED <<m_connections, alive, peer, calls>>

-----------------------------------------------------------------------------
(* The peers, and the next-state relation.                                 *)

\* The peer's receive window is full, and later drains again.
PeerStalls(s) ==
  /\ pc[s] \notin {"new", "gone"}
  /\ peer[s] = "ok"
  /\ peer' = [peer EXCEPT ![s] = "stalled"]
  /\ UNCHANGED <<m_connections, alive, write_mtx, pc, snapshot, at, calls>>

PeerResumes(s) ==
  /\ peer[s] = "stalled"
  /\ peer' = [peer EXCEPT ![s] = "ok"]
  /\ UNCHANGED <<m_connections, alive, write_mtx, pc, snapshot, at, calls>>

\* The connection ends (a close frame, a reset, the end of the stream).
PeerCloses(s) ==
  /\ pc[s] \notin {"new", "gone"}
  /\ peer[s] # "closed"
  /\ peer' = [peer EXCEPT ![s] = "closed"]
  /\ UNCHANGED <<m_connections, alive, write_mtx, pc, snapshot, at, calls>>

PeerStep(s) == PeerStalls(s) \/ PeerResumes(s) \/ PeerCloses(s)

\* Nothing is left to do: every session ended, every caller returned.
Finished ==
  /\ \A s \in Sessions : pc[s] = "gone"
  /\ \A t \in Threads \ Sessions : pc[t] = "idle"
  /\ UNCHANGED vars

SessionStep(s) ==
  \/ Accept(s) \/ HandshakeEnds(s) \/ Join(s) \/ CloseFull(s)
  \/ StartRead(s) \/ LoopExit(s) \/ ReadFails(s)
  \/ HandleSilently(s) \/ HandleReply(s)
  \/ SendLock(s) \/ SendDone(s) \/ SendFails(s)
  \/ LeaveMark(s) \/ LeaveErase(s)

CallStep(t) ==
  \/ BroadcastBegin(t) \/ CloseAllBegin(t)
  \/ VisitSkip(t) \/ VisitLock(t) \/ VisitDone(t)

Next ==
  \/ \E s \in Sessions : SessionStep(s) \/ PeerStep(s)
  \/ \E t \in Threads : CallStep(t)
  \/ Finished

(***************************************************************************)
(* Fairness.  A thread that can run does, and a mutex that is free again   *)
(* and again is eventually taken by a thread waiting for it.  A thread is  *)
(* sequential, so one strong fairness condition on all it does by itself   *)
(* says both.  Nothing makes a connection arrive, a peer send or close, a  *)
(* call be made, or the test of is_running fail.                           *)
(* A write under write_mtx has no timeout: PeerProgress is the assumption  *)
(* that no peer stops draining for ever.                                   *)
(***************************************************************************)
Run(t) ==
  \/ /\ t \in Sessions
     /\ \/ StartRead(t) \/ ReadFails(t) \/ CloseFull(t)
        \/ SendLock(t) \/ SendDone(t) \/ SendFails(t)
        \/ LeaveMark(t) \/ LeaveErase(t)
  \/ VisitSkip(t) \/ VisitLock(t) \/ VisitDone(t)

ThreadProgress == \A t \in Threads : SF_vars(Run(t))

PeerProgress == \A s \in Sessions : WF_vars(PeerResumes(s) \/ PeerCloses(s))

Spec == Init /\ [][Next]_vars

FairSpec == Spec /\ ThreadProgress /\ PeerProgress

-----------------------------------------------------------------------------
(* Properties.                                                             *)

\* Each variable has its type, and the registry never holds more handles than
\* WSTREAM_MAX_CLIENTS, whatever the order of joins and leaves (join, line 321).
TypeOK ==
  /\ m_connections \subseteq Sessions
  /\ IsFiniteSet(m_connections)
  /\ Cardinality(m_connections) <= WSTREAM_MAX_CLIENTS
  /\ alive \in [Sessions -> BOOLEAN]
  /\ write_mtx \in [Sessions -> Threads \cup {NoThread}]
  /\ pc \in [Threads -> SessionPCs \cup OtherPCs]
  /\ \A t \in Threads : pc[t] \in IF t \in Sessions THEN SessionPCs ELSE OtherPCs
  /\ snapshot \in [Threads -> SUBSET Sessions]
  /\ at \in [Threads -> Sessions \cup {NoThread}]
  /\ peer \in [Sessions -> {"ok", "stalled", "closed"}]
  /\ calls \in 0..MaxCalls

\* The thread is inside write() or cancel() on the stream of at[t].
Inside(t) == pc[t] \in {"hold", "write"}

WsExists(s) == pc[s] \notin {"new", "gone"}

\* "broadcast() can never see alive==true with a destroyed ws": a thread that
\* went on to use a stream after the check of `alive` uses a stream that its
\* session has not destroyed, even when the snapshot is older than the leave.
NoUseAfterFree ==
  /\ \A t \in Threads : Inside(t) => WsExists(at[t])
  /\ \A s \in Sessions : alive[s] => WsExists(s)

\* A websocket::stream allows one write at a time: the session's own replies,
\* broadcast_thread, injects of other sessions and close_all never meet on it.
OneWriter ==
  \A t, u \in Threads :
    Inside(t) /\ Inside(u) /\ at[t] = at[u] => t = u

\* The slots of the registry are exactly the sessions between join and the end
\* of leave: an ended session, however it ended, leaves no slot and no lock
\* behind, and a session that was refused never held one.
SlotsAccounted ==
  \A s \in Sessions :
    /\ s \in m_connections <=> pc[s] \in LivePCs \cup {"erase"}
    /\ pc[s] = "gone" => ~alive[s] /\ \A h \in Sessions : write_mtx[h] # s

\* Every call of broadcast() and close_all() returns, whatever the sessions
\* whose streams it visits do meanwhile.
CallsReturn ==
  \A t \in Threads : (pc[t] \in {"visit", "hold"}) ~> (pc[t] \in {"idle", "loop"})

\* A client that went away gives its slot back, even while other threads keep
\* locking its write_mtx and while its own session broadcasts to others.
SlotReclaimed ==
  \A s \in Sessions : (peer[s] = "closed") ~> (s \notin m_connections)

=============================================================================
