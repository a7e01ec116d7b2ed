------------------------- MODULE SharedStateProofs -------------------------
(***************************************************************************)
(* Proofs about the client registry (SharedState): for any number of       *)
(* sessions, broadcasters and closers, and any capacity, the registry      *)
(* stays within its capacity, no thread uses a stream its session has      *)
(* destroyed, no two threads use a stream at once, and no slot is lost.    *)
(*                                                                         *)
(* The argument: write_mtx of a handle is owned exactly by the thread that *)
(* is using the handle's stream (LockInv), `alive` and membership of the   *)
(* registry follow the place of the session (SlotInv), and leave() cannot  *)
(* pass its first block while the lock is owned.                           *)
(***************************************************************************)
EXTENDS SharedState, FiniteSetTheorems, TLAPS

USE ThreadAssumption, BoundAssumption

\* A thread that uses a stream owns its lock, and the session is alive.
UserOwns ==
  \A t \in Threads :
    Inside(t) => at[t] \in Sessions /\ write_mtx[at[t]] = t /\ alive[at[t]]

\* A lock that is owned is owned by a thread that uses the stream.
OwnerUses ==
  \A s \in Sessions :
    write_mtx[s] # NoThread => Inside(write_mtx[s]) /\ at[write_mtx[s]] = s

\* A session that replies uses its own stream.
ReplyOwn == \A s \in Sessions : pc[s] \in {"reply", "write"} => at[s] = s

LockInv == UserOwns /\ OwnerUses /\ ReplyOwn

\* `alive` and m_connections follow the place of the session.
SlotInv ==
  \A s \in Sessions :
    /\ alive[s] <=> pc[s] \in LivePCs
    /\ s \in m_connections <=> pc[s] \in LivePCs \cup {"erase"}

IInv == TypeOK /\ LockInv /\ SlotInv

-----------------------------------------------------------------------------

\* One session more keeps the registry within its capacity if there was room.
LEMMA JoinFits ==
  ASSUME NEW s \in Sessions, TypeOK, HasRoom
  PROVE  /\ IsFiniteSet(m_connections \cup {s})
         /\ Cardinality(m_connections \cup {s}) <= WSTREAM_MAX_CLIENTS
<1>1. IsFiniteSet(m_connections) /\ Cardinality(m_connections) \in Nat
  BY FS_CardinalityType DEF TypeOK
<1>2. /\ IsFiniteSet(m_connections \cup {s})
      /\ \/ Cardinality(m_connections \cup {s}) = Cardinality(m_connections)
         \/ Cardinality(m_connections \cup {s}) = Cardinality(m_connections) + 1
  BY <1>1, FS_AddElement
<1> QED BY <1>1, <1>2 DEF HasRoom

\* One session fewer does too.
LEMMA LeaveFits ==
  ASSUME NEW s \in Sessions, TypeOK
  PROVE  /\ IsFiniteSet(m_connections \ {s})
         /\ Cardinality(m_connections \ {s}) <= WSTREAM_MAX_CLIENTS
<1>1. /\ IsFiniteSet(m_connections) /\ Cardinality(m_connections) \in Nat
      /\ Cardinality(m_connections) <= WSTREAM_MAX_CLIENTS
  BY FS_CardinalityType DEF TypeOK
<1>2. /\ IsFiniteSet(m_connections \ {s})
      /\ Cardinality(m_connections \ {s}) \in Nat
      /\ Cardinality(m_connections \ {s}) <= Cardinality(m_connections)
  BY <1>1, FS_Subset, FS_CardinalityType
<1> QED BY <1>1, <1>2

-----------------------------------------------------------------------------

\* Type correctness is kept by every step of a session.
LEMMA SessionType ==
  ASSUME NEW s \in Sessions, TypeOK, SessionStep(s)
  PROVE  TypeOK'
<1> USE DEF TypeOK, Threads, SessionPCs, LivePCs, OtherPCs, Goto
<1>1. CASE Accept(s) BY <1>1 DEF Accept
<1>2. CASE HandshakeEnds(s) BY <1>2 DEF HandshakeEnds
<1>3. CASE Join(s)
  <2>1. CASE HasRoom
    <3>1. /\ IsFiniteSet(m_connections \cup {s})
          /\ Cardinality(m_connections \cup {s}) <= WSTREAM_MAX_CLIENTS
      BY <2>1, JoinFits
    <3>2. /\ m_connections' = m_connections \cup {s}
          /\ alive' = [alive EXCEPT ![s] = TRUE]
          /\ pc' = [pc EXCEPT ![s] = "loop"]
          /\ UNCHANGED <<write_mtx, snapshot, at, peer, calls>>
      BY <1>3, <2>1 DEF Join
    <3> QED BY <3>1, <3>2
  <2>2. CASE ~HasRoom BY <1>3, <2>2 DEF Join
  <2> QED BY <2>1, <2>2
<1>4. CASE CloseFull(s) BY <1>4 DEF CloseFull
<1>5. CASE StartRead(s) BY <1>5 DEF StartRead
<1>6. CASE LoopExit(s) BY <1>6 DEF LoopExit
<1>7. CASE ReadFails(s) BY <1>7 DEF ReadFails
<1>8. CASE HandleSilently(s) BY <1>8 DEF HandleSilently
<1>9. CASE HandleReply(s) BY <1>9 DEF HandleReply
<1>10. CASE SendLock(s) BY <1>10 DEF SendLock
<1>11. CASE SendDone(s) BY <1>11 DEF SendDone
<1>12. CASE SendFails(s) BY <1>12 DEF SendFails
<1>13. CASE LeaveMark(s) BY <1>13 DEF LeaveMark
<1>14. CASE LeaveErase(s)
  <2>1. /\ IsFiniteSet(m_connections \ {s})
        /\ Cardinality(m_connections \ {s}) <= WSTREAM_MAX_CLIENTS
    BY LeaveFits
  <2> QED BY <1>14, <2>1 DEF LeaveErase
<1> QED
  BY <1>1, <1>2, <1>3, <1>4, <1>5, <1>6, <1>7, <1>8, <1>9, <1>10, <1>11,
     <1>12, <1>13, <1>14 DEF SessionStep

\* ... by every step of a call of broadcast() or close_all() ...
LEMMA CallType ==
  ASSUME NEW t \in Threads, TypeOK, CallStep(t)
  PROVE  TypeOK'
<1> USE DEF TypeOK, Threads, SessionPCs, LivePCs, OtherPCs, Goto, Home
<1>1. CASE BroadcastBegin(t) \/ CloseAllBegin(t)
  BY <1>1 DEF BroadcastBegin, CloseAllBegin, BeginCall, CallsFrom
<1>2. CASE VisitSkip(t) BY <1>2 DEF VisitSkip, AfterVisit
<1>3. CASE VisitLock(t) BY <1>3 DEF VisitLock
<1>4. CASE VisitDone(t)
  <2>1. write_mtx' \in [Sessions -> Threads \cup {NoThread}]
    BY <1>4 DEF VisitDone
  <2>2. pc' \in [Threads -> SessionPCs \cup OtherPCs]
    BY <1>4 DEF VisitDone, AfterVisit
  <2>3. \A u \in Threads :
          pc'[u] \in IF u \in Sessions THEN SessionPCs ELSE OtherPCs
    BY <1>4 DEF VisitDone, AfterVisit
  <2>4. /\ snapshot' \in [Threads -> SUBSET Sessions]
        /\ at' \in [Threads -> Sessions \cup {NoThread}]
        /\ UNCHANGED <<m_connections, alive, peer, calls>>
    BY <1>4 DEF VisitDone, AfterVisit
  <2> QED BY <2>1, <2>2, <2>3, <2>4
<1> QED BY <1>1, <1>2, <1>3, <1>4 DEF CallStep

\* ... and by every step of a peer.
LEMMA PeerType ==
  ASSUME NEW s \in Sessions, TypeOK, PeerStep(s)
  PROVE  TypeOK'
BY DEF TypeOK, PeerStep, PeerStalls, PeerResumes, PeerCloses

-----------------------------------------------------------------------------

\* The place of a session, `alive` and the registry change together.
LEMMA SessionSlot ==
  ASSUME NEW s \in Sessions, IInv, SessionStep(s)
  PROVE  SlotInv'
<1> USE DEF IInv, SlotInv, TypeOK, Threads, LivePCs, Goto
<1>1. CASE Accept(s) BY <1>1 DEF Accept
<1>2. CASE HandshakeEnds(s) BY <1>2 DEF HandshakeEnds
<1>3. CASE Join(s) BY <1>3 DEF Join
<1>4. CASE CloseFull(s) BY <1>4 DEF CloseFull
<1>5. CASE StartRead(s) BY <1>5 DEF StartRead
<1>6. CASE LoopExit(s) BY <1>6 DEF LoopExit
<1>7. CASE ReadFails(s) BY <1>7 DEF ReadFails
<1>8. CASE HandleSilently(s) BY <1>8 DEF HandleSilently
<1>9. CASE HandleReply(s) BY <1>9 DEF HandleReply
<1>10. CASE SendLock(s) BY <1>10 DEF SendLock
<1>11. CASE SendDone(s) BY <1>11 DEF SendDone
<1>12. CASE SendFails(s) BY <1>12 DEF SendFails
<1>13. CASE LeaveMark(s) BY <1>13 DEF LeaveMark
<1>14. CASE LeaveErase(s) BY <1>14 DEF LeaveErase
<1> QED
  BY <1>1, <1>2, <1>3, <1>4, <1>5, <1>6, <1>7, <1>8, <1>9, <1>10, <1>11,
     <1>12, <1>13, <1>14 DEF SessionStep

\* A call leaves them alone: it starts and ends at places of a live session.
LEMMA CallSlot ==
  ASSUME NEW t \in Threads, IInv, CallStep(t)
  PROVE  SlotInv'
<1> USE DEF IInv, SlotInv, TypeOK, Threads, LivePCs, Goto, Home
<1>1. CASE BroadcastBegin(t) \/ CloseAllBegin(t)
  BY <1>1 DEF BroadcastBegin, CloseAllBegin, BeginCall, CallsFrom
<1>2. CASE VisitSkip(t) BY <1>2 DEF VisitSkip, AfterVisit
<1>3. CASE VisitLock(t) BY <1>3 DEF VisitLock
<1>4. CASE VisitDone(t) BY <1>4 DEF VisitDone, AfterVisit
<1> QED BY <1>1, <1>2, <1>3, <1>4 DEF CallStep

-----------------------------------------------------------------------------

\* A session locks and unlocks its own handle around its writes, and clears
\* `alive` only while nobody owns the lock.
LEMMA SessionLock ==
  ASSUME NEW s \in Sessions, IInv, SessionStep(s)
  PROVE  LockInv'
<1> USE DEF IInv, LockInv, UserOwns, OwnerUses, ReplyOwn, SlotInv, TypeOK, Threads,
           Inside, LivePCs, Goto
<1>1. CASE Accept(s) BY <1>1 DEF Accept
<1>2. CASE HandshakeEnds(s) BY <1>2 DEF HandshakeEnds
<1>3. CASE Join(s) BY <1>3 DEF Join
<1>4. CASE CloseFull(s) BY <1>4 DEF CloseFull
<1>5. CASE StartRead(s) BY <1>5 DEF StartRead
<1>6. CASE LoopExit(s) BY <1>6 DEF LoopExit
<1>7. CASE ReadFails(s) BY <1>7 DEF ReadFails
<1>8. CASE HandleSilently(s) BY <1>8 DEF HandleSilently
<1>9. CASE HandleReply(s) BY <1>9 DEF HandleReply
<1>10. CASE SendLock(s) BY <1>10 DEF SendLock
<1>11. CASE SendDone(s) BY <1>11 DEF SendDone
<1>12. CASE SendFails(s) BY <1>12 DEF SendFails
<1>13. CASE LeaveMark(s) BY <1>13 DEF LeaveMark
<1>14. CASE LeaveErase(s) BY <1>14 DEF LeaveErase
<1> QED
  BY <1>1, <1>2, <1>3, <1>4, <1>5, <1>6, <1>7, <1>8, <1>9, <1>10, <1>11,
     <1>12, <1>13, <1>14 DEF SessionStep

\* A call locks a handle before it uses the stream and unlocks it after.
LEMMA CallLock ==
  ASSUME NEW t \in Threads, IInv, CallStep(t)
  PROVE  LockInv'
<1> USE DEF IInv, LockInv, UserOwns, OwnerUses, ReplyOwn, TypeOK, Threads,
            Inside, Goto, Home
<1>1. CASE BroadcastBegin(t) \/ CloseAllBegin(t)
  BY <1>1 DEF BroadcastBegin, CloseAllBegin, BeginCall, CallsFrom
<1>2. CASE VisitSkip(t) BY <1>2 DEF VisitSkip, AfterVisit
<1>3. CASE VisitLock(t) BY <1>3 DEF VisitLock
<1>4. CASE VisitDone(t) BY <1>4 DEF VisitDone, AfterVisit
<1> QED BY <1>1, <1>2, <1>3, <1>4 DEF CallStep

-----------------------------------------------------------------------------

\* The empty registry satisfies the invariant.
LEMMA InitInv == Init => IInv
<1> SUFFICES ASSUME Init PROVE IInv
  OBVIOUS
<1>1. IsFiniteSet({}) /\ Cardinality({}) = 0
  BY FS_EmptySet
<1>2. TypeOK
  BY <1>1 DEF Init, TypeOK, Threads, SessionPCs, LivePCs, OtherPCs
<1>3. LockInv
  BY DEF Init, LockInv, UserOwns, OwnerUses, ReplyOwn, Inside, Threads
<1>4. SlotInv
  BY DEF Init, SlotInv, LivePCs, Threads
<1> QED BY <1>2, <1>3, <1>4 DEF IInv

\* Every step keeps it.
LEMMA NextInv == IInv /\ [Next]_vars => IInv'
<1> SUFFICES ASSUME IInv, [Next]_vars PROVE IInv'
  OBVIOUS
<1>1. ASSUME NEW s \in Sessions, SessionStep(s) PROVE IInv'
  BY <1>1, SessionType, SessionSlot, SessionLock DEF IInv
<1>2. ASSUME NEW s \in Sessions, PeerStep(s) PROVE IInv'
  <2>1. UNCHANGED <<m_connections, alive, write_mtx, pc, at>>
    BY <1>2 DEF PeerStep, PeerStalls, PeerResumes, PeerCloses
  <2>2. LockInv' /\ SlotInv'
    BY <2>1 DEF IInv, LockInv, UserOwns, OwnerUses, ReplyOwn, Inside, SlotInv
  <2> QED BY <1>2, <2>2, PeerType DEF IInv
<1>3. ASSUME NEW t \in Threads, CallStep(t) PROVE IInv'
  BY <1>3, CallType, CallSlot, CallLock DEF IInv
<1>4. CASE UNCHANGED vars
  BY <1>4 DEF vars, IInv, TypeOK, LockInv, UserOwns, OwnerUses, ReplyOwn,
              Inside, SlotInv
<1> QED BY <1>1, <1>2, <1>3, <1>4 DEF Next, Finished

\* The inductive invariant holds in every behaviour of the registry.
THEOREM Invariance == Spec => []IInv
BY InitInv, NextInv, PTL DEF Spec

-----------------------------------------------------------------------------

\* join never overfills the registry, and every variable keeps its type.
THEOREM TypeCorrect == Spec => []TypeOK
<1>1. IInv => TypeOK BY DEF IInv
<1> QED BY Invariance, <1>1, PTL

\* broadcast() and close_all() never touch a stream that its session has
\* destroyed, however old their snapshot is.
THEOREM StreamSafety == Spec => []NoUseAfterFree
<1>1. IInv => NoUseAfterFree
  BY DEF IInv, TypeOK, LockInv, UserOwns, SlotInv, NoUseAfterFree, WsExists,
         LivePCs
<1> QED BY Invariance, <1>1, PTL

\* Replies, broadcasts, injects and close_all() never overlap on one stream.
THEOREM WriteExclusion == Spec => []OneWriter
<1>1. IInv => OneWriter
  BY DEF IInv, LockInv, UserOwns, OneWriter
<1> QED BY Invariance, <1>1, PTL

\* A session that ended, in whatever way, keeps neither a slot nor a lock.
THEOREM NoSlotLost == Spec => []SlotsAccounted
<1>1. IInv => SlotsAccounted
  <2> SUFFICES ASSUME IInv, NEW s \in Sessions
               PROVE  /\ s \in m_connections <=> pc[s] \in LivePCs \cup {"erase"}
                      /\ pc[s] = "gone" =>
                           ~alive[s] /\ \A h \in Sessions : write_mtx[h] # s
    BY DEF SlotsAccounted
  <2>1. s \in m_connections <=> pc[s] \in LivePCs \cup {"erase"}
    BY DEF IInv, SlotInv
  <2>2. pc[s] = "gone" => ~alive[s]
    BY DEF IInv, SlotInv, LivePCs
  <2>3. pc[s] = "gone" => \A h \in Sessions : write_mtx[h] # s
    BY DEF IInv, LockInv, OwnerUses, Inside, Threads
  <2> QED BY <2>1, <2>2, <2>3
<1> QED BY Invariance, <1>1, PTL

-----------------------------------------------------------------------------
(* Waiting and visiting: what the safety properties leave open.            *)

\* The locks thread t may be waiting for: its own for a reply or for leave(), any of
\* those it has still to visit inside broadcast() or close_all().
Wants(t) ==
  CASE pc[t] \in {"reply", "leave"} -> {t}
    [] pc[t] = "visit" -> snapshot[t]
    [] OTHER -> {}

\* Whoever waits for a write_mtx waits for another thread, inside write() or cancel()
\* on that very stream, which itself waits for no lock: waiting never goes round, not
\* even when sessions that inject visit one another, and all that can prolong it
\* is the peer of that one client.
WaitsAreShort ==
  \A t \in Threads : \A h \in Wants(t) : write_mtx[h] # NoThread =>
    LET u == write_mtx[h]
    IN  u \in Threads \ {t} /\ Inside(u) /\ at[u] = h /\ Wants(u) = {}

\* Inside a call there is something left to visit, and the stream in use is part of it.
VisitInv ==
  \A t \in Threads :
    /\ pc[t] = "visit" => snapshot[t] # {}
    /\ pc[t] = "hold" => at[t] \in snapshot[t]

\* A call of broadcast() or close_all() deals with each handle of its snapshot once,
\* and returns when none is left: a handle is dropped after its stream was used, or
\* because its session has begun to leave.
CallAdvances ==
  [][\A t \in Threads : pc[t] \in {"visit", "hold"} =>
       \/ UNCHANGED <<pc[t], snapshot[t]>>
       \/ pc[t] = "visit" /\ pc'[t] = "hold" /\ UNCHANGED snapshot[t]
       \/ \E h \in snapshot[t] :
            /\ snapshot'[t] = snapshot[t] \ {h}
            /\ pc'[t] = IF snapshot'[t] = {} THEN Home(t) ELSE "visit"
            /\ IF pc[t] = "hold" THEN at[t] = h ELSE ~alive[h]]_vars

\* Neither replies, injects, broadcasts nor close_all() can deadlock one another: what
\* a thread waits for is held by one that waits for no lock.
THEOREM NoCircularWait == Spec => []WaitsAreShort
<1>1. IInv => WaitsAreShort
  <2> SUFFICES ASSUME IInv, NEW t \in Threads, NEW h \in Wants(t),
                      write_mtx[h] # NoThread
               PROVE  /\ write_mtx[h] \in Threads \ {t} /\ Inside(write_mtx[h])
                      /\ at[write_mtx[h]] = h /\ Wants(write_mtx[h]) = {}
    BY DEF WaitsAreShort
  <2>1. h \in Sessions /\ pc[t] \in {"reply", "leave", "visit"}
    BY DEF Wants, IInv, TypeOK, OtherPCs, Threads
  <2>2. write_mtx[h] \in Threads /\ Inside(write_mtx[h]) /\ at[write_mtx[h]] = h
    BY <2>1 DEF IInv, LockInv, OwnerUses, TypeOK
  <2>3. write_mtx[h] # t BY <2>1, <2>2 DEF Inside
  <2>4. Wants(write_mtx[h]) = {} BY <2>2 DEF Wants, Inside
  <2> QED BY <2>2, <2>3, <2>4
<1> QED BY Invariance, <1>1, PTL

\* The snapshot and the place in a call change together.
LEMMA VisitInvariance == Spec => []VisitInv
<1>1. Init => VisitInv BY DEF Init, VisitInv, Threads
<1>2. IInv /\ VisitInv /\ [Next]_vars => VisitInv'
  <2> SUFFICES ASSUME IInv, VisitInv, [Next]_vars PROVE VisitInv'
    OBVIOUS
  <2> USE DEF VisitInv, IInv, TypeOK, Threads, Goto
  <2>1. ASSUME NEW s \in Sessions, SessionStep(s) PROVE VisitInv'
    <3>1. /\ UNCHANGED snapshot /\ \A t \in Threads \ {s} : UNCHANGED <<pc[t], at[t]>>
          /\ pc'[s] \notin {"visit", "hold"}
      BY <2>1 DEF SessionStep, Accept, HandshakeEnds, Join, CloseFull, StartRead, LoopExit,
           ReadFails, HandleSilently, HandleReply, SendLock, SendDone, SendFails,
           LeaveMark, LeaveErase
    <3> QED BY <3>1
  <2>2. ASSUME NEW s \in Sessions, PeerStep(s) PROVE VisitInv'
    BY <2>2 DEF PeerStep, PeerStalls, PeerResumes, PeerCloses
  <2>3. ASSUME NEW t \in Threads, CallStep(t) PROVE VisitInv'
    <3>1. CASE BroadcastBegin(t) \/ CloseAllBegin(t)
      BY <3>1 DEF BroadcastBegin, CloseAllBegin, BeginCall, Home
    <3>2. CASE VisitSkip(t) BY <3>2 DEF VisitSkip, AfterVisit, Home
    <3>3. CASE VisitLock(t) BY <3>3 DEF VisitLock
    <3>4. CASE VisitDone(t) BY <3>4 DEF VisitDone, AfterVisit, Home
    <3> QED BY <2>3, <3>1, <3>2, <3>3, <3>4 DEF CallStep
  <2>4. CASE UNCHANGED vars BY <2>4 DEF vars
  <2> QED BY <2>1, <2>2, <2>3, <2>4 DEF Next, Finished
<1> QED BY <1>1, <1>2, Invariance, PTL DEF Spec

\* No call skips a client that is alive, visits one twice, or returns before its end;
\* so broadcast() ends after as many visits as there were clients when it began.
THEOREM CallsVisitAll == Spec => CallAdvances
<1> DEFINE Step ==
      \A t \in Threads : pc[t] \in {"visit", "hold"} =>
        \/ UNCHANGED <<pc[t], snapshot[t]>>
        \/ pc[t] = "visit" /\ pc'[t] = "hold" /\ UNCHANGED snapshot[t]
        \/ \E h \in snapshot[t] :
             /\ snapshot'[t] = snapshot[t] \ {h}
             /\ pc'[t] = IF snapshot'[t] = {} THEN Home(t) ELSE "visit"
             /\ IF pc[t] = "hold" THEN at[t] = h ELSE ~alive[h]
<1>1. IInv /\ VisitInv /\ [Next]_vars => [Step]_vars
  <2> SUFFICES ASSUME IInv, VisitInv, Next, NEW t \in Threads,
                      pc[t] \in {"visit", "hold"}
               PROVE  \/ UNCHANGED <<pc[t], snapshot[t]>>
                      \/ pc[t] = "visit" /\ pc'[t] = "hold" /\ UNCHANGED snapshot[t]
                      \/ \E h \in snapshot[t] :
                           /\ snapshot'[t] = snapshot[t] \ {h}
                           /\ pc'[t] = IF snapshot'[t] = {} THEN Home(t) ELSE "visit"
                           /\ IF pc[t] = "hold" THEN at[t] = h ELSE ~alive[h]
    OBVIOUS
  <2> USE DEF VisitInv, IInv, TypeOK, Threads, Goto
  <2>1. ASSUME NEW s \in Sessions, SessionStep(s) PROVE UNCHANGED <<pc[t], snapshot[t]>>
    BY <2>1 DEF SessionStep, Accept, HandshakeEnds, Join, CloseFull, StartRead, LoopExit,
         ReadFails, HandleSilently, HandleReply, SendLock, SendDone, SendFails,
         LeaveMark, LeaveErase
  <2>2. ASSUME NEW s \in Sessions, PeerStep(s) PROVE UNCHANGED <<pc[t], snapshot[t]>>
    BY <2>2 DEF PeerStep, PeerStalls, PeerResumes, PeerCloses
  <2>3. ASSUME NEW u \in Threads \ {t}, CallStep(u) PROVE UNCHANGED <<pc[t], snapshot[t]>>
    BY <2>3 DEF CallStep, BroadcastBegin, CloseAllBegin, BeginCall, VisitSkip, VisitLock,
         VisitDone, AfterVisit
  <2>4. ASSUME NEW h \in snapshot[t], AfterVisit(t, h)
        PROVE  /\ snapshot'[t] = snapshot[t] \ {h}
               /\ pc'[t] = IF snapshot'[t] = {} THEN Home(t) ELSE "visit"
    BY <2>4 DEF AfterVisit
  <2>5. CASE VisitSkip(t) BY <2>4, <2>5 DEF VisitSkip
  <2>6. CASE VisitLock(t) BY <2>6 DEF VisitLock
  <2>7. CASE VisitDone(t) BY <2>4, <2>7 DEF VisitDone
  <2>8. ~BroadcastBegin(t) /\ ~CloseAllBegin(t)
    BY DEF BroadcastBegin, CloseAllBegin, BeginCall, CallsFrom
  <2> QED BY <2>1, <2>2, <2>3, <2>5, <2>6, <2>7, <2>8 DEF Next, CallStep, Finished, vars
<1> QED BY <1>1, Invariance, VisitInvariance, PTL DEF Spec, CallAdvances

=============================================================================
