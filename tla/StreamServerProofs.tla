------------------------- MODULE StreamServerProofs -------------------------
(***************************************************************************)
(* Proofs about the whole server (StreamServer): every behaviour of the    *)
(* server is one of the registry (SharedState), so what SharedStateProofs  *)
(* shows of the registry holds of the server; every variable keeps its     *)
(* type; and every client is served, for any number of clients, any        *)
(* capacity and any number of transcriptions and injects.                  *)
(*                                                                         *)
(* The argument for EveryClientServed: broadcast_thread begins a call with *)
(* nothing left to visit from the last one, and pops the next              *)
(* transcription only after the call (CallInv); a session that is live     *)
(* when a call begins is in the registry, hence in the snapshot, and one   *)
(* that joins later counts from the next call on (ServedInv).              *)
(***************************************************************************)
EXTENDS StreamServer, FiniteSetTheorems, TLAPS

\* The registry once more, with what is proved about it.
Proved == INSTANCE SharedStateProofs
  WITH Broadcasters <- {BroadcastThread}, Closers <- {Main},
       MaxCalls <- MaxInjects + MaxTranscriptions + 1

USE ServerAssumption

-----------------------------------------------------------------------------
(* The server implements the registry                                      *)

\* The threads of the server satisfy what the registry assumes of its threads.
LEMMA Assumed == Proved!ThreadAssumption /\ Proved!BoundAssumption
BY DEF Proved!ThreadAssumption, Proved!BoundAssumption, Proved!Threads

\* The instances of FiniteSets that come with them define the same.
LEMMA SameSizes ==
  /\ \A S : Registry!IsFiniteSet(S) <=> Proved!IsFiniteSet(S)
  /\ \A S : Registry!Cardinality(S) = Proved!Cardinality(S)
<1>1. \A S : Registry!IsFiniteSet(S) <=> Proved!IsFiniteSet(S)
  BY DEF Registry!IsFiniteSet, Proved!IsFiniteSet
<1>2. ASSUME NEW S PROVE Registry!Cardinality(S) = Proved!Cardinality(S)
  BY DEF Registry!Cardinality, Proved!Cardinality
<1> QED BY <1>1, <1>2

\* The two instances of the registry start alike.
LEMMA SameInit == Registry!Init <=> Proved!Init
BY DEF Registry!Init, Registry!Threads, Proved!Init, Proved!Threads

\* A step of a session in one is a step of it in the other,
LEMMA SameSession ==
  ASSUME NEW s \in Sessions, Registry!SessionStep(s)
  PROVE  Proved!SessionStep(s)
<1> USE DEF Proved!SessionStep, Registry!Goto, Proved!Goto
<1>1. CASE Registry!Accept(s)
  BY <1>1 DEF Registry!Accept, Proved!Accept
<1>2. CASE Registry!HandshakeEnds(s)
  BY <1>2 DEF Registry!HandshakeEnds, Proved!HandshakeEnds
<1>3. CASE Registry!Join(s)
  BY <1>3, SameSizes
     DEF Registry!Join, Proved!Join, Registry!HasRoom, Proved!HasRoom
<1>4. CASE Registry!CloseFull(s)
  BY <1>4 DEF Registry!CloseFull, Proved!CloseFull
<1>5. CASE Registry!StartRead(s)
  BY <1>5 DEF Registry!StartRead, Proved!StartRead
<1>6. CASE Registry!LoopExit(s)
  BY <1>6 DEF Registry!LoopExit, Proved!LoopExit
<1>7. CASE Registry!ReadFails(s)
  BY <1>7 DEF Registry!ReadFails, Proved!ReadFails
<1>8. CASE Registry!HandleSilently(s)
  BY <1>8 DEF Registry!HandleSilently, Proved!HandleSilently
<1>9. CASE Registry!HandleReply(s)
  BY <1>9 DEF Registry!HandleReply, Proved!HandleReply
<1>10. CASE Registry!SendLock(s)
  BY <1>10 DEF Registry!SendLock, Proved!SendLock
<1>11. CASE Registry!SendDone(s)
  BY <1>11 DEF Registry!SendDone, Proved!SendDone
<1>12. CASE Registry!SendFails(s)
  BY <1>12 DEF Registry!SendFails, Proved!SendFails
<1>13. CASE Registry!LeaveMark(s)
  BY <1>13 DEF Registry!LeaveMark, Proved!LeaveMark
<1>14. CASE Registry!LeaveErase(s)
  BY <1>14 DEF Registry!LeaveErase, Proved!LeaveErase
<1> QED
  BY <1>1, <1>2, <1>3, <1>4, <1>5, <1>6, <1>7, <1>8, <1>9, <1>10, <1>11,
     <1>12, <1>13, <1>14 DEF Registry!SessionStep

\* and so is one of a peer,
LEMMA SamePeer ==
  ASSUME NEW s \in Sessions, Registry!PeerStep(s)
  PROVE  Proved!PeerStep(s)
BY DEF Registry!PeerStep, Registry!PeerStalls, Registry!PeerResumes, Registry!PeerCloses,
       Proved!PeerStep, Proved!PeerStalls, Proved!PeerResumes, Proved!PeerCloses

\* and one of a call of broadcast() or close_all().
LEMMA SameCall ==
  ASSUME NEW t, Registry!CallStep(t)
  PROVE  Proved!CallStep(t)
BY DEF Registry!CallStep, Proved!CallStep, Registry!Goto, Proved!Goto,
       Registry!Home, Proved!Home, Registry!AfterVisit, Proved!AfterVisit,
       Registry!CallsFrom, Proved!CallsFrom, Registry!BeginCall, Proved!BeginCall,
       Registry!BroadcastBegin, Proved!BroadcastBegin,
       Registry!CloseAllBegin, Proved!CloseAllBegin,
       Registry!VisitSkip, Proved!VisitSkip, Registry!VisitLock, Proved!VisitLock,
       Registry!VisitDone, Proved!VisitDone

\* Hence every step in one is a step in the other.
LEMMA SameNext == [Registry!Next]_(Registry!vars) => [Proved!Next]_(Proved!vars)
<1>1. Registry!Threads = Proved!Threads BY DEF Registry!Threads, Proved!Threads
<1>2. Registry!Finished => UNCHANGED Proved!vars
  BY DEF Registry!Finished, Registry!vars, Proved!vars
<1> QED
  BY <1>1, <1>2, SameSession, SamePeer, SameCall
     DEF Registry!Next, Proved!Next, Registry!vars, Proved!vars

\* Every step of the server is a step of the registry or leaves it alone.
LEMMA StepOfRegistry == [Next]_vars => [Registry!Next]_(Registry!vars)
<1> SUFFICES ASSUME [Next]_vars PROVE Registry!Next \/ UNCHANGED registryVars
  BY DEF Registry!vars, registryVars
<1> USE DEF Registry!Next, Registry!SessionStep, Registry!PeerStep, Registry!CallStep,
            Registry!Threads
<1>1. ASSUME NEW s \in Sessions, SessionRun(s) PROVE Registry!Next
  BY <1>1 DEF SessionRun
<1>2. ASSUME NEW s \in Sessions, SessionEvent(s) PROVE Registry!Next
  BY <1>2 DEF SessionEvent, Accept, Join, ControlShutdown, Inject
<1>3. ASSUME NEW s \in Sessions, PeerDrains(s) \/ PeerStalls(s) PROVE Registry!Next
  BY <1>3 DEF PeerDrains, PeerStalls
<1>4. CASE MainStep
  <2>1. CASE CloseAll BY <2>1 DEF CloseAll
  <2>2. CASE ~CloseAll
    BY <1>4, <2>2 DEF MainStep, MainGoto, LoopTest, Poll, PollCheck, InnerCheck,
                      Infer, Down, StopIoc, JoinWs, Return
  <2> QED BY <2>1, <2>2
<1>5. CASE QuitEvent \/ AcceptorEnds BY <1>5 DEF QuitEvent, AcceptorEnds
<1>6. CASE BcStep
  <2>1. CASE BcBroadcast BY <2>1 DEF BcBroadcast
  <2>2. CASE BcTest \/ BcPop BY <2>2 DEF BcTest, BcPop
  <2> QED BY <1>6, <2>1, <2>2 DEF BcStep
<1>7. CASE UNCHANGED vars BY <1>7 DEF vars
<1> QED BY <1>1, <1>2, <1>3, <1>4, <1>5, <1>6, <1>7 DEF Next

\* main, the acceptor, broadcast_thread and is_running around it only restrict
\* the registry: a behaviour of the server is one of shared_state.
THEOREM ImplementsRegistry == Spec => Registry!Spec
<1>1. Init => Registry!Init BY DEF Init
<1> QED BY <1>1, StepOfRegistry, PTL DEF Spec, Registry!Spec

\* The registry's inductive invariant holds of the server.
LEMMA RegistryInvariance == Spec => []Proved!IInv
<1>1. Init => Proved!IInv BY Proved!InitInv, Assumed, SameInit DEF Init
<1>2. Proved!IInv /\ [Next]_vars => Proved!IInv'
  BY StepOfRegistry, SameNext, Proved!NextInv, Assumed
<1> QED BY <1>1, <1>2, PTL DEF Spec

-----------------------------------------------------------------------------
(* The invariant of the server                                             *)

\* The variables around the registry have their types.
Types ==
  /\ is_running \in BOOLEAN /\ quit \in BOOLEAN /\ asked \in BOOLEAN
  /\ mpc \in {"test", "poll", "check", "inner", "inner_check", "infer", "down",
              "close", "closing", "join_ws", "join_bc", "returned"}
  /\ ws \in {"listening", "exited"}
  /\ bpc \in {"test", "pop", "call", "exited"}
  /\ made \in 0 .. MaxTranscriptions /\ popped \in 0 .. made
  /\ first \in [Sessions -> 0 .. popped]
  /\ got \in [Sessions -> Seq(1 .. popped)]

\* broadcast_thread begins a call with nothing left to visit, and pops the next
\* transcription only when the call has returned.
CallInv ==
  /\ pc[BroadcastThread] = "idle" => snapshot[BroadcastThread] = {}
  /\ pc[BroadcastThread] # "idle" => bpc = "test"
  /\ bpc = "call" \/ pc[BroadcastThread] # "idle" => popped >= 1
  /\ pc[BroadcastThread] = "hold" => at[BroadcastThread] \in snapshot[BroadcastThread]

\* A session that has not joined is in no snapshot and was sent nothing.
Unjoined(s) == pc[s] \in {"new", "handshake"}

UnjoinedInv ==
  \A s \in Sessions : Unjoined(s) => s \notin snapshot[BroadcastThread] /\ got[s] = <<>>

\* A client the properties speak of, and the last transcription it was sent.
Client(s) == pc[s] \in Registry!LivePCs /\ peer[s] # "closed"

LastSent(s) == IF s \in snapshot[BroadcastThread] THEN Begun - 1 ELSE Begun

\* EveryClientServed, element by element.
ServedInv ==
  \A s \in Sessions : Client(s) =>
    /\ first[s] <= LastSent(s)
    /\ Len(got[s]) = LastSent(s) - first[s]
    /\ \A i \in 1 .. Len(got[s]) : got[s][i] = first[s] + i

ServerInv == CallInv /\ UnjoinedInv /\ ServedInv

\* What the registry's invariant says, in the terms used here.
RegistryFacts ==
  /\ pc \in [Registry!Threads -> Registry!SessionPCs \cup Registry!OtherPCs]
  /\ snapshot \in [Registry!Threads -> SUBSET Sessions]
  /\ at \in [Registry!Threads -> Sessions \cup {NoThread}]
  /\ peer \in [Sessions -> {"ok", "stalled", "closed"}]
  /\ pc[BroadcastThread] \in Registry!OtherPCs
  /\ \A s \in Sessions :
       /\ alive[s] <=> pc[s] \in Registry!LivePCs
       /\ pc[s] \in Registry!LivePCs => s \in m_connections
       /\ s \in m_connections => ~Unjoined(s)
  /\ \A t \in Registry!Threads : pc[t] = "hold" => at[t] \in Sessions /\ alive[at[t]]

\* They follow from it.
LEMMA FactsHold == Proved!IInv => RegistryFacts
BY DEF RegistryFacts, Unjoined, Registry!Threads, Registry!SessionPCs, Registry!OtherPCs,
       Registry!LivePCs, Proved!IInv, Proved!TypeOK, Proved!LockInv, Proved!UserOwns,
       Proved!SlotInv, Proved!Threads, Proved!SessionPCs, Proved!OtherPCs,
       Proved!LivePCs, Proved!Inside

-----------------------------------------------------------------------------
(* Types                                                                   *)

\* A sequence of numbers stays one when the bound grows.
LEMMA WiderSeq ==
  ASSUME NEW m \in Nat, NEW n \in Nat, m <= n, NEW q \in Seq(1 .. m)
  PROVE  q \in Seq(1 .. n)
OBVIOUS

\* Every step keeps the types.
LEMMA TypesKept ==
  ASSUME RegistryFacts, Types, CallInv, [Next]_vars
  PROVE  Types'
<1> USE DEF Types
<1>1. ASSUME NEW s \in Sessions, SessionRun(s) PROVE Types'
  BY <1>1 DEF SessionRun, mainVars, bcVars, historyVars
<1>2. ASSUME NEW s \in Sessions, SessionEvent(s) PROVE Types'
  <2>1. CASE Join(s)
    <3>1. Begun \in 0 .. popped BY DEF Begun, CallInv
    <3> QED BY <2>1, <3>1 DEF Join, mainVars, bcVars
  <2>2. CASE ~Join(s)
    BY <1>2, <2>2 DEF SessionEvent, Accept, ControlShutdown, Inject, mainVars, bcVars,
                      historyVars
  <2> QED BY <2>1, <2>2
<1>3. ASSUME NEW s \in Sessions, PeerDrains(s) \/ PeerStalls(s) PROVE Types'
  BY <1>3 DEF PeerDrains, PeerStalls, mainVars, bcVars, historyVars
<1>4. CASE MainStep
  <2> USE DEF MainGoto, LoopTest, Poll, PollCheck, InnerCheck, Infer, Down, CloseAll,
              StopIoc, JoinWs, Return
  <2>1. UNCHANGED <<ws, bcVars, historyVars>> BY <1>4 DEF MainStep
  <2>2. made' = made \/ (made < MaxTranscriptions /\ made' = made + 1)
    BY <1>4 DEF MainStep
  <2>3. is_running' \in BOOLEAN /\ quit' \in BOOLEAN BY <1>4, Zenon DEF MainStep
  <2>4. mpc' \in {"test", "poll", "check", "inner", "inner_check", "infer", "down",
                  "close", "closing", "join_ws", "join_bc", "returned"}
    BY <1>4 DEF MainStep
  <2> HIDE DEF MainGoto, LoopTest, Poll, PollCheck, InnerCheck, Infer, Down, CloseAll,
               StopIoc, JoinWs, Return
  <2> QED BY <2>1, <2>2, <2>3, <2>4 DEF bcVars, historyVars
<1>5. CASE QuitEvent \/ AcceptorEnds
  BY <1>5 DEF QuitEvent, AcceptorEnds, mainVars, bcVars, historyVars
<1>6. CASE BcTest
  BY <1>6 DEF BcTest, mainVars, historyVars
<1>7. CASE BcPop
  <2>1. CASE popped' = popped + 1 /\ popped < made
    <3>1. got \in [Sessions -> Seq(1 .. popped + 1)]
      BY WiderSeq
    <3>2. bpc' = "call" /\ UNCHANGED <<is_running, mainVars, ws, historyVars>>
      BY <1>7, <2>1 DEF BcPop
    <3> QED BY <2>1, <3>1, <3>2 DEF mainVars, historyVars
  <2>2. CASE popped' = popped
    BY <1>7, <2>2 DEF BcPop, mainVars, historyVars
  <2> QED BY <1>7, <2>1, <2>2 DEF BcPop
<1>8. CASE BcBroadcast
  <2>1. CASE got' = got
    BY <1>8, <2>1 DEF BcBroadcast, mainVars, bcVars, historyVars
  <2>2. CASE Registry!VisitDone(BroadcastThread) /\ got' # got
    <3> DEFINE s == at[BroadcastThread]
    <3>1. popped \in 1 .. popped
      BY <2>2 DEF CallInv, Registry!VisitDone
    <3>2. got' = [got EXCEPT ![s] = Append(@, popped)]
      BY <1>8, <2>2 DEF BcBroadcast, historyVars
    <3>3. s \in Sessions
      BY <2>2 DEF RegistryFacts, Registry!VisitDone, Registry!Threads
    <3>4. Append(got[s], popped) \in Seq(1 .. popped)
      BY <3>1, <3>3
    <3>5. got' \in [Sessions -> Seq(1 .. popped)]
      BY <3>2, <3>4
    <3>6. UNCHANGED <<is_running, mainVars, ws, bcVars, asked, first>>
      BY <1>8, <2>2 DEF BcBroadcast, historyVars
    <3> QED BY <3>5, <3>6 DEF mainVars, bcVars
  <2> QED BY <1>8, <2>1, <2>2 DEF BcBroadcast, historyVars
<1>9. CASE UNCHANGED vars BY <1>9 DEF vars, mainVars, bcVars, historyVars
<1> QED BY <1>1, <1>2, <1>3, <1>4, <1>5, <1>6, <1>7, <1>8, <1>9 DEF Next, BcStep

-----------------------------------------------------------------------------
(* Clients                                                                 *)

\* What a step that neither joins nor broadcasts may do.
Aside ==
  /\ pc'[BroadcastThread] = pc[BroadcastThread]
  /\ snapshot'[BroadcastThread] = snapshot[BroadcastThread]
  /\ at'[BroadcastThread] = at[BroadcastThread]
  /\ UNCHANGED <<bpc, popped, first, got>>
  /\ \A s \in Sessions : (Client(s)' => Client(s)) /\ (Unjoined(s)' => Unjoined(s))

\* Such a step keeps the invariant.
LEMMA AsideKeeps ==
  ASSUME ServerInv, Aside
  PROVE  ServerInv'
<1>1. CallInv' BY DEF ServerInv, CallInv, Aside
<1>2. UnjoinedInv' BY DEF ServerInv, UnjoinedInv, Aside
<1>3. Begun' = Begun BY DEF Begun, Aside
<1>4. ServedInv' BY <1>3 DEF ServerInv, ServedInv, LastSent, Aside
<1> QED BY <1>1, <1>2, <1>4 DEF ServerInv

\* The steps of a session but for its joining.
Beside(s) ==
  \/ Registry!Accept(s) \/ Registry!HandshakeEnds(s) \/ Registry!CloseFull(s)
  \/ Registry!StartRead(s) \/ Registry!LoopExit(s) \/ Registry!ReadFails(s)
  \/ Registry!HandleSilently(s) \/ Registry!HandleReply(s)
  \/ Registry!SendLock(s) \/ Registry!SendDone(s) \/ Registry!SendFails(s)
  \/ Registry!LeaveMark(s) \/ Registry!LeaveErase(s)

\* These, and those of a peer, are steps of that kind,
LEMMA SessionAside ==
  ASSUME NEW s \in Sessions, RegistryFacts,
         Beside(s) \/ Registry!PeerStep(s),
         UNCHANGED <<bcVars, first, got>>
  PROVE  Aside
<1> USE DEF RegistryFacts, Aside, Client, Unjoined, bcVars, Registry!Threads,
            Registry!LivePCs, Registry!Goto
<1>1. CASE Registry!PeerStep(s)
  BY <1>1 DEF Registry!PeerStep, Registry!PeerStalls, Registry!PeerResumes,
              Registry!PeerCloses
<1>2. CASE Beside(s)
  BY <1>2 DEF Beside, Registry!Accept, Registry!HandshakeEnds, Registry!CloseFull,
       Registry!StartRead, Registry!LoopExit, Registry!ReadFails,
       Registry!HandleSilently, Registry!HandleReply, Registry!SendLock,
       Registry!SendDone, Registry!SendFails, Registry!LeaveMark, Registry!LeaveErase
<1> QED BY <1>1, <1>2

\* and so are the calls of sessions and of main.
LEMMA CallAside ==
  ASSUME NEW t \in Sessions \cup {Main}, RegistryFacts, Registry!CallStep(t),
         UNCHANGED <<bcVars, first, got>>
  PROVE  Aside
<1> USE DEF RegistryFacts, Aside, Client, Unjoined, bcVars, Registry!Threads,
            Registry!LivePCs, Registry!Goto, Registry!Home
<1>1. CASE Registry!BroadcastBegin(t) \/ Registry!CloseAllBegin(t)
  BY <1>1 DEF Registry!BroadcastBegin, Registry!CloseAllBegin, Registry!BeginCall,
              Registry!CallsFrom
<1>2. CASE Registry!VisitSkip(t) BY <1>2 DEF Registry!VisitSkip, Registry!AfterVisit
<1>3. CASE Registry!VisitLock(t) BY <1>3 DEF Registry!VisitLock
<1>4. CASE Registry!VisitDone(t) BY <1>4 DEF Registry!VisitDone, Registry!AfterVisit
<1> QED BY <1>1, <1>2, <1>3, <1>4 DEF Registry!CallStep

\* A session joins: it counts from the next call on.
LEMMA JoinKeeps ==
  ASSUME NEW s \in Sessions, RegistryFacts, Types, ServerInv, Join(s)
  PROVE  ServerInv'
<1>1. /\ pc[s] = "handshake"
      /\ pc'[s] \in {"loop", "full"} /\ \A t \in Registry!Threads \ {s} : pc'[t] = pc[t]
      /\ UNCHANGED <<snapshot, at, peer, bpc, popped, got>>
      /\ first' = [first EXCEPT ![s] = Begun]
  BY DEF Join, Registry!Join, Registry!Goto, bcVars, RegistryFacts, Registry!Threads
<1>2. Begun' = Begun /\ Begun \in Int BY <1>1 DEF Begun, Types
<1>3. CallInv' BY <1>1 DEF ServerInv, CallInv, Registry!Threads
<1>4. UnjoinedInv' BY <1>1 DEF ServerInv, UnjoinedInv, Unjoined, Registry!Threads
<1>5. ASSUME NEW u \in Sessions, Client(u)'
      PROVE  /\ first'[u] <= LastSent(u)'
             /\ Len(got'[u]) = LastSent(u)' - first'[u]
             /\ \A i \in 1 .. Len(got'[u]) : got'[u][i] = first'[u] + i
  <2>1. CASE u = s
    <3>1. s \notin snapshot[BroadcastThread] /\ got[s] = <<>>
      BY <1>1 DEF ServerInv, UnjoinedInv, Unjoined
    <3>2. first'[s] = Begun BY <1>1 DEF Types
    <3>3. LastSent(s)' = Begun BY <1>1, <1>2, <3>1 DEF LastSent
    <3> QED BY <1>1, <1>2, <2>1, <3>1, <3>2, <3>3
  <2>2. CASE u # s
    <3>1. Client(u) BY <1>1, <1>5, <2>2 DEF Client, Registry!Threads
    <3>2. LastSent(u)' = LastSent(u) BY <1>1, <1>2 DEF LastSent
    <3>3. first'[u] = first[u] /\ got'[u] = got[u] BY <1>1, <2>2 DEF Types
    <3> QED BY <3>1, <3>2, <3>3 DEF ServerInv, ServedInv
  <2> QED BY <2>1, <2>2
<1>6. ServedInv' BY <1>5 DEF ServedInv
<1> QED BY <1>3, <1>4, <1>6 DEF ServerInv

\* broadcast_thread pops: nothing begins yet.
LEMMA PopKeeps ==
  ASSUME RegistryFacts, Types, ServerInv, BcTest \/ BcPop
  PROVE  ServerInv'
<1>1. UNCHANGED <<pc, snapshot, at, peer, first, got>> /\ Begun' = Begun
  BY DEF BcTest, BcPop, Begun, registryVars, historyVars, Types
<1>2. pc[BroadcastThread] = "idle" /\ (bpc' = "call" => popped' >= 1)
  BY DEF BcTest, BcPop, ServerInv, CallInv, Types
<1>3. CallInv' BY <1>1, <1>2 DEF ServerInv, CallInv
<1>4. UnjoinedInv' BY <1>1 DEF ServerInv, UnjoinedInv, Unjoined
<1>5. ServedInv' BY <1>1 DEF ServerInv, ServedInv, Client, LastSent
<1> QED BY <1>3, <1>4, <1>5 DEF ServerInv

\* A call begins: every client is in the snapshot.
LEMMA BeginKeeps ==
  ASSUME RegistryFacts, Types, ServerInv,
         bpc = "call", Registry!BroadcastBegin(BroadcastThread), bpc' = "test",
         UNCHANGED <<popped, first, got>>
  PROVE  ServerInv'
<1> DEFINE B == BroadcastThread
<1>1. /\ pc[B] = "idle" /\ snapshot'[B] = m_connections
      /\ pc'[B] = IF m_connections = {} THEN "idle" ELSE "visit"
      /\ \A t \in Registry!Threads \ {B} : pc'[t] = pc[t]
      /\ UNCHANGED <<m_connections, alive, peer>>
  BY DEF Registry!BroadcastBegin, Registry!BeginCall, Registry!CallsFrom, Registry!Home,
         Registry!Goto, RegistryFacts, Registry!Threads
<1>2. popped >= 1 /\ Begun' = Begun + 1 /\ Begun \in Int
  BY DEF ServerInv, CallInv, Begun, Types
<1>3. CallInv' BY <1>1, <1>2 DEF CallInv
<1>4. UnjoinedInv'
  BY <1>1 DEF ServerInv, UnjoinedInv, Unjoined, RegistryFacts, Registry!Threads
<1>5. ASSUME NEW s \in Sessions, Client(s)'
      PROVE  Client(s) /\ LastSent(s)' = LastSent(s)
  <2>1. Client(s) BY <1>1, <1>5 DEF Client, Registry!Threads
  <2>2. s \in m_connections BY <2>1 DEF Client, RegistryFacts
  <2>3. snapshot[B] = {} BY <1>1 DEF ServerInv, CallInv
  <2> QED BY <1>1, <1>2, <2>1, <2>2, <2>3 DEF LastSent
<1>6. ServedInv' BY <1>5 DEF ServerInv, ServedInv
<1> QED BY <1>3, <1>4, <1>6 DEF ServerInv

\* One handle is skipped or written to: a client among them has got what is popped.
LEMMA VisitKeeps ==
  ASSUME RegistryFacts, Types, ServerInv, NEW h \in snapshot[BroadcastThread],
         pc[BroadcastThread] \in {"visit", "hold"},
         Registry!AfterVisit(BroadcastThread, h),
         UNCHANGED <<peer, bpc, popped, first>>,
         got' = IF Client(h) THEN [got EXCEPT ![h] = Append(@, popped)] ELSE got
  PROVE  ServerInv'
<1> DEFINE B == BroadcastThread
<1>1. /\ h \in Sessions /\ bpc = "test" /\ popped >= 1
      /\ snapshot'[B] = snapshot[B] \ {h}
      /\ pc'[B] = IF snapshot[B] = {h} THEN "idle" ELSE "visit"
      /\ \A t \in Registry!Threads \ {B} : pc'[t] = pc[t]
  BY DEF RegistryFacts, ServerInv, CallInv, Registry!AfterVisit, Registry!Goto,
         Registry!Home, Registry!Threads
<1>2. Begun' = Begun /\ Begun = popped /\ popped \in Nat
  BY <1>1 DEF Begun, Types
<1>3. CallInv' BY <1>1 DEF CallInv
<1>4. ~Unjoined(h) BY DEF ServerInv, UnjoinedInv, RegistryFacts, Registry!Threads
<1>5. UnjoinedInv'
  BY <1>1, <1>4 DEF ServerInv, UnjoinedInv, Unjoined, Registry!Threads, Types
<1>6. ASSUME NEW s \in Sessions, Client(s)'
      PROVE  /\ first'[s] <= LastSent(s)'
             /\ Len(got'[s]) = LastSent(s)' - first'[s]
             /\ \A i \in 1 .. Len(got'[s]) : got'[s][i] = first'[s] + i
  <2>1. Client(s) BY <1>1, <1>6 DEF Client, Registry!Threads
  <2>2. /\ first[s] <= LastSent(s) /\ Len(got[s]) = LastSent(s) - first[s]
        /\ \A i \in 1 .. Len(got[s]) : got[s][i] = first[s] + i
    BY <2>1 DEF ServerInv, ServedInv
  <2>3. CASE s = h
    <3>1. LastSent(s) = popped - 1 /\ LastSent(s)' = popped
      BY <1>1, <1>2, <2>3 DEF LastSent
    <3>2. got[s] \in Seq(1 .. popped) /\ first[s] \in Nat /\ first'[s] = first[s]
      BY <1>2 DEF Types
    <3>3. got'[s] = Append(got[s], popped) BY <2>1, <2>3 DEF Types
    <3>4. /\ Len(got'[s]) = Len(got[s]) + 1
          /\ \A i \in 1 .. Len(got[s]) : got'[s][i] = got[s][i]
          /\ got'[s][Len(got[s]) + 1] = popped
      BY <3>2, <3>3
    <3>5. Len(got[s]) \in Nat /\ Len(got[s]) + 1 = popped - first[s]
      <4>1. Len(got[s]) \in Nat BY <3>2
      <4>2. Len(got[s]) = popped - 1 - first[s] BY <2>2, <3>1
      <4> QED BY <1>2, <3>2, <4>1, <4>2
    <3>6. ASSUME NEW i \in 1 .. Len(got'[s]) PROVE got'[s][i] = first'[s] + i
      <4>1. CASE i = Len(got[s]) + 1 BY <1>2, <3>2, <3>4, <3>5, <4>1
      <4>2. CASE i \in 1 .. Len(got[s]) BY <2>2, <3>2, <3>4, <4>2
      <4> QED BY <3>4, <3>5, <4>1, <4>2
    <3> QED BY <1>2, <2>2, <3>1, <3>2, <3>4, <3>5, <3>6
  <2>4. CASE s # h
    <3>1. LastSent(s)' = LastSent(s) BY <1>1, <1>2, <2>4 DEF LastSent
    <3>2. got'[s] = got[s] /\ first'[s] = first[s] BY <2>4
    <3> QED BY <2>2, <3>1, <3>2
  <2> QED BY <2>3, <2>4
<1>7. ServedInv' BY <1>6 DEF ServedInv
<1> QED BY <1>3, <1>5, <1>7 DEF ServerInv

\* Every step of broadcast() in broadcast_thread keeps the invariant.
LEMMA BroadcastKeeps ==
  ASSUME RegistryFacts, Types, ServerInv, BcBroadcast
  PROVE  ServerInv'
<1> DEFINE B == BroadcastThread
<1>1. CASE bpc = "call" /\ Registry!BroadcastBegin(B) /\ bpc' = "test"
           /\ UNCHANGED <<is_running, mainVars, ws, popped, historyVars>>
  BY <1>1, BeginKeeps DEF historyVars
<1>2. CASE Registry!VisitSkip(B)
           /\ UNCHANGED <<is_running, mainVars, ws, bcVars, historyVars>>
  <2>1. PICK h \in snapshot[B] : ~alive[h] /\ Registry!AfterVisit(B, h)
    BY <1>2 DEF Registry!VisitSkip
  <2>2. ~Client(h)
    BY <2>1 DEF Client, RegistryFacts, Registry!Threads
  <2> QED BY <1>2, <2>1, <2>2, VisitKeeps DEF Registry!VisitSkip, bcVars, historyVars
<1>3. CASE Registry!VisitLock(B)
           /\ UNCHANGED <<is_running, mainVars, ws, bcVars, historyVars>>
  <2>1. PICK h \in snapshot[B] : at' = [at EXCEPT ![B] = h]
    BY <1>3 DEF Registry!VisitLock
  <2>2. /\ at'[B] \in snapshot[B] /\ pc[B] = "visit" /\ pc'[B] = "hold"
        /\ \A t \in Registry!Threads \ {B} : pc'[t] = pc[t]
        /\ UNCHANGED <<snapshot, peer, bpc, popped, first, got>>
    BY <1>3, <2>1 DEF Registry!VisitLock, Registry!Goto, RegistryFacts,
                      Registry!Threads, bcVars, historyVars
  <2>3. CallInv' BY <2>2 DEF ServerInv, CallInv
  <2>4. UnjoinedInv'
    BY <2>2 DEF ServerInv, UnjoinedInv, Unjoined, Registry!Threads
  <2>5. ServedInv'
    BY <2>2 DEF ServerInv, ServedInv, Client, LastSent, Begun, Registry!Threads
  <2> QED BY <2>3, <2>4, <2>5 DEF ServerInv
<1>4. CASE Registry!VisitDone(B)
           /\ got' = (IF peer[at[B]] = "ok" THEN [got EXCEPT ![at[B]] = Append(@, popped)]
                                            ELSE got)
           /\ UNCHANGED <<is_running, mainVars, ws, bcVars, asked, first>>
  <2>1. /\ pc[B] = "hold" /\ peer[at[B]] # "stalled" /\ Registry!AfterVisit(B, at[B])
        /\ UNCHANGED peer
    BY <1>4 DEF Registry!VisitDone
  <2>2. at[B] \in snapshot[B] BY <2>1 DEF ServerInv, CallInv
  <2>3. Client(at[B]) <=> peer[at[B]] = "ok"
    BY <2>1 DEF Client, RegistryFacts, Registry!Threads
  <2> QED BY <1>4, <2>1, <2>2, <2>3, VisitKeeps DEF bcVars
<1> QED BY <1>1, <1>2, <1>3, <1>4 DEF BcBroadcast

-----------------------------------------------------------------------------

\* Every step of the server keeps the invariant.
LEMMA ServerStep ==
  ASSUME RegistryFacts, Types, ServerInv, [Next]_vars
  PROVE  ServerInv'
<1> USE DEF bcVars, historyVars, Beside, Registry!PeerStep, Registry!CallStep
<1>1. ASSUME NEW s \in Sessions, SessionRun(s) PROVE ServerInv'
  <2>1. UNCHANGED <<bcVars, first, got>> BY <1>1 DEF SessionRun
  <2>2. CASE Registry!CallStep(s) BY <2>1, <2>2, CallAside, AsideKeeps
  <2>3. CASE Beside(s)
    BY <2>1, <2>3, SessionAside, AsideKeeps
  <2> QED BY <1>1, <2>2, <2>3 DEF SessionRun
<1>2. ASSUME NEW s \in Sessions, SessionEvent(s) PROVE ServerInv'
  <2>1. CASE Join(s) BY <2>1, JoinKeeps
  <2>2. CASE Inject(s) BY <2>2, CallAside, AsideKeeps DEF Inject
  <2>3. CASE Accept(s) \/ ControlShutdown(s)
    BY <2>3, SessionAside, AsideKeeps DEF Accept, ControlShutdown
  <2> QED BY <1>2, <2>1, <2>2, <2>3, SessionAside, AsideKeeps DEF SessionEvent
<1>3. ASSUME NEW s \in Sessions, PeerDrains(s) \/ PeerStalls(s) PROVE ServerInv'
  BY <1>3, SessionAside, AsideKeeps DEF PeerDrains, PeerStalls
<1>4. CASE CloseAll BY <1>4, CallAside, AsideKeeps DEF CloseAll
<1>5. CASE \/ MainStep /\ ~CloseAll
           \/ QuitEvent \/ AcceptorEnds \/ UNCHANGED vars
  <2>1. UNCHANGED <<registryVars, bcVars, historyVars>>
    BY <1>5 DEF MainStep, MainGoto, LoopTest, Poll, PollCheck, InnerCheck, Infer, Down,
                StopIoc, JoinWs, Return, QuitEvent, AcceptorEnds, vars
  <2>2. Aside BY <2>1 DEF Aside, Client, Unjoined, registryVars
  <2> QED BY <2>2, AsideKeeps
<1>6. CASE BcStep BY <1>6, PopKeeps, BroadcastKeeps DEF BcStep
<1> QED BY <1>1, <1>2, <1>3, <1>4, <1>5, <1>6 DEF Next

\* The server starts in the invariant.
LEMMA ServerStart == Init => Types /\ ServerInv
<1> SUFFICES ASSUME Init PROVE Types /\ ServerInv
  OBVIOUS
<1>1. Types
  <2>1. <<>> \in Seq(1 .. 0) OBVIOUS
  <2>2. got \in [Sessions -> Seq(1 .. popped)] BY <2>1 DEF Init
  <2>3. first \in [Sessions -> 0 .. popped] /\ popped \in 0 .. made
    BY DEF Init
  <2>4. made \in 0 .. MaxTranscriptions BY DEF Init
  <2> QED BY <2>2, <2>3, <2>4, Zenon DEF Init, Types
<1>2. CallInv BY DEF Init, CallInv, Registry!Init, Registry!Threads
<1>3. UnjoinedInv BY DEF Init, UnjoinedInv, Registry!Init, Registry!Threads
<1>4. ServedInv
  BY DEF Init, ServedInv, Client, Registry!LivePCs, Registry!Init, Registry!Threads
<1> QED BY <1>1, <1>2, <1>3, <1>4 DEF ServerInv

\* The invariant holds in every behaviour of the server.
LEMMA ServerInvariance == Spec => [](Types /\ ServerInv)
<1>1. Proved!IInv /\ (Types /\ ServerInv) /\ [Next]_vars => (Types /\ ServerInv)'
  BY FactsHold, TypesKept, ServerStep DEF ServerInv
<1> QED BY ServerStart, <1>1, RegistryInvariance, PTL DEF Spec

\* Every variable of the server keeps its type, those of the registry included:
\* broadcast_thread never pops more than main pushed.
THEOREM TypeCorrect == Spec => []TypeOK
<1>1. Proved!IInv /\ Types => TypeOK
  BY SameSizes DEF Types, TypeOK, Proved!IInv, Proved!TypeOK, Proved!Threads,
     Proved!SessionPCs, Proved!OtherPCs, Proved!LivePCs, Registry!TypeOK,
     Registry!Threads, Registry!SessionPCs, Registry!OtherPCs, Registry!LivePCs
<1> QED BY <1>1, RegistryInvariance, ServerInvariance, PTL

\* Whatever the others do (stall, close, leave, inject, fill the registry), a client
\* that is registered and not gone gets every transcription whose broadcast began
\* after it joined, once and in order.
THEOREM EveryoneIsServed == Spec => []EveryClientServed
<1>1. Types /\ ServerInv => EveryClientServed
  <2> SUFFICES ASSUME Types, ServerInv, NEW s \in Sessions, Client(s)
               PROVE  got[s] = [i \in 1 .. LastSent(s) - first[s] |-> first[s] + i]
    BY DEF EveryClientServed, Client, LastSent
  <2>1. /\ Len(got[s]) = LastSent(s) - first[s]
        /\ \A i \in 1 .. Len(got[s]) : got[s][i] = first[s] + i
    BY DEF ServerInv, ServedInv
  <2>2. got[s] \in Seq(1 .. popped) BY DEF Types
  <2>3. got[s] = [i \in 1 .. Len(got[s]) |-> got[s][i]] BY <2>2
  <2> QED BY <2>1, <2>3
<1> QED BY <1>1, ServerInvariance, PTL

\* What SharedStateProofs shows of the registry holds of it in the server.
THEOREM ServerSafety ==
  Spec => [](Registry!NoUseAfterFree /\ Registry!OneWriter /\ Registry!SlotsAccounted)
<1>1. Init => Proved!Init BY SameInit DEF Init
<1>2. [Next]_vars => [Proved!Next]_(Proved!vars) BY StepOfRegistry, SameNext
<1>3. Spec => Proved!Spec BY <1>1, <1>2, PTL DEF Spec, Proved!Spec
<1>4. /\ Proved!NoUseAfterFree => Registry!NoUseAfterFree
      /\ Proved!OneWriter => Registry!OneWriter
      /\ Proved!SlotsAccounted => Registry!SlotsAccounted
  BY DEF Proved!NoUseAfterFree, Registry!NoUseAfterFree, Proved!OneWriter,
         Registry!OneWriter, Proved!SlotsAccounted, Registry!SlotsAccounted,
         Proved!Inside, Registry!Inside, Proved!WsExists, Registry!WsExists,
         Proved!Threads, Registry!Threads, Proved!LivePCs, Registry!LivePCs
<1> QED BY <1>3, <1>4, Assumed, Proved!StreamSafety, Proved!WriteExclusion,
       Proved!NoSlotLost, PTL

-----------------------------------------------------------------------------
(* The queue, the calls and the end of the server                          *)

\* The two counters and broadcast_thread implement the loop that the queue of
\* TranscriptPipeline is shown to implement: what is proved here of clients is not
\* proved of a queue that does less, or more, than the one in the code.
THEOREM ImplementsLoop == Spec => LoopRefined
<1>1. Init => Loop!Init BY DEF Init, Loop!Init
<1>2. Types /\ Types' /\ [Next]_vars => [Loop!Next]_(Loop!vars)
  <2> SUFFICES ASSUME Types, Types', [Next]_vars
               PROVE  Loop!Next \/ UNCHANGED Loop!vars
    OBVIOUS
  <2> USE DEF Loop!Next, Types
  <2>1. ASSUME is_running' \in BOOLEAN, UNCHANGED <<made, bcVars>> PROVE Loop!SetFlag
    BY <2>1 DEF Loop!SetFlag, bcVars
  <2>2. ASSUME NEW s \in Sessions, SessionRun(s) \/ SessionEvent(s)
        PROVE  UNCHANGED <<made, bcVars>>
    BY <2>2 DEF SessionRun, SessionEvent, Accept, Join, ControlShutdown, Inject, mainVars
  <2>3. ASSUME NEW s \in Sessions, PeerDrains(s) \/ PeerStalls(s)
        PROVE  UNCHANGED <<made, bcVars>>
    BY <2>3 DEF PeerDrains, PeerStalls, mainVars
  <2>4. CASE Infer
    BY <2>4 DEF Infer, MainGoto, Loop!Push, Loop!vars, bcVars
  <2>5. CASE MainStep /\ ~Infer
    <3>1. UNCHANGED <<made, bcVars>>
      BY <2>5 DEF MainStep, MainGoto, LoopTest, Poll, PollCheck, InnerCheck, Down, CloseAll,
           StopIoc, JoinWs, Return
    <3> QED BY <2>1, <3>1
  <2>6. CASE QuitEvent \/ AcceptorEnds
    BY <2>1, <2>6 DEF QuitEvent, AcceptorEnds, mainVars
  <2>7. CASE BcTest
    BY <2>7 DEF BcTest, Loop!Test, Loop!Goto, mainVars
  <2>8. CASE BcPop
    <3>1. CASE bpc' = "call"
      BY <2>8, <3>1 DEF BcPop, Loop!Take, Loop!Goto, mainVars
    <3>2. CASE bpc' = "test"
      BY <2>8, <3>2 DEF BcPop, Loop!Miss, Loop!Goto, mainVars
    <3> QED BY <2>8, <3>1, <3>2 DEF BcPop
  <2>9. CASE BcBroadcast
    BY <2>9 DEF BcBroadcast, Loop!Call, Loop!Goto, Loop!vars, mainVars, bcVars
  <2>10. CASE UNCHANGED vars BY <2>10 DEF vars, mainVars, bcVars, Loop!vars
  <2> QED BY <2>1, <2>2, <2>3, <2>4, <2>5, <2>6, <2>7, <2>8, <2>9, <2>10 DEF Next, BcStep
<1> QED BY <1>1, <1>2, ServerInvariance, PTL DEF Spec, LoopRefined, Loop!Spec

\* In the server, too, no thread waits for a thread that waits for a lock, and every
\* call of broadcast() and close_all() deals with each client of its snapshot once:
\* close_all cancels every session that has not begun to leave by itself.
THEOREM ServerCalls == Spec => []Proved!WaitsAreShort /\ Proved!CallAdvances
<1>1. Init => Proved!Init BY SameInit DEF Init
<1>2. [Next]_vars => [Proved!Next]_(Proved!vars) BY StepOfRegistry, SameNext
<1>3. Spec => Proved!Spec BY <1>1, <1>2, PTL DEF Spec, Proved!Spec
<1> QED BY <1>3, Assumed, Proved!NoCircularWait, Proved!CallsVisitAll, PTL

\* Places of main after its loop, and after close_all.
Leaving == {"close", "closing", "join_ws", "join_bc", "returned"}

\* When main returns and its locals die, the threads it joins have ended, no call of
\* theirs is under way and none of the clients' locks is theirs, and nothing set
\* is_running again.  (Sessions may be left: SessionsClosed does not hold.)
ReturnIsQuiet ==
  mpc = "returned" =>
    /\ ~is_running
    /\ ws = "exited" /\ bpc = "exited"
    /\ \A t \in {Main, BroadcastThread} :
         pc[t] = "idle" /\ \A s \in Sessions : write_mtx[s] # t

\* is_running stays false once main has left its loop; broadcast_thread ends between
\* two calls, and main calls close_all only while it waits for it to return.
EndInv ==
  /\ mpc \in Leaving => ~is_running
  /\ bpc \in {"exited", "call"} => pc[BroadcastThread] = "idle"
  /\ pc[Main] # "idle" => mpc = "closing"
  /\ mpc \in {"join_bc", "returned"} => ws = "exited"
  /\ mpc = "returned" => bpc = "exited"

\* The end of the server, as its shutdown code means it: the join of the acceptor's
\* thread and of broadcast_thread leave nothing of theirs behind.
THEOREM EndIsQuiet == Spec => []ReturnIsQuiet
<1>1. Init => EndInv
  BY DEF Init, EndInv, Leaving, Registry!Init, Registry!Threads
<1>2. RegistryFacts /\ CallInv /\ EndInv /\ [Next]_vars => EndInv'
  <2> SUFFICES ASSUME RegistryFacts, CallInv, EndInv, [Next]_vars PROVE EndInv'
    OBVIOUS
  <2> DEFINE Others(t) == \A u \in Registry!Threads \ {t} : pc'[u] = pc[u]
  <2>1. ASSUME NEW s \in Sessions, SessionRun(s) \/ SessionEvent(s) PROVE EndInv'
    <3>1. Others(s)
      BY <2>1 DEF SessionRun, SessionEvent, Accept, Join, ControlShutdown, Inject,
           RegistryFacts, Registry!Accept, Registry!Join, Registry!HandshakeEnds,
           Registry!CloseFull, Registry!StartRead, Registry!LoopExit, Registry!ReadFails,
           Registry!HandleSilently, Registry!HandleReply, Registry!SendLock,
           Registry!SendDone, Registry!SendFails, Registry!LeaveMark, Registry!LeaveErase,
           Registry!BroadcastBegin, Registry!BeginCall, Registry!VisitSkip,
           Registry!VisitLock, Registry!VisitDone, Registry!AfterVisit, Registry!Goto
    <3>2. UNCHANGED <<mainVars, ws, bcVars>> /\ (is_running' = is_running \/ ~is_running')
      BY <2>1 DEF SessionRun, SessionEvent, Accept, Join, ControlShutdown, Inject
    <3> QED BY <3>1, <3>2 DEF EndInv, mainVars, bcVars, Registry!Threads
  <2>2. ASSUME NEW s \in Sessions, PeerDrains(s) \/ PeerStalls(s) PROVE EndInv'
    BY <2>2 DEF PeerDrains, PeerStalls, Registry!PeerResumes, Registry!PeerCloses,
         Registry!PeerStalls, EndInv, mainVars, bcVars
  <2>3. CASE CloseAll
    <3>1. CASE Registry!CloseAllBegin(Main) /\ mpc = "close" /\ mpc' = "closing"
      BY <2>3, <3>1 DEF CloseAll, EndInv, Leaving, Registry!CloseAllBegin,
           Registry!BeginCall, Registry!Goto, RegistryFacts, Registry!Threads, bcVars
    <3>2. CASE /\ \/ Registry!VisitSkip(Main) \/ Registry!VisitLock(Main)
                  \/ Registry!VisitDone(Main)
               /\ UNCHANGED mpc
      <4>1. Others(Main) /\ pc[Main] # "idle"
        BY <3>2 DEF Registry!VisitSkip, Registry!VisitLock, Registry!VisitDone,
             Registry!AfterVisit, Registry!Goto, RegistryFacts
      <4> QED BY <2>3, <3>2, <4>1 DEF CloseAll, EndInv, Leaving, Registry!Threads, bcVars
    <3> QED BY <2>3, <3>1, <3>2 DEF CloseAll
  <2>4. CASE MainStep /\ ~CloseAll
    <3>1. UNCHANGED <<pc, ws, bpc>>
      BY <2>4 DEF MainStep, MainGoto, LoopTest, Poll, PollCheck, InnerCheck, Infer, Down,
           StopIoc, JoinWs, Return, registryVars, bcVars
    <3> QED BY <2>4, <3>1 DEF MainStep, MainGoto, LoopTest, Poll, PollCheck, InnerCheck,
           Infer, Down, StopIoc, JoinWs, Return, EndInv, Leaving
  <2>5. CASE QuitEvent \/ AcceptorEnds
    BY <2>5 DEF QuitEvent, AcceptorEnds, EndInv, Leaving, registryVars, bcVars, mainVars
  <2>6. CASE BcTest \/ BcPop
    BY <2>6 DEF BcTest, BcPop, CallInv, EndInv, Leaving, registryVars, mainVars
  <2>7. CASE BcBroadcast
    <3>1. Others(BroadcastThread)
      BY <2>7 DEF BcBroadcast, Registry!BroadcastBegin, Registry!BeginCall,
           Registry!VisitSkip, Registry!VisitLock, Registry!VisitDone,
           Registry!AfterVisit, Registry!Goto, RegistryFacts
    <3>2. bpc' = "test" /\ UNCHANGED <<is_running, mpc, ws>>
      <4>1. CASE Registry!BroadcastBegin(BroadcastThread) /\ bpc' = "test"
        BY <2>7, <4>1 DEF BcBroadcast, mainVars
      <4>2. CASE pc[BroadcastThread] # "idle" /\ UNCHANGED bcVars
        BY <2>7, <4>2 DEF BcBroadcast, CallInv, mainVars, bcVars
      <4> QED BY <2>7, <4>1, <4>2 DEF BcBroadcast, Registry!VisitSkip,
               Registry!VisitLock, Registry!VisitDone
    <3>3. bpc # "exited"
      BY <2>7 DEF BcBroadcast, CallInv, EndInv, Registry!VisitSkip, Registry!VisitLock,
           Registry!VisitDone
    <3> QED BY <3>1, <3>2, <3>3, ServerAssumption DEF EndInv, Registry!Threads
  <2>8. CASE UNCHANGED vars
    BY <2>8 DEF vars, EndInv, registryVars, bcVars, mainVars
  <2> QED BY <2>1, <2>2, <2>3, <2>4, <2>5, <2>6, <2>7, <2>8 DEF Next, BcStep
<1>3. EndInv /\ Proved!IInv => ReturnIsQuiet
  BY DEF EndInv, ReturnIsQuiet, Leaving, Proved!IInv, Proved!LockInv, Proved!OwnerUses,
       Proved!Inside
<1>4. Spec => []EndInv
  <2>1. ServerInv => CallInv BY DEF ServerInv
  <2> QED BY <2>1, <1>1, <1>2, FactsHold, ServerInvariance, RegistryInvariance, PTL DEF Spec
<1> QED BY <1>3, <1>4, RegistryInvariance, PTL

=============================================================================
