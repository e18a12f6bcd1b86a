------------------------- MODULE ServerLifecycleProofs -------------------------
(***************************************************************************)
(* Safety of starting and stopping the server, for any set of connections. *)
(***************************************************************************)
EXTENDS ServerLifecycle, FiniteSetTheorems, TLAPS

\* A connection is waiting, accepted or has had a thread: one after the other.
ThreadsAreOfAccepted ==
    /\ backlog \cap accepted = {}
    /\ \A c \in backlog \cup accepted : thread[c] = "idle"
    /\ \A c \in clientThreads \cup threadsToJoin : thread[c] # "idle"
    /\ threadsToJoin # {} => mainPc = "join"

\* Stop can close the socket of every thread that may use one.
OpenSocketsRegistered ==
    \A c \in Conns :
        thread[c] \in {"check", "handshake", "serve"} =>
            c \in clientSocks \/ sock[c] = "closed"

FlagClearedByStop == mainPc # "running" => ~isRunning

\* The inductive invariant.
IInv ==
    /\ TypeOK
    /\ LiveThreadsOwned
    /\ ThreadsAreOfAccepted
    /\ OpenSocketsRegistered
    /\ FlagClearedByStop
    /\ NoClientServedAfterStop

\* The initial states satisfy the inductive invariant.
LEMMA InitIInv == Init => IInv
BY FS_EmptySet DEF Init, IInv, TypeOK, LiveThreadsOwned, ThreadsAreOfAccepted,
    OpenSocketsRegistered, FlagClearedByStop, NoClientServedAfterStop,
    ThreadLocations, MainLocations

\* Every step of every thread preserves it: one case per action.
LEMMA NextIInv == IInv /\ [Next]_vars => IInv'
<1> SUFFICES ASSUME IInv, [Next]_vars PROVE IInv'
  OBVIOUS
<1> USE DEF IInv, TypeOK, LiveThreadsOwned, ThreadsAreOfAccepted,
    OpenSocketsRegistered, FlagClearedByStop, NoClientServedAfterStop,
    ThreadLocations, MainLocations, connVars, mapVars, pcVars
<1>1. CASE Start
  BY <1>1 DEF Start
<1>2. CASE StopClearFlag
  BY <1>2 DEF StopClearFlag, StopStep
<1>3. CASE StopCloseListen
  BY <1>3 DEF StopCloseListen, StopStep
<1>4. CASE StopNotifyCleanup
  BY <1>4 DEF StopNotifyCleanup, StopStep, WakeCleanup
<1>5. CASE StopCloseSockets
  <2>1. NoClientServedAfterStop'  \* the registered sockets are closed, all of them
    BY <1>5 DEF StopCloseSockets, StopStep
  <2>2. OpenSocketsRegistered'
    BY <1>5 DEF StopCloseSockets, StopStep
  <2> QED
    BY <1>5, <2>1, <2>2 DEF StopCloseSockets, StopStep
<1>6. CASE StopTakeThreads
  <2>1. threadsToJoin = {}  \* nothing is overwritten
    BY <1>6 DEF StopTakeThreads, StopStep
  <2>2. LiveThreadsOwned'
    BY <1>6, <2>1 DEF StopTakeThreads, StopStep
  <2> QED
    BY <1>6, <2>1, <2>2 DEF StopTakeThreads, StopStep
<1>7. CASE StopJoinClients
  BY <1>7 DEF StopJoinClients, StopStep
<1>8. CASE StopJoinService
  BY <1>8 DEF StopJoinService, StopStep
<1>9. CASE StopNotifyWait
  BY <1>9 DEF StopNotifyWait, StopStep
<1>10. CASE WaitTest
  BY <1>10 DEF WaitTest
<1>11. CASE WaitBlock
  BY <1>11 DEF WaitBlock
<1>12. CASE CleanupTest
  BY <1>12 DEF CleanupTest, CleanupGoto
<1>13. CASE CleanupLock
  BY <1>13 DEF CleanupLock, CleanupGoto
<1>14. CASE CleanupPredicate
  BY <1>14 DEF CleanupPredicate, CleanupGoto
<1>15. CASE CleanupBlock
  BY <1>15 DEF CleanupBlock, CleanupGoto
<1>16. CASE CleanupRecheck
  BY <1>16 DEF CleanupRecheck, CleanupGoto
<1>17. CASE CleanupErase
  <2>1. ASSUME NEW c \in finishedConns, cleanupPc' = "erase",
               c \in clientThreads => thread[c] = "exited",
               clientThreads' = clientThreads \ {c}
        PROVE  IInv'
    <3>1. TypeOK'
      BY <1>17, <2>1 DEF CleanupErase
    <3>2. LiveThreadsOwned'  \* the thread that is forgotten has exited
      BY <1>17, <2>1 DEF CleanupErase
    <3>3. ThreadsAreOfAccepted' /\ OpenSocketsRegistered'
      BY <1>17, <2>1 DEF CleanupErase
    <3>4. FlagClearedByStop' /\ NoClientServedAfterStop'
      BY <1>17, <2>1 DEF CleanupErase
    <3> QED
      BY <3>1, <3>2, <3>3, <3>4
  <2>2. ASSUME UNCHANGED <<clientThreads, finishedConns>>, mtxHeld' = FALSE,
               cleanupPc' = "test"
        PROVE  IInv'
    BY <1>17, <2>2 DEF CleanupErase
  <2> QED
    BY <1>17, <2>1, <2>2 DEF CleanupErase, CleanupGoto
<1>18. CASE AcceptTest
  BY <1>18 DEF AcceptTest
<1>19. CASE Accept
  <2>1. ASSUME NEW c \in backlog, backlog' = backlog \ {c}, accepted' = {c},
               acceptPc' = "emplace"
        PROVE  IInv'
    <3>1. Cardinality(accepted') = 1
      BY <2>1, FS_Singleton
    <3> QED
      BY <1>19, <2>1, <3>1 DEF Accept
  <2>2. ASSUME UNCHANGED <<backlog, accepted>>, acceptPc' = "test" PROVE IInv'
    BY <1>19, <2>2 DEF Accept
  <2> QED
    BY <1>19, <2>1, <2>2 DEF Accept
<1>20. CASE AcceptEmplace
  <2>1. LiveThreadsOwned'
    BY <1>20 DEF AcceptEmplace
  <2>2. ThreadsAreOfAccepted'
    BY <1>20 DEF AcceptEmplace
  <2> QED
    BY <1>20, <2>1, <2>2, FS_EmptySet DEF AcceptEmplace
<1>21. ASSUME NEW c \in Conns, Register(c) PROVE IInv'
  BY <1>21 DEF Register, ThreadGoto
<1>22. ASSUME NEW c \in Conns, CheckRunning(c) PROVE IInv'
  <2>1. NoClientServedAfterStop'  \* a thread that is let through was registered in time
    BY <1>22 DEF CheckRunning, ThreadGoto
  <2> QED
    BY <1>22, <2>1 DEF CheckRunning, ThreadGoto
<1>23. ASSUME NEW c \in Conns, Finish(c) PROVE IInv'
  BY <1>23 DEF Finish, ThreadGoto, WakeCleanup
<1>24. ASSUME NEW c \in Conns, Exit(c) PROVE IInv'
  BY <1>24 DEF Exit, ThreadGoto
<1>25. ASSUME NEW c \in Conns, Handshake(c) PROVE IInv'
  <2>1. CASE sock[c] = "open" /\ ThreadGoto(c, "handshake", "serve") /\ UNCHANGED crashed
    BY <1>25, <2>1 DEF Handshake, ThreadGoto
  <2>2. CASE crashed' = TRUE /\ UNCHANGED thread
    BY <1>25, <2>2 DEF Handshake
  <2> QED
    BY <1>25, <2>1, <2>2 DEF Handshake
<1>26. ASSUME NEW c \in Conns, StopServing(c) PROVE IInv'
  BY <1>26 DEF StopServing, ThreadGoto
<1>27. ASSUME NEW c \in Conns, Connect(c) PROVE IInv'
  BY <1>27 DEF Connect
<1>28. ASSUME NEW c \in Conns, Disappear(c) PROVE IInv'
  BY <1>28 DEF Disappear
<1>29. CASE UNCHANGED vars
  BY <1>29 DEF vars
<1> QED
  BY <1>1, <1>2, <1>3, <1>4, <1>5, <1>6, <1>7, <1>8, <1>9, <1>10, <1>11,
     <1>12, <1>13, <1>14, <1>15, <1>16, <1>17, <1>18, <1>19, <1>20, <1>21,
     <1>22, <1>23, <1>24, <1>25, <1>26, <1>27, <1>28, <1>29
     DEF Next, Threads, Stop, Cleanup, AcceptLoop, ClientThread

\* The inductive invariant holds in every reachable state.
LEMMA Invariance == Spec => []IInv
BY InitIInv, NextIInv, PTL DEF Spec

\* Every variable keeps its type, for any set of connections.
THEOREM LifecycleTypeOK == Spec => []TypeOK
<1>1. IInv => TypeOK
  BY DEF IInv
<1> QED
  BY <1>1, Invariance, PTL

\* A thread that can still run is in _clientThreads or in the map stop joins:
\* no interleaving of accepting, reaping and stopping loses its handle.
THEOREM NoThreadLost == Spec => []LiveThreadsOwned
<1>1. IInv => LiveThreadsOwned
  BY DEF IInv
<1> QED
  BY <1>1, Invariance, PTL

\* Once stop has closed the registered sockets, no thread talks to a client
\* over an open one, the threads that were being created included.
THEOREM StopClosesEveryClient == Spec => []NoClientServedAfterStop
<1>1. IInv => NoClientServedAfterStop
  BY DEF IInv
<1> QED
  BY <1>1, Invariance, PTL
==============================================================================
