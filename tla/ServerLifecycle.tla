---------------------------- MODULE ServerLifecycle ----------------------------
(***************************************************************************)
(* Starting and stopping the server: the thread that calls start and stop, *)
(* the accept thread, the cleanup thread, one thread per connection, and a *)
(* thread in wait().  Requests are abstracted to "serve".                  *)
(*                                                                         *)
(* _mtxClients is held over several steps only by the cleanup thread: a    *)
(* critical section of another thread is one step, taken while it is free. *)
(***************************************************************************)
EXTENDS Naturals, FiniteSets

CONSTANT Conns  \* connection IDs (bounds the number of connections)

VARIABLES
    isRunning,      \* _isRunning
    crashed,        \* an exception left a thread's function: std::terminate
    listening,      \* _listenSock is open
    backlog,        \* connections the system has, not accepted yet
    peer,           \* what the client of a connection did
    sock,           \* the server's socket of a connection: open or closed
    thread,         \* where the thread of a connection is
    clientThreads,  \* keys of _clientThreads
    clientSocks,    \* keys of _clientSocks
    finishedConns,  \* _finishedConns
    threadsToJoin,  \* stop's local map
    mtxHeld,        \* the cleanup thread holds _mtxClients
    mainPc, acceptPc, accepted, cleanupPc, waitPc

connVars == <<backlog, peer, sock, thread>>
mapVars == <<clientThreads, clientSocks, finishedConns, threadsToJoin>>
pcVars == <<mainPc, acceptPc, accepted, cleanupPc, waitPc>>
vars == <<isRunning, crashed, listening, connVars, mapVars, mtxHeld, pcVars>>

-----------------------------------------------------------------------------
\* "idle": the connection does not exist yet.
ThreadLocations == {"idle", "register", "check", "handshake", "serve",
                    "finish", "leave", "exited"}

MainLocations == {"start", "running", "close_listen", "notify", "close_all",
                  "take_threads", "join", "join_accept", "join_cleanup",
                  "notify_wait", "done"}

TypeOK ==
    /\ {isRunning, crashed, listening, mtxHeld} \subseteq BOOLEAN
    /\ backlog \subseteq Conns
    /\ peer \in [Conns -> {"here", "left", "reset"}]
    /\ sock \in [Conns -> {"open", "closed"}]
    /\ thread \in [Conns -> ThreadLocations]
    /\ {clientThreads, clientSocks, finishedConns, threadsToJoin} \subseteq SUBSET Conns
    /\ mainPc \in MainLocations
    /\ acceptPc \in {"none", "test", "accept", "emplace", "done"}
    /\ accepted \subseteq Conns /\ Cardinality(accepted) \in {0, 1}
    /\ cleanupPc \in {"none", "test", "lock", "predicate", "block", "waiting",
                      "recheck", "erase", "done"}
    /\ waitPc \in {"call", "block", "waiting", "done"}

Init ==
    /\ isRunning = FALSE /\ crashed = FALSE
    /\ listening = FALSE
    /\ backlog = {}
    /\ peer = [c \in Conns |-> "here"]
    /\ sock = [c \in Conns |-> "open"]
    /\ thread = [c \in Conns |-> "idle"]
    /\ clientThreads = {} /\ clientSocks = {}
    /\ finishedConns = {} /\ threadsToJoin = {}
    /\ mtxHeld = FALSE
    /\ mainPc = "start" /\ acceptPc = "none" /\ accepted = {}
    /\ cleanupPc = "none" /\ waitPc = "call"

-----------------------------------------------------------------------------
\* start(): raise the flag, listen, create the two service threads.
Start ==
    /\ mainPc = "start"
    /\ isRunning' = TRUE
    /\ listening' = TRUE
    /\ mainPc' = "running" /\ acceptPc' = "test" /\ cleanupPc' = "test"
    /\ UNCHANGED <<crashed, connVars, mapVars, mtxHeld, accepted, waitPc>>

\* Fault: the notification is left out.
WakeCleanupNever == UNCHANGED cleanupPc

\* notify on _cvFinishedConns: only a thread that waits is woken.
WakeCleanup == cleanupPc' = IF cleanupPc = "waiting" THEN "lock" ELSE cleanupPc

\* A step of stop() from one location to the next.
StopStep(from, to) == mainPc = from /\ mainPc' = to

\* stop() clears the flag without holding _mtxClients.
StopClearFlag ==
    /\ StopStep("running", "close_listen")
    /\ isRunning' = FALSE
    /\ UNCHANGED <<crashed, listening, connVars, mapVars, mtxHeld,
                   acceptPc, accepted, cleanupPc, waitPc>>

StopCloseListen ==
    /\ StopStep("close_listen", "notify")
    /\ listening' = FALSE
    /\ backlog' = {}
    /\ UNCHANGED <<isRunning, crashed, peer, sock, thread, mapVars, mtxHeld,
                   acceptPc, accepted, cleanupPc, waitPc>>

StopNotifyCleanup ==
    /\ StopStep("notify", "close_all")
    /\ WakeCleanup
    /\ UNCHANGED <<isRunning, crashed, listening, connVars, mapVars, mtxHeld,
                   acceptPc, accepted, waitPc>>

\* Fault: the sockets are forgotten, not closed.
StopForgetSockets ==
    /\ StopStep("close_all", "take_threads")
    /\ ~mtxHeld
    /\ clientSocks' = {}
    /\ finishedConns' = {}
    /\ UNCHANGED <<isRunning, crashed, listening, connVars,
                   clientThreads, threadsToJoin, mtxHeld,
                   acceptPc, accepted, cleanupPc, waitPc>>

StopCloseSockets ==
    /\ StopStep("close_all", "take_threads")
    /\ ~mtxHeld
    /\ sock' = [c \in Conns |-> IF c \in clientSocks THEN "closed" ELSE sock[c]]
    /\ clientSocks' = {}
    /\ finishedConns' = {}
    /\ UNCHANGED <<isRunning, crashed, listening, backlog, peer, thread,
                   clientThreads, threadsToJoin, mtxHeld,
                   acceptPc, accepted, cleanupPc, waitPc>>

StopTakeThreads ==
    /\ StopStep("take_threads", "join")
    /\ ~mtxHeld
    /\ threadsToJoin' = clientThreads
    /\ clientThreads' = {}
    /\ UNCHANGED <<isRunning, crashed, listening, connVars, clientSocks,
                   finishedConns, mtxHeld, acceptPc, accepted, cleanupPc, waitPc>>

StopJoinClients ==
    /\ StopStep("join", "join_accept")
    /\ \A c \in threadsToJoin : thread[c] = "exited"
    /\ threadsToJoin' = {}
    /\ UNCHANGED <<isRunning, crashed, listening, connVars, clientThreads,
                   clientSocks, finishedConns, mtxHeld,
                   acceptPc, accepted, cleanupPc, waitPc>>

StopJoinService ==
    /\ \/ StopStep("join_accept", "join_cleanup") /\ acceptPc = "done"
       \/ StopStep("join_cleanup", "notify_wait") /\ cleanupPc = "done"
    /\ UNCHANGED <<isRunning, crashed, listening, connVars, mapVars, mtxHeld,
                   acceptPc, accepted, cleanupPc, waitPc>>

\* Fault: threads in wait() are not notified.
StopNotifyWaitNever ==
    /\ StopStep("notify_wait", "done")
    /\ UNCHANGED <<isRunning, crashed, listening, connVars, mapVars, mtxHeld,
                   acceptPc, accepted, cleanupPc, waitPc>>

StopNotifyWait ==
    /\ StopStep("notify_wait", "done")
    /\ waitPc' = IF waitPc = "waiting" THEN "call" ELSE waitPc
    /\ UNCHANGED <<isRunning, crashed, listening, connVars, mapVars, mtxHeld,
                   acceptPc, accepted, cleanupPc>>

\* The destructions of stop's locals end with stop: nothing more happens there.
Stop ==
    \/ StopCloseListen \/ StopNotifyCleanup \/ StopCloseSockets
    \/ StopTakeThreads \/ StopJoinClients \/ StopJoinService \/ StopNotifyWait

-----------------------------------------------------------------------------
\* wait(): the predicate is evaluated under _mtxWait, which stop() never takes.
WaitTest ==
    /\ waitPc = "call"
    /\ mainPc # "start"
    /\ waitPc' = IF isRunning THEN "block" ELSE "done"
    /\ UNCHANGED <<isRunning, crashed, listening, connVars, mapVars, mtxHeld,
                   mainPc, acceptPc, accepted, cleanupPc>>

WaitBlock ==
    /\ waitPc = "block"
    /\ waitPc' = "waiting"
    /\ UNCHANGED <<isRunning, crashed, listening, connVars, mapVars, mtxHeld,
                   mainPc, acceptPc, accepted, cleanupPc>>

-----------------------------------------------------------------------------
\* cleanup_loop
CleanupGoto(from, to) == cleanupPc = from /\ cleanupPc' = to

CleanupTest ==
    /\ CleanupGoto("test", IF isRunning THEN "lock" ELSE "done")
    /\ UNCHANGED <<isRunning, crashed, listening, connVars, mapVars, mtxHeld,
                   mainPc, acceptPc, accepted, waitPc>>

\* Also the way out of wait: a woken thread takes the mutex again.
CleanupLock ==
    /\ CleanupGoto("lock", "predicate")
    /\ ~mtxHeld
    /\ mtxHeld' = TRUE
    /\ UNCHANGED <<isRunning, crashed, listening, connVars, mapVars,
                   mainPc, acceptPc, accepted, waitPc>>

CleanupPredicate ==
    /\ CleanupGoto("predicate",
           IF ~isRunning \/ finishedConns # {} THEN "recheck" ELSE "block")
    /\ UNCHANGED <<isRunning, crashed, listening, connVars, mapVars, mtxHeld,
                   mainPc, acceptPc, accepted, waitPc>>

\* wait releases the mutex and starts waiting, in one step.
CleanupBlock ==
    /\ CleanupGoto("block", "waiting")
    /\ mtxHeld' = FALSE
    /\ UNCHANGED <<isRunning, crashed, listening, connVars, mapVars,
                   mainPc, acceptPc, accepted, waitPc>>

CleanupRecheck ==
    /\ CleanupGoto("recheck", IF isRunning THEN "erase" ELSE "done")
    /\ mtxHeld' = isRunning
    /\ UNCHANGED <<isRunning, crashed, listening, connVars, mapVars,
                   mainPc, acceptPc, accepted, waitPc>>

\* Fault: the thread is detached, not joined.
CleanupDetach ==
    /\ \/ \E c \in finishedConns :
             /\ CleanupGoto("erase", "erase")
             /\ clientThreads' = clientThreads \ {c}
             /\ finishedConns' = finishedConns \ {c}
             /\ UNCHANGED mtxHeld
       \/ /\ finishedConns = {}
          /\ CleanupGoto("erase", "test")
          /\ mtxHeld' = FALSE
          /\ UNCHANGED <<clientThreads, finishedConns>>
    /\ UNCHANGED <<isRunning, crashed, listening, connVars, clientSocks,
                   threadsToJoin, mainPc, acceptPc, accepted, waitPc>>

\* Erasing a finished connection's thread joins it, with the mutex held.
CleanupErase ==
    /\ \/ \E c \in finishedConns :
             /\ CleanupGoto("erase", "erase")
             /\ c \in clientThreads => thread[c] = "exited"
             /\ clientThreads' = clientThreads \ {c}
             /\ finishedConns' = finishedConns \ {c}
             /\ UNCHANGED mtxHeld
       \/ /\ finishedConns = {}
          /\ CleanupGoto("erase", "test")
          /\ mtxHeld' = FALSE
          /\ UNCHANGED <<clientThreads, finishedConns>>
    /\ UNCHANGED <<isRunning, crashed, listening, connVars, clientSocks,
                   threadsToJoin, mainPc, acceptPc, accepted, waitPc>>

Cleanup ==
    \/ CleanupTest \/ CleanupLock \/ CleanupPredicate
    \/ CleanupBlock \/ CleanupRecheck \/ CleanupErase

-----------------------------------------------------------------------------
\* accept_loop
AcceptTest ==
    /\ acceptPc = "test"
    /\ acceptPc' = IF isRunning THEN "accept" ELSE "done"
    /\ UNCHANGED <<isRunning, crashed, listening, connVars, mapVars, mtxHeld,
                   mainPc, accepted, cleanupPc, waitPc>>

\* Fault: every waiting connection is taken, into one variable.
AcceptAll ==
    /\ acceptPc = "accept"
    /\ \/ /\ backlog # {}
          /\ backlog' = {}
          /\ accepted' = backlog
          /\ acceptPc' = "emplace"
       \/ /\ ~listening
          /\ acceptPc' = "test"
          /\ UNCHANGED <<backlog, accepted>>
    /\ UNCHANGED <<isRunning, crashed, listening, peer, sock, thread, mapVars,
                   mtxHeld, mainPc, cleanupPc, waitPc>>

\* accept blocks until there is a connection, and fails when the listening
\* socket is shut down: the loop goes on to its test.
Accept ==
    /\ acceptPc = "accept"
    /\ \/ \E c \in backlog :
             /\ backlog' = backlog \ {c}
             /\ accepted' = {c}
             /\ acceptPc' = "emplace"
       \/ /\ ~listening
          /\ acceptPc' = "test"
          /\ UNCHANGED <<backlog, accepted>>
    /\ UNCHANGED <<isRunning, crashed, listening, peer, sock, thread, mapVars,
                   mtxHeld, mainPc, cleanupPc, waitPc>>

AcceptEmplace ==
    /\ acceptPc = "emplace"
    /\ ~mtxHeld
    /\ clientThreads' = clientThreads \cup accepted
    /\ thread' = [c \in Conns |-> IF c \in accepted THEN "register" ELSE thread[c]]
    /\ accepted' = {}
    /\ acceptPc' = "test"
    /\ UNCHANGED <<isRunning, crashed, listening, backlog, peer, sock,
                   clientSocks, finishedConns, threadsToJoin, mtxHeld,
                   mainPc, cleanupPc, waitPc>>

AcceptLoop == AcceptTest \/ Accept \/ AcceptEmplace

-----------------------------------------------------------------------------
\* handle_new_client, for connection c.
ThreadGoto(c, from, to) ==
    thread[c] = from /\ thread' = [thread EXCEPT ![c] = to]

Register(c) ==
    /\ ThreadGoto(c, "register", "check")
    /\ ~mtxHeld
    /\ clientSocks' = clientSocks \cup {c}
    /\ UNCHANGED <<isRunning, crashed, listening, backlog, peer, sock,
                   clientThreads, finishedConns, threadsToJoin, mtxHeld, pcVars>>

\* Fault: the flag is not looked at again.
CheckNothing(c) ==
    /\ ThreadGoto(c, "check", "handshake")
    /\ UNCHANGED <<isRunning, crashed, listening, backlog, peer, sock,
                   mapVars, mtxHeld, pcVars>>

CheckRunning(c) ==
    /\ ThreadGoto(c, "check", IF isRunning THEN "handshake" ELSE "finish")
    /\ UNCHANGED <<isRunning, crashed, listening, backlog, peer, sock,
                   mapVars, mtxHeld, pcVars>>

\* The packet handler's constructor exchanges keys with the client.  Whatever
\* it throws is caught nowhere: a bad version, a lost connection, or a socket
\* that stop() has closed ends the program.
Handshake(c) ==
    /\ \/ /\ sock[c] = "open" /\ peer[c] = "here"
          /\ ThreadGoto(c, "handshake", "serve")
          /\ UNCHANGED crashed
       \/ /\ thread[c] = "handshake"
          /\ sock[c] = "closed" \/ peer[c] # "left"
          /\ crashed' = TRUE
          /\ UNCHANGED thread
    /\ UNCHANGED <<isRunning, listening, backlog, peer, sock, mapVars, mtxHeld, pcVars>>

\* The request loops end: the client asks to log out, a request was served and
\* the flag is clear, or receiving fails.  When the client has closed its end,
\* recv returns 0, which the receiving loop adds up and tries again: no step.
StopServing(c) ==
    /\ \/ sock[c] = "open" /\ peer[c] = "here"
       \/ sock[c] = "closed"
       \/ peer[c] = "reset"
    /\ ThreadGoto(c, "serve", "finish")
    /\ UNCHANGED <<isRunning, crashed, listening, backlog, peer, sock,
                   mapVars, mtxHeld, pcVars>>

\* The cleanup at scope exit, under _mtxClients; then the thread returns.
Finish(c) ==
    /\ ThreadGoto(c, "finish", "leave")
    /\ ~mtxHeld
    /\ clientSocks' = clientSocks \ {c}
    /\ finishedConns' = finishedConns \cup {c}
    /\ WakeCleanup
    /\ UNCHANGED <<isRunning, crashed, listening, backlog, peer, sock,
                   clientThreads, threadsToJoin, mtxHeld,
                   mainPc, acceptPc, accepted, waitPc>>

Exit(c) ==
    /\ ThreadGoto(c, "leave", "exited")
    /\ sock' = [sock EXCEPT ![c] = "closed"]
    /\ UNCHANGED <<isRunning, crashed, listening, backlog, peer,
                   mapVars, mtxHeld, pcVars>>

\* What c's thread does without waiting for the client.
ClientThread(c) == Register(c) \/ CheckRunning(c) \/ Finish(c) \/ Exit(c)

-----------------------------------------------------------------------------
\* The clients.
Connect(c) ==
    /\ listening /\ thread[c] = "idle" /\ c \notin backlog \cup accepted
    /\ backlog' = backlog \cup {c}
    /\ UNCHANGED <<isRunning, crashed, listening, peer, sock, thread,
                   mapVars, mtxHeld, pcVars>>

\* The client closes its socket without a LogoutRequest, or is cut off.
Disappear(c) ==
    /\ thread[c] # "idle" /\ peer[c] = "here"
    /\ \E how \in {"left", "reset"} : peer' = [peer EXCEPT ![c] = how]
    /\ UNCHANGED <<isRunning, crashed, listening, backlog, sock, thread,
                   mapVars, mtxHeld, pcVars>>

Threads ==
    \/ Start \/ StopClearFlag \/ Stop \/ WaitTest \/ WaitBlock
    \/ Cleanup \/ AcceptLoop
    \/ \E c \in Conns :
          \/ ClientThread(c) \/ Handshake(c) \/ StopServing(c)
          \/ Connect(c) \/ Disappear(c)

Next == ~crashed /\ Threads

Spec == Init /\ [][Next]_vars

\* Every thread goes on while it can.  A client need not connect, complete the
\* key exchange, log out or leave, and nobody need call stop.
Fails(c) == sock[c] = "closed" \/ peer[c] = "reset"

Fairness ==
    /\ WF_vars(~crashed /\ Stop)
    /\ WF_vars(~crashed /\ (WaitTest \/ WaitBlock))
    /\ WF_vars(~crashed /\ Cleanup)
    /\ WF_vars(~crashed /\ AcceptLoop)
    /\ \A c \in Conns :
          /\ WF_vars(~crashed /\ ClientThread(c))
          /\ WF_vars(~crashed /\ Fails(c) /\ (Handshake(c) \/ StopServing(c)))

FairSpec == Spec /\ Fairness

-----------------------------------------------------------------------------
\* Every thread that can still run has a handle that will join it: it is in
\* the server's map or in stop's, and in one of them only.
LiveThreadsOwned ==
    /\ clientThreads \cap threadsToJoin = {}
    /\ \A c \in Conns :
          thread[c] \notin {"idle", "exited"} => c \in clientThreads \cup threadsToJoin

\* A connection registers its socket and then looks at the flag; stop clears
\* the flag and then closes the registered sockets.  So once the sockets are
\* closed no thread talks to a client over an open one, and stop never waits
\* for a client: also for connections accepted while stop was running.
NoClientServedAfterStop ==
    mainPc \notin {"start", "running", "close_listen", "notify", "close_all"} =>
        \A c \in Conns : thread[c] \in {"handshake", "serve"} => sock[c] = "closed"

\* While the server runs, the thread of a connection that ended is reaped.
FinishedThreadsReaped ==
    \A c \in Conns :
        (isRunning /\ thread[c] = "exited")
            ~> (c \notin clientThreads \/ ~isRunning \/ crashed)

\* stop() returns if a connection's thread still runs when the flag is
\* cleared: its exit wakes the cleanup thread.
StopReturnsIfConnected ==
    (mainPc = "close_listen" /\ \E c \in Conns :
        thread[c] \in {"register", "check", "serve"}) ~> (mainPc = "done" \/ crashed)

\* A thread in wait() returns if it is blocked, or has not looked at the flag
\* yet, when stop() notifies.  Only a look just before remains unnoticed.
WaitersReleased ==
    (mainPc = "notify_wait" /\ waitPc \in {"call", "waiting"})
        ~> (waitPc = "done" \/ crashed)

\* "wait for accept loop and cleanup loop threads to finish gracefully"
\* (Server_impl.hpp): stop() returns.  notify_all may come between the cleanup
\* thread's look at the flag and its wait, and wake nobody.
StopReturns == mainPc = "close_listen" ~> (mainPc = "done" \/ crashed)

\* "might have happened because server stopped, if not - client disconnected"
\* (Server_impl.hpp): the thread of a client that closed its socket ends.
DepartureNoticed ==
    \A c \in Conns :
        (thread[c] = "serve" /\ peer[c] = "left") ~> (thread[c] # "serve" \/ crashed)
==============================================================================
