--------------------------- MODULE ClientProperties ---------------------------
(***************************************************************************)
(* What a client promises its caller and the server promises a client.     *)
(***************************************************************************)
EXTENDS ClientApi

Running(a) == pc[a] \in {"code", "ticket", "wait", "data", "reply", "body", "done"}

\* AnsweredOwnRequest: post returns the response to the request it was given, be
\* it an error (PacketHandler::recv_response), whatever other threads post.
AnsweredOwnRequest ==
    \A a \in Actors : pc[a] = "done" => reply[a].req = req[a]

\* Where a record of an update is on its way to its user.
UnderWay(u, i) ==
    \/ i \in updates[u]
    \/ \E n \in 1..Len(toClient) : /\ toClient[n].resp.kind = "UpdateResponse"
                                   /\ i \in toClient[n].resp.items
    \/ \E a \in {Main, Queue} : /\ pc[a] \in {"body", "done"}
                                /\ reply[a].kind = "UpdateResponse" /\ i \in reply[a].items
    \/ \E a \in {Main, Queue} : i \in inbox[a]

HasShard(u, s) == Record(u, s) \in ToSet(profile[u])

\* KeyShardsKept: the key shards of a new userset are sent once; until they are in
\* the member's profile they are on their way (get_updates, handle_added_userset).
\* Once two threads have been given each other's responses nothing of this is sure:
\* the caller may return before the key shards of its userset have come.
KeyShardsKept ==
    Alive /\ ~swapped => \A u \in Users, s \in UserSetIDs :
        <<u, [kind |-> "added", us |-> s]>> \in told =>
            \/ UnderWay(u, [kind |-> "added", us |-> s])
            \/ HasShard(u, s)
            \/ Running(Main) /\ req[Main] = [kind |-> "MakeUserSet", by |-> Main, us |-> s]

\* Every search of the profile looks at the records after the first; the first is
\* skipped, or not, as the compiler has it (AddedIsFound).
HasLaterShard(u, s) == \E n \in 2..Len(profile[u]) : profile[u][n] = Record(u, s)

\* ResultsDelivered: as long as its caller stays logged in, the result of a decryption
\* is on its way, and when it is waited for no more it has reached the caller (decrypt
\* registers the caller after the request is answered, handle_finished_decryption drops
\* a result nobody waits for), unless responses were swapped.  The search for the
\* result's record may fail, after the wait was given up: the result is lost where its
\* record is not in the profile, or is the first one, or is misread, and with it those
\* that came in the same update.
ResultsDelivered ==
    [][\A o \in OpIDs :
        LET result == [kind |-> "finished", op |-> o]
        IN  Alive' /\ ~swapped' /\ storage # NoUser /\ storage' = storage =>
                /\ o \in pendingDecryptions' /\ <<storage, result>> \in told' /\ missed' = {}
                        => UnderWay(storage, result)'
                /\ o \in pendingDecryptions \ pendingDecryptions' /\ "misread" \notin missed'
                        /\ HasLaterShard(storage, UserSetOf[o])
                        => o \in delivered']_vars

\* TasksNotDropped: a member that is logged in, has its key shard and is asked for
\* its part sends it (participate drops a task whose participance is not
\* registered), unless a thread with the answer that says which part it is has not
\* registered it yet (request_participance), as may be when the caller forces an
\* update meanwhile, or responses were swapped.  A task is dropped too if the key shard
\* is in the first record of the profile, which the search may skip.
Registering(w, o) == Got(w, "Participate") /\ req[w].op = o

TasksNotDropped ==
    [][\A w \in Workers :
        /\ pc[w] = "start" /\ job[w].kind = "todecrypt" /\ pc'[w] = "idle"
        /\ <<storage, job[w]>> \in told /\ HasLaterShard(storage, UserSetOf[job[w].op])
        /\ handler /\ ~swapped
        => \E v \in Workers : Registering(v, job[w].op)]_vars

\* RequestsReturn: a request posted on the queue is answered, unless the process or
\* its connection comes to an end; no turn is missed (wait_queue).
RequestsReturn ==
    \A t \in Threads : Alive /\ Running(t) ~> ~Running(t) \/ ~Alive

\* UpdatesFetched: what the server has for a client reaches it while it stays
\* logged in (queue_thread runs the update when the queue is empty).
UpdatesFetched ==
    \A u \in Users : Alive /\ session = u /\ updates[u] # {} ~>
        session # u \/ updates[u] = {} \/ ~Alive

=============================================================================
