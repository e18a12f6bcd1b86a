-------------------------- MODULE QueuedPacketHandler --------------------------
(***************************************************************************)
(* A client's connection: PacketHandler::send_request and recv_response    *)
(* over QueuedPacketHandler, whose queue thread hands out turns by a timer *)
(* and runs the client's update when nobody has a turn to wait for.        *)
(*                                                                         *)
(* A packet travels as a code and, when it has fields, as data after it;   *)
(* encryption and lengths are the packet codec's matter.  A mutex that the *)
(* code holds over several steps is one that the queue thread holds during *)
(* an update: mtxQueue, mtxOnQueueEmpty and mtxUnderlying together.        *)
(***************************************************************************)
EXTENDS Naturals, Sequences, FiniteSets

CONSTANTS
    Main,     \* the thread that calls the client API
    Workers,  \* detached threads, a bound on those alive at once
    Queue,    \* the queue thread
    NoReq     \* no request

ASSUME ThreadsAreDistinct == Main \notin Workers /\ Queue \notin Workers \cup {Main}

Threads == Workers \cup {Main}
Actors == Threads \cup {Queue}

VARIABLES
    handler,             \* _packetHandler has a value
    stop,                \* _sync.stop
    nextTicket,          \* _nextTicket
    ticketBeingServed,   \* _ticketBeingServed
    ticket,              \* myTicket of each thread that waits
    pc,                  \* where each thread is
    req,                 \* the request each thread is posting
    reply,               \* what each thread has received of its response
    movedFrom,           \* the queue thread of the handler moved from
    toServer, toClient,  \* what is under way on the connection
    connOpen,            \* the server serves this connection
    overdue,             \* threads running since before the last timer tick
    swapped,             \* some thread was given another's response (history)
    ended                \* why the process or the connection is of no more use

queueVars == <<nextTicket, ticketBeingServed, ticket>>
wire == <<toServer, toClient>>

\* Which packets have fields, and so data after their code (packets.hpp).
HasData(packet) == packet \notin
    {"Logout", "GetUserSets", "Update", "LogoutResponse", "SendDecryptionPartResponse"}

ResponseTo(kind) == CASE kind = "SendDecryptionPart" -> "SendDecryptionPartResponse"
                      [] kind = "Logout" -> "LogoutResponse"
                      [] kind = "Update" -> "UpdateResponse"
                      [] OTHER -> kind

-----------------------------------------------------------------------------
\* How a call ends that throws.  An exception that leaves a thread's function
\* ends the process; one of Main reaches the caller of the API.
Throw(a) ==
    /\ pc' = [pc EXCEPT ![a] = "idle"]
    /\ ended' = CASE a = Main -> ended
                  [] a = Queue -> "update thread died"
                  [] OTHER -> "worker thread died"

\* post: the packet handler may have been reset meanwhile.
Post(t, r) ==
    IF handler
    THEN /\ pc' = [pc EXCEPT ![t] = "code"]
         /\ req' = [req EXCEPT ![t] = r]
         /\ UNCHANGED ended
    ELSE Throw(t) /\ UNCHANGED req

\* The queue thread holds the handler's mutexes.
Locked == pc[Queue] \in {"update", "reply", "body", "done", "handle"}

\* What is sent to a server that has closed the connection throws, or is lost.
Send(a, part, next) ==
    \/ /\ toServer' = IF connOpen
                      THEN Append(toServer, [part |-> part, req |-> req'[a]])
                      ELSE toServer
       /\ pc' = [pc EXCEPT ![a] = next]
       /\ UNCHANGED ended
    \/ ~connOpen /\ Throw(a) /\ UNCHANGED toServer

\* send_request writes the code to the socket itself, with no mutex held.
SendCode(t) ==
    /\ pc[t] = "code"
    /\ UNCHANGED req /\ Send(t, "code", "ticket")
    /\ UNCHANGED <<handler, stop, queueVars, reply, movedFrom, toClient, connOpen>>

\* A stopped queue sends nothing, and the caller goes on to its response.
Serve(t) == pc' = [pc EXCEPT ![t] = IF stop THEN "reply" ELSE "data"]

\* Fault: a ticket that is already in service is waited for as well.
TakeTicketWait(t) ==
    /\ pc[t] = "ticket" /\ ~Locked
    /\ ticket' = [ticket EXCEPT ![t] = nextTicket]
    /\ nextTicket' = nextTicket + 1
    /\ pc' = [pc EXCEPT ![t] = "wait"]
    /\ UNCHANGED <<handler, stop, ticketBeingServed, req, reply, movedFrom,
                   wire, connOpen, ended>>

\* wait_queue: it waits unless the ticket is already in service ...
TakeTicket(t) ==
    /\ pc[t] = "ticket" /\ ~Locked
    /\ nextTicket' = nextTicket + 1
    /\ IF stop \/ nextTicket = ticketBeingServed
       THEN Serve(t) /\ UNCHANGED ticket
       ELSE /\ pc' = [pc EXCEPT ![t] = "wait"]
            /\ ticket' = [ticket EXCEPT ![t] = nextTicket]
    /\ UNCHANGED <<handler, stop, ticketBeingServed, req, reply, movedFrom,
                   wire, connOpen, ended>>

\* ... and is woken by a tick, or by the end of the queue thread.
MyTurn(t) == stop \/ ticket[t] = ticketBeingServed

EndWait(t) ==
    /\ pc[t] = "wait" /\ ~Locked /\ MyTurn(t)
    /\ Serve(t)
    /\ ticket' = [ticket EXCEPT ![t] = 0]
    /\ UNCHANGED <<handler, stop, nextTicket, ticketBeingServed, req, reply, movedFrom,
                   wire, connOpen, ended>>

\* The data, under mtxUnderlying.
SendData(t) ==
    /\ pc[t] = "data" /\ ~Locked
    /\ UNCHANGED req
    /\ IF HasData(req[t].kind)
       THEN Send(t, "data", "reply")
       ELSE pc' = [pc EXCEPT ![t] = "reply"] /\ UNCHANGED <<toServer, ended>>
    /\ UNCHANGED <<handler, stop, queueVars, reply, movedFrom, toClient, connOpen>>

\* recv_packet reads a code, with no mutex held.  One that is neither of the
\* expected response nor of an error answers another thread, which has lost it.
\* On a connection the server has closed, a receiver waits for ever (it takes the
\* end of the stream for a chunk of no bytes), until the socket is closed under it.
RecvCode(a) ==
    /\ pc[a] = "reply"
    /\ \/ /\ toClient = <<>> /\ ~connOpen
          /\ ended' = "end of stream received"
          /\ UNCHANGED <<pc, reply, toClient>>
       \/ /\ toClient # <<>> /\ toClient' = Tail(toClient)
          /\ LET head == Head(toClient) IN
             IF head.part = "code" /\ head.resp.kind \in {ResponseTo(req[a].kind), "Error"}
             THEN /\ reply' = [reply EXCEPT ![a] = head.resp]
                  /\ pc' = [pc EXCEPT ![a] = IF HasData(head.resp.kind) THEN "body" ELSE "done"]
                  /\ UNCHANGED ended
             ELSE ended' = "responses out of step" /\ UNCHANGED <<pc, reply>>
    /\ UNCHANGED <<handler, stop, queueVars, req, movedFrom, toServer, connOpen>>

\* recv_response_data, under mtxUnderlying.
RecvData(a) ==
    /\ pc[a] = "body" /\ (a = Queue \/ ~Locked) /\ toClient # <<>>
    /\ toClient' = Tail(toClient)
    /\ IF Head(toClient) = [part |-> "data", resp |-> reply[a]]
       THEN pc' = [pc EXCEPT ![a] = "done"] /\ UNCHANGED ended
       ELSE ended' = "responses out of step" /\ UNCHANGED pc
    /\ UNCHANGED <<handler, stop, queueVars, req, reply, movedFrom, toServer, connOpen>>

-----------------------------------------------------------------------------
\* The queue thread looks at stop and goes to sleep.
QueueTest ==
    /\ pc[Queue] = "loop"
    /\ pc' = [pc EXCEPT ![Queue] = IF stop THEN "exited" ELSE "sleep"]
    /\ UNCHANGED <<handler, stop, queueVars, req, reply, movedFrom, wire, connOpen, ended>>

\* Fault: the update is not kept from running while a ticket is in service.
TickBoth ==
    /\ pc[Queue] = "sleep"
    /\ ticketBeingServed' = ticketBeingServed
                            + IF ticketBeingServed < nextTicket THEN 1 ELSE 0
    /\ pc' = [pc EXCEPT ![Queue] = "update"]
    /\ UNCHANGED <<handler, stop, nextTicket, ticket, req, reply, movedFrom,
                   wire, connOpen, ended>>

\* The timer: it serves the next ticket, whoever holds the one before, or
\* begins an update when every ticket has been served.
Tick ==
    /\ pc[Queue] = "sleep"
    /\ IF ticketBeingServed < nextTicket
       THEN /\ ticketBeingServed' = ticketBeingServed + 1
            /\ pc' = [pc EXCEPT ![Queue] = "loop"]
       ELSE /\ pc' = [pc EXCEPT ![Queue] = "update"]
            /\ UNCHANGED ticketBeingServed
    /\ UNCHANGED <<handler, stop, nextTicket, ticket, req, reply, movedFrom,
                   wire, connOpen, ended>>

\* update_callback sends its request on the underlying handler, without a ticket.
SendUpdate ==
    /\ pc[Queue] = "update"
    /\ req' = [req EXCEPT ![Queue] = [kind |-> "Update", by |-> Queue]]
    /\ Send(Queue, "code", "reply")
    /\ UNCHANGED <<handler, stop, queueVars, reply, movedFrom, toClient, connOpen>>

-----------------------------------------------------------------------------
\* emplace_packet_handler: a handler is made by QueuedPacketHandler::client and
\* moved into place; its queue thread sees that it was moved from, or sleeps and
\* then runs with neither function nor underlying handler.
MovedFromLooks ==
    /\ movedFrom = "start"
    /\ movedFrom' = IF pc[Main] = "moving" THEN "sleep" ELSE "exited"
    /\ UNCHANGED <<handler, stop, queueVars, pc, req, reply, wire, connOpen, ended>>

MovedFromWakes ==
    /\ movedFrom = "sleep" /\ pc[Main] # "moving"
    /\ movedFrom' = "exited"
    /\ ended' = "moved handler called"
    /\ UNCHANGED <<handler, stop, queueVars, pc, req, reply, wire, connOpen>>

Move ==
    /\ pc[Main] = "moving"
    /\ handler' = TRUE /\ stop' = FALSE
    /\ nextTicket' = 0 /\ ticketBeingServed' = 0
    /\ pc' = [pc EXCEPT ![Main] = "joining", ![Queue] = "loop"]
    /\ UNCHANGED <<ticket, req, reply, movedFrom, wire, connOpen, ended>>

\* The moved-from handler is destroyed, which joins its thread.
Moved ==
    /\ pc[Main] = "joining" /\ movedFrom = "exited"
    /\ pc' = [pc EXCEPT ![Main] = IF req[Main] = NoReq THEN "idle" ELSE "code"]
    /\ UNCHANGED <<handler, stop, queueVars, req, reply, movedFrom, wire, connOpen, ended>>

\* A new connection is made and a handler for it; the call r goes on after.
Connect(r) ==
    /\ connOpen' = TRUE
    /\ toServer' = <<>> /\ toClient' = <<>>
    /\ movedFrom' = "start"
    /\ pc' = [pc EXCEPT ![Main] = "moving"]
    /\ req' = [req EXCEPT ![Main] = r]
    /\ UNCHANGED <<handler, stop, queueVars, reply, ended>>

\* ~QueuedPacketHandler, up to the join of the queue thread ...
BeginReset ==
    /\ stop' = TRUE
    /\ pc' = [pc EXCEPT ![Main] = "stopping"]

\* ... and its end: threads that are still inside meet a destroyed object.
Reset ==
    /\ pc[Main] = "stopping" /\ pc[Queue] = "exited"
    /\ handler' = FALSE
    /\ connOpen' = FALSE /\ toServer' = <<>> /\ toClient' = <<>>
    /\ pc' = [pc EXCEPT ![Main] = "unload"]
    /\ ended' = IF \A w \in Workers : pc[w] \in {"idle", "start", "done"} THEN ended
                ELSE "destroyed handler used"
    /\ UNCHANGED <<stop, queueVars, req, reply, movedFrom>>

-----------------------------------------------------------------------------
\* The timer's delay is two seconds; nothing that runs takes that long.  A thread
\* that ran at one tick has come to wait before the next one.
ServerWaits ==
    \/ toServer = <<>>
    \/ Len(toServer) = 1 /\ toServer[1].part = "code" /\ HasData(toServer[1].req.kind)

AtRest(a) ==
    CASE a = Queue -> pc[Queue] \in {"sleep", "exited"}
      [] a = Main /\ pc[Main] \in {"joining", "stopping"} ->
            IF pc[Main] = "joining" THEN movedFrom # "exited" ELSE pc[Queue] # "exited"
      [] OTHER -> pc[a] = "idle" \/ (pc[a] = "wait" /\ ~MyTurn(a))

InTime == overdue = {}

\* A thread has received the response to another's request.
Swapped(a) == pc[a] \in {"body", "done"} /\ reply[a].req # req[a]

Delay(ticked) ==
    /\ overdue' = IF ticked THEN {a \in Threads : ~AtRest(a)'}
                  ELSE {a \in overdue : ~AtRest(a)'}
    /\ swapped' = (swapped \/ \E a \in Actors : Swapped(a)')
=============================================================================
