------------------------------ MODULE SocketObjects -----------------------------
(***************************************************************************)
(* Socket objects and the descriptors they own: what each call of Socket,  *)
(* TcpSocket and UdpSocket does to the object and to the system's table.   *)
(* An object that the system refuses throws and changes nothing, so only   *)
(* the calls that succeed are actions.  A descriptor's port is 0 while it  *)
(* has none; binding and connecting are the system's, as Linux does them.  *)
(***************************************************************************)
EXTENDS Integers, Sequences, FiniteSets, SequencesExt

CONSTANTS
    SocketNames, Descriptors,   \* objects, and the system's descriptors, from 1
    FreeSockets,                \* the objects on which any call may be made at any time
    BindPorts,                  \* the ports that are asked for
    FreePorts, FreeFamilies,    \* what those calls are made with
    MaxConnections, MaxDatagrams

\* The system numbers descriptors from 1, up to some limit.
ASSUME SocketsAssumption ==
    /\ IsFiniteSet(Descriptors) /\ Descriptors = 1..Cardinality(Descriptors)
    /\ FreeSockets \subseteq SocketNames
    /\ FreePorts \subseteq Nat /\ FreeFamilies \subseteq BOOLEAN

VARIABLES
    socket,      \* the objects that live: [SocketNames -> Object \cup {Dead}]
    os,          \* the descriptors
    lingering,   \* ports of connections that were closed here first
    opened,      \* TCP connections made
    mixed        \* history: objects that were assigned over bytes they still held
netVars == <<socket, os, lingering, opened, mixed>>

NoSock == -1
Dead == [fd |-> NoSock, isConnected |-> FALSE, tcp |-> FALSE, v6 |-> FALSE, buffer |-> 0, alive |-> FALSE]
Unused == [state |-> "unused", v6 |-> FALSE, port |-> 0, conn |-> 0, queue |-> <<>>]

NetInit ==
    /\ socket = [s \in SocketNames |-> Dead] /\ os = [d \in Descriptors |-> Unused]
    /\ lingering = {} /\ opened = 0 /\ mixed = {}

Live(s) == socket[s].alive
Fd(s) == os[socket[s].fd]
HasFd(s) == Live(s) /\ socket[s].fd # NoSock
InState(s, states) == HasFd(s) /\ Fd(s).state \in states
LowestUnused == CHOOSE d \in Descriptors : os[d].state = "unused" /\ \A e \in 1..(d - 1) : os[e].state # "unused"
CanOpen == \E d \in Descriptors : os[d].state = "unused"

-----------------------------------------------------------------------------
\* socket(), and the constructor that checks what it gave.
Construct(s, tcp, v6) ==
    /\ ~Live(s) /\ CanOpen
    /\ socket' = [socket EXCEPT ![s] = [fd |-> LowestUnused, isConnected |-> FALSE, tcp |-> tcp,
                                        v6 |-> v6, buffer |-> 0, alive |-> TRUE]]
    /\ os' = [os EXCEPT ![LowestUnused] = [state |-> IF tcp THEN "new" ELSE "datagram", v6 |-> v6,
                                           port |-> 0, conn |-> 0, queue |-> <<>>]]
    /\ UNCHANGED <<lingering, opened, mixed>>

\* bind to every address.  Nobody asks for SO_REUSEADDR: the port must be free of every
\* other socket, of either family, and of connections closed here a while ago.
PortFree(port, tcp) ==
    /\ port \notin lingering \/ ~tcp
    /\ \A d \in Descriptors : os[d].port = port /\ os[d].state # "unused" =>
           (os[d].state = "datagram") = tcp
Bind(s, port) ==
    /\ InState(s, {"new", "datagram"}) /\ Fd(s).port = 0 /\ PortFree(port, socket[s].tcp)
    /\ os' = [os EXCEPT ![socket[s].fd].port = port]
    /\ UNCHANGED <<socket, lingering, opened, mixed>>

Listen(s) ==
    /\ InState(s, {"new"})
    /\ os' = [os EXCEPT ![socket[s].fd].state = "listening"]
    /\ UNCHANGED <<socket, lingering, opened, mixed>>

\* A listening socket of IPv6 takes connections of both families.
Reaches(v6, d, port) == os[d].port = port /\ (v6 => os[d].v6)
Connect(s, port) ==
    /\ InState(s, {"new"}) /\ opened < MaxConnections
    /\ opened' = opened + 1
    /\ \E d \in Descriptors :
          /\ os[d].state = "listening" /\ Reaches(socket[s].v6, d, port)
          /\ os' = [os EXCEPT ![socket[s].fd].state = "connected", ![socket[s].fd].conn = opened',
                              ![d].queue = Append(@, opened')]
    /\ socket' = [socket EXCEPT ![s].isConnected = TRUE]
    /\ UNCHANGED <<lingering, mixed>>

\* accept: a new object of the same family, connected.
Accept(l, s) ==
    /\ InState(l, {"listening"}) /\ Fd(l).queue # <<>> /\ ~Live(s) /\ CanOpen
    /\ os' = [os EXCEPT ![LowestUnused] = [state |-> "connected", v6 |-> Fd(l).v6, port |-> Fd(l).port,
                                           conn |-> Head(Fd(l).queue), queue |-> <<>>],
                        ![socket[l].fd].queue = Tail(@)]
    /\ socket' = [socket EXCEPT ![s] = [fd |-> LowestUnused, isConnected |-> TRUE, tcp |-> TRUE,
                                        v6 |-> Fd(l).v6, buffer |-> 0, alive |-> TRUE]]
    /\ UNCHANGED <<lingering, opened, mixed>>

-----------------------------------------------------------------------------
\* shutdown and close of a descriptor: the connections still waiting at it are reset, and
\* the port of a connection whose other end is open lingers.
OtherEndOpen(d) ==
    os[d].conn # 0 /\ \E e \in Descriptors \ {d} : os[e].conn = os[d].conn
Lingers(d) == IF os[d].state = "connected" /\ OtherEndOpen(d) THEN {os[d].port} \cap BindPorts ELSE {}
CloseFd(s) ==
    IF HasFd(s)
    THEN /\ os' = [os EXCEPT ![socket[s].fd] = Unused]
         /\ lingering' = lingering \cup Lingers(socket[s].fd)
    ELSE UNCHANGED <<os, lingering>>
Closed(obj) == [obj EXCEPT !.fd = NoSock, !.isConnected = FALSE]

CloseSocket(s) ==
    /\ Live(s)
    /\ CloseFd(s)
    /\ socket' = [socket EXCEPT ![s] = Closed(@)]
    /\ UNCHANGED <<opened, mixed>>

Destroy(s) ==
    /\ Live(s)
    /\ CloseFd(s)
    /\ socket' = [socket EXCEPT ![s] = Dead]
    /\ mixed' = mixed \ {s}
    /\ UNCHANGED opened

\* Fault: the source keeps its descriptor.
LeftBehindWhole(obj) == obj

\* What a move leaves behind: no descriptor, but the leftover bytes.
LeftBehind(obj) == Closed(obj)

MoveConstruct(s, t) ==
    /\ Live(s) /\ ~Live(t)
    /\ socket' = [socket EXCEPT ![t] = [socket[s] EXCEPT !.buffer = 0], ![s] = LeftBehind(@)]
    /\ UNCHANGED <<os, lingering, opened, mixed>>

MoveAssign(s, t) ==
    /\ Live(s) /\ Live(t) /\ s # t
    /\ socket[s].tcp = socket[t].tcp /\ socket[s].v6 = socket[t].v6
    /\ CloseFd(t)
    /\ socket' = [socket EXCEPT ![t] = [socket[s] EXCEPT !.buffer = socket[t].buffer],
                                ![s] = LeftBehind(@)]
    /\ mixed' = IF socket[t].buffer # 0 THEN mixed \cup {t} ELSE mixed
    /\ UNCHANGED opened

-----------------------------------------------------------------------------
\* recv_connected_str read more than its string; a later receive gives that first, even
\* if the socket was closed meanwhile.
ReadTooMuch(s) ==
    /\ InState(s, {"connected"}) /\ socket[s].buffer = 0
    /\ socket' = [socket EXCEPT ![s].buffer = Fd(s).conn]
    /\ UNCHANGED <<os, lingering, opened, mixed>>

ReadLeftover(s) ==
    /\ Live(s) /\ socket[s].buffer # 0
    /\ socket' = [socket EXCEPT ![s].buffer = 0]
    /\ mixed' = mixed \ {s}
    /\ UNCHANGED <<os, lingering, opened>>

\* A UDP socket connects without anyone there, and can stop being connected.
ConnectUdp(s) ==
    /\ InState(s, {"datagram"}) /\ ~socket[s].isConnected
    /\ socket' = [socket EXCEPT ![s].isConnected = TRUE]
    /\ UNCHANGED <<os, lingering, opened, mixed>>

Disconnect(s) ==
    /\ InState(s, {"datagram"})
    /\ socket' = [socket EXCEPT ![s].isConnected = FALSE]
    /\ UNCHANGED <<os, lingering, opened, mixed>>

\* Nobody at the port, or a full queue, loses a datagram; its contents do not matter here.
Datagram == 0
SendTo(s, port) ==
    /\ InState(s, {"datagram"})
    /\ \E d \in Descriptors :
          /\ os[d].state = "datagram" /\ Reaches(socket[s].v6, d, port)
          /\ Len(os[d].queue) < MaxDatagrams
          /\ os' = [os EXCEPT ![d].queue = Append(@, Datagram)]
    /\ UNCHANGED <<socket, lingering, opened, mixed>>

RecvFrom(s) ==
    /\ InState(s, {"datagram"}) /\ Fd(s).queue # <<>>
    /\ os' = [os EXCEPT ![socket[s].fd].queue = Tail(@)]
    /\ UNCHANGED <<socket, lingering, opened, mixed>>

\* The system forgets a closed connection after a while.
Forget ==
    /\ lingering # {} /\ lingering' = {}
    /\ UNCHANGED <<socket, os, opened, mixed>>

\* Any calls on sockets of one kind at a time: those of the two have nothing in common.
NetNext ==
    \/ \E s \in FreeSockets :
          \/ \E tcp \in BOOLEAN, v6 \in FreeFamilies :
                Construct(s, tcp, v6) /\ \A t \in FreeSockets : Live(t) => socket[t].tcp = tcp
          \/ \E port \in FreePorts : Bind(s, port) \/ Connect(s, port) \/ SendTo(s, port)
          \/ Listen(s) \/ CloseSocket(s) \/ Destroy(s) \/ ReadTooMuch(s) \/ ReadLeftover(s)
          \/ ConnectUdp(s) \/ Disconnect(s) \/ RecvFrom(s)
          \/ \E t \in FreeSockets : Accept(s, t) \/ MoveConstruct(s, t) \/ MoveAssign(s, t)
    \/ Forget

NetSpec == NetInit /\ [][NetNext]_netVars

-----------------------------------------------------------------------------
\* However sockets are moved, assigned over, closed and destroyed, a descriptor in use
\* belongs to one object, so it is closed once and never forgotten; a TCP object says that
\* it is connected exactly when its descriptor is; and leftover bytes are of the object's
\* own connection, unless it was assigned over some.
SocketsOwned ==
    /\ \A d \in Descriptors : os[d].state # "unused" => Cardinality({s \in SocketNames : socket[s].fd = d}) = 1
    /\ \A s \in SocketNames :
          /\ HasFd(s) => Fd(s).state # "unused"
          /\ socket[s].tcp => socket[s].isConnected = InState(s, {"connected"})
          /\ socket[s].buffer # 0 /\ InState(s, {"connected"}) /\ s \notin mixed => socket[s].buffer = Fd(s).conn
=============================================================================
