-------------------------------- MODULE Programs --------------------------------
(***************************************************************************)
(* How the server and the client program start, meet and end: the parsing  *)
(* of their arguments, and their sockets.  A program's own socket bears    *)
(* its name; an argument is a text, and the system reads numbers and       *)
(* addresses out of texts.                                                 *)
(***************************************************************************)
EXTENDS SocketObjects

CONSTANTS
    Servers, Clients,     \* programs, in SocketNames
    HandlerSockets,       \* the objects of accepted connections, in SocketNames
    ServerArgs, ClientArgs,   \* the argument lists they are started with
    Stoi,                 \* texts that begin with a number -> that number; not 0, with which
                          \* the system chooses a port
    Inet4, Inet6,         \* texts that inet_pton takes as an address of the family
    DEFAULT_LISTEN_PORT

\* numeric_limits<Port>::max()
MaxPort == 65535

\* Every program and every connection has an object of its own.
ASSUME ProgramsAssumption ==
    /\ Servers \cup Clients \cup HandlerSockets \subseteq SocketNames
    /\ Servers \cap Clients = {} /\ (Servers \cup Clients) \cap HandlerSockets = {}
    /\ DEFAULT_LISTEN_PORT \in 0..MaxPort

\* The families' names are no numbers and no addresses, and an address is of one family.
Families == {"IPv4", "IPv6"}
Addresses == Inet4 \cup Inet6
ASSUME ArgumentsAssumption ==
    /\ \A args \in ServerArgs \cup ClientArgs : args \in Seq(STRING)
    /\ Inet4 \cap Inet6 = {}
    /\ \A family \in Families : family \notin DOMAIN Stoi /\ family \notin Addresses

VARIABLES
    program,     \* [at, args, v6, port] of each program
    turnedAway   \* history: clients refused by a server that ran where they were sent
programVars == <<program, turnedAway>>

Off == [at |-> "off", args |-> <<>>, v6 |-> FALSE, port |-> 0]
ProgramsInit ==
    /\ program = [p \in Servers \cup Clients |-> Off]
    /\ turnedAway = {}

-----------------------------------------------------------------------------
\* parse_port.  stoi stops where the number ends.
BadPort == -1
ParsePort(text) ==
    IF text \in DOMAIN Stoi /\ Stoi[text] \in 0..MaxPort THEN Stoi[text] ELSE BadPort

\* parse_ip tries one family after the other.
ParseIp(text) == IF text \in Inet4 THEN "IPv4" ELSE IF text \in Inet6 THEN "IPv6" ELSE "none"

Refused == [ok |-> FALSE, v6 |-> FALSE, port |-> 0]
PortOf(texts, v6) ==
    LET port == IF texts = <<>> THEN DEFAULT_LISTEN_PORT ELSE ParsePort(texts[1])
    IN  IF port = BadPort THEN Refused ELSE [ok |-> TRUE, v6 |-> v6, port |-> port]

\* parse_args of the server: what is left after the family is taken out begins with the
\* port; a second text that is left is not looked at.
ParseServerArgs(args) ==
    IF Len(args) > 2 \/ {"IPv4", "IPv6"} \subseteq ToSet(args) THEN Refused
    ELSE PortOf(RemoveFirst(RemoveFirst(args, "IPv4"), "IPv6"), "IPv6" \in ToSet(args))

\* main of the client.
ParseClientArgs(args) ==
    IF Len(args) \notin {1, 2} \/ ParseIp(args[1]) = "none" THEN Refused
    ELSE PortOf(Tail(args), ParseIp(args[1]) = "IPv6")

-----------------------------------------------------------------------------
Goes(p, place) == program' = [program EXCEPT ![p].at = place]

\* A program is started and reads its arguments; one that refuses them ends at once.
Start(p, args, parsed) ==
    /\ program[p].at = "off"
    /\ program' = IF parsed.ok
                  THEN [program EXCEPT ![p] = [at |-> "parsed", args |-> args, v6 |-> parsed.v6,
                                               port |-> parsed.port]]
                  ELSE program
    /\ UNCHANGED <<netVars, turnedAway>>
StartServer(p) == \E args \in ServerArgs : Start(p, args, ParseServerArgs(args))
StartClient(p) == \E args \in ClientArgs : Start(p, args, ParseClientArgs(args))

\* The console or the storage cannot be had: an exit code, or an exception nobody catches.
SetUpFails(p) ==
    /\ p \in Servers /\ program[p].at = "parsed"
    /\ Goes(p, "off") /\ UNCHANGED <<netVars, turnedAway>>

\* start_server: the constructor's socket, and then its bind, which may be refused; the
\* socket then dies with the server that was not constructed.
MakeSocket(p) ==
    /\ program[p].at = "parsed"
    /\ Construct(p, TRUE, program[p].v6)
    /\ Goes(p, "made") /\ UNCHANGED turnedAway

CanBind(p) == PortFree(program[p].port, TRUE)
BindServer(p) ==
    /\ p \in Servers /\ program[p].at = "made"
    /\ IF CanBind(p) THEN Bind(p, program[p].port) /\ Goes(p, "bound")
       ELSE Destroy(p) /\ Goes(p, "off")
    /\ UNCHANGED turnedAway

\* run_server: start listens, and the port is reported.
StartListening(p) ==
    /\ p \in Servers /\ program[p].at = "bound"
    /\ Listen(p)
    /\ Goes(p, "running") /\ UNCHANGED turnedAway

\* The accept loop; the connection gets an object of its own.
AcceptClient(p) ==
    /\ p \in Servers /\ program[p].at = "running"
    /\ \E s \in HandlerSockets : Accept(p, s)
    /\ UNCHANGED programVars

\* A handler ends, and its connection's object with it.
HandlerEnds(s) ==
    /\ s \in HandlerSockets /\ Destroy(s)
    /\ UNCHANGED programVars

\* "stop": the listening socket is closed and the handlers', whose threads end; then main
\* returns.
StopServer(p) ==
    /\ p \in Servers /\ program[p].at = "running"
    /\ CloseSocket(p)
    /\ Goes(p, "stopping") /\ UNCHANGED turnedAway

EndServer(p) ==
    /\ p \in Servers /\ program[p].at = "stopping"
    /\ \A s \in HandlerSockets : ~(Live(s) /\ HasFd(s) /\ Fd(s).port = program[p].port)
    /\ Destroy(p)
    /\ Goes(p, "off") /\ UNCHANGED turnedAway

\* start_client: the constructor connects; if it cannot, the object dies.
Someone(v6, port) == \E d \in Descriptors : os[d].state = "listening" /\ Reaches(v6, d, port)
ConnectClient(p) ==
    /\ p \in Clients /\ program[p].at = "made"
    /\ Connect(p, program[p].port) /\ Goes(p, "running") /\ UNCHANGED turnedAway

\* What a person means by arguments: the family they name, and the number in them that is
\* not an address's.
Means(args, v6, port) ==
    /\ v6 = (\E a \in ToSet(args) : a = "IPv6" \/ a \in Inet6)
    /\ LET numbers == {Stoi[a] : a \in (ToSet(args) \cap DOMAIN Stoi) \ Addresses}
       IN  IF numbers = {} THEN port = DEFAULT_LISTEN_PORT ELSE port \in numbers

\* They give one port at most, and no address in its place, of which stoi reads the
\* beginning.
Clear(texts) ==
    /\ ToSet(texts) \cap Addresses = {}
    /\ \A a, b \in ToSet(texts) \cap DOMAIN Stoi : Stoi[a] = Stoi[b]

ClientFails(p) ==
    /\ p \in Clients /\ program[p].at = "made"
    /\ ~Someone(program[p].v6, program[p].port)
    /\ Destroy(p) /\ Goes(p, "off")
    /\ turnedAway' =
          IF \E q \in Servers, v6 \in BOOLEAN, port \in BindPorts :
                /\ program[q].at = "running" /\ Clear(program[q].args) /\ Clear(Tail(program[p].args))
                /\ Means(program[q].args, v6, port) /\ Means(program[p].args, v6, port)
          THEN turnedAway \cup {p} ELSE turnedAway

\* run_client returns, and the socket dies.
EndClient(p) ==
    /\ p \in Clients /\ program[p].at = "running"
    /\ Destroy(p)
    /\ Goes(p, "off") /\ UNCHANGED turnedAway

ProgramsNext ==
    \/ \E p \in Servers : \/ StartServer(p) \/ SetUpFails(p) \/ MakeSocket(p) \/ BindServer(p)
                          \/ StartListening(p) \/ AcceptClient(p) \/ StopServer(p) \/ EndServer(p)
    \/ \E p \in Clients : \/ StartClient(p) \/ MakeSocket(p) \/ ConnectClient(p) \/ ClientFails(p)
                          \/ EndClient(p)
    \/ \E s \in HandlerSockets : HandlerEnds(s)
    \/ Forget /\ UNCHANGED programVars

ProgramsSpec == NetInit /\ ProgramsInit /\ [][ProgramsNext]_<<netVars, programVars>>

-----------------------------------------------------------------------------
\* A server that runs listens where its arguments say, one at most at a port; a program
\* that ended left no socket; and a client and a server, each parsing arguments of its
\* own, meet when these mean the same: no client is turned away from where a server runs.
ProgramsMeet ==
    /\ \A p \in Servers : program[p].at = "running" =>
          /\ InState(p, {"listening"}) /\ Fd(p).port = program[p].port
          /\ \A q \in Servers \ {p} : program[q].at = "running" => program[q].port # program[p].port
    /\ \A p \in DOMAIN program : program[p].at = "off" => ~Live(p)
    /\ \A p \in Clients : program[p].at = "running" => InState(p, {"connected"}) /\ socket[p].isConnected
    /\ turnedAway = {}

NetworkSound == SocketsOwned /\ ProgramsMeet
=============================================================================
