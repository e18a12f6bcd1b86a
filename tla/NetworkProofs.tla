------------------------------ MODULE NetworkProofs ------------------------------
(***************************************************************************)
(* Sockets and the programs that use them, for any objects, descriptors,   *)
(* ports, programs and arguments.  The argument: no two objects have one   *)
(* descriptor, and every open one has an object (OneOwner); each call      *)
(* leaves the descriptors of all other objects as they were (Kept), so     *)
(* each program keeps the socket that its place requires (ProgramOK); and  *)
(* clear arguments mean what they are taken for, so a client that finds    *)
(* nobody was not sent to a server that runs.                              *)
(***************************************************************************)
EXTENDS Programs, FiniteSetTheorems, SequenceTheorems, NaturalsInduction, WellFoundedInduction, TLAPS

-----------------------------------------------------------------------------
\* Sockets: what an object and a descriptor can be.
TcpStates == {"new", "listening", "connected"}
SocketObject == [fd : Descriptors \cup {NoSock}, isConnected : BOOLEAN, tcp : BOOLEAN, v6 : BOOLEAN,
                 buffer : Nat, alive : BOOLEAN]
OpenFile == [state : TcpStates \cup {"datagram", "unused"}, v6 : BOOLEAN, port : Nat, conn : Nat,
             queue : Seq(Nat)]

NetTyped ==
    /\ socket \in [SocketNames -> SocketObject] /\ os \in [Descriptors -> OpenFile]
    /\ opened \in Nat

\* An object's descriptor is open and of its kind; it knows whether it is connected; and
\* an object that holds leftover bytes and a descriptor is the connection they came from.
ObjectOK(s) ==
    /\ socket[s].fd # NoSock =>
          /\ socket[s].alive
          /\ Fd(s).state \in IF socket[s].tcp THEN TcpStates ELSE {"datagram"}
    /\ socket[s].tcp => (socket[s].isConnected <=> socket[s].fd # NoSock /\ Fd(s).state = "connected")
    /\ socket[s].fd # NoSock /\ socket[s].buffer # 0 /\ s \notin mixed =>
          Fd(s).state = "connected" /\ socket[s].buffer = Fd(s).conn

\* An open descriptor is some object's, and no two objects'.
OneOwner ==
    /\ \A d \in Descriptors : os[d].state # "unused" => \E s \in SocketNames : socket[s].fd = d
    /\ \A s, t \in SocketNames : socket[s].fd = socket[t].fd /\ socket[s].fd # NoSock => s = t

NetInv == NetTyped /\ OneOwner /\ \A s \in SocketNames : ObjectOK(s)

-----------------------------------------------------------------------------
\* Programs: what the arguments of one that is not off were taken for.
Parsed(p) == IF p \in Servers THEN program[p].args \in ServerArgs /\ ParseServerArgs(program[p].args).ok
             ELSE program[p].args \in ClientArgs /\ ParseClientArgs(program[p].args).ok
ParsedAs(p) == IF p \in Servers THEN ParseServerArgs(program[p].args) ELSE ParseClientArgs(program[p].args)

\* What arguments consist of.
Words == STRING

\* The socket that a program has at each place.
Has(p, state) == InState(p, {state}) /\ Fd(p).v6 = program[p].v6
ProgramOK(p) ==
    /\ program[p].at \in {"off", "parsed"} => ~Live(p)
    /\ program[p].at # "off" =>
          Parsed(p) /\ program[p].v6 = ParsedAs(p).v6 /\ program[p].port = ParsedAs(p).port
    /\ program[p].at = "made" => Has(p, "new")
    /\ program[p].at = "bound" => p \in Servers /\ Has(p, "new") /\ Fd(p).port = program[p].port
    /\ program[p].at = "running" =>
          IF p \in Servers THEN Has(p, "listening") /\ Fd(p).port = program[p].port
          ELSE InState(p, {"connected"})

Places == {"off", "parsed", "made", "bound", "running", "stopping"}
Program == [at : Places, args : Seq(Words), v6 : BOOLEAN, port : 0..MaxPort]
Started == Servers \cup Clients

\* Two servers have not bound the same port.
HasPort(q) == program[q].at \in {"bound", "running"}
PortsDiffer ==
    \A p, q \in Servers : p # q /\ HasPort(p) /\ HasPort(q) => program[p].port # program[q].port

ProgramsInv ==
    /\ NetInv /\ PortsDiffer /\ turnedAway = {}
    /\ program \in [Started -> Program] /\ \A p \in Started : ProgramOK(p)

-----------------------------------------------------------------------------
\* A set of natural numbers has a least.
LEMMA LeastOf ==
    ASSUME NEW S \in SUBSET Nat, S # {}
    PROVE  \E x \in S : \A y \in S : x <= y
<1> DEFINE R == OpToRel(<, Nat)
<1>1. IsWellFoundedOn(R, Nat)
  BY NatLessThanWellFounded
<1>2. R = {ss \in Nat \X Nat : ss[1] < ss[2]}
  BY DEF OpToRel
<1> HIDE DEF R
<1>3. PICK x \in S : \A y \in S : ~(<<y, x>> \in R)
  BY <1>1, WFMin
<1>4. ASSUME NEW y \in S, y < x PROVE FALSE
  <2>1. <<y, x>> \in R
    BY <1>2, <1>4
  <2> QED
    BY <1>3, <2>1
<1> QED
  BY <1>4

\* The system has a lowest unused descriptor, if it has one.
LEMMA LowestUnusedIsUnused ==
    ASSUME NetTyped, CanOpen
    PROVE  LowestUnused \in Descriptors /\ os[LowestUnused].state = "unused"
<1> DEFINE T == {d \in Descriptors : os[d].state = "unused"}
<1>1. Cardinality(Descriptors) \in Nat /\ Descriptors = 1..Cardinality(Descriptors)
  BY SocketsAssumption, FS_CardinalityType
<1>2. T \in SUBSET Nat /\ T # {}
  BY <1>1 DEF CanOpen
<1>3. PICK d \in T : \A e \in T : d <= e
  BY <1>2, LeastOf
<1>4. ASSUME NEW e \in 1..(d - 1), os[e].state = "unused" PROVE FALSE
  BY <1>1, <1>3, <1>4
<1> QED
  BY <1>3, <1>4 DEF LowestUnused

-----------------------------------------------------------------------------
\* An object, and what is said of its descriptor, stay as they are.
Kept(s) ==
    /\ socket'[s] = socket[s]
    /\ socket[s].fd # NoSock =>
          /\ os'[socket[s].fd].state = os[socket[s].fd].state
          /\ os'[socket[s].fd].v6 = os[socket[s].fd].v6
          /\ os'[socket[s].fd].port = os[socket[s].fd].port
          /\ os'[socket[s].fd].conn = os[socket[s].fd].conn

LEMMA KeptIsOK ==
    ASSUME NEW s, ObjectOK(s), Kept(s), s \in mixed => s \in mixed'
    PROVE  ObjectOK(s)'
BY DEF ObjectOK, Kept, Fd

LEMMA KeptInState ==
    ASSUME NEW s, NEW states, Kept(s), HasFd(s)
    PROVE  HasFd(s)' /\ InState(s, states)' = InState(s, states)
           /\ Fd(s)'.v6 = Fd(s).v6 /\ Fd(s)'.port = Fd(s).port
BY DEF Kept, HasFd, Live, InState, Fd

\* An object takes a descriptor that was unused.
LEMMA TakesUnused ==
    ASSUME NetInv, NEW s \in SocketNames, ~Live(s), NEW d \in Descriptors, os[d].state = "unused",
           NetTyped', mixed' = mixed,
           \A t \in SocketNames \ {s} : socket'[t] = socket[t],
           \A e \in Descriptors \ {d} :
              os'[e].state = os[e].state /\ os'[e].v6 = os[e].v6 /\ os'[e].port = os[e].port /\ os'[e].conn = os[e].conn,
           socket'[s].fd = d, socket'[s].alive, socket'[s].buffer = 0,
           os'[d].state \in IF socket'[s].tcp THEN TcpStates ELSE {"datagram"},
           socket'[s].tcp => (socket'[s].isConnected <=> os'[d].state = "connected")
    PROVE  NetInv' /\ (\A t \in SocketNames \ {s} : Kept(t)) /\ HasFd(s)'
<1>1. socket[s].fd = NoSock
  BY DEF NetInv, ObjectOK, Live
<1>3. NoSock \notin Descriptors
  BY SocketsAssumption, FS_CardinalityType DEF NoSock
<1>4. ASSUME NEW t \in SocketNames \ {s} PROVE Kept(t) /\ ObjectOK(t)' /\ socket'[t].fd # d
  <2>1. socket[t].fd # NoSock => socket[t].fd \in Descriptors \ {d}
    BY DEF NetInv, NetTyped, ObjectOK, Fd, TcpStates, SocketObject
  <2>2. Kept(t)
    BY <2>1 DEF Kept
  <2> QED
    BY <1>3, <2>1, <2>2, KeptIsOK DEF NetInv
<1>5. ObjectOK(s)'
  BY <1>3 DEF ObjectOK, Fd
<1>6. OneOwner'
  <2>1. ASSUME NEW e \in Descriptors, os'[e].state # "unused" PROVE \E t \in SocketNames : socket'[t].fd = e
    <3>1. CASE e = d
      BY <3>1
    <3>2. CASE e # d
      <4>1. PICK t \in SocketNames : socket[t].fd = e
        BY <2>1, <3>2 DEF NetInv, OneOwner
      <4>2. t # s
        BY <1>1, <1>3, <4>1
      <4> QED
        BY <4>1, <4>2
    <3> QED
      BY <3>1, <3>2
  <2>2. ASSUME NEW t \in SocketNames, NEW u \in SocketNames, socket'[t].fd = socket'[u].fd, socket'[t].fd # NoSock
        PROVE  t = u
    BY <1>4, <2>2 DEF NetInv, OneOwner
  <2> QED
    BY <2>1, <2>2 DEF OneOwner
<1>7. HasFd(s)'
  BY <1>3 DEF HasFd, Live
<1> QED
  BY <1>4, <1>5, <1>6, <1>7 DEF NetInv

LEMMA ConstructCall ==
    ASSUME NetInv, NEW s \in SocketNames, NEW tcp \in BOOLEAN, NEW v6 \in BOOLEAN, Construct(s, tcp, v6)
    PROVE  /\ NetInv' /\ \A t \in SocketNames \ {s} : Kept(t)
           /\ tcp => InState(s, {"new"})' /\ Fd(s)'.v6 = v6
<1>1. PICK d \in Descriptors : d = LowestUnused /\ os[d].state = "unused"
  BY LowestUnusedIsUnused DEF NetInv, Construct
<1> DEFINE obj == [fd |-> d, isConnected |-> FALSE, tcp |-> tcp, v6 |-> v6, buffer |-> 0, alive |-> TRUE]
           file == [state |-> IF tcp THEN "new" ELSE "datagram", v6 |-> v6, port |-> 0, conn |-> 0, queue |-> <<>>]
<1>2. socket' = [socket EXCEPT ![s] = obj] /\ os' = [os EXCEPT ![d] = file] /\ opened' = opened /\ mixed' = mixed /\ ~Live(s)
  BY <1>1 DEF Construct
<1>3. /\ file \in OpenFile /\ file.v6 = v6 /\ (tcp => file.state = "new") /\ file.state # "connected"
      /\ file.state \in IF tcp THEN TcpStates ELSE {"datagram"}
  BY DEF OpenFile, TcpStates
<1>4. obj \in SocketObject /\ obj.fd = d /\ obj.alive /\ obj.buffer = 0 /\ obj.tcp = tcp /\ ~obj.isConnected
  BY DEF SocketObject
<1> HIDE DEF obj, file
<1>5. NetTyped' /\ os'[d] = file /\ \A e \in Descriptors \ {d} : os'[e] = os[e]
  BY <1>2, <1>3, <1>4 DEF NetInv, NetTyped
<1>6. socket'[s] = obj /\ \A t \in SocketNames \ {s} : socket'[t] = socket[t]
  BY <1>2 DEF NetInv, NetTyped
<1>7. NetInv' /\ (\A t \in SocketNames \ {s} : Kept(t)) /\ HasFd(s)'
  BY <1>1, <1>2, <1>3, <1>4, <1>5, <1>6, TakesUnused
<1> QED
  BY <1>3, <1>4, <1>5, <1>6, <1>7 DEF InState, Fd

\* accept is of TCP sockets, so what listens is one.
LEMMA AcceptCall ==
    ASSUME NetInv, NEW l \in SocketNames, NEW s \in SocketNames, Accept(l, s)
    PROVE  NetInv' /\ \A t \in SocketNames \ {s} : Kept(t)
<1>1. PICK d \in Descriptors : d = LowestUnused /\ os[d].state = "unused"
  BY LowestUnusedIsUnused DEF NetInv, Accept
<1> DEFINE k == socket[l].fd
           v6 == Fd(l).v6
           obj == [fd |-> d, isConnected |-> TRUE, tcp |-> TRUE, v6 |-> v6, buffer |-> 0, alive |-> TRUE]
           file == [state |-> "connected", v6 |-> v6, port |-> Fd(l).port, conn |-> Head(Fd(l).queue), queue |-> <<>>]
<1>2. k \in Descriptors /\ os[k] \in OpenFile /\ os[k].state = "listening" /\ os[k].queue # <<>> /\ Fd(l) = os[k]
  BY DEF NetInv, NetTyped, SocketObject, Accept, InState, HasFd, Fd
<1>3. Head(os[k].queue) \in Nat /\ Tail(os[k].queue) \in Seq(Nat)
  BY <1>2, HeadTailProperties DEF OpenFile
<1>4. socket' = [socket EXCEPT ![s] = obj] /\ os' = [os EXCEPT ![d] = file, ![k].queue = Tail(@)]
      /\ opened' = opened /\ mixed' = mixed /\ ~Live(s)
  BY <1>1 DEF Accept
<1>5. v6 \in BOOLEAN /\ os[k].port \in Nat
  BY <1>2 DEF OpenFile
<1>6. /\ file \in OpenFile /\ file.v6 = v6 /\ file.state = "connected"
      /\ file.state \in TcpStates
  BY <1>2, <1>3, <1>5 DEF OpenFile, TcpStates
<1>7. obj \in SocketObject /\ obj.fd = d /\ obj.alive /\ obj.buffer = 0 /\ obj.tcp /\ obj.isConnected
  BY <1>5 DEF SocketObject
<1>8. k # d
  BY <1>1, <1>2
<1> HIDE DEF obj, file, v6, k
<1>9. /\ os'[d] = file /\ os'[k] = [os[k] EXCEPT !.queue = Tail(@)]
      /\ \A e \in Descriptors \ {d, k} : os'[e] = os[e]
      /\ DOMAIN os' = Descriptors /\ os' = [e \in Descriptors |-> os'[e]]
  BY <1>2, <1>4, <1>8 DEF NetInv, NetTyped
<1>10. /\ os'[k] \in OpenFile
       /\ os'[k].state = os[k].state /\ os'[k].v6 = os[k].v6 /\ os'[k].port = os[k].port /\ os'[k].conn = os[k].conn
  BY <1>2, <1>3, <1>9 DEF OpenFile
<1>11. os' \in [Descriptors -> OpenFile]
  BY <1>6, <1>9, <1>10 DEF NetInv, NetTyped
<1>12. NetTyped'
  BY <1>4, <1>7, <1>11 DEF NetInv, NetTyped
<1>13. socket'[s] = obj /\ \A t \in SocketNames \ {s} : socket'[t] = socket[t]
  BY <1>4 DEF NetInv, NetTyped
<1>14. \A e \in Descriptors \ {d} :
          os'[e].state = os[e].state /\ os'[e].v6 = os[e].v6 /\ os'[e].port = os[e].port /\ os'[e].conn = os[e].conn
  BY <1>9, <1>10
<1>15. /\ os'[d].state = "connected" /\ os'[d].state \in TcpStates
       /\ socket'[s].fd = d /\ socket'[s].alive /\ socket'[s].buffer = 0 /\ socket'[s].tcp /\ socket'[s].isConnected
  BY <1>6, <1>7, <1>9, <1>13
<1>16. /\ os'[d].state \in IF socket'[s].tcp THEN TcpStates ELSE {"datagram"}
       /\ socket'[s].tcp => (socket'[s].isConnected <=> os'[d].state = "connected")
  BY <1>15
<1>17. mixed' = mixed /\ ~Live(s) /\ d \in Descriptors /\ os[d].state = "unused"
  BY <1>1, <1>4
<1>18. \A t \in SocketNames \ {s} : socket'[t] = socket[t]
  BY <1>13
<1> QED
  BY <1>12, <1>14, <1>15, <1>16, <1>17, <1>18, TakesUnused

-----------------------------------------------------------------------------
\* An object keeps its descriptor, if it has one, whatever a call does to the two.
LEMMA KeepsDescriptor ==
    ASSUME NetInv, NEW s \in SocketNames, NetTyped',
           \A t \in SocketNames \ {s} : socket'[t] = socket[t] /\ (t \in mixed => t \in mixed'),
           socket'[s].fd = socket[s].fd,
           \A e \in Descriptors \ {socket[s].fd} :
              os'[e].state = os[e].state /\ os'[e].v6 = os[e].v6 /\ os'[e].port = os[e].port /\ os'[e].conn = os[e].conn,
           ObjectOK(s)'
    PROVE  NetInv' /\ \A t \in SocketNames \ {s} : Kept(t)
<1>1. ASSUME NEW t \in SocketNames \ {s} PROVE Kept(t) /\ ObjectOK(t)'
  <2>1. socket[t].fd # NoSock => socket[t].fd \in Descriptors \ {socket[s].fd}
    BY DEF NetInv, NetTyped, OneOwner, SocketObject
  <2>2. Kept(t)
    BY <2>1 DEF Kept
  <2> QED
    BY <2>2, KeptIsOK DEF NetInv
<1>2. OneOwner'
  <2>1. ASSUME NEW e \in Descriptors, os'[e].state # "unused" PROVE \E t \in SocketNames : socket'[t].fd = e
    BY <2>1 DEF NetInv, OneOwner
  <2> QED
    BY <2>1 DEF NetInv, OneOwner
<1> QED
  BY <1>1, <1>2 DEF NetInv

\* An object gives up its descriptor, if it has one, and the system frees it.
LEMMA ReleasesDescriptor ==
    ASSUME NetInv, NEW s \in SocketNames, NetTyped',
           \A t \in SocketNames \ {s} : socket'[t] = socket[t] /\ (t \in mixed => t \in mixed'),
           socket'[s].fd = NoSock, ~socket'[s].isConnected,
           \A e \in Descriptors : os'[e] = IF e = socket[s].fd THEN Unused ELSE os[e]
    PROVE  NetInv' /\ \A t \in SocketNames \ {s} : Kept(t)
<1>1. ASSUME NEW t \in SocketNames \ {s} PROVE Kept(t) /\ ObjectOK(t)'
  <2>1. socket[t].fd # NoSock => socket[t].fd \in Descriptors \ {socket[s].fd}
    BY DEF NetInv, NetTyped, OneOwner, SocketObject
  <2>2. Kept(t)
    BY <2>1 DEF Kept
  <2> QED
    BY <2>2, KeptIsOK DEF NetInv
<1>2. OneOwner'
  <2>1. ASSUME NEW e \in Descriptors, os'[e].state # "unused" PROVE \E t \in SocketNames : socket'[t].fd = e
    <3>1. e # socket[s].fd /\ os[e].state # "unused"
      BY <2>1 DEF Unused
    <3> QED
      BY <3>1 DEF NetInv, OneOwner
  <2> QED
    BY <2>1 DEF NetInv, OneOwner
<1>3. ObjectOK(s)'
  BY DEF ObjectOK
<1> QED
  BY <1>1, <1>2, <1>3 DEF NetInv

\* An object takes over the descriptor of another, if it has one, and its own is freed.
LEMMA MovesDescriptor ==
    ASSUME NetInv, NEW s \in SocketNames, NEW t \in SocketNames, s # t, NetTyped',
           \A u \in SocketNames \ {s, t} : socket'[u] = socket[u] /\ (u \in mixed => u \in mixed'),
           socket'[t].fd = socket[s].fd, socket'[s].fd = NoSock, ~socket'[s].isConnected,
           \A e \in Descriptors : os'[e] = IF e = socket[t].fd THEN Unused ELSE os[e],
           ObjectOK(t)'
    PROVE  NetInv'
<1>1. ASSUME NEW u \in SocketNames \ {s, t} PROVE ObjectOK(u)'
  <2>1. socket[u].fd # NoSock => socket[u].fd \in Descriptors \ {socket[t].fd}
    BY DEF NetInv, NetTyped, OneOwner, SocketObject
  <2>2. Kept(u)
    BY <2>1 DEF Kept
  <2> QED
    BY <2>2, KeptIsOK DEF NetInv
<1>2. OneOwner'
  <2>1. ASSUME NEW e \in Descriptors, os'[e].state # "unused" PROVE \E u \in SocketNames : socket'[u].fd = e
    <3>1. e # socket[t].fd /\ os[e].state # "unused"
      BY <2>1 DEF Unused
    <3>2. PICK u \in SocketNames : socket[u].fd = e
      BY <3>1 DEF NetInv, OneOwner
    <3> QED
      BY <3>1, <3>2
  <2>2. ASSUME NEW u \in SocketNames, NEW w \in SocketNames, socket'[u].fd = socket'[w].fd, socket'[u].fd # NoSock
        PROVE  u = w
    <3>1. u # s /\ w # s
      BY <2>2
    <3>2. \A x \in SocketNames \ {s, t} : socket'[x].fd = socket[x].fd
      OBVIOUS
    <3> QED
      BY <2>2, <3>1, <3>2 DEF NetInv, OneOwner
  <2> QED
    BY <2>1, <2>2 DEF OneOwner
<1>3. ObjectOK(s)'
  BY DEF ObjectOK
<1> QED
  BY <1>1, <1>2, <1>3 DEF NetInv

-----------------------------------------------------------------------------
\* The calls.  Closing:
LEMMA CloseFdFrees ==
    ASSUME NetInv, NEW s \in SocketNames, CloseFd(s)
    PROVE  /\ os' \in [Descriptors -> OpenFile]
           /\ \A e \in Descriptors : os'[e] = IF e = socket[s].fd THEN Unused ELSE os[e]
<1>1. Unused \in OpenFile
  BY DEF Unused, OpenFile
<1>2. CASE HasFd(s)
  <2>1. os' = [os EXCEPT ![socket[s].fd] = Unused]
    BY <1>2 DEF CloseFd
  <2> QED
    BY <1>1, <2>1 DEF NetInv, NetTyped
<1>3. CASE ~HasFd(s)
  <2>1. socket[s].fd = NoSock /\ NoSock \notin Descriptors
    BY <1>3, SocketsAssumption, FS_CardinalityType DEF NetInv, ObjectOK, HasFd, Live, NoSock
  <2>2. os' = os
    BY <1>3 DEF CloseFd
  <2> QED
    BY <2>1, <2>2 DEF NetInv, NetTyped
<1> QED
  BY <1>2, <1>3

LEMMA ClosedObject ==
    ASSUME NEW obj \in SocketObject
    PROVE  /\ Closed(obj) \in SocketObject /\ Closed(obj).fd = NoSock /\ ~Closed(obj).isConnected
           /\ Closed(obj).alive = obj.alive
BY DEF Closed, SocketObject

LEMMA CloseSocketCall ==
    ASSUME NetInv, NEW s \in SocketNames, CloseSocket(s)
    PROVE  NetInv' /\ (\A t \in SocketNames \ {s} : Kept(t)) /\ Live(s)'
<1>1. /\ os' \in [Descriptors -> OpenFile]
      /\ \A e \in Descriptors : os'[e] = IF e = socket[s].fd THEN Unused ELSE os[e]
  BY CloseFdFrees DEF CloseSocket
<1>2. socket' = [socket EXCEPT ![s] = Closed(socket[s])] /\ opened' = opened /\ mixed' = mixed /\ Live(s)
  BY DEF CloseSocket
<1>3. /\ Closed(socket[s]) \in SocketObject /\ Closed(socket[s]).fd = NoSock
      /\ ~Closed(socket[s]).isConnected /\ Closed(socket[s]).alive
  BY <1>2, ClosedObject DEF NetInv, NetTyped, Live
<1>4. NetTyped' /\ socket'[s] = Closed(socket[s]) /\ \A t \in SocketNames \ {s} : socket'[t] = socket[t]
  BY <1>1, <1>2, <1>3 DEF NetInv, NetTyped
<1> QED
  BY <1>1, <1>2, <1>3, <1>4, ReleasesDescriptor DEF Live

LEMMA DestroyCall ==
    ASSUME NetInv, NEW s \in SocketNames, Destroy(s)
    PROVE  NetInv' /\ (\A t \in SocketNames \ {s} : Kept(t)) /\ ~Live(s)'
<1>1. /\ os' \in [Descriptors -> OpenFile]
      /\ \A e \in Descriptors : os'[e] = IF e = socket[s].fd THEN Unused ELSE os[e]
  BY CloseFdFrees DEF Destroy
<1>2. socket' = [socket EXCEPT ![s] = Dead] /\ opened' = opened /\ mixed' = mixed \ {s}
  BY DEF Destroy
<1>3. Dead \in SocketObject /\ Dead.fd = NoSock /\ ~Dead.isConnected /\ ~Dead.alive
  BY DEF Dead, SocketObject
<1>4. NetTyped' /\ socket'[s] = Dead /\ \A t \in SocketNames \ {s} : socket'[t] = socket[t]
  BY <1>1, <1>2, <1>3 DEF NetInv, NetTyped
<1> QED
  BY <1>1, <1>2, <1>3, <1>4, ReleasesDescriptor DEF Live

LEMMA LeftBehindObject ==
    ASSUME NEW obj \in SocketObject
    PROVE  LeftBehind(obj) \in SocketObject /\ LeftBehind(obj).fd = NoSock /\ ~LeftBehind(obj).isConnected
BY ClosedObject DEF LeftBehind

\* Moving: what was read too much stays behind.
LEMMA MovedObject ==
    ASSUME NEW obj \in SocketObject, NEW n \in Nat
    PROVE  LET moved == [obj EXCEPT !.buffer = n]
           IN  /\ moved \in SocketObject /\ moved.fd = obj.fd /\ moved.isConnected = obj.isConnected
               /\ moved.tcp = obj.tcp /\ moved.alive = obj.alive /\ moved.buffer = n
BY DEF SocketObject

LEMMA MoveConstructCall ==
    ASSUME NetInv, NEW s \in SocketNames, NEW t \in SocketNames, MoveConstruct(s, t)
    PROVE  NetInv'
<1> DEFINE moved == [socket[s] EXCEPT !.buffer = 0]
           left == LeftBehind(socket[s])
<1>1. /\ socket' = [socket EXCEPT ![t] = moved, ![s] = LeftBehind(@)]
      /\ UNCHANGED <<os, opened, mixed>> /\ s # t /\ ~Live(t)
  BY DEF MoveConstruct
<1>2. socket[s] \in SocketObject
  BY DEF NetInv, NetTyped
<1>3. left \in SocketObject /\ left.fd = NoSock /\ ~left.isConnected
  BY <1>2, LeftBehindObject
<1>4. /\ moved \in SocketObject /\ moved.fd = socket[s].fd /\ moved.isConnected = socket[s].isConnected
      /\ moved.tcp = socket[s].tcp /\ moved.alive = socket[s].alive /\ moved.buffer = 0
  BY <1>2, MovedObject
<1> HIDE DEF moved, left
<1>5. /\ socket'[t] = moved /\ socket'[s] = left /\ \A u \in SocketNames \ {s, t} : socket'[u] = socket[u]
      /\ socket' \in [SocketNames -> SocketObject]
  BY <1>1, <1>3, <1>4 DEF NetInv, NetTyped, left
<1>6. socket[t].fd = NoSock /\ NoSock \notin Descriptors
  BY <1>1, SocketsAssumption, FS_CardinalityType DEF NetInv, ObjectOK, Live, NoSock
<1>7. \A e \in Descriptors : os'[e] = IF e = socket[t].fd THEN Unused ELSE os[e]
  BY <1>1, <1>6
<1>8. NetTyped'
  BY <1>1, <1>5 DEF NetInv, NetTyped
<1>9. ObjectOK(t)'
  BY <1>1, <1>4, <1>5 DEF NetInv, ObjectOK, Fd
<1> QED
  BY <1>1, <1>3, <1>4, <1>5, <1>7, <1>8, <1>9, MovesDescriptor

\* The bytes that an assigned object still held are its own no more.
LEMMA MoveAssignCall ==
    ASSUME NetInv, NEW s \in SocketNames, NEW t \in SocketNames, MoveAssign(s, t)
    PROVE  NetInv'
<1> DEFINE moved == [socket[s] EXCEPT !.buffer = socket[t].buffer]
           left == LeftBehind(socket[s])
<1>1. /\ socket' = [socket EXCEPT ![t] = moved, ![s] = LeftBehind(@)] /\ opened' = opened
      /\ mixed' = (IF socket[t].buffer # 0 THEN mixed \cup {t} ELSE mixed) /\ s # t /\ CloseFd(t)
  BY DEF MoveAssign
<1>2. socket[s] \in SocketObject /\ socket[t].buffer \in Nat
  BY DEF NetInv, NetTyped, SocketObject
<1>3. left \in SocketObject /\ left.fd = NoSock /\ ~left.isConnected
  BY <1>2, LeftBehindObject
<1>4. /\ moved \in SocketObject /\ moved.fd = socket[s].fd /\ moved.isConnected = socket[s].isConnected
      /\ moved.tcp = socket[s].tcp /\ moved.alive = socket[s].alive /\ moved.buffer = socket[t].buffer
  BY <1>2, MovedObject
<1> HIDE DEF moved, left
<1>5. /\ socket'[t] = moved /\ socket'[s] = left /\ \A u \in SocketNames \ {s, t} : socket'[u] = socket[u]
      /\ socket' \in [SocketNames -> SocketObject]
  BY <1>1, <1>3, <1>4 DEF NetInv, NetTyped, left
<1>6. /\ os' \in [Descriptors -> OpenFile]
      /\ \A e \in Descriptors : os'[e] = IF e = socket[t].fd THEN Unused ELSE os[e]
  BY <1>1, CloseFdFrees
<1>7. NetTyped'
  BY <1>1, <1>5, <1>6 DEF NetInv, NetTyped
<1>8. ObjectOK(t)'
  <2>1. socket[s].fd # NoSock => socket[s].fd \in Descriptors /\ socket[s].fd # socket[t].fd
    BY <1>1 DEF NetInv, NetTyped, OneOwner, SocketObject
  <2>2. socket[s].fd # NoSock => os'[socket[s].fd] = os[socket[s].fd]
    BY <1>6, <2>1
  <2>3. socket[t].buffer # 0 => t \in mixed'
    BY <1>1
  <2>4. ObjectOK(s)
    BY DEF NetInv
  <2> QED
    BY <1>4, <1>5, <2>2, <2>3, <2>4 DEF ObjectOK, Fd
<1>9. \A u \in SocketNames \ {s, t} : u \in mixed => u \in mixed'
  BY <1>1
<1> QED
  BY <1>1, <1>3, <1>4, <1>5, <1>6, <1>7, <1>8, <1>9, MovesDescriptor

\* Calls on an object's own descriptor, or on the object alone.
LEMMA OwnDescriptor ==
    ASSUME NetInv, NEW s \in SocketNames, HasFd(s)
    PROVE  /\ socket[s].fd \in Descriptors /\ socket[s].fd # NoSock /\ os[socket[s].fd] \in OpenFile
           /\ Fd(s) = os[socket[s].fd] /\ socket[s] \in SocketObject /\ ObjectOK(s)
BY DEF NetInv, NetTyped, SocketObject, HasFd, Fd

LEMMA BindCall ==
    ASSUME NetInv, NEW s \in SocketNames, NEW port \in Nat, Bind(s, port)
    PROVE  /\ NetInv' /\ (\A t \in SocketNames \ {s} : Kept(t))
           /\ \A state : InState(s, {state}) => InState(s, {state})'
           /\ Fd(s)'.v6 = Fd(s).v6 /\ Fd(s)'.port = port
<1> DEFINE d == socket[s].fd
           file == [os[d] EXCEPT !.port = port]
<1>1. /\ d \in Descriptors /\ d # NoSock /\ os[d] \in OpenFile /\ Fd(s) = os[d] /\ ObjectOK(s) /\ HasFd(s)
  BY OwnDescriptor DEF Bind, InState
<1>2. os' = [os EXCEPT ![d] = file] /\ UNCHANGED <<socket, opened, mixed>>
  BY DEF Bind
<1>3. file \in OpenFile /\ file.state = os[d].state /\ file.v6 = os[d].v6 /\ file.conn = os[d].conn /\ file.port = port
  BY <1>1 DEF OpenFile
<1> HIDE DEF file
<1>4. os'[d] = file /\ \A e \in Descriptors \ {d} : os'[e] = os[e]
  BY <1>1, <1>2 DEF NetInv, NetTyped
<1>5. NetTyped'
  BY <1>2, <1>3 DEF NetInv, NetTyped
<1>6. ObjectOK(s)'
  BY <1>1, <1>2, <1>3, <1>4 DEF ObjectOK, Fd
<1>7. NetInv' /\ (\A t \in SocketNames \ {s} : Kept(t))
  BY <1>2, <1>4, <1>5, <1>6, KeepsDescriptor
<1> QED
  BY <1>1, <1>2, <1>3, <1>4, <1>7 DEF InState, HasFd, Live, Fd

LEMMA ListenCall ==
    ASSUME NetInv, NEW s \in SocketNames, Listen(s)
    PROVE  /\ NetInv' /\ (\A t \in SocketNames \ {s} : Kept(t))
           /\ InState(s, {"listening"})' /\ Fd(s)'.v6 = Fd(s).v6 /\ Fd(s)'.port = Fd(s).port
<1> DEFINE d == socket[s].fd
           file == [os[d] EXCEPT !.state = "listening"]
<1>1. /\ d \in Descriptors /\ d # NoSock /\ os[d] \in OpenFile /\ Fd(s) = os[d] /\ ObjectOK(s) /\ HasFd(s)
      /\ os[d].state = "new"
  BY OwnDescriptor DEF Listen, InState
<1>2. os' = [os EXCEPT ![d] = file] /\ UNCHANGED <<socket, opened, mixed>>
  BY DEF Listen
<1>3. file \in OpenFile /\ file.state = "listening" /\ file.v6 = os[d].v6 /\ file.conn = os[d].conn /\ file.port = os[d].port
  BY <1>1 DEF OpenFile, TcpStates
<1> HIDE DEF file
<1>4. os'[d] = file /\ \A e \in Descriptors \ {d} : os'[e] = os[e]
  BY <1>1, <1>2 DEF NetInv, NetTyped
<1>5. NetTyped'
  BY <1>2, <1>3 DEF NetInv, NetTyped
<1>6. ObjectOK(s)'
  BY <1>1, <1>2, <1>3, <1>4 DEF ObjectOK, Fd, TcpStates
<1>7. NetInv' /\ (\A t \in SocketNames \ {s} : Kept(t))
  BY <1>2, <1>4, <1>5, <1>6, KeepsDescriptor
<1> QED
  BY <1>1, <1>2, <1>3, <1>4, <1>7 DEF InState, HasFd, Live, Fd

\* A connection waits in the queue of what listens; that descriptor is another, as it is
\* not new.
LEMMA ConnectCall ==
    ASSUME NetInv, NEW s \in SocketNames, NEW port, Connect(s, port)
    PROVE  NetInv' /\ (\A t \in SocketNames \ {s} : Kept(t)) /\ InState(s, {"connected"})'
<1> DEFINE d == socket[s].fd
           file == [os[d] EXCEPT !.state = "connected", !.conn = opened']
           obj == [socket[s] EXCEPT !.isConnected = TRUE]
<1>1. /\ d \in Descriptors /\ d # NoSock /\ os[d] \in OpenFile /\ Fd(s) = os[d] /\ ObjectOK(s) /\ HasFd(s)
      /\ os[d].state = "new" /\ socket[s] \in SocketObject
  BY OwnDescriptor DEF Connect, InState
<1>2. opened' = opened + 1 /\ opened' \in Nat
  BY DEF Connect, NetInv, NetTyped
<1>3. PICK k \in Descriptors :
        /\ os[k].state = "listening"
        /\ os' = [os EXCEPT ![d].state = "connected", ![d].conn = opened', ![k].queue = Append(@, opened')]
  BY DEF Connect
<1>4. socket' = [socket EXCEPT ![s] = obj] /\ mixed' = mixed
  BY DEF Connect
<1>5. k # d /\ os[k] \in OpenFile
  BY <1>1, <1>3 DEF NetInv, NetTyped
<1>6. file \in OpenFile /\ file.state = "connected"
  BY <1>1, <1>2 DEF OpenFile, TcpStates
<1>7. /\ obj \in SocketObject /\ obj.fd = d /\ obj.alive = socket[s].alive /\ obj.isConnected
      /\ obj.tcp = socket[s].tcp /\ obj.buffer = socket[s].buffer
  BY <1>1 DEF SocketObject
<1>8. /\ os'[d] = file /\ os'[k] = [os[k] EXCEPT !.queue = Append(@, opened')]
      /\ \A e \in Descriptors \ {d, k} : os'[e] = os[e]
      /\ DOMAIN os' = Descriptors /\ os' = [e \in Descriptors |-> os'[e]]
  BY <1>1, <1>3, <1>5 DEF NetInv, NetTyped
<1>9. Append(os[k].queue, opened') \in Seq(Nat)
  BY <1>2, <1>5, AppendProperties DEF OpenFile
<1>10. /\ os'[k] \in OpenFile
       /\ os'[k].state = os[k].state /\ os'[k].v6 = os[k].v6 /\ os'[k].port = os[k].port /\ os'[k].conn = os[k].conn
  BY <1>5, <1>8, <1>9 DEF OpenFile
<1> HIDE DEF file, obj
<1>11. os' \in [Descriptors -> OpenFile]
  BY <1>6, <1>8, <1>10 DEF NetInv, NetTyped
<1>12. socket' \in [SocketNames -> SocketObject] /\ socket'[s] = obj /\ \A t \in SocketNames \ {s} : socket'[t] = socket[t]
  BY <1>4, <1>7 DEF NetInv, NetTyped
<1>13. NetTyped'
  BY <1>2, <1>11, <1>12 DEF NetTyped
<1>14. \A e \in Descriptors \ {d} :
          os'[e].state = os[e].state /\ os'[e].v6 = os[e].v6 /\ os'[e].port = os[e].port /\ os'[e].conn = os[e].conn
  BY <1>8, <1>10
<1>15. socket[s].tcp /\ socket[s].alive /\ (socket[s].buffer # 0 => s \in mixed)
  BY <1>1 DEF ObjectOK, Fd
<1>16. ObjectOK(s)'
  BY <1>1, <1>4, <1>6, <1>7, <1>8, <1>12, <1>15 DEF ObjectOK, Fd, TcpStates
<1>17. NetInv' /\ (\A t \in SocketNames \ {s} : Kept(t))
  BY <1>4, <1>7, <1>12, <1>13, <1>14, <1>16, KeepsDescriptor
<1> QED
  BY <1>1, <1>6, <1>7, <1>8, <1>12, <1>15, <1>17 DEF InState, HasFd, Live, Fd

LEMMA ReadCalls ==
    ASSUME NetInv, NEW s \in SocketNames, ReadTooMuch(s) \/ ReadLeftover(s)
    PROVE  NetInv'
<1>1. PICK n \in Nat :
        /\ socket' = [socket EXCEPT ![s].buffer = n] /\ UNCHANGED <<os, opened>>
        /\ n # 0 => mixed' = mixed /\ InState(s, {"connected"}) /\ n = Fd(s).conn
        /\ mixed' = mixed \/ mixed' = mixed \ {s}
  <2>1. CASE ReadTooMuch(s)
    <3>1. Fd(s).conn \in Nat
      BY <2>1, OwnDescriptor DEF ReadTooMuch, InState, OpenFile
    <3> QED
      BY <2>1, <3>1 DEF ReadTooMuch
  <2>2. CASE ReadLeftover(s)
    BY <2>2 DEF ReadLeftover
  <2> QED
    BY <2>1, <2>2
<1> DEFINE obj == [socket[s] EXCEPT !.buffer = n]
<1>2. /\ obj \in SocketObject /\ obj.fd = socket[s].fd /\ obj.isConnected = socket[s].isConnected
      /\ obj.tcp = socket[s].tcp /\ obj.alive = socket[s].alive /\ obj.buffer = n
  BY MovedObject DEF NetInv, NetTyped
<1>3. socket' = [socket EXCEPT ![s] = obj]
  BY <1>1
<1> HIDE DEF obj
<1>4. socket' \in [SocketNames -> SocketObject] /\ socket'[s] = obj /\ \A t \in SocketNames \ {s} : socket'[t] = socket[t]
  BY <1>2, <1>3 DEF NetInv, NetTyped
<1>5. NetTyped'
  BY <1>1, <1>4 DEF NetInv, NetTyped
<1>6. ObjectOK(s)'
  <2>1. ObjectOK(s)
    BY DEF NetInv
  <2> QED
    BY <1>1, <1>2, <1>4, <2>1 DEF ObjectOK, Fd, InState
<1>7. \A t \in SocketNames \ {s} : t \in mixed => t \in mixed'
  BY <1>1
<1> QED
  BY <1>1, <1>2, <1>4, <1>5, <1>6, <1>7, KeepsDescriptor

\* Datagrams: an object of this kind may say that it is connected or not.
LEMMA ConnectUdpCalls ==
    ASSUME NetInv, NEW s \in SocketNames, ConnectUdp(s) \/ Disconnect(s)
    PROVE  NetInv'
<1>1. PICK c \in BOOLEAN : socket' = [socket EXCEPT ![s].isConnected = c]
  BY DEF ConnectUdp, Disconnect
<1>2. UNCHANGED <<os, opened, mixed>> /\ InState(s, {"datagram"})
  BY DEF ConnectUdp, Disconnect
<1>3. ObjectOK(s) /\ socket[s] \in SocketObject /\ ~socket[s].tcp
  BY <1>2, OwnDescriptor DEF InState, HasFd, ObjectOK, TcpStates
<1> DEFINE obj == [socket[s] EXCEPT !.isConnected = c]
<1>4. /\ obj \in SocketObject /\ obj.fd = socket[s].fd /\ obj.buffer = socket[s].buffer
      /\ obj.tcp = socket[s].tcp /\ obj.alive = socket[s].alive
  BY <1>3 DEF SocketObject
<1>5. socket' = [socket EXCEPT ![s] = obj]
  BY <1>1
<1> HIDE DEF obj
<1>6. socket' \in [SocketNames -> SocketObject] /\ socket'[s] = obj /\ \A t \in SocketNames \ {s} : socket'[t] = socket[t]
  BY <1>4, <1>5 DEF NetInv, NetTyped
<1>7. NetTyped'
  BY <1>2, <1>6 DEF NetInv, NetTyped
<1>8. ObjectOK(s)'
  BY <1>2, <1>3, <1>4, <1>6 DEF ObjectOK, Fd
<1> QED
  BY <1>2, <1>4, <1>6, <1>7, <1>8, KeepsDescriptor

LEMMA DatagramCalls ==
    ASSUME NetInv, NEW s \in SocketNames, NEW port, SendTo(s, port) \/ RecvFrom(s)
    PROVE  NetInv'
<1>1. PICK d \in Descriptors, queue \in Seq(Nat) : os' = [os EXCEPT ![d].queue = queue]
  <2>1. CASE SendTo(s, port)
    <3>1. PICK d \in Descriptors : os' = [os EXCEPT ![d].queue = Append(@, Datagram)]
      BY <2>1 DEF SendTo
    <3>2. Append(os[d].queue, Datagram) \in Seq(Nat)
      BY AppendProperties DEF NetInv, NetTyped, OpenFile, Datagram
    <3> QED
      BY <3>1, <3>2
  <2>2. CASE RecvFrom(s)
    <3>1. socket[s].fd \in Descriptors /\ os[socket[s].fd] \in OpenFile /\ Fd(s) = os[socket[s].fd]
      BY <2>2, OwnDescriptor DEF RecvFrom, InState
    <3>2. os' = [os EXCEPT ![socket[s].fd].queue = Tail(@)] /\ os[socket[s].fd].queue # <<>>
      BY <2>2, <3>1 DEF RecvFrom
    <3>3. Tail(os[socket[s].fd].queue) \in Seq(Nat)
      BY <3>1, <3>2, HeadTailProperties DEF OpenFile
    <3> QED
      BY <3>1, <3>2, <3>3
  <2> QED
    BY <2>1, <2>2
<1>2. UNCHANGED <<socket, opened, mixed>>
  BY DEF SendTo, RecvFrom
<1>3. os[d] \in OpenFile
  BY DEF NetInv, NetTyped
<1> DEFINE file == [os[d] EXCEPT !.queue = queue]
<1>4. /\ file \in OpenFile /\ file.state = os[d].state /\ file.v6 = os[d].v6 /\ file.conn = os[d].conn
      /\ file.port = os[d].port
  BY <1>3 DEF OpenFile
<1>5. os' = [os EXCEPT ![d] = file]
  BY <1>1
<1> HIDE DEF file
<1>6. os'[d] = file /\ \A e \in Descriptors \ {d} : os'[e] = os[e]
  BY <1>5 DEF NetInv, NetTyped
<1>7. \A e \in Descriptors :
         os'[e].state = os[e].state /\ os'[e].v6 = os[e].v6 /\ os'[e].port = os[e].port /\ os'[e].conn = os[e].conn
  BY <1>4, <1>6
<1>8. NetTyped'
  BY <1>2, <1>4, <1>5 DEF NetInv, NetTyped
<1>9. Kept(s)
  BY <1>2, <1>7 DEF Kept, NetInv, NetTyped, SocketObject
<1>10. ObjectOK(s)'
  BY <1>2, <1>9, KeptIsOK DEF NetInv
<1> QED
  BY <1>2, <1>7, <1>8, <1>10, KeepsDescriptor

-----------------------------------------------------------------------------
LEMMA InitNet == NetInit => NetInv
<1> SUFFICES ASSUME NetInit PROVE NetInv
  OBVIOUS
<1>1. Dead \in SocketObject /\ Dead.fd = NoSock /\ ~Dead.isConnected /\ Unused \in OpenFile /\ Unused.state = "unused"
  BY DEF Dead, Unused, SocketObject, OpenFile
<1>2. NetTyped
  BY <1>1 DEF NetInit, NetTyped
<1>3. \A s \in SocketNames : socket[s].fd = NoSock /\ ~socket[s].isConnected
  BY <1>1 DEF NetInit
<1>4. \A s \in SocketNames : ObjectOK(s)
  BY <1>3 DEF ObjectOK
<1>5. OneOwner
  BY <1>1, <1>3 DEF OneOwner, NetInit
<1> QED
  BY <1>2, <1>4, <1>5 DEF NetInv

LEMMA ForgetCall == ASSUME NetInv, Forget PROVE NetInv' /\ \A t \in SocketNames : Kept(t)
BY DEF NetInv, NetTyped, OneOwner, ObjectOK, Fd, Forget, Kept

LEMMA NextNet == NetInv /\ [NetNext]_netVars => NetInv'
<1> SUFFICES ASSUME NetInv, [NetNext]_netVars PROVE NetInv'
  OBVIOUS
<1>1. ASSUME NEW s \in FreeSockets, NEW tcp \in BOOLEAN, NEW v6 \in FreeFamilies, Construct(s, tcp, v6) PROVE NetInv'
  BY <1>1, ConstructCall, SocketsAssumption
<1>2. ASSUME NEW s \in FreeSockets, NEW port \in FreePorts, Bind(s, port) \/ Connect(s, port) \/ SendTo(s, port)
      PROVE  NetInv'
  BY <1>2, BindCall, ConnectCall, DatagramCalls, SocketsAssumption
<1>3. ASSUME NEW s \in FreeSockets,
             Listen(s) \/ CloseSocket(s) \/ Destroy(s) \/ ReadTooMuch(s) \/ ReadLeftover(s)
             \/ ConnectUdp(s) \/ Disconnect(s) \/ RecvFrom(s)
      PROVE  NetInv'
  BY <1>3, ListenCall, CloseSocketCall, DestroyCall, ReadCalls, ConnectUdpCalls, DatagramCalls, SocketsAssumption
<1>4. ASSUME NEW s \in FreeSockets, NEW t \in FreeSockets, Accept(s, t) \/ MoveConstruct(s, t) \/ MoveAssign(s, t)
      PROVE  NetInv'
  BY <1>4, AcceptCall, MoveConstructCall, MoveAssignCall, SocketsAssumption
<1>5. CASE UNCHANGED netVars
  BY <1>5 DEF NetInv, NetTyped, OneOwner, ObjectOK, Fd, netVars
<1> QED
  BY <1>1, <1>2, <1>3, <1>4, <1>5, ForgetCall DEF NetNext

LEMMA NetInvOwned == NetInv => SocketsOwned
<1> SUFFICES ASSUME NetInv PROVE SocketsOwned
  OBVIOUS
<1>1. ASSUME NEW d \in Descriptors, os[d].state # "unused"
      PROVE  Cardinality({s \in SocketNames : socket[s].fd = d}) = 1
  <2>1. d # NoSock
    BY SocketsAssumption, FS_CardinalityType DEF NoSock
  <2>2. PICK s \in SocketNames : socket[s].fd = d
    BY <1>1 DEF NetInv, OneOwner
  <2>3. {t \in SocketNames : socket[t].fd = d} = {s}
    BY <2>1, <2>2 DEF NetInv, OneOwner
  <2> QED
    BY <2>3, FS_Singleton
<1>2. ASSUME NEW s \in SocketNames
      PROVE  /\ HasFd(s) => Fd(s).state # "unused"
             /\ socket[s].tcp => socket[s].isConnected = InState(s, {"connected"})
             /\ socket[s].buffer # 0 /\ InState(s, {"connected"}) /\ s \notin mixed => socket[s].buffer = Fd(s).conn
  <2>1. ObjectOK(s) /\ socket[s].isConnected \in BOOLEAN
    BY DEF NetInv, NetTyped, SocketObject
  <2>2. HasFd(s) <=> socket[s].fd # NoSock
    BY <2>1 DEF HasFd, Live, ObjectOK
  <2>3. InState(s, {"connected"}) <=> socket[s].fd # NoSock /\ Fd(s).state = "connected"
    BY <2>2 DEF InState
  <2>4. socket[s].tcp => (socket[s].isConnected <=> InState(s, {"connected"}))
    BY <2>1, <2>3 DEF ObjectOK
  <2>5. InState(s, {"connected"}) \in BOOLEAN
    BY DEF InState
  <2>6. socket[s].tcp => socket[s].isConnected = InState(s, {"connected"})
    BY <2>1, <2>4, <2>5
  <2>7. HasFd(s) => Fd(s).state # "unused"
    BY <2>1, <2>2 DEF ObjectOK, TcpStates
  <2>8. socket[s].buffer # 0 /\ InState(s, {"connected"}) /\ s \notin mixed => socket[s].buffer = Fd(s).conn
    BY <2>1, <2>3 DEF ObjectOK
  <2> QED
    BY <2>6, <2>7, <2>8
<1> QED
  BY <1>1, <1>2 DEF SocketsOwned

\* Whatever calls are made on sockets, in whatever order: a descriptor in use has one
\* owner, which knows whether it is connected and holds no bytes of another connection
\* unless it was assigned over them.
THEOREM SocketsAreOwned == NetSpec => []SocketsOwned
<1>1. NetSpec => []NetInv
  BY InitNet, NextNet, PTL DEF NetSpec
<1> QED
  BY <1>1, NetInvOwned, PTL

-----------------------------------------------------------------------------
\* Arguments: taking a text out leaves the others.
LEMMA RemoveFirstLeaves ==
    ASSUME NEW S, NEW s \in Seq(S), NEW e
    PROVE  /\ RemoveFirst(s, e) \in Seq(S)
           /\ ToSet(RemoveFirst(s, e)) \subseteq ToSet(s)
           /\ ToSet(s) \subseteq ToSet(RemoveFirst(s, e)) \cup {e}
<1>1. Len(s) \in Nat /\ DOMAIN s = 1..Len(s)
  BY LenProperties
<1>2. CASE ~\E i \in 1..Len(s) : s[i] = e
  BY <1>2 DEF RemoveFirst
<1>3. CASE \E i \in 1..Len(s) : s[i] = e
  <2> DEFINE I == {i \in 1..Len(s) : s[i] = e}
  <2>1. I \in SUBSET Nat /\ I # {}
    BY <1>1, <1>3
  <2>2. PICK p \in Nat : p \in 1..Len(s) /\ s[p] = e /\ p = Min(I)
    <3>1. \E x \in I : \A y \in I : x <= y
      BY <2>1, LeastOf
    <3>2. PICK x \in I : x = Min(I)
      <4> HIDE DEF I
      <4> QED
        BY <3>1 DEF Min
    <3>3. x \in Nat /\ x \in 1..Len(s) /\ s[x] = e
      BY <1>1
    <3> HIDE DEF I
    <3> QED
      BY <3>2, <3>3
  <2>3. RemoveFirst(s, e) = RemoveAt(s, p)
    BY <1>3, <2>1, <2>2 DEF RemoveFirst, SelectInSeq
  <2> DEFINE a == SubSeq(s, 1, p - 1)
             b == SubSeq(s, p + 1, Len(s))
  <2> HIDE DEF I
  <2>4. p \in 1..Len(s) /\ s[p] = e
    BY <2>2
  <2>5. /\ a \in Seq(S) /\ Len(a) = p - 1 /\ \A i \in 1..(p - 1) : a[i] = s[i]
    <3>1. \A i \in 1..(p - 1) : s[i] \in S
      BY <1>1, <2>4, ElementOfSeq
    <3> QED
      BY <1>1, <2>4, <3>1, SubSeqProperties
  <2>6. /\ b \in Seq(S) /\ Len(b) = Len(s) - p /\ \A i \in 1..(Len(s) - p) : b[i] = s[p + i]
    <3> DEFINE m == p + 1
    <3>1. \A i \in m..Len(s) : s[i] \in S
      BY <1>1, <2>4, ElementOfSeq
    <3>2. m \in Int /\ Len(s) \in Int
      BY <1>1, <2>4
    <3> HIDE DEF m
    <3>3. /\ SubSeq(s, m, Len(s)) \in Seq(S)
          /\ Len(SubSeq(s, m, Len(s))) = IF m <= Len(s) THEN Len(s) - m + 1 ELSE 0
          /\ \A i \in 1..(Len(s) - m + 1) : SubSeq(s, m, Len(s))[i] = s[m + i - 1]
      BY <3>1, <3>2, SubSeqProperties
    <3>4. b = SubSeq(s, m, Len(s))
      BY DEF m
    <3>5. Len(s) - m + 1 = Len(s) - p /\ (m <= Len(s) <=> p < Len(s)) /\ \A i \in Int : m + i - 1 = p + i
      BY <1>1, <2>4 DEF m
    <3>6. Len(b) = Len(s) - p
      <4>1. CASE p < Len(s)
        BY <3>3, <3>4, <3>5, <4>1
      <4>2. CASE ~(p < Len(s))
        <5>1. p = Len(s)
          <6>1. p \in Nat /\ p <= Len(s)
            BY <1>1, <2>2
          <6>2. Len(s) \in Nat
            BY <1>1
          <6> HIDE DEF a, b
          <6> QED
            BY <4>2, <6>1, <6>2
        <5> QED
          BY <1>1, <3>3, <3>4, <3>5, <4>2, <5>1
      <4> HIDE DEF b
      <4> QED
        BY <4>1, <4>2
    <3>7. ASSUME NEW i \in 1..(Len(s) - p) PROVE b[i] = s[p + i]
      BY <3>3, <3>4, <3>5
    <3> HIDE DEF b, m
    <3> QED
      BY <3>3, <3>4, <3>6, <3>7
  <2>7. RemoveFirst(s, e) = a \o b
    BY <2>3 DEF RemoveAt
  <2> HIDE DEF a, b
  <2>8. /\ a \o b \in Seq(S) /\ Len(a \o b) = Len(s) - 1
        /\ \A i \in 1..(Len(s) - 1) : (a \o b)[i] = IF i <= p - 1 THEN s[i] ELSE s[i + 1]
    <3>1. /\ a \o b \in Seq(S) /\ Len(a \o b) = Len(a) + Len(b)
          /\ \A i \in 1..(Len(a) + Len(b)) : (a \o b)[i] = IF i <= Len(a) THEN a[i] ELSE b[i - Len(a)]
      BY <2>5, <2>6, ConcatProperties
    <3>2. Len(a \o b) = Len(s) - 1
      BY <1>1, <2>4, <2>5, <2>6, <3>1
    <3>3. ASSUME NEW i \in 1..(Len(s) - 1) PROVE (a \o b)[i] = IF i <= p - 1 THEN s[i] ELSE s[i + 1]
      <4>1. i \in 1..(Len(a) + Len(b))
        BY <1>1, <2>4, <2>5, <2>6
      <4>2. CASE i <= p - 1
        <5>1. i \in 1..(p - 1) /\ i <= Len(a)
          BY <1>1, <2>4, <2>5, <4>2
        <5> QED
          BY <2>5, <3>1, <4>1, <4>2, <5>1
      <4>3. CASE ~(i <= p - 1)
        <5>1. i - (p - 1) \in 1..(Len(s) - p) /\ p + (i - (p - 1)) = i + 1 /\ ~(i <= Len(a))
          BY <1>1, <2>4, <2>5, <4>3
        <5>2. (a \o b)[i] = b[i - (p - 1)]
          BY <2>5, <3>1, <4>1, <5>1
        <5>3. b[i - (p - 1)] = s[p + (i - (p - 1))]
          BY <2>6, <5>1
        <5> QED
          BY <4>3, <5>1, <5>2, <5>3
      <4> QED
        BY <4>2, <4>3
    <3> QED
      BY <3>1, <3>2, <3>3
  <2>9. DOMAIN (a \o b) = 1..(Len(s) - 1)
    BY <2>8, LenProperties
  <2>10. ToSet(a \o b) \subseteq ToSet(s)
    <3>1. ASSUME NEW i \in 1..(Len(s) - 1) PROVE \E j \in 1..Len(s) : (a \o b)[i] = s[j]
      <4>1. i \in 1..Len(s) /\ i + 1 \in 1..Len(s)
        BY <1>1
      <4> QED
        BY <2>8, <4>1
    <3> QED
      BY <1>1, <2>9, <3>1 DEF ToSet
  <2>11. ASSUME NEW i \in 1..Len(s), s[i] # e PROVE s[i] \in ToSet(a \o b)
    <3>1. CASE i < p
      <4>1. i \in 1..(Len(s) - 1) /\ (a \o b)[i] = s[i]
        BY <1>1, <2>4, <2>8, <3>1
      <4> QED
        BY <2>9, <4>1 DEF ToSet
    <3>2. CASE i > p
      <4>1. i - 1 \in 1..(Len(s) - 1) /\ ~(i - 1 <= p - 1) /\ (i - 1) + 1 = i
        BY <1>1, <2>4, <3>2
      <4>2. (a \o b)[i - 1] = s[i]
        BY <2>8, <4>1
      <4> QED
        BY <2>9, <4>1, <4>2 DEF ToSet
    <3> QED
      BY <1>1, <2>4, <2>11, <3>1, <3>2
  <2>12. ToSet(s) \subseteq ToSet(a \o b) \cup {e}
    BY <1>1, <2>11 DEF ToSet
  <2> QED
    BY <2>7, <2>8, <2>10, <2>12
<1> QED
  BY <1>2, <1>3

LEMMA ArgsAreWords == \A args \in ServerArgs \cup ClientArgs : args \in Seq(Words)
BY ArgumentsAssumption DEF Words

\* The port that texts are taken for: the listening port, or the number that the first
\* of them is.
ReadAsPort(texts) == IF texts = <<>> THEN DEFAULT_LISTEN_PORT ELSE ParsePort(texts[1])

LEMMA PortIsRead ==
    ASSUME NEW texts \in Seq(Words), NEW port, port = ReadAsPort(texts), port # BadPort
    PROVE  /\ port \in 0..MaxPort
           /\ \/ texts = <<>> /\ port = DEFAULT_LISTEN_PORT
              \/ \E text \in ToSet(texts) \cap DOMAIN Stoi : text = texts[1] /\ port = Stoi[text]
<1>1. CASE texts = <<>>
  BY <1>1, ProgramsAssumption DEF ReadAsPort
<1>2. CASE texts # <<>>
  <2>1. PICK text : text = texts[1]
    OBVIOUS
  <2>2. port = ParsePort(text)
    BY <1>2, <2>1 DEF ReadAsPort
  <2>3. text \in DOMAIN Stoi /\ port = Stoi[text] /\ port \in 0..MaxPort
    BY <2>2 DEF ParsePort
  <2>4. text \in ToSet(texts)
    <3>1. 1 \in DOMAIN texts
      BY <1>2, LenProperties, EmptySeq
    <3> QED
      BY <2>1, <3>1 DEF ToSet
  <2> QED
    BY <2>1, <2>3, <2>4
<1> QED
  BY <1>1, <1>2

\* The server's arguments: the family they name, and the port that one of them is.
LEMMA ServerArgsParsed ==
    ASSUME NEW args \in ServerArgs, NEW r, r = ParseServerArgs(args), r.ok = TRUE
    PROVE  /\ r.v6 \in BOOLEAN /\ (r.v6 <=> "IPv6" \in ToSet(args)) /\ r.port \in 0..MaxPort
           /\ \/ \E a \in ToSet(args) \cap DOMAIN Stoi : r.port = Stoi[a]
              \/ ToSet(args) \subseteq Families /\ r.port = DEFAULT_LISTEN_PORT
<1> DEFINE texts == RemoveFirst(RemoveFirst(args, "IPv4"), "IPv6")
           v6 == "IPv6" \in ToSet(args)
           port == ReadAsPort(texts)
<1>1. args \in Seq(Words)
  BY ArgsAreWords
<1>2. r = PortOf(texts, v6)
  <2>1. Refused.ok = FALSE
    BY DEF Refused
  <2> HIDE DEF texts, v6
  <2>2. r = IF Len(args) > 2 \/ {"IPv4", "IPv6"} \subseteq ToSet(args) THEN Refused ELSE PortOf(texts, v6)
    BY DEF ParseServerArgs, texts, v6
  <2> QED
    BY <2>1, <2>2
<1>3. /\ texts \in Seq(Words) /\ ToSet(texts) \subseteq ToSet(args)
      /\ ToSet(args) \subseteq ToSet(texts) \cup Families
  <2>1. /\ RemoveFirst(args, "IPv4") \in Seq(Words) /\ ToSet(RemoveFirst(args, "IPv4")) \subseteq ToSet(args)
        /\ ToSet(args) \subseteq ToSet(RemoveFirst(args, "IPv4")) \cup {"IPv4"}
    BY <1>1, RemoveFirstLeaves
  <2>2. /\ texts \in Seq(Words) /\ ToSet(texts) \subseteq ToSet(RemoveFirst(args, "IPv4"))
        /\ ToSet(RemoveFirst(args, "IPv4")) \subseteq ToSet(texts) \cup {"IPv6"}
    BY <2>1, RemoveFirstLeaves
  <2> QED
    BY <2>1, <2>2 DEF Families
<1> HIDE DEF texts
<1>4. r = IF port = BadPort THEN Refused ELSE [ok |-> TRUE, v6 |-> v6, port |-> port]
  BY <1>2 DEF PortOf, ReadAsPort
<1> HIDE DEF port, v6
<1>5. port # BadPort
  <2>1. Refused.ok = FALSE
    BY DEF Refused
  <2> QED
    BY <1>4, <2>1
<1>6. r.port = port /\ r.v6 = v6
  BY <1>4, <1>5
<1>7. /\ port \in 0..MaxPort
      /\ \/ texts = <<>> /\ port = DEFAULT_LISTEN_PORT
         \/ \E text \in ToSet(texts) \cap DOMAIN Stoi : text = texts[1] /\ port = Stoi[text]
  BY <1>3, <1>5, PortIsRead DEF port
<1>8. texts = <<>> => ToSet(texts) = {}
  BY EmptySeq DEF ToSet
<1>9. \/ \E a \in ToSet(args) \cap DOMAIN Stoi : r.port = Stoi[a]
      \/ ToSet(args) \subseteq Families /\ r.port = DEFAULT_LISTEN_PORT
  BY <1>3, <1>6, <1>7, <1>8
<1>10. r.v6 \in BOOLEAN /\ (r.v6 <=> "IPv6" \in ToSet(args))
  <2>1. v6 \in BOOLEAN /\ (v6 <=> "IPv6" \in ToSet(args))
    BY DEF v6
  <2> QED
    BY <1>6, <2>1
<1> QED
  BY <1>6, <1>7, <1>9, <1>10

\* The client's: the family of the address, and the port that the other text is.
LEMMA ClientArgsParsed ==
    ASSUME NEW args \in ClientArgs, NEW r, r = ParseClientArgs(args), r.ok = TRUE
    PROVE  /\ r.v6 \in BOOLEAN /\ (r.v6 <=> args[1] \in Inet6) /\ r.port \in 0..MaxPort
           /\ args \in Seq(Words) /\ Len(args) \in {1, 2} /\ args[1] \in Addresses
           /\ Len(args) = 1 => r.port = DEFAULT_LISTEN_PORT
           /\ Len(args) = 2 => args[2] \in DOMAIN Stoi /\ r.port = Stoi[args[2]]
<1> DEFINE v6 == ParseIp(args[1]) = "IPv6"
           texts == Tail(args)
           port == ReadAsPort(texts)
<1>1. args \in Seq(Words)
  BY ArgsAreWords
<1>2. r = PortOf(texts, v6) /\ Len(args) \in {1, 2} /\ ParseIp(args[1]) # "none"
  <2>1. Refused.ok = FALSE
    BY DEF Refused
  <2> HIDE DEF texts, v6
  <2>2. r = IF Len(args) \notin {1, 2} \/ ParseIp(args[1]) = "none" THEN Refused ELSE PortOf(texts, v6)
    BY DEF ParseClientArgs, texts, v6
  <2> QED
    BY <2>1, <2>2
<1>3. args[1] \in Addresses /\ (v6 <=> args[1] \in Inet6)
  BY <1>2, ArgumentsAssumption DEF ParseIp, Addresses
<1>4. /\ texts \in Seq(Words) /\ Len(texts) = Len(args) - 1
      /\ Len(args) = 2 => texts[1] = args[2]
  BY <1>1, <1>2, HeadTailProperties, EmptySeq
<1>5. (texts = <<>>) <=> Len(args) = 1
  BY <1>2, <1>4, EmptySeq
<1> HIDE DEF texts
<1>6. r = IF port = BadPort THEN Refused ELSE [ok |-> TRUE, v6 |-> v6, port |-> port]
  BY <1>2 DEF PortOf, ReadAsPort
<1>7. v6 \in BOOLEAN
  OBVIOUS
<1> HIDE DEF port, v6
<1>8. port # BadPort
  <2>1. Refused.ok = FALSE
    BY DEF Refused
  <2> QED
    BY <1>6, <2>1
<1>9. r.port = port /\ r.v6 = v6
  BY <1>6, <1>8
<1>10. /\ port \in 0..MaxPort
       /\ \/ texts = <<>> /\ port = DEFAULT_LISTEN_PORT
          \/ \E text \in ToSet(texts) \cap DOMAIN Stoi : text = texts[1] /\ port = Stoi[text]
  BY <1>4, <1>8, PortIsRead DEF port
<1>11. r.v6 \in BOOLEAN /\ (r.v6 <=> args[1] \in Inet6)
  BY <1>3, <1>7, <1>9
<1>12. Len(args) = 1 => r.port = DEFAULT_LISTEN_PORT
  BY <1>5, <1>9, <1>10, EmptySeq DEF ToSet
<1>13. Len(args) = 2 => args[2] \in DOMAIN Stoi /\ r.port = Stoi[args[2]]
  BY <1>4, <1>5, <1>9, <1>10
<1> QED
  BY <1>1, <1>2, <1>3, <1>9, <1>10, <1>11, <1>12, <1>13

\* Arguments that are clear mean what they are taken for.
LEMMA ServerMeant ==
    ASSUME NEW args \in ServerArgs, NEW r, r = ParseServerArgs(args), r.ok = TRUE, Clear(args),
           NEW v6, NEW port, Means(args, v6, port)
    PROVE  v6 = r.v6 /\ port = r.port
<1>1. /\ r.v6 \in BOOLEAN /\ (r.v6 <=> "IPv6" \in ToSet(args))
      /\ \/ \E a \in ToSet(args) \cap DOMAIN Stoi : r.port = Stoi[a]
         \/ ToSet(args) \subseteq Families /\ r.port = DEFAULT_LISTEN_PORT
  BY ServerArgsParsed
<1>2. ToSet(args) \cap Addresses = {}
  BY DEF Clear
<1>3. (\E a \in ToSet(args) : a = "IPv6" \/ a \in Inet6) <=> "IPv6" \in ToSet(args)
  BY <1>2 DEF Addresses
<1>4. v6 = r.v6
  <2>1. v6 = (\E a \in ToSet(args) : a = "IPv6" \/ a \in Inet6)
    BY DEF Means
  <2>2. CASE "IPv6" \in ToSet(args)
    BY <1>1, <1>3, <2>1, <2>2
  <2>3. CASE "IPv6" \notin ToSet(args)
    <3>1. v6 = FALSE
      BY <1>3, <2>1, <2>3
    <3>2. r.v6 = FALSE
      BY <1>1, <2>3
    <3> QED
      BY <3>1, <3>2
  <2> QED
    BY <2>2, <2>3
<1> DEFINE numbers == {Stoi[a] : a \in (ToSet(args) \cap DOMAIN Stoi) \ Addresses}
<1>5. IF numbers = {} THEN port = DEFAULT_LISTEN_PORT ELSE port \in numbers
  BY DEF Means
<1>6. port = r.port
  <2>1. CASE \E a \in ToSet(args) \cap DOMAIN Stoi : r.port = Stoi[a]
    <3>1. PICK a \in ToSet(args) \cap DOMAIN Stoi : r.port = Stoi[a]
      BY <2>1
    <3>2. a \notin Addresses
      BY <1>2
    <3>3. PICK b \in ToSet(args) \cap DOMAIN Stoi : port = Stoi[b]
      BY <1>5, <3>2
    <3> QED
      BY <3>1, <3>3 DEF Clear
  <2>2. CASE ToSet(args) \subseteq Families /\ r.port = DEFAULT_LISTEN_PORT
    <3>1. numbers = {}
      BY <2>2, ArgumentsAssumption
    <3> QED
      BY <1>5, <2>2, <3>1
  <2> QED
    BY <1>1, <2>1, <2>2
<1> QED
  BY <1>4, <1>6

LEMMA ClientMeant ==
    ASSUME NEW args \in ClientArgs, NEW r, r = ParseClientArgs(args), r.ok = TRUE, Clear(Tail(args)),
           NEW v6, NEW port, Means(args, v6, port)
    PROVE  v6 = r.v6 /\ port = r.port
<1>1. /\ r.v6 \in BOOLEAN /\ (r.v6 <=> args[1] \in Inet6) /\ r.port \in 0..MaxPort
      /\ args \in Seq(Words) /\ Len(args) \in {1, 2} /\ args[1] \in Addresses
      /\ Len(args) = 1 => r.port = DEFAULT_LISTEN_PORT
      /\ Len(args) = 2 => args[2] \in DOMAIN Stoi /\ r.port = Stoi[args[2]]
  BY ClientArgsParsed
<1> DEFINE numbers == {Stoi[a] : a \in (ToSet(args) \cap DOMAIN Stoi) \ Addresses}
<1>2. IF numbers = {} THEN port = DEFAULT_LISTEN_PORT ELSE port \in numbers
  BY DEF Means
<1>3. v6 = (\E a \in ToSet(args) : a = "IPv6" \/ a \in Inet6)
  BY DEF Means
<1>4. args[1] # "IPv6"
  BY <1>1, ArgumentsAssumption DEF Families
<1>5. CASE Len(args) = 1
  <2>1. ToSet(args) = {args[1]}
    BY <1>1, <1>5, LenProperties DEF ToSet
  <2>2. numbers = {}
    BY <1>1, <2>1
  <2>3. (\E a \in ToSet(args) : a = "IPv6" \/ a \in Inet6) <=> args[1] \in Inet6
    BY <1>4, <2>1
  <2>4. v6 = r.v6
    <3>1. CASE args[1] \in Inet6
      BY <1>1, <1>3, <2>3, <3>1
    <3>2. CASE args[1] \notin Inet6
      <4>1. v6 = FALSE
        BY <1>3, <2>3, <3>2
      <4>2. r.v6 = FALSE
        BY <1>1, <3>2
      <4> QED
        BY <4>1, <4>2
    <3> QED
      BY <3>1, <3>2
  <2> QED
    BY <1>1, <1>2, <1>5, <2>2, <2>4
<1>6. CASE Len(args) = 2
  <2>1. ToSet(args) = {args[1], args[2]}
    <3>1. DOMAIN args = {1, 2}
      BY <1>1, <1>6, LenProperties
    <3> QED
      BY <3>1 DEF ToSet
  <2>2. args[2] \in ToSet(Tail(args))
    <3>1. /\ Tail(args) \in Seq(Words) /\ Len(Tail(args)) = Len(args) - 1
          /\ \A i \in 1..(Len(args) - 1) : Tail(args)[i] = args[i + 1]
      <4>1. args # <<>>
        BY <1>6, EmptySeq
      <4> QED
        BY <1>1, <4>1, HeadTailProperties
    <3>2. Len(Tail(args)) = 1 /\ Tail(args)[1] = args[2] /\ 1 \in 1..1
      BY <1>6, <3>1
    <3>3. 1 \in DOMAIN Tail(args)
      BY <3>1, <3>2, LenProperties
    <3> QED
      BY <3>2, <3>3 DEF ToSet
  <2>3. args[2] \notin Addresses
    BY <2>2 DEF Clear
  <2>4. args[2] # "IPv6"
    BY <1>1, <1>6, ArgumentsAssumption DEF Families
  <2>5. numbers = {Stoi[args[2]]}
    BY <1>1, <1>6, <2>1, <2>3
  <2>6. (\E a \in ToSet(args) : a = "IPv6" \/ a \in Inet6) <=> args[1] \in Inet6
    BY <1>4, <2>1, <2>3, <2>4 DEF Addresses
  <2>7. v6 = r.v6
    <3>1. CASE args[1] \in Inet6
      BY <1>1, <1>3, <2>6, <3>1
    <3>2. CASE args[1] \notin Inet6
      <4>1. v6 = FALSE
        BY <1>3, <2>6, <3>2
      <4>2. r.v6 = FALSE
        BY <1>1, <3>2
      <4> QED
        BY <4>1, <4>2
    <3> QED
      BY <3>1, <3>2
  <2> QED
    BY <1>1, <1>2, <1>6, <2>5, <2>7
<1> QED
  BY <1>1, <1>5, <1>6

-----------------------------------------------------------------------------
\* Programs: one goes on, the others have what they had.
LEMMA KeptProgram ==
    ASSUME NEW p, ProgramOK(p), Kept(p), program'[p] = program[p]
    PROVE  ProgramOK(p)'
<1>1. /\ ~Live(p) => ~Live(p)'
      /\ HasFd(p) => HasFd(p)' /\ Fd(p)'.state = Fd(p).state /\ Fd(p)'.v6 = Fd(p).v6 /\ Fd(p)'.port = Fd(p).port
  BY DEF Kept, HasFd, Live, Fd
<1> QED
  BY <1>1 DEF ProgramOK, Has, InState, Parsed, ParsedAs

LEMMA OneProgram ==
    ASSUME ProgramsInv, NEW p \in Started, NetInv', \A t \in SocketNames \ {p} : Kept(t), turnedAway' = {},
           program' \in [Started -> Program], \A q \in Started \ {p} : program'[q] = program[q],
           ProgramOK(p)',
           p \in Servers /\ HasPort(p)' =>
              \A q \in Servers \ {p} : HasPort(q) => program[q].port # program'[p].port
    PROVE  ProgramsInv'
<1>1. ASSUME NEW q \in Started PROVE ProgramOK(q)'
  <2>1. CASE q = p
    BY <2>1
  <2>2. CASE q # p
    <3>1. q \in SocketNames
      BY ProgramsAssumption DEF Started
    <3>2. ProgramOK(q) /\ Kept(q) /\ program'[q] = program[q]
      BY <2>2, <3>1 DEF ProgramsInv
    <3> QED
      BY <3>2, KeptProgram
  <2> QED
    BY <2>1, <2>2
<1>2. PortsDiffer'
  <2>1. ASSUME NEW q \in Servers, NEW r \in Servers, q # r, HasPort(q)', HasPort(r)'
        PROVE  program'[q].port # program'[r].port
    <3>1. q \in Started /\ r \in Started
      BY DEF Started
    <3>2. CASE q = p
      BY <2>1, <3>1, <3>2 DEF HasPort
    <3>3. CASE r = p
      BY <2>1, <3>1, <3>3 DEF HasPort
    <3>4. CASE q # p /\ r # p
      BY <2>1, <3>1, <3>4 DEF HasPort, ProgramsInv, PortsDiffer
    <3> QED
      BY <3>2, <3>3, <3>4
  <2> QED
    BY <2>1 DEF PortsDiffer
<1> QED
  BY <1>1, <1>2 DEF ProgramsInv

\* A program that goes somewhere keeps what it was given.
LEMMA GoesTo ==
    ASSUME ProgramsInv, NEW p \in Started, NEW place \in Places, Goes(p, place)
    PROVE  /\ program' \in [Started -> Program] /\ \A q \in Started \ {p} : program'[q] = program[q]
           /\ program'[p].at = place /\ program'[p].args = program[p].args
           /\ program'[p].v6 = program[p].v6 /\ program'[p].port = program[p].port
<1>1. program[p] \in Program /\ program \in [Started -> Program]
  BY DEF ProgramsInv
<1> DEFINE r == [program[p] EXCEPT !.at = place]
<1>2. /\ r \in Program /\ r.at = place /\ r.args = program[p].args /\ r.v6 = program[p].v6
      /\ r.port = program[p].port
  BY <1>1 DEF Program
<1>3. program' = [program EXCEPT ![p] = r]
  BY DEF Goes
<1> HIDE DEF r
<1>4. program'[p] = r /\ program' \in [Started -> Program] /\ \A q \in Started \ {p} : program'[q] = program[q]
  BY <1>1, <1>2, <1>3
<1> QED
  BY <1>2, <1>4

LEMMA ProgramsAreSockets ==
    /\ Started \subseteq SocketNames /\ HandlerSockets \subseteq SocketNames
    /\ Started \cap HandlerSockets = {} /\ Servers \cap Clients = {}
BY ProgramsAssumption DEF Started

\* What a program that is not off was given.
LEMMA GoesParsed ==
    ASSUME ProgramsInv, NEW p \in Started, NEW place \in Places, Goes(p, place), program[p].at # "off"
    PROVE  Parsed(p)' /\ program'[p].v6 = ParsedAs(p)'.v6 /\ program'[p].port = ParsedAs(p)'.port
<1>1. Parsed(p) /\ program[p].v6 = ParsedAs(p).v6 /\ program[p].port = ParsedAs(p).port
  BY DEF ProgramsInv, ProgramOK
<1>2. /\ program'[p].args = program[p].args /\ program'[p].v6 = program[p].v6
      /\ program'[p].port = program[p].port
  BY GoesTo
<1> QED
  BY <1>1, <1>2 DEF Parsed, ParsedAs

\* A program whose socket is destroyed is off.
LEMMA GoesOff ==
    ASSUME ProgramsInv, NEW p \in Started, Goes(p, "off"), NetInv', \A t \in SocketNames \ {p} : Kept(t),
           turnedAway' = {}, ~Live(p)'
    PROVE  ProgramsInv'
<1>1. "off" \in Places
  BY DEF Places
<1>2. /\ program' \in [Started -> Program] /\ \A q \in Started \ {p} : program'[q] = program[q]
      /\ program'[p].at = "off"
  BY <1>1, GoesTo
<1>3. ProgramOK(p)'
  BY <1>2 DEF ProgramOK
<1>4. ~HasPort(p)'
  BY <1>2 DEF HasPort
<1> QED
  BY <1>2, <1>3, <1>4, OneProgram

LEMMA InitPrograms == NetInit /\ ProgramsInit => ProgramsInv
<1> SUFFICES ASSUME NetInit, ProgramsInit PROVE ProgramsInv
  OBVIOUS
<1>1. NetInv
  BY InitNet
<1>2. Off \in Program /\ Off.at = "off"
  <2>1. 0 \in 0..MaxPort
    BY DEF MaxPort
  <2>2. <<>> \in Seq(Words)
    BY EmptySeq
  <2> QED
    BY <2>1, <2>2 DEF Off, Program, Places
<1>3. program \in [Started -> Program] /\ \A p \in Started : program[p].at = "off"
  BY <1>2 DEF ProgramsInit, Started
<1>4. ASSUME NEW p \in Started PROVE ProgramOK(p)
  <2>1. ~Live(p)
    <3>1. p \in SocketNames
      BY ProgramsAreSockets
    <3> QED
      BY <3>1 DEF NetInit, Dead, Live
  <2> QED
    BY <1>3, <2>1 DEF ProgramOK
<1>5. PortsDiffer
  BY <1>3 DEF PortsDiffer, HasPort, Started
<1> QED
  BY <1>1, <1>3, <1>4, <1>5 DEF ProgramsInv, ProgramsInit

LEMMA StillNet == ASSUME NetInv, UNCHANGED netVars PROVE NetInv' /\ \A t \in SocketNames : Kept(t)
BY DEF NetInv, NetTyped, OneOwner, ObjectOK, Fd, netVars, Kept

LEMMA StillPrograms ==
    ASSUME ProgramsInv, NetInv', \A p \in Started : Kept(p), UNCHANGED programVars
    PROVE  ProgramsInv'
<1>1. UNCHANGED <<program, turnedAway>>
  BY DEF programVars
<1>2. ASSUME NEW p \in Started PROVE ProgramOK(p)'
  <2>1. ProgramOK(p) /\ Kept(p) /\ program'[p] = program[p]
    BY <1>1 DEF ProgramsInv
  <2> QED
    BY <2>1, KeptProgram
<1>3. PortsDiffer'
  BY <1>1 DEF ProgramsInv, PortsDiffer, HasPort
<1> QED
  BY <1>1, <1>2, <1>3 DEF ProgramsInv

\* A program starts with arguments it accepts.
LEMMA ProgramStarts ==
    ASSUME ProgramsInv, NEW p \in Started, NEW args \in Seq(Words), NEW v6 \in BOOLEAN, NEW port \in 0..MaxPort,
           program[p].at = "off", UNCHANGED <<netVars, turnedAway>>,
           program' = [program EXCEPT ![p] = [at |-> "parsed", args |-> args, v6 |-> v6, port |-> port]],
           Parsed(p)', v6 = ParsedAs(p)'.v6, port = ParsedAs(p)'.port
    PROVE  ProgramsInv'
<1> DEFINE r == [at |-> "parsed", args |-> args, v6 |-> v6, port |-> port]
<1>1. r \in Program /\ r.at = "parsed" /\ r.v6 = v6 /\ r.port = port
  BY DEF Program, Places
<1>2. program' = [program EXCEPT ![p] = r]
  OBVIOUS
<1> HIDE DEF r
<1>3. program' \in [Started -> Program] /\ program'[p] = r /\ \A q \in Started \ {p} : program'[q] = program[q]
  BY <1>1, <1>2 DEF ProgramsInv
<1>4. NetInv' /\ \A t \in SocketNames : Kept(t)
  BY StillNet DEF ProgramsInv
<1>5. ~Live(p)'
  <2>1. ~Live(p)
    BY DEF ProgramsInv, ProgramOK
  <2> QED
    BY <2>1 DEF Live, netVars
<1>6. ProgramOK(p)'
  BY <1>1, <1>3, <1>5 DEF ProgramOK
<1>7. ~HasPort(p)'
  BY <1>1, <1>3 DEF HasPort
<1>8. turnedAway' = {}
  BY DEF ProgramsInv
<1> QED
  BY <1>3, <1>4, <1>6, <1>7, <1>8, OneProgram

LEMMA StartServerKeeps == ASSUME ProgramsInv, NEW p \in Servers, StartServer(p) PROVE ProgramsInv'
<1>1. PICK args \in ServerArgs : Start(p, args, ParseServerArgs(args))
  BY DEF StartServer
<1>2. PICK r : r = ParseServerArgs(args)
  OBVIOUS
<1>3. /\ program[p].at = "off" /\ UNCHANGED <<netVars, turnedAway>>
      /\ program' = IF r.ok THEN [program EXCEPT ![p] = [at |-> "parsed", args |-> args, v6 |-> r.v6, port |-> r.port]]
                    ELSE program
  BY <1>1, <1>2 DEF Start
<1>4. p \in Started
  BY DEF Started
<1>5. CASE r.ok = TRUE
  <2>1. /\ args \in Seq(Words) /\ r.v6 \in BOOLEAN /\ r.port \in 0..MaxPort
    BY <1>2, <1>5, ServerArgsParsed, ArgsAreWords
  <2>2. program' = [program EXCEPT ![p] = [at |-> "parsed", args |-> args, v6 |-> r.v6, port |-> r.port]]
    BY <1>3, <1>5
  <2>3. program'[p].args = args
    BY <1>4, <2>2 DEF ProgramsInv
  <2>4. Parsed(p)' /\ r.v6 = ParsedAs(p)'.v6 /\ r.port = ParsedAs(p)'.port
    BY <1>2, <1>5, <2>3 DEF Parsed, ParsedAs
  <2> QED
    BY <1>3, <1>4, <2>1, <2>2, <2>4, ProgramStarts
<1>6. CASE ~r.ok
  <2>1. NetInv' /\ \A t \in SocketNames : Kept(t)
    BY <1>3, StillNet DEF ProgramsInv
  <2>2. UNCHANGED programVars
    BY <1>3, <1>6 DEF programVars
  <2> QED
    BY <2>1, <2>2, StillPrograms, ProgramsAreSockets
<1>7. r.ok \in BOOLEAN
  BY <1>2 DEF ParseServerArgs, PortOf, Refused
<1> QED
  BY <1>5, <1>6, <1>7

LEMMA StartClientKeeps == ASSUME ProgramsInv, NEW p \in Clients, StartClient(p) PROVE ProgramsInv'
<1>1. PICK args \in ClientArgs : Start(p, args, ParseClientArgs(args))
  BY DEF StartClient
<1>2. PICK r : r = ParseClientArgs(args)
  OBVIOUS
<1>3. /\ program[p].at = "off" /\ UNCHANGED <<netVars, turnedAway>>
      /\ program' = IF r.ok THEN [program EXCEPT ![p] = [at |-> "parsed", args |-> args, v6 |-> r.v6, port |-> r.port]]
                    ELSE program
  BY <1>1, <1>2 DEF Start
<1>4. p \in Started /\ p \notin Servers
  BY ProgramsAreSockets DEF Started
<1>5. CASE r.ok = TRUE
  <2>1. /\ args \in Seq(Words) /\ r.v6 \in BOOLEAN /\ r.port \in 0..MaxPort
    BY <1>2, <1>5, ClientArgsParsed, ArgsAreWords
  <2>2. program' = [program EXCEPT ![p] = [at |-> "parsed", args |-> args, v6 |-> r.v6, port |-> r.port]]
    BY <1>3, <1>5
  <2>3. program'[p].args = args
    BY <1>4, <2>2 DEF ProgramsInv
  <2>4. Parsed(p)' /\ r.v6 = ParsedAs(p)'.v6 /\ r.port = ParsedAs(p)'.port
    BY <1>2, <1>4, <1>5, <2>3 DEF Parsed, ParsedAs
  <2> QED
    BY <1>3, <1>4, <2>1, <2>2, <2>4, ProgramStarts
<1>6. CASE ~r.ok
  <2>1. NetInv' /\ \A t \in SocketNames : Kept(t)
    BY <1>3, StillNet DEF ProgramsInv
  <2>2. UNCHANGED programVars
    BY <1>3, <1>6 DEF programVars
  <2> QED
    BY <2>1, <2>2, StillPrograms, ProgramsAreSockets
<1>7. r.ok \in BOOLEAN
  BY <1>2 DEF ParseClientArgs, PortOf, Refused
<1> QED
  BY <1>5, <1>6, <1>7

LEMMA SetUpFailsKeeps == ASSUME ProgramsInv, NEW p \in Servers, SetUpFails(p) PROVE ProgramsInv'
<1>1. p \in Started /\ program[p].at = "parsed" /\ Goes(p, "off") /\ UNCHANGED <<netVars, turnedAway>>
  BY DEF SetUpFails, Started
<1>2. NetInv' /\ \A t \in SocketNames : Kept(t)
  BY <1>1, StillNet DEF ProgramsInv
<1>3. ~Live(p)'
  <2>1. ~Live(p)
    BY <1>1 DEF ProgramsInv, ProgramOK
  <2> QED
    BY <1>1, <2>1 DEF Live, netVars
<1>4. turnedAway' = {}
  BY <1>1 DEF ProgramsInv
<1> QED
  BY <1>1, <1>2, <1>3, <1>4, GoesOff

LEMMA MakeSocketKeeps == ASSUME ProgramsInv, NEW p \in Started, MakeSocket(p) PROVE ProgramsInv'
<1>1. program[p].at = "parsed" /\ Construct(p, TRUE, program[p].v6) /\ Goes(p, "made") /\ turnedAway' = turnedAway
  BY DEF MakeSocket
<1>2. "made" \in Places /\ p \in SocketNames /\ program[p].v6 \in BOOLEAN
  BY ProgramsAreSockets DEF Places, ProgramsInv, Program
<1>3. NetInv' /\ (\A t \in SocketNames \ {p} : Kept(t)) /\ InState(p, {"new"})' /\ Fd(p)'.v6 = program[p].v6
  <2>1. PICK v6 \in BOOLEAN : v6 = program[p].v6
    BY <1>2
  <2>2. Construct(p, TRUE, v6)
    BY <1>1, <2>1
  <2> QED
    BY <1>2, <2>1, <2>2, ConstructCall DEF ProgramsInv
<1>4. /\ program' \in [Started -> Program] /\ \A q \in Started \ {p} : program'[q] = program[q]
      /\ program'[p].at = "made" /\ program'[p].v6 = program[p].v6
  BY <1>1, <1>2, GoesTo
<1>5. Parsed(p)' /\ program'[p].v6 = ParsedAs(p)'.v6 /\ program'[p].port = ParsedAs(p)'.port
  BY <1>1, <1>2, GoesParsed
<1>6. Has(p, "new")'
  BY <1>3, <1>4 DEF Has
<1>7. ProgramOK(p)'
  BY <1>4, <1>5, <1>6 DEF ProgramOK
<1>8. ~HasPort(p)' /\ turnedAway' = {}
  BY <1>1, <1>4 DEF HasPort, ProgramsInv
<1> QED
  BY <1>3, <1>4, <1>7, <1>8, OneProgram

\* Who holds a port keeps others from binding it.
LEMMA BindServerKeeps == ASSUME ProgramsInv, NEW p \in Servers, BindServer(p) PROVE ProgramsInv'
<1>1. program[p].at = "made" /\ p \in Started /\ p \in SocketNames /\ turnedAway' = {}
  BY ProgramsAreSockets DEF BindServer, Started, ProgramsInv
<1>2. CASE CanBind(p)
  <2>1. Bind(p, program[p].port) /\ Goes(p, "bound")
    BY <1>2 DEF BindServer
  <2>2. "bound" \in Places /\ program[p].port \in Nat
    <3>1. program[p].port \in 0..MaxPort
      BY <1>1 DEF ProgramsInv, Program
    <3> QED
      BY <3>1 DEF Places
  <2>3. InState(p, {"new"}) /\ Fd(p).v6 = program[p].v6
    BY <1>1 DEF ProgramsInv, ProgramOK, Has
  <2>4. /\ NetInv' /\ (\A t \in SocketNames \ {p} : Kept(t)) /\ InState(p, {"new"})'
        /\ Fd(p)'.v6 = Fd(p).v6 /\ Fd(p)'.port = program[p].port
    <3>1. PICK port \in Nat : port = program[p].port
      BY <2>2
    <3>2. Bind(p, port)
      BY <2>1, <3>1
    <3> QED
      BY <1>1, <2>3, <3>1, <3>2, BindCall DEF ProgramsInv
  <2>5. /\ program' \in [Started -> Program] /\ \A q \in Started \ {p} : program'[q] = program[q]
        /\ program'[p].at = "bound" /\ program'[p].v6 = program[p].v6 /\ program'[p].port = program[p].port
    BY <1>1, <2>1, <2>2, GoesTo
  <2>6. Parsed(p)' /\ program'[p].v6 = ParsedAs(p)'.v6 /\ program'[p].port = ParsedAs(p)'.port
    BY <1>1, <2>1, <2>2, GoesParsed
  <2>7. Has(p, "new")'
    BY <2>3, <2>4, <2>5 DEF Has
  <2>8. ProgramOK(p)'
    BY <2>4, <2>5, <2>6, <2>7 DEF ProgramOK
  <2>9. ASSUME NEW q \in Servers \ {p}, HasPort(q) PROVE program[q].port # program'[p].port
    <3>1. q \in Started /\ q \in SocketNames
      BY ProgramsAreSockets DEF Started
    <3>2. InState(q, {"new", "listening"}) /\ Fd(q).port = program[q].port
      BY <2>9, <3>1 DEF HasPort, ProgramsInv, ProgramOK, Has, InState
    <3>3. socket[q].fd \in Descriptors /\ Fd(q) = os[socket[q].fd]
      BY <3>1, <3>2, OwnDescriptor DEF InState, ProgramsInv
    <3>4. os[socket[q].fd].state \in {"new", "listening"} /\ os[socket[q].fd].port = program[q].port
      BY <3>2, <3>3 DEF InState
    <3>5. os[socket[q].fd].port # program[p].port
      BY <1>2, <3>3, <3>4 DEF CanBind, PortFree
    <3> QED
      BY <2>5, <3>4, <3>5
  <2> QED
    BY <1>1, <2>4, <2>5, <2>8, <2>9, OneProgram
<1>3. CASE ~CanBind(p)
  <2>1. Destroy(p) /\ Goes(p, "off")
    BY <1>3 DEF BindServer
  <2> QED
    BY <1>1, <2>1, DestroyCall, GoesOff DEF ProgramsInv
<1> QED
  BY <1>2, <1>3

LEMMA StartListeningKeeps == ASSUME ProgramsInv, NEW p \in Servers, StartListening(p) PROVE ProgramsInv'
<1>1. /\ program[p].at = "bound" /\ p \in Started /\ p \in SocketNames /\ turnedAway' = {}
      /\ Listen(p) /\ Goes(p, "running") /\ "running" \in Places
  BY ProgramsAreSockets DEF StartListening, Started, ProgramsInv, Places
<1>2. Fd(p).v6 = program[p].v6 /\ Fd(p).port = program[p].port
  BY <1>1 DEF ProgramsInv, ProgramOK, Has
<1>3. /\ NetInv' /\ (\A t \in SocketNames \ {p} : Kept(t)) /\ InState(p, {"listening"})'
      /\ Fd(p)'.v6 = Fd(p).v6 /\ Fd(p)'.port = Fd(p).port
  BY <1>1, ListenCall DEF ProgramsInv
<1>4. /\ program' \in [Started -> Program] /\ \A q \in Started \ {p} : program'[q] = program[q]
      /\ program'[p].at = "running" /\ program'[p].v6 = program[p].v6 /\ program'[p].port = program[p].port
  BY <1>1, GoesTo
<1>5. Parsed(p)' /\ program'[p].v6 = ParsedAs(p)'.v6 /\ program'[p].port = ParsedAs(p)'.port
  BY <1>1, GoesParsed
<1>6. Has(p, "listening")'
  BY <1>2, <1>3, <1>4 DEF Has
<1>7. ProgramOK(p)'
  BY <1>2, <1>3, <1>4, <1>5, <1>6 DEF ProgramOK
<1>8. ASSUME NEW q \in Servers \ {p}, HasPort(q) PROVE program[q].port # program'[p].port
  BY <1>1, <1>4, <1>8 DEF ProgramsInv, PortsDiffer, HasPort
<1> QED
  BY <1>1, <1>3, <1>4, <1>7, <1>8, OneProgram

LEMMA HandlersKeep ==
    ASSUME ProgramsInv,
           \/ \E p \in Servers : AcceptClient(p)
           \/ \E s \in HandlerSockets : HandlerEnds(s)
           \/ Forget /\ UNCHANGED programVars
    PROVE  ProgramsInv'
<1>1. CASE \E p \in Servers : AcceptClient(p)
  <2>1. PICK p \in Servers, s \in HandlerSockets : Accept(p, s)
    BY <1>1 DEF AcceptClient
  <2>2. p \in SocketNames /\ s \in SocketNames /\ \A q \in Started : q \in SocketNames \ {s}
    BY ProgramsAreSockets DEF Started
  <2>3. NetInv' /\ \A t \in SocketNames \ {s} : Kept(t)
    BY <2>1, <2>2, AcceptCall DEF ProgramsInv
  <2> QED
    BY <1>1, <2>2, <2>3, StillPrograms DEF AcceptClient
<1>2. CASE \E s \in HandlerSockets : HandlerEnds(s)
  <2>1. PICK s \in HandlerSockets : Destroy(s) /\ UNCHANGED programVars
    BY <1>2 DEF HandlerEnds
  <2>2. s \in SocketNames /\ \A q \in Started : q \in SocketNames \ {s}
    BY ProgramsAreSockets
  <2>3. NetInv' /\ \A t \in SocketNames \ {s} : Kept(t)
    BY <2>1, <2>2, DestroyCall DEF ProgramsInv
  <2> QED
    BY <2>1, <2>2, <2>3, StillPrograms
<1>3. CASE Forget /\ UNCHANGED programVars
  BY <1>3, ForgetCall, StillPrograms, ProgramsAreSockets DEF ProgramsInv
<1> QED
  BY <1>1, <1>2, <1>3

LEMMA StopServerKeeps == ASSUME ProgramsInv, NEW p \in Servers, StopServer(p) PROVE ProgramsInv'
<1>1. /\ program[p].at = "running" /\ p \in Started /\ p \in SocketNames /\ turnedAway' = {}
      /\ CloseSocket(p) /\ Goes(p, "stopping") /\ "stopping" \in Places
  BY ProgramsAreSockets DEF StopServer, Started, ProgramsInv, Places
<1>2. NetInv' /\ \A t \in SocketNames \ {p} : Kept(t)
  BY <1>1, CloseSocketCall DEF ProgramsInv
<1>3. /\ program' \in [Started -> Program] /\ \A q \in Started \ {p} : program'[q] = program[q]
      /\ program'[p].at = "stopping"
  BY <1>1, GoesTo
<1>4. Parsed(p)' /\ program'[p].v6 = ParsedAs(p)'.v6 /\ program'[p].port = ParsedAs(p)'.port
  BY <1>1, GoesParsed
<1>5. ProgramOK(p)' /\ ~HasPort(p)'
  BY <1>3, <1>4 DEF ProgramOK, HasPort
<1> QED
  BY <1>1, <1>2, <1>3, <1>5, OneProgram

LEMMA EndsKeep ==
    ASSUME ProgramsInv, NEW p \in Started, EndServer(p) \/ EndClient(p)
    PROVE  ProgramsInv'
<1>1. Destroy(p) /\ Goes(p, "off") /\ turnedAway' = {} /\ p \in SocketNames
  BY ProgramsAreSockets DEF EndServer, EndClient, ProgramsInv
<1> QED
  BY <1>1, DestroyCall, GoesOff DEF ProgramsInv

LEMMA ConnectClientKeeps == ASSUME ProgramsInv, NEW p \in Clients, ConnectClient(p) PROVE ProgramsInv'
<1>1. /\ program[p].at = "made" /\ p \in Started /\ p \notin Servers /\ p \in SocketNames /\ turnedAway' = {}
      /\ Connect(p, program[p].port) /\ Goes(p, "running") /\ "running" \in Places
  BY ProgramsAreSockets DEF ConnectClient, Started, ProgramsInv, Places
<1>2. NetInv' /\ (\A t \in SocketNames \ {p} : Kept(t)) /\ InState(p, {"connected"})'
  BY <1>1, ConnectCall DEF ProgramsInv
<1>3. /\ program' \in [Started -> Program] /\ \A q \in Started \ {p} : program'[q] = program[q]
      /\ program'[p].at = "running"
  BY <1>1, GoesTo
<1>4. Parsed(p)' /\ program'[p].v6 = ParsedAs(p)'.v6 /\ program'[p].port = ParsedAs(p)'.port
  BY <1>1, GoesParsed
<1>5. ProgramOK(p)'
  BY <1>1, <1>2, <1>3, <1>4 DEF ProgramOK
<1> QED
  BY <1>1, <1>2, <1>3, <1>5, OneProgram

\* A client that finds nobody was not sent to where a server runs.
LEMMA NobodyWasThere ==
    ASSUME ProgramsInv, NEW p \in Clients, program[p].at = "made", ~Someone(program[p].v6, program[p].port),
           NEW q \in Servers, program[q].at = "running", Clear(program[q].args), Clear(Tail(program[p].args)),
           NEW v6, NEW port, Means(program[q].args, v6, port), Means(program[p].args, v6, port)
    PROVE  FALSE
<1>1. /\ p \in Started /\ p \notin Servers /\ q \in Started /\ q \in SocketNames
      /\ ProgramOK(p) /\ ProgramOK(q)
  BY ProgramsAreSockets DEF Started, ProgramsInv
<1>2. v6 = program[q].v6 /\ port = program[q].port
  <2>1. PICK args \in ServerArgs : args = program[q].args /\ ParseServerArgs(args).ok
    BY <1>1 DEF ProgramOK, Parsed
  <2>2. PICK r : r = ParseServerArgs(args)
    OBVIOUS
  <2>3. r.ok = TRUE
    <3>1. r.ok \in BOOLEAN
      BY <2>2 DEF ParseServerArgs, PortOf, Refused
    <3> QED
      BY <2>1, <2>2, <3>1
  <2>4. program[q].v6 = r.v6 /\ program[q].port = r.port
    BY <1>1, <2>1, <2>2 DEF ProgramOK, ParsedAs
  <2> QED
    BY <2>1, <2>2, <2>3, <2>4, ServerMeant
<1>3. v6 = program[p].v6 /\ port = program[p].port
  <2>1. PICK args \in ClientArgs : args = program[p].args /\ ParseClientArgs(args).ok
    BY <1>1 DEF ProgramOK, Parsed
  <2>2. PICK r : r = ParseClientArgs(args)
    OBVIOUS
  <2>3. r.ok = TRUE
    <3>1. r.ok \in BOOLEAN
      BY <2>2 DEF ParseClientArgs, PortOf, Refused
    <3> QED
      BY <2>1, <2>2, <3>1
  <2>4. program[p].v6 = r.v6 /\ program[p].port = r.port
    BY <1>1, <2>1, <2>2 DEF ProgramOK, ParsedAs
  <2> QED
    BY <2>1, <2>2, <2>3, <2>4, ClientMeant
<1>4. InState(q, {"listening"}) /\ Fd(q).v6 = program[q].v6 /\ Fd(q).port = program[q].port
  BY <1>1 DEF ProgramOK, Has
<1>5. socket[q].fd \in Descriptors /\ Fd(q) = os[socket[q].fd]
  BY <1>1, <1>4, OwnDescriptor DEF InState, ProgramsInv
<1>6. Fd(q).state = "listening" /\ Fd(q).v6 = program[p].v6 /\ Fd(q).port = program[p].port
  BY <1>2, <1>3, <1>4 DEF InState
<1> QED
  BY <1>5, <1>6 DEF Someone, Reaches

LEMMA ClientFailsKeeps == ASSUME ProgramsInv, NEW p \in Clients, ClientFails(p) PROVE ProgramsInv'
<1>1. /\ program[p].at = "made" /\ p \in Started /\ p \in SocketNames /\ Destroy(p) /\ Goes(p, "off")
      /\ ~Someone(program[p].v6, program[p].port)
  BY ProgramsAreSockets DEF ClientFails, Started
<1>2. turnedAway' = {}
  BY <1>1, NobodyWasThere DEF ClientFails, ProgramsInv
<1> QED
  BY <1>1, <1>2, DestroyCall, GoesOff DEF ProgramsInv

LEMMA NextPrograms == ProgramsInv /\ [ProgramsNext]_<<netVars, programVars>> => ProgramsInv'
<1> SUFFICES ASSUME ProgramsInv, [ProgramsNext]_<<netVars, programVars>> PROVE ProgramsInv'
  OBVIOUS
<1>1. ASSUME NEW p \in Servers,
             \/ StartServer(p) \/ SetUpFails(p) \/ MakeSocket(p) \/ BindServer(p)
             \/ StartListening(p) \/ StopServer(p) \/ EndServer(p)
      PROVE  ProgramsInv'
  <2>1. p \in Started
    BY DEF Started
  <2> QED
    BY <1>1, <2>1, StartServerKeeps, SetUpFailsKeeps, MakeSocketKeeps, BindServerKeeps, StartListeningKeeps,
       StopServerKeeps, EndsKeep
<1>2. ASSUME NEW p \in Clients,
             StartClient(p) \/ MakeSocket(p) \/ ConnectClient(p) \/ ClientFails(p) \/ EndClient(p)
      PROVE  ProgramsInv'
  <2>1. p \in Started
    BY DEF Started
  <2> QED
    BY <1>2, <2>1, StartClientKeeps, MakeSocketKeeps, ConnectClientKeeps, ClientFailsKeeps, EndsKeep
<1>3. CASE UNCHANGED <<netVars, programVars>>
  BY <1>3, StillNet, StillPrograms, ProgramsAreSockets DEF ProgramsInv
<1> QED
  BY <1>1, <1>2, <1>3, HandlersKeep DEF ProgramsNext

LEMMA ProgramsInvMeet == ProgramsInv => ProgramsMeet
<1> SUFFICES ASSUME ProgramsInv PROVE ProgramsMeet
  OBVIOUS
<1>1. ASSUME NEW p \in Servers, program[p].at = "running"
      PROVE  /\ InState(p, {"listening"}) /\ Fd(p).port = program[p].port
             /\ \A q \in Servers \ {p} : program[q].at = "running" => program[q].port # program[p].port
  BY <1>1 DEF ProgramsInv, ProgramOK, Has, PortsDiffer, HasPort, Started
<1>2. ASSUME NEW p \in DOMAIN program, program[p].at = "off" PROVE ~Live(p)
  BY <1>2 DEF ProgramsInv, ProgramOK
<1>3. ASSUME NEW p \in Clients, program[p].at = "running"
      PROVE  InState(p, {"connected"}) /\ socket[p].isConnected
  <2>1. p \in Started /\ p \notin Servers /\ p \in SocketNames
    BY ProgramsAreSockets DEF Started
  <2>2. InState(p, {"connected"})
    BY <1>3, <2>1 DEF ProgramsInv, ProgramOK
  <2>3. ObjectOK(p) /\ socket[p].fd # NoSock /\ Fd(p).state = "connected"
    BY <2>1, <2>2 DEF ProgramsInv, NetInv, InState, HasFd
  <2> QED
    BY <2>2, <2>3 DEF ObjectOK
<1>4. turnedAway = {}
  BY DEF ProgramsInv
<1> QED
  BY <1>1, <1>2, <1>3, <1>4 DEF ProgramsMeet

\* Whatever programs are started, with whatever arguments, and however they end: a server
\* that runs listens alone where its arguments say, a program that ended left no socket,
\* no client is turned away from where its arguments and a server's say that they meet,
\* and the sockets are owned as they are when called at random.
THEOREM NetworkIsSound == ProgramsSpec => []NetworkSound
<1>1. ProgramsInv => NetworkSound
  BY NetInvOwned, ProgramsInvMeet DEF ProgramsInv, NetworkSound
<1>2. ProgramsSpec => []ProgramsInv
  BY InitPrograms, NextPrograms, PTL DEF ProgramsSpec
<1> QED
  BY <1>1, <1>2, PTL
=============================================================================
