------------------------------ MODULE PacketStream ------------------------------
(***************************************************************************)
(* A connection from the protocol handshake on, over a socket that keeps   *)
(* order: EncryptedPacketHandler exchanges a key first and then sends each *)
(* body in a frame of its own; InlinePacketHandler sends the same cells    *)
(* with no frame.  Packets flow from one end to the other, each a code     *)
(* followed by its body.                                                   *)
(***************************************************************************)
EXTENDS PacketCodec, PacketTypes, TLC

CONSTANTS
    Packets,               \* the packets that are sent
    Versions, PROTOCOL_VERSION,
    Exponents, Generator, GroupPrime,   \* of the key exchange
    MaxPackets

ASSUME PacketsAreTyped == \A p \in Packets : p \in PacketsOfKind(p.kind)

VARIABLES
    inline,       \* whether the handlers are InlinePacketHandlers
    client,       \* the client end: where its handshake is, its exponent, its key
    server,
    toServer, toClient,   \* the cells in flight
    sent, received        \* the packets sent, and as they were read
streamVars == <<inline, client, server, toServer, toClient, sent, received>>

NoKey == 0
StreamInit ==
    /\ inline \in BOOLEAN
    /\ client = [at |-> "start", exponent |-> 0, key |-> NoKey]
    /\ server = [at |-> "version", exponent |-> 0, key |-> NoKey]
    /\ toServer = <<>> /\ toClient = <<>> /\ sent = <<>> /\ received = <<>>

Pow(g, x) == (g ^ x) % GroupPrime
OpenedAs == IF inline THEN "open" ELSE "exchange"

\* client(): the version is sent and the flag awaited.
SendVersion(v) ==
    /\ client.at = "start"
    /\ client' = [client EXCEPT !.at = "flag"]
    /\ toServer' = Append(toServer, Cell("version", v))
    /\ UNCHANGED <<inline, server, toClient, sent, received>>

\* server(): a bad version is answered and refused.
CheckVersion ==
    /\ server.at = "version" /\ toServer # <<>>
    /\ LET ok == Head(toServer)[2] = PROTOCOL_VERSION
       IN  /\ toClient' = Append(toClient, Cell("flag", ok))
           /\ server' = [server EXCEPT !.at = IF ok THEN OpenedAs ELSE "refused"]
    /\ toServer' = Tail(toServer)
    /\ UNCHANGED <<inline, client, sent, received>>

RecvFlag ==
    /\ client.at = "flag" /\ toClient # <<>>
    /\ client' = [client EXCEPT !.at = IF Head(toClient)[2] THEN OpenedAs ELSE "refused"]
    /\ toClient' = Tail(toClient)
    /\ UNCHANGED <<inline, server, toServer, sent, received>>

\* The exchange: x is sampled and g^x sent.
SendGx(x) ==
    /\ client.at = "exchange"
    /\ client' = [client EXCEPT !.at = "gy", !.exponent = x]
    /\ toServer' = Append(toServer, Cell("elem", Pow(Generator, x)))
    /\ UNCHANGED <<inline, server, toClient, sent, received>>

SharedSecret(received_elem, exponent) == Pow(received_elem, exponent)

ExchangeKey(y) ==
    /\ server.at = "exchange" /\ toServer # <<>>
    /\ server' = [at |-> "open", exponent |-> y, key |-> SharedSecret(Head(toServer)[2], y)]
    /\ toServer' = Tail(toServer)
    /\ toClient' = Append(toClient, Cell("elem", Pow(Generator, y)))
    /\ UNCHANGED <<inline, client, sent, received>>

RecvGy ==
    /\ client.at = "gy" /\ toClient # <<>>
    /\ client' = [client EXCEPT !.at = "open", !.key = SharedSecret(Head(toClient)[2], client.exponent)]
    /\ toClient' = Tail(toClient)
    /\ UNCHANGED <<inline, server, toServer, sent, received>>

-----------------------------------------------------------------------------
Frame(key, cells) == Cell("frame", [key |-> key, cells |-> cells])

\* send_request and send_response: the code, then the body.
SendEncrypted(p) ==
    /\ client.at = "open" /\ ~inline /\ Len(sent) < MaxPackets
    /\ toServer' = toServer \o <<Cell("code", p.kind)>>
                   \o IF Bodyless(p.kind) THEN <<>> ELSE <<Frame(client.key, Data(p))>>
    /\ sent' = Append(sent, p)
    /\ UNCHANGED <<inline, client, server, toClient, received>>

SendInline(p) ==
    /\ client.at = "open" /\ inline /\ Len(sent) < MaxPackets
    /\ toServer' = toServer \o <<Cell("code", p.kind)>> \o Data(p)
    /\ sent' = Append(sent, p)
    /\ UNCHANGED <<inline, client, server, toClient, received>>

\* recv_packet once everything of the packet has arrived; a code that is no code ends it.
IsPacketNext == server.at = "open" /\ toServer # <<>> /\ Head(toServer)[1] = "code"

\* recv_encrypted_data: another key makes nothing of it.
OpenFrame(key, cells) ==
    IF cells = <<>> \/ cells[1][1] # "frame" \/ cells[1][2].key # key THEN <<>> ELSE cells[1][2].cells

RecvEncrypted ==
    /\ IsPacketNext /\ ~inline
    /\ LET kind == Head(toServer)[2]
           rest == Tail(toServer)
           body == IF Bodyless(kind) THEN <<>> ELSE OpenFrame(server.key, rest)
       IN  /\ received' = Append(received, ReadPacket(kind, body).packet)
           /\ toServer' = IF Bodyless(kind) THEN rest ELSE Tail(rest)
    /\ UNCHANGED <<inline, client, server, toClient, sent>>

\* What a packet leaves unread is where the next one is looked for.
RecvInline ==
    /\ IsPacketNext /\ inline
    /\ LET r == ReadPacket(Head(toServer)[2], Tail(toServer))
       IN  /\ received' = Append(received, r.packet)
           /\ toServer' = SubSeq(Tail(toServer), r.at, Len(Tail(toServer)))
    /\ UNCHANGED <<inline, client, server, toClient, sent>>

StreamNext ==
    \/ \E v \in Versions : SendVersion(v)
    \/ CheckVersion \/ RecvFlag
    \/ \E x \in Exponents : SendGx(x) \/ ExchangeKey(x)
    \/ RecvGy
    \/ \E p \in Packets : SendEncrypted(p) \/ SendInline(p)
    \/ RecvEncrypted \/ RecvInline

-----------------------------------------------------------------------------
\* No list of the packet is longer than its count can say; the code does not check.
Fits(p) == p.kind # "UpdateResponse" \/ Len(p.on_lookup) < CountRange

\* sizes.hpp bounds the lists by their counts.  A packet within the bounds is read as
\* it was sent, after any packets: with frames even after one that is not within them.
\* PacketHandler.hpp of recv_request: once valid packets are received the socket is
\* clear: nothing of them is left over or missing, so the next code is a code.
ReceivedAsSent ==
    /\ \A k \in DOMAIN received :
        (\A j \in 1..k : Fits(sent[j]) \/ (~inline /\ j < k)) =>
            received[k] = sent[k] /\ received[k] \in PacketsOfKind(sent[k].kind)
    /\ (\A k \in DOMAIN sent : Fits(sent[k])) =>
        /\ Len(received) = Len(sent) /\ server.at = "open" /\ client.at = "open" => toServer = <<>>
        /\ server.at = "open" /\ toServer # <<>> => IsPacketNext
    /\ client.at = "open" => server.at = "open" /\ client.key = server.key
=============================================================================
