------------------------------ MODULE SocketStream ------------------------------
(***************************************************************************)
(* Socket's receiving functions over a stream that arrives in pieces.      *)
(* Messages are null-terminated strings, whose length the receiver does    *)
(* not know, and values of a known size.  recv_connected_str reads whole   *)
(* chunks and keeps what it read too much in _buffer for the next call.    *)
(* A message is its bytes; the byte 0 terminates.                          *)
(***************************************************************************)
EXTENDS Naturals, Sequences, SequencesExt

CONSTANTS
    Strings, Blocks,     \* bodies of strings, without the terminator, and values
    chunkSize, MaxMessages

VARIABLES
    sentMessages,     \* [str |-> BOOLEAN, bytes |-> ...], in order
    inFlight, kernel, \* the bytes on their way, and those that recv can give
    leftover,         \* Socket::_buffer
    reading,          \* the receive in progress: its chunk, and what it has so far
    got,              \* what the receives returned
    cut               \* a piece ended inside a string (history)
socketVars == <<sentMessages, inFlight, kernel, leftover, reading, got, cut>>

Null == 0
Blank == [k \in 1..chunkSize |-> Null]
NotReading == [kind |-> "none", chunk |-> <<>>, res |-> <<>>]

SocketInit ==
    /\ sentMessages = <<>> /\ inFlight = <<>> /\ kernel = <<>> /\ leftover = <<>>
    /\ reading = NotReading /\ got = <<>> /\ cut = FALSE

OnWire(m) == IF m.str THEN Append(m.bytes, Null) ELSE m.bytes

\* send_connected: all of it is handed over.
SendConnected(m) ==
    /\ Len(sentMessages) < MaxMessages
    /\ sentMessages' = Append(sentMessages, m)
    /\ inFlight' = inFlight \o OnWire(m)
    /\ UNCHANGED <<kernel, leftover, reading, got, cut>>

\* TCP: any piece of what is in flight arrives.  The last k messages take Suffix(k)
\* bytes; a piece cuts a string if what it leaves behind begins inside one.
Suffix(k) == Len(FlattenSeq([j \in 1..k |-> OnWire(sentMessages[Len(sentMessages) + 1 - j])]))
CutsString(n) == \E k \in 1..Len(sentMessages) :
    sentMessages[Len(sentMessages) + 1 - k].str /\ Suffix(k - 1) < n /\ n < Suffix(k)
Arrive(n) ==
    /\ n \in 1..Len(inFlight)
    /\ kernel' = kernel \o SubSeq(inFlight, 1, n)
    /\ inFlight' = SubSeq(inFlight, n + 1, Len(inFlight))
    /\ cut' = (cut \/ CutsString(Len(inFlight) - n))
    /\ UNCHANGED <<sentMessages, leftover, reading, got>>

\* recv_connected_into: what is left over first, and more only if there is more.
Lesser(a, b) == IF a < b THEN a ELSE b
FromLeftover(maxsize) == SubSeq(leftover, 1, Lesser(Len(leftover), maxsize))
FromKernel(maxsize) ==
    SubSeq(kernel, 1, Lesser(Len(kernel), maxsize - Len(FromLeftover(maxsize))))
Received(maxsize) == FromLeftover(maxsize) \o FromKernel(maxsize)
CanReceive == leftover # <<>> \/ kernel # <<>>
LeftoverAfter(maxsize) == SubSeq(leftover, Len(FromLeftover(maxsize)) + 1, Len(leftover))
KernelAfter(maxsize) == SubSeq(kernel, Len(FromKernel(maxsize)) + 1, Len(kernel))

\* The caller knows from the protocol whether a string or a value is next.
StartRead ==
    /\ reading = NotReading /\ Len(got) < Len(sentMessages)
    /\ reading' = IF sentMessages[Len(got) + 1].str
                  THEN [kind |-> "str", chunk |-> Blank, res |-> <<>>]
                  ELSE [kind |-> "exact", chunk |-> <<>>, res |-> <<>>]
    /\ UNCHANGED <<sentMessages, inFlight, kernel, leftover, got, cut>>

\* Fault: what was read past the terminator is dropped.
ExtraDropped(chunk, null, count) == <<>>

\* The bytes read after the terminator.
Extra(chunk, null, count) == SubSeq(chunk, null + 1, count)

\* One iteration of recv_connected_str.  The terminator is looked for in the whole
\* chunk, read or not: one found past what was read makes a range that ends before it
\* starts, of which anything may come; here nothing is left over.
RecvStr ==
    /\ reading.kind = "str" /\ CanReceive
    /\ LET bytes == Received(chunkSize)
           chunk == bytes \o SubSeq(reading.chunk, Len(bytes) + 1, chunkSize)
           nulls == {k \in 1..chunkSize : chunk[k] = Null}
           null == CHOOSE k \in nulls : \A j \in nulls : k <= j
       IN  IF nulls = {}
           THEN /\ reading' = [reading EXCEPT !.chunk = chunk, !.res = @ \o chunk]
                /\ leftover' = LeftoverAfter(chunkSize)
                /\ UNCHANGED got
           ELSE /\ got' = Append(got, reading.res \o SubSeq(chunk, 1, null - 1))
                /\ leftover' = LeftoverAfter(chunkSize) \o Extra(chunk, null, Len(bytes))
                /\ reading' = NotReading
    /\ kernel' = KernelAfter(chunkSize)
    /\ UNCHANGED <<sentMessages, inFlight, cut>>

\* One iteration of recv_connected_exact_into.
RecvExact ==
    /\ reading.kind = "exact" /\ CanReceive
    /\ LET size == Len(sentMessages[Len(got) + 1].bytes) - Len(reading.res)
           res == reading.res \o Received(size)
           done == Len(res) = Len(sentMessages[Len(got) + 1].bytes)
       IN  /\ got' = IF done THEN Append(got, res) ELSE got
           /\ reading' = IF done THEN NotReading ELSE [reading EXCEPT !.res = res]
           /\ leftover' = LeftoverAfter(size)
           /\ kernel' = KernelAfter(size)
    /\ UNCHANGED <<sentMessages, inFlight, cut>>

SocketNext ==
    \/ \E b \in Strings : SendConnected([str |-> TRUE, bytes |-> b])
    \/ \E b \in Blocks : SendConnected([str |-> FALSE, bytes |-> b])
    \/ \E n \in 1..Len(inFlight) : Arrive(n)
    \/ StartRead \/ RecvStr \/ RecvExact

-----------------------------------------------------------------------------
\* Whatever the pieces, and whatever one receive read of the next messages, what is
\* received is what was sent, as long as no piece ends inside a string.
ReadAsSent == ~cut => \A k \in DOMAIN got : got[k] = sentMessages[k].bytes
=============================================================================
