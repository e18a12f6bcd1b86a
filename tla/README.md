# Shared encryption: TLA+ specifications

The repository implements "shared encryption": messages are encrypted for a
*userset*, and decrypting one needs a threshold of its owners and a threshold of
its other ("regular") members. A server keeps usersets and coordinates
decryptions; clients keep key shards and compute decryption parts.

This directory holds TLA+ models of the server, the client library, both programs
and the parts they are built from, TLC configurations that check them on small
instances, and TLAPS proofs of their main invariants for all instances. Paths below
are relative to the repository, `S/` stands for `src/senc/`.

1. [The system](#1-the-system)
2. [Modules and how they correspond to the code](#2-modules-and-how-they-correspond-to-the-code)
3. [Runs](#3-runs)
4. [Disagreements between code and documentation](#4-disagreements-between-code-and-documentation)
5. [Proofs](#5-proofs)
6. [What is not modelled](#6-what-is-not-modelled)
7. [Plan](#7-plan)

## 1. The system

### Components, state and operations

| Component | Code | State | Operations |
|---|---|---|---|
| Decryptions manager | `S/server/managers/DecryptionsManager.*` | `_prep`, `_collected`, `_allOpIDs`, one mutex each | `new_operation`, `prepare_operation`, `register_participant`, `register_part`, `get_operation_userset` |
| Update manager | `S/server/managers/UpdateManager.*` | `_updates`: per user, the update packet prepared so far; one mutex | `register_*`, `retrieve_updates` |
| Connected client handler | `S/server/handlers/ConnectedClientHandler.*` | locals of the request in service; one object and thread per connection | one handler per request type |
| Connecting client handler | `S/server/handlers/ConnectingClientHandler.*` | none | signup, login, logout |
| Server lifecycle | `S/server/Server*.hpp` | `_isRunning`, listening socket, `_clientThreads`, `_clientSocks`, `_finishedConns`, two condition variables | `start`, `stop`, `wait`; accept, cleanup and connection threads |
| Server storage | `S/server/storage/*` | users, usersets, members, shard IDs, in memory or in SQLite | `new_user`, `new_userset`, `get_*`, `user_owns_userset` |
| Client API | `S/client_api/Client*.hpp` | `_pendingDecryptions`, `_pendingParticipances`, profile, packet handler | one call per request, the update cycle, a detached thread per lookup and per task |
| API handles | `S/client_api/client_api.*` | objects behind handles; two static errors | the `SENC_` functions |
| Profile storage | `S/client_api/storage/*` | an encrypted file of key-shard records | add, iterate, find |
| Queued packet handler | `S/common/QueuedPacketHandler.*` | ticket queue, ticket in service, queue thread | requests of several threads and the periodic update share one connection |
| Packet handlers | `S/common/*PacketHandler.*`, `packets.hpp` | session key | key exchange, framing, encryption, a writer and a reader per packet |
| Sockets | `S/utils/Socket*`, `ip.cpp`, `port.cpp` | descriptor, connected flag, leftover buffer | construct, bind, listen, accept, connect, send, receive, move, close |
| Secret sharing and numbers | `S/utils/Shamir_impl.hpp`, `poly`, `ModInt`, `Fraction` | none | sample, make shards, restore; arithmetic |
| Group and cipher | `S/utils/ECGroup.cpp`, `S/utils/enc/` | none | group operations, encrypt, decrypt, parts |
| Files | `S/utils/BinFile*` | stream, cached position and size | read, write, append, seek |
| SQLite wrapper | `S/utils/sqlite/` | connection, statements, the view being built | where, order, limit, select, insert, read |
| Server's console | `S/server/io/`, `S/server/loggers/` | line being typed, flags, locks | read keys, handle a line, print over it |
| Programs | `S/server/main.cpp`, `S/client/` | menus, session, sockets | parse arguments, start, menus, end |
| Random, encodings, hashes | `S/utils/` | generators | library wrappers |

### A decryption, end to end

1. An owner's client sends a `DecryptRequest`. The handler draws an operation ID,
   puts a record in `_prep`, and registers a *lookup* in the updates of every
   other member, one mutex acquisition per member.
2. Clients poll with `UpdateRequest`s (every two seconds). A client told of a
   lookup starts a thread that sends a `DecryptParticipateRequest`.
3. The handler of that request finds the operation's userset (`_prep`, then
   `_collected`), and registers the participant for the owner layer, the regular
   layer, or not at all. The last participant moves the record from `_prep` to
   `_collected`; its handler then registers the task, with the shard IDs that
   enter the Lagrange coefficients, for each participant.
4. A client told of a task starts a thread that looks up the layer it was asked
   for, finds its key shard, computes the part and sends a
   `SendDecryptionPartRequest`. The last part removes the record from
   `_collected` and registers the finished decryption for the requester.
5. The requester's next update brings the parts; it adds its own and joins them.

`make_userset` stores a userset and registers it in the updates of its members,
one at a time. Several mutexes protect these steps, none of them protects a
handler: any other request can run between two steps of it.

In a client, the caller's thread, the queue thread's periodic update and the
detached threads it starts share one connection. `QueuedPacketHandler` hands out
turns on it by tickets, which a timer advances.

### What is hard, and what makes it correct

| Component | Hard behaviours | Properties |
|---|---|---|
| Decryptions manager and handlers | handlers of many users interleave at every mutex; an operation is looked up under one mutex and used under another; members compete for slots; parts arrive in any order, late, or never | `PartOwedOnce`, `TeamIsQualified`, `FinishedDecryptionsJoin`, `MissingPartsAreOwed`, `OperationsMoveForward`, `ReportedOnce`, `DecryptionCompletes`, the refinement of `AbstractDecryption` |
| Update manager | an entry is removed before it is known to have been received | `PartOwedOnce`, `ReportedOnce` |
| `make_userset` | the userset is usable while its members are still being told | `KeyShardsDelivered` |
| Server lifecycle | connections arrive while the server stops; a thread is joined by another that holds the mutex it needs; condition variables notified without the mutex | `LiveThreadsOwned`, `NoClientServedAfterStop`, `FinishedThreadsReaped`, `StopReturnsIfConnected`, `WaitersReleased` |
| Queued packet handler and client API | requests of several threads on one stream; a timer advances the ticket in service; maps are filled after the response that others race with | `KeyShardsKept`, `ResultsDelivered`, `TasksNotDropped`, `RequestsReturn`, `UpdatesFetched` |
| Storage | check and insert in separate critical sections; several SQL statements without a transaction; crashes | `ShardIDsDiffer`, `AnsweredSetsComplete`, `RequestsAnswered`, the refinement of `AbstractStorage` |
| Profile, files | a record appended in four pieces, by two threads, with readers in between; one torn by a crash; iterators over one position; reads and writes of one stream | `AddedIsRead`, `FileAgrees` |
| Numbers, sharing, group, cipher | zero, residues below zero, identities, too few shards, any order of parts | `ArithmeticSound`, `SecretRestored`, `FewShardsTellNothing`, `MessageRestored` |
| Packets, sockets | fields in order, packets after packets, data that arrives in pieces, moves and closes | `ReceivedAsSent`, `ReadAsSent`, `NetworkSound` |
| Consoles, programs, handles, views | printing over a line being typed; menus against the server's session; arguments parsed apart; objects freed once; text built from clauses | `ConsoleIsTruthful`, `MenuMatchesSession`, `NetworkSound`, `HandlesSound`, `ViewsMeanWhatWasAsked` |

`PROJECT.json` lists the hazards one by one, at their lines.

## 2. Modules and how they correspond to the code

```
ServerTypes ── DecryptionsManager ─┐
           └── UpdateManager ──────┴─ ConnectedClientHandler ── ServerProperties ─┬─ ServerRefinement ── MCServer
                                                                AbstractDecryption ┘ └ ConnectedClientHandlerProofs
                                                                                           ├ ServerPropertiesProofs
                                                                                           └ OperationsProofs
                                                                                               └ RefinementProofs
ServerLifecycle ─┬─ MCLifecycle
                 └─ ServerLifecycleProofs
QueuedPacketHandler ── ClientApi ── ClientProperties ── MCClient
ServerStorage ── StorageProperties (with AbstractStorage) ─┬─ MCStorage
                                                           └─ StorageProofs
BinFile ─┬─ BinFileEdit ─────────────────────┐
         └─ ProfileStorage ──────────────────┤
ModInt, Fraction, Shamir ── SecretSharing ───┤
ModInt ── ECGroup ── HybridElGamal ──────────┤
PacketTypes, PacketCodec ── PacketStream ────┼─ MCParts
SocketStream ────────────────────────────────┤
SocketObjects ── Programs ─┬─────────────────┤
                           └─ NetworkProofs  │
InteractiveConsole, ConsoleClient, ──────────┤
ApiHandles, TableView ───────────────────────┘
BinFileEdit, ProfileStorage,
ApiHandles, ConsoleClient ── ClientPartsProofs
```

### The server

**ServerTypes.** The records the components exchange. Keys, ciphertexts and shard
values are abstracted away. A shard ID is the pair (member, userset): storage
issues one per pair, unique within the userset.

**DecryptionsManager.** `prep`, `collected`, `allOpIDs` are the class's maps. Each
operator is the body of a method (or of one of its outcomes): a method holds its
mutex throughout, so it is one step. `register_participant` takes `_mtxCollected`
while it holds `_mtxPrep`, so the move between the maps is one step too. `team` is
a history variable: the participants an operation ended up with.

**UpdateManager.** `updates`, with one operator per method. The vectors of a packet
are sets.

**ConnectedClientHandler.** The request handlers. `pc[u]`, `frame[u]` and
`reply[u]` are the location, the locals and the response of the thread that serves
user `u`; `usersets` is what storage holds; `client[u]` is what `u`'s client
remembers. A step is one critical section, or one turn of a loop that takes the
`UpdateManager`'s mutex in every turn (`NotifyMember`, `LookupMember`,
`TellParticipant`). Storage calls that follow a critical section of the same
handler and only read what never changes again (a userset's members, thresholds
and shard IDs) are part of the step. `get_operation_userset` is two steps
(`FindPrepared`, `FindCollected`) because it releases the first mutex.
`RegisterTooLate` includes the outcome of the unsynchronised search in `_allOpIDs`:
while another thread can be inside `new_operation`, the search may miss an ID.
`register_part` dereferences the end iterator when the record is missing; the
action has no step for that, and `NoDanglingRecord`, proved in
`ServerPropertiesProofs`, says it is never needed.

Here the clients are the environment, and use the server as the client API does. A
client decrypts under usersets it knows it owns ("When a userset owner wants to
decrypt a message", `README.md:204`), offers to participate once per
lookup, and sends one part per task, for the layer it was asked for. Its
`participate` thread gives up when it was not asked, or when it has no key shard
with one of the given shard IDs (`Consume`). `LoseConnection` loses the response
after the server has done its part; `LogOut` also makes the client forget its
pending decryptions. Each user has one session, and comes back after losing it.

**ServerProperties, AbstractDecryption, ServerRefinement.** The properties.
`AbstractDecryption` says what a decryption is: members join while they are looked
for, each joined member contributes exactly once, the operation completes with the
last contribution and is then reported. `ServerRefinement` maps the server's maps
to it (`StageOf`, `JoinedIn`, `ContributedTo`). Operations of usersets that need
nobody never enter the maps, and the abstract specification does not cover them.

**ServerLifecycle.** One program counter for each of: the thread that calls `start`
and `stop`, the accept thread, the cleanup thread, a thread in `wait()`, and one per
connection. Condition variables are modelled as such: a notification wakes only a
thread that is already waiting, `wait` tests its predicate, releases the mutex and
blocks. `_mtxClients` is a variable because the cleanup thread holds it over several
steps, the joins of connection threads included. The request loops are one location
("serve"); receiving from a peer that has closed its end makes no progress
(`Socket::recv_connected_exact_into` adds 0 and tries again), while a reset or a
locally closed socket fails. An exception of the key exchange leaves the thread's
function, which ends the program (`crashed`).

**ServerStorage, AbstractStorage, StorageProperties.** The three tables of the SQL
storage under the connecting and the connected client handlers; every statement is
a critical section of `_mtxDB`, and a step. `pc`, `req`, `id`, `todo` and `sampled`
are the locals of a connection's thread: the names still to check or to insert, the
drawn IDs, and, for a read, the thresholds that were read before the members
(`get_userset_info` releases the mutex in between). `Fail` is a statement that throws
`ServerStorageException`, which all handlers but the login's answer with an error;
`Crash` loses what is in memory and keeps the tables. `AbstractStorage` makes an
account, and a whole valid userset, in one step each; a userset is mapped to it once
its last row is in, so the rows of an interrupted `new_userset` never are one.

### The client library

**QueuedPacketHandler.** A packet is a code, and data after it. `send_request` writes
the code at once, waits for its ticket, and writes the data; `recv_response` reads
code and data without a turn: the four are separate steps of each thread.
The queue thread tests the queue, runs the update when it is empty, sleeps, and
advances `ticketBeingServed`. The move constructor and the destructor, which stop and
join that thread, are steps of the caller's thread; the thread of a handler moved
from wakes once more and looks at what was left of it (`MovedFromLooks`). Reading a
code that is data, or the other way round, ends the connection or the process
(`ended`).

**ClientApi, ClientProperties.** `Client`'s calls, `update_callback` and the detached
threads, over the above. `pendingDecryptions` and `pendingParticipances` are the
class's maps, filled after the response as in the code; `profile` is the file;
`inbox` the records of a response that the update has still to handle. An exception
that leaves a thread's function ends the process. The client searches its profile where it
handles a result and where it sends a part, and the search is that of `ProfileStorage`, in one
step: it looks at the records from the first or from the second on (`LookedAt`, whichever the
compiler has made of `find_if(begin(), end())`), or reads what is no record (`MayMisread`), which
throws past `update_callback`. A result's wait is given up before its record is looked for, and a
search that fails takes the rest of the update with it. The server is external: it answers,
and `Others` puts lookups, tasks, results and key shards into the users' updates.

The code orders some steps only by its timer of two seconds. The model has no clock; it
assumes that whatever runs when the timer fires has come to rest (is idle or waits for
its turn) before it fires again (`overdue`, `InTime`). Without it the client has no
property at all, as any turn can be missed; with it, everything that happens within a
tick is still interleaved freely.

**ApiHandles.** The `SENC_` functions: what each returns in `Outcomes` (a value, no
memory, an exception), which objects are allocated, and the state of the client behind
a handle as far as it decides what a later call does (packet handler, connection,
profile, the server's session). An error object copies what the exception says: without
memory for that, the process ends, since the functions are `noexcept` (`NewError`).
`SENC_ForceUpdate` returns null also for an update that the server refused, because
`update_callback` swallows the exception.

### The parts

Each is a state machine of its own. `MCParts` puts them side by side: `part` names
the one that runs, the others rest in their initial states.

**BinFile, BinFileEdit, ProfileStorage.** A file as a sequence of cells. `BinFile` keeps
position and size next to the stream's cursor, and the kind of the last operation.
C leaves reading directly after writing undefined, and `undefined` records that it
happened. Reading, writing and appending nothing is included. `ProfileStorage` appends and reads
records through it. A record is two sizes and two parts, and `write_profile_record_with_enc_sizes`
appends each of the four on its own; two threads add records, the caller's (`MakeUserSet`) and the
queue's (an update), with no lock between them, so their pieces may mix, readers come in between,
and a crash leaves a prefix. Iterators share the file's position, and making one, `end()` too,
reads a record wherever the file is, and throws if there is no whole one. So a loop depends on
what is behind the records that it passes, and `find_if(begin(), end())` on the order in which the
compiler makes its arguments, which the model leaves open. One record is read in one step.

**ModInt, Fraction, Shamir, SecretSharing.** The arithmetic, operation by operation
(square and multiply, Fermat's and Euclid's inverses, normalisation), and the scheme as
the template it is: `Shamir` takes its operations as constants, and `SecretSharing`
instantiates it for the field and for fractions.

**ECGroup, HybridElGamal.** A curve of prime order over a small field. The library's
points are external; what the class adds, a flag for the identity that the library's
results do not set, is in the model, and `misread` remembers when it mattered.
`HybridElGamal` is both layers' keys, their sharings, encryption, the parts of any
qualified members in any order, and the join. The block cipher and the derivation of
its key are perfect, except that the latter looks at x coordinates only, as in the code.

**PacketTypes, PacketCodec, PacketStream.** Every packet's fields (`PacketTypes`), the
layout that its writer and its reader go by (`PacketCodec`; reader and writer are separate
functions in the code, and so here), and both ends of a connection: version, flag, key
exchange, then packets in frames, or inline as the handler used in tests. A count is taken modulo
`CountRange`, as its byte is.

**SocketStream, SocketObjects, Programs.** `SocketStream` is one direction of a TCP
connection that delivers in any pieces, under `recv_connected_str` and
`recv_connected_exact_into` with the object's leftover buffer. `SocketObjects` is the
life of socket objects over the operating system's table of descriptors. `Programs` is
both `main`s on top: arguments, sockets, serving, and the ports that a
closed connection blocks for a while (`lingering`).

**InteractiveConsole, ConsoleClient, TableView.** The console's key loop with its lines
and the loggers that print through it, lock by lock, on both systems; the client's menus
and questions against the server's session; and the views of the SQLite wrapper: text
built clause by clause, prepared, stepped and unpacked, with the database engine as
far as these texts go.

### MC modules

**MCServer, MCLifecycle, MCClient, MCStorage, MCParts.** Model values, stored usersets
and inputs for the runs.

Operators marked "Fault:" are mutated forms of the operator that follows them. They
are used by no action; each shows that a property fails when the code has that bug.

## 3. Runs

| Run | Instance | What it shows |
|---|---|---|
| `rivals` (`MCServerRivals`) | alice and bob own a userset with regular members carol and dave; one owner and one regular member are needed besides the requester; one decryption; one lost response or logout | `TypeOK`; `PartOwedOnce`: a part is owed at most once, and only while it is missing; `TeamIsQualified`; `FinishedDecryptionsJoin`: the parts of a result were computed with the shard IDs it is joined with; `NoStuckCollection`: an operation that has every part stops collecting; `OperationsMoveForward`; `ImplementsAbstractDecryption` |
| `two_operations` (`MCServerTwoOps`) | alice owns, carol and dave compete for the one slot; two decryptions | `ReportedOnce`; `MissingPartsAreOwed`: a part that is still needed is in somebody's hands, whatever order participants, tasks and late-comers arrive in |
| `progress` (`MCServerLive`) | nothing stored; plans that name an unknown user, that need nobody, and that need everybody; a userset is made and used at once; fairness | `KeyShardsDelivered`, `DecryptionCompletes`, `ImplementsAbstractLiveness` |
| `lifecycle` (`MCLifecycle`) | two connections; fairness | `TypeOK`, `LiveThreadsOwned`, `NoClientServedAfterStop`, `FinishedThreadsReaped`, `StopReturnsIfConnected`, `WaitersReleased` |
| `client` (`MCClient`) | one user whose profile has a record as a regular member and one as an owner; three calls; two detached threads at a time; a userset to make, a decryption of its own under it and one of others under an old userset; fairness | `KeyShardsKept`, `ResultsDelivered`, `TasksNotDropped`, `RequestsReturn`, `UpdatesFetched` |
| `storage` (`MCStorage`) | two connections, a stored and a new user, two passwords, two usersets of up to two members, one failed statement or crash; fairness | `ShardIDsDiffer`, `AnsweredSetsComplete`, `ImplementsAbstractStorage`, `RequestsAnswered` |
| `parts` (`MCParts`) | each part of section 2 on its own | one invariant per question about a part: see below |
| `owners_only`, `stop_hangs`, `departed_client`, `client_answers`, `find_record` | the smallest instance that shows it | violations, section 4 |

The invariants of `parts`: `FileAgrees` (position, size and the seeks C asks for; an append of no
values leaves the position behind, the one exception it names);
`AddedIsRead` (a loop over a profile, read while it grows, after a torn append, or after two
threads' records were mixed, has met the records that were whole when it opened the file, in order,
however it ends. The exception it names is a profile of one whole record with an unfinished or
damaged one behind it: making `end()` reads that, throws, and the loop meets none. It does not say
that a loop ends without an exception, nor anything of records appended behind damage);
`ArithmeticSound` (numbers and group elements stand for what was computed);
`SecretRestored` and `FewShardsTellNothing` (any shards, in any order, restore the
secret or are refused; no more than the threshold fit every secret); `MessageRestored`
(any qualified members get the message from their parts); `ReceivedAsSent` (packets
after packets, both handlers, and the same key at both ends); `ReadAsSent` (strings and
blocks in any pieces); `ConsoleIsTruthful` (messages once and in order, the line shown
is the line handed over, nothing after a stop); `MenuMatchesSession`; `HandlesSound`
(nothing leaks or dangles; a call that returns shows that it failed, but for an update that the
server refused; the profile is the session's. It does not say that a call returns: the process
ends in a call that frees a client whose connection is lost, in one that makes a userset where the
profile could not be loaded, and in one with no memory for an error's text);
`ViewsMeanWhatWasAsked` (an average is over a column of integers and is never given:
it is read through that column's view, which refuses it); `NetworkSound` (every descriptor has one owner; a client and a
server with arguments that mean the same meet).

**Bounds of the server.** `Users`, `UserSetIDs`, `OpIDs` and `Conns` bound the number of
users, usersets, decryptions and connections; `MaxDisconnects` bounds lost responses and
logouts. Four users are the fewest with two owners and a competition for a slot,
and every slot kind occurs (owner as owner, regular, refused, requester). Two
operations are enough for what operations share: the updates of a user, the client
maps and `_allOpIDs`; an operation touches no other one's records. One disconnect
suffices for a lost response at any point of the operation. The runs have one userset
each, as a userset shares nothing with another but its members' updates. In the
lifecycle two connections let one be accepted, served or reaped while the other is at
any other place; the mutex, the flag and the maps are the only things threads share. The
invariants of section 5 are proved without any bound.

**Bounds of the client.** `MaxCalls`: three calls are a login, a call and a logout, or a
login, a logout and another login. `Workers` bounds the detached threads alive at once: with
two, a task can start while the thread that is to register its participance is still at it.
That operation of others is under a userset known from before, so that its threads run beside
the making of the other one; both may match the shard of either record.

Two threads that post at once may be given each other's responses (section 4,
`client_answers`). What follows is up to them: a caller that gets the error of a detached
thread returns before the response with its userset's key shards, which nobody saves then. The
safety properties of `client` are therefore about executions in which that has not happened so
far (`swapped`, a history variable). And a task is dropped when its thread is faster
than the one that has the answer to the lookup in its hands; the queue's own
updates are two seconds apart, but `force_update` may come between, so `TasksNotDropped` leaves that out.

The search of the profile may miss the first record, or misread (section 4, `find_record`).
`ResultsDelivered` has two halves. While a result is waited for and no search has failed, one that
the server has told is under way; and when it is waited for no more, in the same session, it was
given to the caller, if its userset's record is not the first of the profile and nothing was misread. So
a result whose search fails is lost in the model, as in the code, and is outside the property.
`TasksNotDropped` likewise is about members whose key shard is in a record after the first.

**Bounds of the storage.** `MaxFaults`; `MaxMembers` equals the members of the largest
userset, so every shard ID gets used; `IDsLeft` keeps usersets from being asked for when
the few `UserSetIDs` are used up, as the code's UUIDs never are; one thread reads at a
time (`NobodyReads`). Two passwords, because with one an account taken over by another
signup would look the same.

**Bounds of the parts.** `MaxSize` and `Values` of files. `MadeHere`, `FromUpdates` and `Sought`: one record made
here and two of an update, of which one is of a smaller size and is sought; each is added at most once to what is on
the disk, any of them may be cut short or mixed with another, and the others come after it. `Modulus` 5, `MaxValue`, `IDs` with the forbidden 0, `MaxThreshold` 2;
`Coefficients` of either sign. A curve over `FieldPrime` 7 with five points, so that sums
meet the identity and points that are each other's inverse. `Sharings` and `Nonces`: keys
and nonces of zero, alone or shared among two. `CountRange` 3 and an update with as many
lookups, `MaxPackets`. `chunkSize` 3 with strings of one to three bytes, `MaxMessages`.
`MaxKeys`, `MaxLogs` and two loggers. Three `Handles`. `MaxClauses`, `MaxLevels`, `MaxRows`,
`MaxLeft` (statements that a failed insertion leaves behind). Three `Descriptors`,
`MaxConnections`, `MaxDatagrams`; the objects of `FreeSockets` get calls of every kind, on
`FreePorts` and of `FreeFamilies`, TCP or UDP at a time; two servers and a client start with the
lists of `ServerArgs` and `ClientArgs`.

**Deadlock** is checked in the server runs: a client can always ask something. It
is not checked where the system really stops: a server that was stopped, a client out
of calls, and the parts, which end when their input does.

**Fairness.** `ServerProperties!Fairness`: a thread goes on with the request it
has (weak fairness of `Handle`): it holds no lock over steps and calls nothing that
blocks for ever but sending to its own client. Clients' requests have strong
fairness for updates, participation and parts: they share one connection, where a
request is enabled again and again, not continuously; the client's queue serves
tickets in order and its update cycle repeats every two seconds, so each waiting
thread gets its turn (`RequestsReturn` and `UpdatesFetched` of `client` are about that). No fairness is assumed for making usersets, starting
decryptions, losing connections or logging out. `ServerLifecycle!Fairness`: every
thread goes on while it can; nothing obliges a client to connect, complete the key
exchange, log out or leave, or anyone to call `stop`. `ClientApi!Fairness`: threads run,
the server answers, the timer fires; nobody has to call and no other client has to do
anything. `ServerStorage!FairSpec`: a thread goes on with the request it has.

## 4. Disagreements between code and documentation

Each is a run in which TLC finds a behaviour of the model that violates a statement
of the repository.

* **owners_only.** An owner that fills a *regular* slot ("owners may suffice as
  regular members") has its part stored in the *owner* layer:
  `register_part` gets `user_owns_userset`, not the layer that was asked for
  (`ConnectedClientHandler.cpp:353`). The regular layer never fills and the
  operation collects for ever. The passing runs therefore use usersets whose regular
  slots cannot be filled in that way before the operation ends, or check properties
  that hold regardless.
* **stop_hangs.** `stop()` clears `_isRunning` and notifies `_cvFinishedConns`
  without holding `_mtxClients`. When both fall between the cleanup thread's predicate
  and its wait, nobody wakes that thread, and `_cleanupThread.reset()` does not
  return. `StopReturnsIfConnected` shows that a connection that is still served saves
  the day: its thread notifies again. `wait()` has the same window, since `stop()` never takes
  `_mtxWait`; `WaitersReleased` says which threads are released all the same.
* **departed_client.** When a client closes its socket without logging out, `recv`
  returns 0 for ever, `recv_connected_exact_into` spins, and the thread is never
  reaped, although its caller expects an exception for a disconnected client.
* **client_answers.** "Sends request and returns retrieved response" (`Client.hpp`, of
  `post`): `send_request` writes the packet's code before it takes a ticket
  (`PacketHandler.hpp:54`), and the response is read without one. A detached thread and
  the caller that post at the same time interleave codes and data, and each may read the
  other's response.
* **find_record.** `find_if(begin(), end())` over a profile (`Client_impl.hpp:249`): both
  iterators use the file's one position. C++ leaves it to the compiler which is made first. If it is
  `end()`, `begin()` is made after the first record was skipped, which is not found. The client
  searches so for a result's key shard (`Client_impl.hpp:249`) and for a task's (`:406`); `ClientApi`
  has both.

Known properties of the code that the models have, where no statement of the repository
is contradicted by a run:

* A member that offers to participate when the operation has *finished* gets an
  `ErrorResponse`; the detached thread of its client ends the process with an exception.
* A member told of a lookup before `make_userset` has told it of the userset may be asked for
  its part without a key shard; `participate` then returns (`Client_impl.hpp:416`), nobody asks
  again, and the operation collects for ever, although "Each such user sends their decryption part
  to the server" (`README.md:214`). A userset that needs one regular member, of an owner and
  a regular member, is enough. No passing run makes such a userset.
* A failed key exchange, or one that `stop()` interrupts, ends the server in `std::terminate`.
* The update thread dies, and the process with it, by a `SocketException`, which
  `update_callback` does not catch.
* A userset with a member listed twice in one list is stored, and then nobody answers.
  Sampling shard IDs for more than `MAX_MEMBERS` members does not end.
* An update with more records than a byte can count is misread by its receiver.
* A loop over a profile (`SENC_IterUserProfile`) throws at a record that a crash, or another thread that is
  adding one, has left unfinished; with one whole record before it, without having met that one. A search
  may throw likewise, and on the queue thread this ends the process, as only `ClientException`s are caught.
* `SENC_ForceUpdate` returns null for an update that the server refused, although `client_api.h:355` says
  "Null on success, error if failed": the exception is swallowed for background updates' sake.
* A call of the C interface that fails when there is no memory to copy the exception's text ends the process.
* `BinFile::append` of no values moves the stream to the end, and the position it keeps stays.
* An average over a column of integers cannot be read: `AVG` gives a real, and the column's view refuses it.
* A condition with `OR` given to `where` next to another is torn apart by the `AND`.
* `v++` leaves a residue unreduced until the next operation; `math::pow` without a modulus
  returns the base for exponent 0.
* `SENC_GetProfileRecordOwnerShard` returns the regular layer's shard
  (`client_api.cpp:268`), where `client_api.h:267` says the owner layer's.

## 5. Proofs

The proofs hold for every value of the constants, under the named assumptions of the
modules: `AbsentAssumption` (`Absent` is no value of the types it is added to),
`FiniteUsers`, `PlansAssumption`, `StoredAssumption` and `DisconnectsAssumption`
(the constants have the types their names say); `StorageConstants` (the same for the
storage, and that `None` is no user, password or thresholds); `ApiConstants` (addresses,
static errors and null differ); `TypedNamesAreUsers` (the sign for "nobody" cannot be typed);
`RecordsAssumption` (a profile record has two sizes, neither of them zero, is neither of the
signs for "none" and "garbled", and only records are sought); `SocketsAssumption` (finitely many descriptors, numbered from 1);
`ProgramsAssumption` (every program and every accepted connection has an object of its own, and the
listening port is a port); `ArgumentsAssumption` (no text is an address of both families, and the families' names
are neither numbers nor addresses).

**ServerLifecycleProofs**: `LifecycleTypeOK`, `NoThreadLost` (`LiveThreadsOwned`) and
`StopClosesEveryClient` (`NoClientServedAfterStop`). The two safety properties are not
inductive. The invariant `IInv` adds:
`ThreadsAreOfAccepted` (a connection waits, is accepted, or has had a thread, one after
the other, and stop's local map is only filled while it joins: otherwise accepting a connection again, or
moving `_clientThreads`, could overwrite a handle); `OpenSocketsRegistered` (a thread
that registered and has not finished is in `_clientSocks` or its socket is closed:
this is why closing the registered sockets is enough) and `FlagClearedByStop` (a thread that registers
after that sees the flag down: this is why checking the flag *after* registering
matters).

**ConnectedClientHandlerProofs**: `ServerTypeOK`. `TypeOK` is not inductive: a handler
uses, in one step, locals and entries that an earlier step left. `IInv` adds
`LocalsOK` (what the locals hold at each location of the thread) and
`KnownUserSetsStored` (every userset a user is told it owns, or is being told, is in
storage, which is why reading its thresholds is safe). One lemma per action, from
lemmas about what the actions share (`TurnTypes`, `RegisterTypes`, `RespondTypes`,
`FindPreparedTypes`, `ConsumeTypes`, `BackToIdle`).

**ServerPropertiesProofs**: `NobodyOwesTwice` (`PartOwedOnce`), `RecordIsThere`
(`NoDanglingRecord`) and `TeamsAreQualified` (`TeamIsQualified`). The inductive
invariant `AccountsInv`, on top of `IInv`, keeps two accounts per member and operation.

* `InvitedOnce`: an invitation to participate is in one place: with a thread that is
  about to register the lookup, in the member's updates, on its way, with the client, or
  with the thread that handles the member's offer. Its holder is a member that fills no
  slot yet, so nobody fills two. The argument starts with `FreshOperation`: until
  `prepare_operation` the operation's ID is known to one thread.
* `OwedOnce`: the same for the debt of a part, which arises when the last participant is
  registered and is settled by `register_part`.

`Preparing` and `Collecting` add the numbers: the participants are exactly as many as
required, and the parts as many as the members who sent one. `has_enough_parts` looks at
the two layers only. When both are full, there are at least as many parts as
participants, hence all have sent theirs, and the record is erased when nobody is left
who could look for it. That is why `register_part` may dereference what it found,
although it does not check.

These three theorems have a hypothesis, `MembersListedOnce`: no plan and no stored
userset lists somebody both as an owner and as a regular member. The code does not check
that (section 6): such a member is looked up twice, may fill two slots, and is asked for two parts.
All runs satisfy it.

**OperationsProofs**: `OperationsAreReportedOnce` (`ReportedOnce`) and
`OperationsOnlyMoveForward` (`OperationsMoveForward`), without that hypothesis. Neither is
inductive: that a result is reported once depends on how many threads can come to
`finish_operation` with one ID. `OperationInv` says that an operation is at one place
at a time (`OnePlace`): with the thread that drew its ID, in `_prep`, in `_collected`, with the
thread that registered the last part, or in a record (`Held`: in a user's updates, on the
way, or at a client, where it is the same record, `OneRecord`). `Stages` ties this to
`_allOpIDs` and to the participants. `emplace` into a map that has the key would
silently keep the old record; the invariant shows that it never meets one.

`FinishedDecryptionsAreWhole` (`FinishedDecryptionsJoin`), in the same module, takes up both
invariants and the hypothesis `MembersListedOnce`. A client computes its part for the
layer it remembers from the answer to its offer, with the shard IDs of its update; the server files the
part by whether its sender owns the userset; and the requester joins what is filed.
Nothing in the code compares the three. `JoinInv` follows a request for a part from
`continue_operation` to the record:

* `SlotTold`: the slot a member is told, also by a response that is still on its way, is the one it
  fills in `Filled`, the members found so far and later the participants. Steps of
  other threads only add to these (`Progress`).
* `Fits`: a member is asked for a part only of its own layer, with the shard IDs of
  exactly that layer's participants and the requester. This holds in its updates,
  on the way, in its client's tasks and in its thread's hands (`UpdateFits`, `ReplyFits`,
  `TaskFits`, `SendingFits`). Teams are disjoint (`TeamApart`), so what it was told and
  what it was asked for are one layer.
* `FittingParts`: what is filed under owners came from owners, but an owner may stand in
  as a regular member, and its part would be filed among the owners'. `EnoughPartsJoin` counts: with
  `has_enough_parts` there are as many regular members' parts as regular slots, all of
  non-owners that fill them, so no owner is left to fill one, and every owner's part is of the owners' layer.

**RefinementProofs**: `NoOperationIsStuck` (`NoStuckCollection`) and
`ServerImplementsDecryption` (`ImplementsAbstractDecryption`, the safety of the refinement).
Neither holds of every userset: `owners_only` (section 4) shows one whose operation collects
for ever. Beside `MembersListedOnce` the theorems have the hypothesis `NoOwnerToSpare`: a
userset that asks for regular members has no more owners, the requester aside, than its
threshold of owners. It is the weakest condition on thresholds alone under which no owner can come to fill a regular
slot, and all usersets of the passing server runs meet it. Neither
theorem is about what becomes of the others, beyond what the run shows.

`OwnersInv` and `SpareInv` say why. `NoneToSpare` is the hypothesis, of whatever is stored. By
`OwnersKnow` only an owner comes to decrypt: whoever is told of a userset as an owner, by a
response or an update, is one. So an operation that looks for members has an owner as its
requester, and the userset's thresholds (`OwnersAsk`). `LooksWell`: it has no owner in a regular slot. A regular slot goes to
an owner only when the owners' slots are full, but then they hold all owners but the requester, and
nobody offers twice (`InvitedOnce`); that is the count of `RegularSlotsForRegularMembers`.
`Waits`: so the layer a part is filed under, by its sender, is the one it was asked for, and
both layers are full exactly with the last participant's part.

The refinement goes handler by handler: `PrepareDecryption` is the abstract `Begin`
(the manager has nothing of the operation yet, by `FreshOperation`), `RegisterParticipant` a
`Join` (the member fills no slot, by `InvitedOnce`), `RegisterPart` a `Contribute`, which completes
exactly with the last part (`Waits` and `NoOperationIsStuck`), and `SendResponse` a `Report`
of all operations whose parts the response carries
(one update may report several). What the other handlers do changes nothing abstract.

`MissingPartsStayOwed` (`MissingPartsAreOwed`), in the same module, is the opposite of
`NobodyOwesTwice`: whoever has not sent its part of a collecting operation has a debt of it.
A debt gets lost where a client drops a request, as it does not remember the layer or has no
key shard (`Consume`), or where a response gets lost. Hence the hypotheses, beside
`MembersListedOnce`: `NothingLost` (no connection breaks and nobody logs out), and `EveryoneNeeded`,
that the usersets made meanwhile need all their members or none. Without the latter the
property is false (section 4). Stored usersets may have any thresholds. `OwedInv` adds:

* `FoundRemember`: whoever fills a slot remembers it, or is about to be told by the
  response to its offer. A thread has one response at a time (`Silent`), so that one comes before the
  update that brings the request.
* `KeysComing`: a member of a stored userset has its key shards, in its profile, in its updates or
  on the way (`HasKey`), or is still to be told by `make_userset`.
* `MakerBusy`: while that goes on, the userset's maker, who is a member, sends nothing else. If everybody is needed,
  nobody collects parts by counting: there are too few others. So whoever is asked for a part
  has the key shards, or gets them in the same update, whose records are handled before its tasks.
* `PartsComing`: how far the request for each missing part has come (`Owes`): the thread that
  registers it or the member's updates, the response on its way, the client's task, the
  part being sent.

**StorageProofs**: `StorageTypeOK`, `ShardIDsAreUnique` (`ShardIDsDiffer`),
`AnsweredSetsAreComplete` (`AnsweredSetsComplete`) and `StorageIsAtomic`
(`ImplementsAbstractStorage`, the safety of the refinement). A shard ID is
drawn against the rows there are (`generate_unique_shard_id`) and inserted by a later
statement, so the property rests on who else may insert in between. `StorageInv` adds:
`OneInserter` (no two threads insert the members of one userset, since its row is
inserted under an ID that had none), `UserSetsMade` (rows and inserting threads are
of usersets that have a row, so a new ID meets none of either) and `SampledIsFree` (what was drawn
stays free until it is inserted). Failed statements and crashes are steps of
the model: they leave rows that no thread adds to.

A userset is inserted row after row, without a transaction. `WholeInv` says why nobody sees
half of one: the thread that inserts has as many members left as its userset lacks
(`ThreadOK`), so the userset is whole exactly when the thread comes to answer, and whoever
is owed a key shard of it is owed one of a whole userset (`OwedOK`). Names were looked up before the
first row, and accounts stay, so every row has its account. In the refinement
`InsertMember` is a step of `AbstractStorage` when it inserts the last row, and a stutter before
(`InsertMemberAbstract`); every other statement, failure and crash changes nothing
that `AbstractStorage` sees, apart from `InsertUser`. That a
finite set of row numbers has a greatest is proved from a well-founded order (`MaxIsIn`), so
no induction theorem is needed.

**ClientPartsProofs**: `FilesAgree` (`FileAgrees`) and `ProfilesAreReadAsAdded` (`AddedIsRead`).
Of a file, `FileInv` adds what the stream did last: the flag that makes `Refreshed` seek is
raised whenever the stream was read (`GoodFile`). After an append of no values it is down and the stream is
at its end (`StaleFile`): what comes next reads nothing, writes there, or moves. A profile is one file that is appended to by
one call and read by another, so `ProfileInv` carries, as a witness, the positions at which
records begin (`Laid`): an append lays one more record behind them and moves none, so what was read stays
as it was, and no induction over the file is needed. A loop is always at the beginning of a
record (`ReaderPlace`, `ItAt`), and its end is that of the file when it was opened (`OpenedWell`). `AfterWhole` says
what follows the whole records: nothing, the beginning of the one record that is being added, or damage. Damage
(`Torn`) is the beginning of a record and then a size where the next cell of it should be, or nothing yet,
whoever wrote it: two threads that mix records, or one after a crash, both begin with sizes
(`SizesComeFirst`). A part that is read across a size is no part, so a reader that gets there throws or
ends there, and meets no record that was not added. `Phase` has the one exception of `AddedIsRead`: `end()` is made
after `begin()`, so it reads the second record, which matters when that is the unfinished one.

In the same module, `HandlesAreSound` (`HandlesSound`) and `MenusMatchSessions`
(`MenuMatchesSession`). `HandlesSound` has no claim that a call returns, and
one exception (section 3). Of the C interface the invariant says what is at each
address (`HeapTyped`) and what a client can be (`GoodClient`: a profile is gone with its packet
handler, and a session with its connection; so a login that the server accepts meets no
other user's profile). Of the client's menus: the menu changes when a
response is received, the session when it is sent; `LoginSession` and `MainSession` say
what lies in between, also when the connection breaks there, and `OptionRuns` that a login has
read its name by the time it posts.

**NetworkProofs**: `SocketsAreOwned` and `NetworkIsSound` (`NetworkSound`), for any objects, descriptors,
ports, programs and arguments. `NetInv` has each object's
descriptor of its own kind (`ObjectOK`) and owned once (`OneOwner`): a move hands it over, an assignment
closes the one it replaces, and a new one is the lowest that is unused, of which there is
one (`LeastOf`, from a well-founded order). Every call leaves what it does not name (`Kept`: the
object, and the state, family, port and connection of its descriptor), so one lemma per call serves
the calls at random and the programs alike. `ProgramsInv` says which socket a
program has at each place, and what its arguments were taken for (`ProgramOK`). Two servers have not bound one
port (`PortsDiffer`), because binding fails while any other socket, listening or not yet, has it. And a client
that finds nobody was not sent to where a server runs (`NobodyWasThere`): `ServerMeant` and
`ClientMeant` show that clear arguments mean only what the two parsers take them for. The one
removes the families' names from anywhere in the list and looks at what is then first, the
other takes the family from the address. `Clear` is what they need: one port at most, and no
address in its place, whose beginning `stoi` would read.

Checked by TLC only:

* Liveness (every leads-to property, and `ImplementsAbstractLiveness`): fairness is beyond the prover.
* `KeyShardsKept` and `ResultsDelivered` of the client. They rest on its timing assumption, and on
  counting what is in a queue, in a timer, in a detached thread and in responses that may be swapped
  by moves; the invariant for that is not written.
* `ArithmeticSound`, `SecretRestored`, `FewShardsTellNothing` and `MessageRestored`: their
  functions recurse over numbers, powers and polynomials, so the proofs would need induction with an operator as
  a parameter, which the prover cannot instantiate.
* `ReceivedAsSent`, `ReadAsSent`, `ConsoleIsTruthful` and `ViewsMeanWhatWasAsked`: they compare texts, blocks and
  rows that are put together by folds over sequences, for the same reason.

## 6. What is not modelled

* In the server runs every storage call is atomic and succeeds, except the check of
  member names; `ServerStorage` has the statements, their failures and crashes, and
  `get_members`. The `catch` blocks that swallow an error of `continue_operation` and
  `finish_operation` are listed as a hazard.
* Several sessions of one user, decryption requests of non-owners (in the runs: `ClientApi` has the use of
  an owner shard that is not there, `NoOwnerShard`), clients that do not
  follow the protocol; callers of the C interface that break its rules.
* Members listed both as owners and as regular members, in the server runs: neither `make_userset` nor
  storage refuses them, but no run has such a userset (listed as a hazard; `ServerStorage`
  has them).
* Colliding shard IDs of different usersets beyond the choice that `ClientApi` gives
  the client's search for a key shard (`Participate`): the server cannot tell.
* Data races on generators and schemas that all connection threads share: a sample is any value
  anyway (listed as a hazard).
* The order in which a move constructor and the queue thread take locks matters
  only if a move takes as long as the timer's delay, which the timing assumption excludes.
* Port 0, with which the system chooses a port; no argument is the number 0.
* Widths of integers, apart from counts in packets: `Fraction` may overflow.
* Cryptography: the block cipher, the hash and the curve library are perfect or external.
* Compile-time code (concepts, tuples, schemas of tables, ranges), encodings to text,
  the wording of messages, and the test programs.

## 7. Plan

In order of importance; done unless said otherwise:

1. Server core: `ServerTypes`, `DecryptionsManager`, `UpdateManager`,
   `ConnectedClientHandler`, with `AbstractDecryption` as its abstract specification.
2. `ServerLifecycle`.
3. `QueuedPacketHandler` and `ClientApi`, `ApiHandles`.
4. `ServerStorage` with `AbstractStorage`.
5. The parts: sharing and numbers, group and cipher, packets, sockets, files, profile,
   programs, consoles, views.
6. Proofs: the invariants of section 5. Left to be proved: `KeyShardsKept` and `ResultsDelivered`,
   from the client's timing assumption.
7. Left: the client's process against the server's in one model (`ClientApi` with
   `ConnectedClientHandler` in place of its external server), which is beyond TLC with
   the bounds that make the client interesting.
