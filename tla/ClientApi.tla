------------------------------ MODULE ClientApi ------------------------------
(***************************************************************************)
(* Client: the calls of the API, made by one thread; the update that the   *)
(* queue thread of QueuedPacketHandler runs; and the detached threads that *)
(* an update starts, one per lookup and one per decryption task.           *)
(*                                                                         *)
(* The server is external: it answers a request as the connecting and      *)
(* connected client handlers do, and other clients make it put lookups,    *)
(* tasks and results into a user's updates.                                *)
(***************************************************************************)
EXTENDS QueuedPacketHandler, SequencesExt

CONSTANTS
    Users,
    UserSetIDs,
    OpIDs,
    NoUser,
    UserSetOf,  \* the userset of each operation
    Mine,       \* the operations this client requests; others look users up
    Owners,     \* the owners of each userset; its other users are regular members
    ShardID,    \* [Users \X UserSetIDs -> shard IDs]
    OldSets,    \* the usersets each user's profile file has from earlier sessions
    MaxCalls    \* a bound on the calls of the API

ASSUME ConstantTypes ==
    /\ UserSetOf \in [OpIDs -> UserSetIDs] /\ Mine \subseteq OpIDs
    /\ Owners \in [UserSetIDs -> SUBSET Users]
    /\ OldSets \in [Users -> Seq(UserSetIDs)]
    /\ NoUser \notin Users
    /\ MaxCalls \in Nat

VARIABLES
    calls,                  \* calls made so far
    storage,                \* whose profile is loaded (_storage)
    profile,                \* each user's profile file: a sequence of records
    pendingDecryptions,     \* keys of _pendingDecryptions
    pendingParticipances,   \* _pendingParticipances: isOwner, or absent
    inbox,                  \* records of an update response still to be handled
    job,                    \* what each detached thread was started for
    delivered,              \* results given to the caller (history)
    missed,                 \* how searches for a result's record have failed (history)
    session,                \* server: the user of the connection
    updates,                \* server: the updates of each user
    told,                   \* server: every update there has been (history)
    chosen,                 \* server: participants
    started                 \* server: decryptions requested

clientVars == <<storage, profile, pendingDecryptions, pendingParticipances, inbox,
                job, delivered, missed>>
serverVars == <<session, updates, told, chosen, started>>
qphVars == <<handler, stop, queueVars, pc, req, reply, movedFrom, wire, connOpen, ended>>
vars == <<qphVars, overdue, swapped, calls, clientVars, serverVars>>

Items == [kind : {"added"}, us : UserSetIDs]
         \cup [kind : {"lookup", "todecrypt", "finished"}, op : OpIDs]
Record(u, s) == [us |-> s, owner |-> u \in Owners[s], shard |-> ShardID[u, s]]
NoPending == "none"

Init ==
    /\ handler = FALSE /\ stop = FALSE
    /\ nextTicket = 0 /\ ticketBeingServed = 0
    /\ ticket = [t \in Threads |-> 0]
    /\ pc = [a \in Actors |-> IF a = Main THEN "moving" ELSE
                              IF a = Queue THEN "exited" ELSE "idle"]
    /\ req = [a \in Actors |-> NoReq]
    /\ reply = [a \in Actors |-> NoReq]
    /\ movedFrom = "start"
    /\ toServer = <<>> /\ toClient = <<>> /\ connOpen = TRUE
    /\ overdue = {} /\ swapped = FALSE /\ ended = "no"
    /\ calls = 0
    /\ storage = NoUser /\ profile = [u \in Users |-> [n \in DOMAIN OldSets[u] |-> Record(u, OldSets[u][n])]]
    /\ pendingDecryptions = {}
    /\ pendingParticipances = [o \in OpIDs |-> NoPending]
    /\ inbox = [a \in {Main, Queue} |-> {}]
    /\ job = [w \in Workers |-> NoReq]
    /\ delivered = {} /\ missed = {}
    /\ session = NoUser
    /\ updates = [u \in Users |-> {}]
    /\ told = UNION {{<<u, [kind |-> "added", us |-> s]>> : s \in ToSet(OldSets[u])} : u \in Users}
    /\ chosen = {} /\ started = {}

-----------------------------------------------------------------------------
\* The calls of the API.  The caller keeps to their order: it logs in, makes its
\* requests, and logs out.
MayCall == pc[Main] = "idle" /\ calls < MaxCalls /\ calls' = calls + 1
Call(r) ==
    /\ MayCall /\ Post(Main, r)
    /\ UNCHANGED <<handler, stop, queueVars, reply, movedFrom, wire, connOpen,
                   clientVars, serverVars>>

\* Logging in connects again after a logout; signup differs in what its response
\* may be.
LogIn(u) ==
    /\ storage = NoUser
    /\ \/ handler /\ Call([kind |-> "Login", by |-> Main, user |-> u])
       \/ /\ ~handler /\ MayCall
          /\ Connect([kind |-> "Login", by |-> Main, user |-> u])
          /\ UNCHANGED <<clientVars, serverVars>>
LogOut == storage # NoUser /\ Call([kind |-> "Logout", by |-> Main])
Decrypt(o) == /\ storage # NoUser /\ o \in Mine /\ \A u \in Users : <<u, o>> \notin started
              /\ <<storage, [kind |-> "added", us |-> UserSetOf[o]]>> \in told
              /\ Call([kind |-> "Decrypt", by |-> Main, op |-> o])
GetMembers == storage # NoUser /\ Call([kind |-> "GetMembers", by |-> Main])
MakeUserSet(s) == /\ storage # NoUser /\ storage \in Owners[s]
                  /\ \A u \in Users : <<u, [kind |-> "added", us |-> s]>> \notin told
                  /\ Call([kind |-> "MakeUserSet", by |-> Main, us |-> s])
ForceUpdate == storage # NoUser /\ Call([kind |-> "Update", by |-> Main])

Got(t, kind) == pc[t] = "done" /\ req[t] # NoReq /\ req[t].kind = kind
Ok(t) == reply[t].kind # "Error"
Return(t) ==
    /\ pc' = [pc EXCEPT ![t] = IF t = Queue THEN "loop" ELSE "idle"]
    /\ req' = [req EXCEPT ![t] = NoReq] /\ reply' = [reply EXCEPT ![t] = NoReq]
    /\ UNCHANGED ended
KeepWire == UNCHANGED <<handler, queueVars, movedFrom, wire, connOpen>>

\* A successful login loads the profile.
LoggedIn ==
    /\ Got(Main, "Login")
    /\ storage' = IF Ok(Main) /\ reply[Main].success THEN req[Main].user ELSE storage
    /\ Return(Main) /\ KeepWire
    /\ UNCHANGED <<stop, calls, profile, pendingDecryptions, pendingParticipances,
                   inbox, job, delivered, missed, serverVars>>

LoggedOut ==
    /\ Got(Main, "Logout")
    /\ IF Ok(Main) THEN BeginReset /\ UNCHANGED <<req, reply, ended>>
       ELSE Return(Main) /\ UNCHANGED stop
    /\ KeepWire /\ UNCHANGED <<calls, clientVars, serverVars>>

\* Fault: what was agreed to in the session is forgotten with it.
UnloadForgets ==
    /\ pc[Main] = "unload"
    /\ storage' = NoUser /\ pendingDecryptions' = {}
    /\ pendingParticipances' = [o \in OpIDs |-> NoPending]
    /\ Return(Main) /\ KeepWire
    /\ UNCHANGED <<stop, calls, profile, inbox, job, delivered, missed, serverVars>>

\* The handler is gone and the socket closed; pending participances are kept.
Unload ==
    /\ pc[Main] = "unload"
    /\ storage' = NoUser /\ pendingDecryptions' = {}
    /\ Return(Main) /\ KeepWire
    /\ UNCHANGED <<stop, calls, profile, pendingParticipances, inbox, job, delivered,
                   missed, serverVars>>

Decrypted ==
    /\ Got(Main, "Decrypt")
    /\ pendingDecryptions' = IF Ok(Main) THEN pendingDecryptions \cup {req[Main].op}
                             ELSE pendingDecryptions
    /\ Return(Main) /\ KeepWire
    /\ UNCHANGED <<stop, calls, storage, profile, pendingParticipances, inbox, job,
                   delivered, missed, serverVars>>

UserSetMade ==
    /\ Got(Main, "MakeUserSet")
    /\ profile' = IF Ok(Main)
                  THEN [profile EXCEPT ![storage] = Append(@, Record(storage, req[Main].us))]
                  ELSE profile
    /\ Return(Main) /\ KeepWire
    /\ UNCHANGED <<stop, calls, storage, pendingDecryptions, pendingParticipances,
                   inbox, job, delivered, missed, serverVars>>

GotMembers ==
    /\ Got(Main, "GetMembers")
    /\ Return(Main) /\ KeepWire
    /\ UNCHANGED <<stop, calls, clientVars, serverVars>>

-----------------------------------------------------------------------------
\* update_callback catches the ClientExceptions of its thread.
CatchClientException(a) == Return(a)

\* update_callback, on the queue thread or, in force_update, on the caller's.
Updated(a) ==
    /\ Got(a, "Update")
    /\ IF Ok(a)
       THEN /\ inbox' = [inbox EXCEPT ![a] = reply[a].items]
            /\ pc' = [pc EXCEPT ![a] = "handle"]
            /\ reply' = [reply EXCEPT ![a] = NoReq]
            /\ UNCHANGED <<req, ended>>
       ELSE CatchClientException(a) /\ UNCHANGED inbox
    /\ UNCHANGED <<handler, stop, queueVars, movedFrom, wire, connOpen, calls,
                   storage, profile, pendingDecryptions, pendingParticipances, job,
                   delivered, missed, serverVars>>

\* The kinds of records are handled in this order.
HandlingOrder == <<"added", "lookup", "todecrypt", "finished">>
Before(i, j) == \E m, n \in 1..4 : m < n /\ HandlingOrder[m] = i.kind /\ HandlingOrder[n] = j.kind
Foremost(a) == {i \in inbox[a] : \A j \in inbox[a] : ~Before(j, i)}

HandlerState == UNCHANGED <<handler, stop, queueVars, movedFrom, wire, connOpen, calls, serverVars>>

Handled(a, i) == inbox' = [inbox EXCEPT ![a] = @ \ {i}] /\ UNCHANGED <<pc, req, reply, ended>>
\* A record that throws takes the rest of the response with it.
GiveUp(a) == inbox' = [inbox EXCEPT ![a] = {}] /\ CatchClientException(a)

HandleAdded(a) == \E i \in Foremost(a) :
    /\ pc[a] = "handle" /\ i.kind = "added"
    /\ IF storage = NoUser THEN GiveUp(a) /\ UNCHANGED profile
       ELSE /\ profile' = [profile EXCEPT ![storage] = Append(@, Record(storage, i.us))]
            /\ Handled(a, i)
    /\ HandlerState
    /\ UNCHANGED <<storage, pendingDecryptions, pendingParticipances, job, delivered, missed>>

\* A lookup or a task gets a thread of its own; which is all the same.
Unused == {w \in Workers : pc[w] = "idle"}
HandleTask(a) == \E i \in Foremost(a) :
    /\ pc[a] = "handle" /\ i.kind \in {"lookup", "todecrypt"}
    /\ Unused # {}
    /\ LET w == CHOOSE w \in Unused : TRUE IN
       /\ job' = [job EXCEPT ![w] = i]
       /\ pc' = [pc EXCEPT ![w] = "start"]
    /\ inbox' = [inbox EXCEPT ![a] = @ \ {i}]
    /\ HandlerState
    /\ UNCHANGED <<storage, profile, pendingDecryptions, pendingParticipances, delivered,
                  missed, req, reply, ended>>

\* Fault: the record that ends at the file's end is taken for the end.
LookedAtShort(records) == {SubSeq(records, n, Len(records) - 1) : n \in {1, 2} \cap DOMAIN records}

\* A search of the profile looks at its records in turn, or, where the compiler has
\* end() made before begin(), at all but the first (ProfileStorage).
LookedAt(records) == {SubSeq(records, n, Len(records)) : n \in {1, 2} \cap DOMAIN records}

\* Another thread is adding a record, which end() may read unfinished.
Adding == \/ Got(Main, "MakeUserSet") /\ Ok(Main)
          \/ \E a \in {Main, Queue} : pc[a] = "handle" /\ \E i \in inbox[a] : i.kind = "added"

\* Or it throws, or is undefined: with no file, with one record, or when it goes on from
\* the second record by the wrong size.
MayMisread(records, wanted) == Len(records) < 2 \/ records[2] \notin wanted \/ Adding

\* What it throws is no ClientException: only a call of the API catches it.
Misreads(a) ==
    \/ a = Main /\ GiveUp(a)
    \/ ended' = "profile misread" /\ UNCHANGED <<inbox, pc, req, reply>>

\* The owner shard of a regular member's record is not there: its use is undefined, and
\* may end the process or give what is no part.
NoOwnerShard(r) == ~r.owner /\ ended' = "no owner shard"

\* find_profile_record_by_userset_id, for a result.
FindForResult(a, i) ==
    LET records == profile[storage]
        wanted == {r \in ToSet(records) : r.us = UserSetOf[i.op]}
    IN  \/ \E seen \in LookedAt(records) :
              IF ToSet(seen) \cap wanted # {}
              THEN /\ \/ Handled(a, i)
                      \/ (\E r \in wanted : NoOwnerShard(r)) /\ UNCHANGED <<inbox, pc, req, reply>>
                   /\ delivered' = delivered \cup {i.op} /\ UNCHANGED missed
              ELSE GiveUp(a) /\ missed' = missed \cup {"not found"} /\ UNCHANGED delivered
        \/ /\ MayMisread(records, wanted) /\ Misreads(a)
           /\ missed' = missed \cup {"misread"} /\ UNCHANGED delivered

\* A result nobody waits for is dropped; it is waited for no more before its record is
\* looked for, and one whose record is not found throws.
HandleFinished(a) == \E i \in Foremost(a) :
    /\ pc[a] = "handle" /\ i.kind = "finished"
    /\ pendingDecryptions' = pendingDecryptions \ {i.op}
    /\ IF i.op \in pendingDecryptions /\ storage # NoUser THEN FindForResult(a, i)
       ELSE /\ IF i.op \in pendingDecryptions THEN GiveUp(a) ELSE Handled(a, i)
            /\ UNCHANGED <<delivered, missed>>
    /\ HandlerState
    /\ UNCHANGED <<storage, profile, pendingParticipances, job>>

\* Fault: the queue thread ends with its first update.
AllHandledOnce(a) ==
    /\ pc[a] = "handle" /\ inbox[a] = {}
    /\ pc' = [pc EXCEPT ![a] = IF a = Queue THEN "exited" ELSE "idle"]
    /\ UNCHANGED <<req, reply, ended>>
    /\ HandlerState /\ UNCHANGED clientVars

AllHandled(a) ==
    /\ pc[a] = "handle" /\ inbox[a] = {}
    /\ Return(a)
    /\ HandlerState /\ UNCHANGED clientVars

-----------------------------------------------------------------------------
WorkerState ==
    /\ job' = [w \in Workers |-> IF pc'[w] = "idle" THEN NoReq ELSE job[w]]
    /\ UNCHANGED <<handler, stop, queueVars, movedFrom, wire, connOpen, calls, storage,
                   profile, pendingDecryptions, inbox, delivered, missed, serverVars>>

\* request_participance.
RequestParticipance(w) ==
    /\ pc[w] = "start" /\ job[w].kind = "lookup"
    /\ Post(w, [kind |-> "Participate", by |-> w, op |-> job[w].op])
    /\ WorkerState /\ UNCHANGED <<reply, pendingParticipances>>

\* insert leaves an entry that is there already as it is.
ParticipanceAnswered(w) ==
    /\ Got(w, "Participate")
    /\ IF ~Ok(w) THEN Throw(w) /\ UNCHANGED <<req, reply, pendingParticipances>>
       ELSE /\ pendingParticipances' =
                   IF reply[w].layer = "none" \/ pendingParticipances[req[w].op] # NoPending
                   THEN pendingParticipances
                   ELSE [pendingParticipances EXCEPT ![req[w].op] = reply[w].layer]
            /\ Return(w)
    /\ WorkerState

\* The IDs of the shards that take part in an operation's layer.
ShardIDsOf(o) == {ShardID[u, UserSetOf[o]] : u \in Users}

\* participate: the first record it looks at whose shard ID is among those of the task.
Participate(w) ==
    /\ pc[w] = "start" /\ job[w].kind = "todecrypt"
    /\ LET o == job[w].op
           layer == pendingParticipances[o]
           records == profile[storage]
           wanted == {r \in ToSet(records) : r.shard \in ShardIDsOf(o)}
       IN
       /\ pendingParticipances' = [pendingParticipances EXCEPT ![o] = NoPending]
       /\ IF layer = NoPending \/ storage = NoUser THEN Return(w)
          ELSE \/ \E seen \in LookedAt(records) :
                    LET matching == SelectSeq(seen, LAMBDA r : r \in wanted)
                    IN  IF matching = <<>> THEN Return(w)
                        ELSE \/ /\ Post(w, [kind |-> "SendDecryptionPart", by |-> w, op |-> o, layer |-> layer])
                                /\ UNCHANGED reply
                             \/ /\ layer = "owner" /\ NoOwnerShard(matching[1])
                                /\ UNCHANGED <<pc, req, reply>>
               \/ /\ MayMisread(records, wanted)
                  /\ ended' = "profile misread" /\ UNCHANGED <<pc, req, reply>>
    /\ WorkerState

PartAnswered(w) ==
    /\ Got(w, "SendDecryptionPart")
    /\ IF Ok(w) THEN Return(w) ELSE Throw(w) /\ UNCHANGED <<req, reply>>
    /\ WorkerState /\ UNCHANGED pendingParticipances

-----------------------------------------------------------------------------
\* The server (external).  It reads a code, and the data after it if it expects
\* such a request from this client; otherwise it answers with an error and takes
\* what follows for the next code.
Expected == IF session = NoUser THEN {"Login", "Logout"}
            ELSE {"Logout", "MakeUserSet", "GetMembers", "Decrypt", "Update",
                  "Participate", "SendDecryptionPart"}

Tokens(resp) == IF HasData(resp.kind)
                THEN <<[part |-> "code", resp |-> resp], [part |-> "data", resp |-> resp]>>
                ELSE <<[part |-> "code", resp |-> resp]>>
Error(r) == [kind |-> "Error", req |-> r]

\* The responses to a request that has been read as a whole.
Respond(resp) == toClient' = toClient \o Tokens(resp)

AnswerLogin(r) == \E success \in BOOLEAN :
    /\ Respond([kind |-> "Login", req |-> r, success |-> success])
    /\ session' = IF success THEN r.user ELSE session
    /\ UNCHANGED <<connOpen, updates, told, chosen, started>>

AnswerLogout(r) ==
    /\ Respond([kind |-> "LogoutResponse", req |-> r])
    /\ session' = NoUser /\ connOpen' = FALSE
    /\ UNCHANGED <<updates, told, chosen, started>>

AnswerGetMembers(r) ==
    /\ Respond([kind |-> "GetMembers", req |-> r])
    /\ UNCHANGED <<connOpen, serverVars>>

AnswerMakeUserSet(r) ==
    \/ /\ Respond([kind |-> "MakeUserSet", req |-> r])
       /\ told' = told \cup {<<session, [kind |-> "added", us |-> r.us]>>}
       /\ UNCHANGED <<connOpen, session, updates, chosen, started>>
    \/ Respond(Error(r)) /\ UNCHANGED <<connOpen, serverVars>>

\* A decryption that needs nobody is finished when it is answered.
AnswerDecrypt(r) ==
    \/ /\ Respond([kind |-> "Decrypt", req |-> r])
       /\ started' = started \cup {<<session, r.op>>}
       /\ \E finished \in SUBSET {[kind |-> "finished", op |-> r.op]} :
             /\ updates' = [updates EXCEPT ![session] = @ \cup finished]
             /\ told' = told \cup {<<session, i>> : i \in finished}
       /\ UNCHANGED <<connOpen, session, chosen>>
    \/ Respond(Error(r)) /\ UNCHANGED <<connOpen, serverVars>>

AnswerUpdate(r) ==
    /\ Respond([kind |-> "UpdateResponse", req |-> r, items |-> updates[session]])
    /\ updates' = [updates EXCEPT ![session] = {}]
    /\ UNCHANGED <<connOpen, session, told, chosen, started>>

\* An owner may be asked for either layer, nobody twice, and an operation that
\* has finished is not found.
AnswerParticipate(r) ==
    \/ \E layer \in {"owner", "reg", "none"} :
         /\ layer = "owner" => session \in Owners[UserSetOf[r.op]]
         /\ <<session, r.op>> \notin chosen
         /\ Respond([kind |-> "Participate", req |-> r, layer |-> layer])
         /\ chosen' = chosen \cup {<<session, r.op>> : l \in {layer} \ {"none"}}
         /\ UNCHANGED <<connOpen, session, updates, told, started>>
    \/ Respond(Error(r)) /\ UNCHANGED <<connOpen, serverVars>>

AnswerPart(r) ==
    /\ Respond([kind |-> "SendDecryptionPartResponse", req |-> r])
    /\ UNCHANGED <<connOpen, serverVars>>

Answer(r) == CASE r.kind = "Login" -> AnswerLogin(r)
               [] r.kind = "Logout" -> AnswerLogout(r)
               [] r.kind = "GetMembers" -> AnswerGetMembers(r)
               [] r.kind = "MakeUserSet" -> AnswerMakeUserSet(r)
               [] r.kind = "Decrypt" -> AnswerDecrypt(r)
               [] r.kind = "Update" -> AnswerUpdate(r)
               [] r.kind = "Participate" -> AnswerParticipate(r)
               [] r.kind = "SendDecryptionPart" -> AnswerPart(r)

Misread == ended' = "requests out of step" /\ UNCHANGED <<toClient, connOpen, serverVars>>

ServerAnswers ==
    /\ ~ServerWaits /\ connOpen
    /\ LET head == Head(toServer)
           rest == Tail(toServer)
       IN
       \/ head.part = "data" /\ toServer' = rest /\ Misread
       \/ /\ head.part = "code" /\ head.req.kind \notin Expected
          /\ toServer' = rest /\ Respond(Error(head.req))
          /\ UNCHANGED <<connOpen, serverVars, ended>>
       \/ /\ head.part = "code" /\ head.req.kind \in Expected
          /\ IF ~HasData(head.req.kind)
             THEN toServer' = rest /\ Answer(head.req) /\ UNCHANGED ended
             ELSE /\ toServer' = Tail(rest)
                  /\ IF Head(rest) = [head EXCEPT !.part = "data"]
                     THEN Answer(head.req) /\ UNCHANGED ended
                     ELSE Misread
    /\ UNCHANGED <<handler, stop, queueVars, pc, req, reply, movedFrom, calls, clientVars>>

\* Other clients: they make usersets, request decryptions, and complete teams.
OnlyServer == UNCHANGED <<qphVars, calls, clientVars, session, chosen, started>>
Tell(u, i) ==
    /\ <<u, i>> \notin told
    /\ told' = told \cup {<<u, i>>}
    /\ updates' = [updates EXCEPT ![u] = @ \cup {i}]

AddMember(u, s) == Tell(u, [kind |-> "added", us |-> s]) /\ OnlyServer
LookUp(u, o) ==
    /\ o \notin Mine /\ <<u, [kind |-> "added", us |-> UserSetOf[o]]>> \in told
    /\ Tell(u, [kind |-> "lookup", op |-> o]) /\ OnlyServer
AskForPart(u, o) ==
    /\ <<u, o>> \in chosen
    /\ Tell(u, [kind |-> "todecrypt", op |-> o]) /\ OnlyServer
FinishDecryption(u, o) ==
    /\ <<u, o>> \in started /\ Tell(u, [kind |-> "finished", op |-> o]) /\ OnlyServer

-----------------------------------------------------------------------------
Alive == ended = "no"

ApiCall ==
    \/ \E u \in Users : LogIn(u)
    \/ LogOut \/ ForceUpdate \/ GetMembers
    \/ \E o \in OpIDs : Decrypt(o)
    \/ \E s \in UserSetIDs : MakeUserSet(s)

\* Posting and receiving, as every thread does.
Exchange(t) ==
    (SendCode(t) \/ TakeTicket(t) \/ EndWait(t) \/ SendData(t) \/ RecvCode(t) \/ RecvData(t))
    /\ UNCHANGED <<calls, clientVars, serverVars>>

HandleUpdate(a) == \/ Updated(a) \/ HandleAdded(a) \/ HandleTask(a) \/ HandleFinished(a)
                   \/ AllHandled(a)

MainStep ==
    \/ Exchange(Main) \/ HandleUpdate(Main)
    \/ LoggedIn \/ LoggedOut \/ Unload \/ Decrypted \/ UserSetMade \/ GotMembers
    \/ (Move \/ Moved \/ Reset) /\ UNCHANGED <<calls, clientVars, serverVars>>

WorkerStep(w) ==
    \/ Exchange(w)
    \/ RequestParticipance(w) \/ ParticipanceAnswered(w) \/ Participate(w) \/ PartAnswered(w)

QueueStep ==
    \/ (QueueTest \/ SendUpdate \/ RecvCode(Queue) \/ RecvData(Queue) \/ MovedFromLooks)
       /\ UNCHANGED <<calls, clientVars, serverVars>>
    \/ HandleUpdate(Queue)

Untimed == MainStep \/ QueueStep \/ ServerAnswers \/ \E w \in Workers : WorkerStep(w)

Timer == InTime /\ (Tick \/ MovedFromWakes) /\ UNCHANGED <<calls, clientVars, serverVars>>

Others == \E u \in Users :
    \/ \E s \in UserSetIDs : AddMember(u, s)
    \/ \E o \in OpIDs : LookUp(u, o) \/ AskForPart(u, o) \/ FinishDecryption(u, o)

Next ==
    /\ Alive
    /\ \/ (ApiCall \/ Untimed \/ Others) /\ Delay(FALSE)
       \/ Timer /\ Delay(TRUE)

\* Threads run, the server answers, and the timer fires.  Nobody has to call.
Fairness ==
    /\ WF_vars(Alive /\ MainStep /\ Delay(FALSE))
    /\ WF_vars(Alive /\ QueueStep /\ Delay(FALSE))
    /\ WF_vars(Alive /\ ServerAnswers /\ Delay(FALSE))
    /\ WF_vars(Alive /\ Timer /\ Delay(TRUE))
    /\ \A w \in Workers : WF_vars(Alive /\ WorkerStep(w) /\ Delay(FALSE))

Spec == Init /\ [][Next]_vars
FairSpec == Spec /\ Fairness
=============================================================================
