------------------------ MODULE ConnectedClientHandler ------------------------
(***************************************************************************)
(* The request handlers of connected clients.  The server runs one thread  *)
(* per connection; each user has one connection, so a thread is named by   *)
(* its user.  A step is what a thread does under one mutex, or one turn of *)
(* a loop that takes the UpdateManager's mutex in every turn: between two  *)
(* steps of a handler the other threads run.                               *)
(*                                                                         *)
(* The clients are the environment.  They use the server as the client API *)
(* does: a client decrypts under usersets it owns, asks to participate     *)
(* once for every lookup it is told of, and sends one part for every task, *)
(* for the layer it was asked for.  They may do so in any order, and late. *)
(***************************************************************************)
EXTENDS DecryptionsManager, UpdateManager

CONSTANTS
    Strangers,  \* names with no account, which a request may mention
    Plans,      \* the usersets clients ask for
    Stored,     \* the usersets in storage when the server starts
    MaxDisconnects  \* how many times users may log out or lose a connection

VARIABLES
    usersets,   \* storage: userset ID -> UserSetInfo, or Absent
    pc,         \* where each thread is
    frame,      \* the local variables of each thread's handler
    reply,      \* the response it is going to send
    client,     \* what each client remembers
    disconnects \* logouts and lost connections so far

vars == <<prep, collected, allOpIDs, team, updates,
          usersets, pc, frame, reply, client, disconnects>>

-----------------------------------------------------------------------------
\* A MakeUserSetRequest: owners apart from the requester, regular members.
Plan == [owners : SUBSET (Users \cup Strangers),
         reg_members : SUBSET (Users \cup Strangers),
         owners_threshold : Nat, reg_members_threshold : Nat]

ASSUME PlansAssumption == Plans \subseteq Plan

ASSUME StoredAssumption == Stored \in [UserSetIDs -> UserSetInfo \cup {Absent}]

ASSUME DisconnectsAssumption == MaxDisconnects \in Nat

\* par_*, snd_*: DecryptParticipate and SendDecryptionPart requests.
Locations == {"idle", "mk_notify", "dec_prep", "dec_lookup", "par_find",
              "par_reg", "par_tell", "snd_find", "snd_reg", "finish", "reply"}

Frame == [op : OpIDs \cup {Absent}, userset : UserSetIDs \cup {Absent},
          part : Part \cup {Absent}, todo : MemberLists,
          opPrepRecord : PrepareRecord \cup {Absent},
          opCollRecord : CollectedRecord \cup {Absent}]

Nobody == [owners |-> {}, reg_members |-> {}]

EmptyFrame == [op |-> Absent, userset |-> Absent, part |-> Absent,
               todo |-> Nobody, opPrepRecord |-> Absent,
               opCollRecord |-> Absent]

NoReply == [kind |-> "None"]
ErrorResponse == [kind |-> "Error"]
SendDecryptionPartResponse == [kind |-> "Ack"]
MakeUserSetResponse(s) == [kind |-> "UserSet", userset |-> s]
GetUserSetsResponse(ss) == [kind |-> "UserSets", usersets |-> ss]
DecryptResponse(o) == [kind |-> "Operation", op |-> o]
UpdatesReply(r) == [kind |-> "Updates", updates |-> r]
ParticipateResponse(o, q) == [kind |-> "Participate", op |-> o, status |-> q]

Reply == {NoReply, ErrorResponse, SendDecryptionPartResponse}
         \cup [kind : {"UserSet"}, userset : UserSetIDs]
         \cup [kind : {"UserSets"}, usersets : SUBSET UserSetIDs]
         \cup [kind : {"Operation"}, op : OpIDs]
         \cup [kind : {"Updates"}, updates : UpdateResponse]
         \cup [kind : {"Participate"}, op : OpIDs, status : PartRequirement]

\* A participate thread of a client, with what it was told to compute.
Task == [op : OpIDs, shards_ids : SUBSET ShardIDs, layer : Layers]

\* profile: usersets whose key shards are stored; knownOwned: usersets the
\* client was told its user owns; lookups: request_participance threads;
\* pendingParticipances: the layer asked for; tasks: participate threads;
\* pendingDecryptions, results: own operations, finished ones.
ClientState ==
    [profile : SUBSET UserSetIDs, knownOwned : SUBSET UserSetIDs,
     lookups : SUBSET OpIDs,
     pendingParticipances : [OpIDs -> {"None", "RegPart", "OwnerPart"}],
     tasks : SUBSET Task,
     pendingDecryptions : SUBSET OpIDs, results : SUBSET Finished]

TypeOK ==
    /\ DMTypeOK
    /\ UMTypeOK
    /\ usersets \in [UserSetIDs -> UserSetInfo \cup {Absent}]
    /\ pc \in [Users -> Locations]
    /\ frame \in [Users -> Frame]
    /\ reply \in [Users -> Reply]
    /\ client \in [Users -> ClientState]
    /\ disconnects \in 0..MaxDisconnects

UserOwns(u, s) == usersets[s] # Absent /\ u \in usersets[s].owners

MembersOf(s) == usersets[s].owners \cup usersets[s].reg_members

GetUserSets(u) == {s \in UserSetIDs : UserOwns(u, s)}

Init ==
    /\ DMInit
    /\ UMInit
    /\ usersets = Stored
    /\ pc = [u \in Users |-> "idle"]
    /\ frame = [u \in Users |-> EmptyFrame]
    /\ reply = [u \in Users |-> NoReply]
    /\ client = [u \in Users |->
           [profile |-> {s \in UserSetIDs : usersets[s] # Absent /\ u \in MembersOf(s)},
            knownOwned |-> GetUserSets(u), lookups |-> {},
            pendingParticipances |-> [o \in OpIDs |-> "None"], tasks |-> {},
            pendingDecryptions |-> {}, results |-> {}]]
    /\ disconnects = 0

-----------------------------------------------------------------------------
\* Common endings of a step of u's handler.

Goto(u, l) == pc' = [pc EXCEPT ![u] = l]

\* The handler has its response: it sends it next.
Respond(u, r) == Goto(u, "reply") /\ reply' = [reply EXCEPT ![u] = r]

\* A loop over owners and then regular members: m is the member of this turn.
Turn(u, list, m) ==
    /\ m \in frame[u].todo[list]
    /\ list = "reg_members" => frame[u].todo.owners = {}
    /\ frame' = [frame EXCEPT ![u].todo[list] = @ \ {m}]
    /\ Goto(u, IF frame'[u].todo = Nobody THEN "reply" ELSE pc[u])
    /\ UNCHANGED reply

\* Where a handler goes that has a loop over todo before its response.
Loop(todo, l) == IF todo = Nobody THEN "reply" ELSE l

-----------------------------------------------------------------------------
\* MakeUserSetRequest (make_userset).  Storage runs new_userset under its mutex.

RejectUserSet(u) ==
    /\ pc[u] = "idle"
    /\ \E p \in Plans :
          /\ u \notin p.owners \cup p.reg_members
          /\ ~(p.owners \cup p.reg_members \subseteq Users)
    /\ Respond(u, ErrorResponse)
    /\ UNCHANGED <<dmVars, updates, usersets, frame, client, disconnects>>

StoreUserSet(u) ==
    /\ pc[u] = "idle"
    /\ \E p \in Plans, s \in UserSetIDs :
          /\ u \notin p.owners \cup p.reg_members
          /\ p.owners \cup p.reg_members \subseteq Users
          /\ usersets[s] = Absent
          /\ usersets' = [usersets EXCEPT ![s] =
                 [owners |-> p.owners \cup {u}, reg_members |-> p.reg_members,
                  owners_threshold |-> p.owners_threshold,
                  reg_members_threshold |-> p.reg_members_threshold]]
          /\ LET todo == [owners |-> p.owners, reg_members |-> p.reg_members]
             IN  /\ frame' = [frame EXCEPT ![u].userset = s, ![u].todo = todo]
                 /\ Goto(u, Loop(todo, "mk_notify"))
          /\ reply' = [reply EXCEPT ![u] = MakeUserSetResponse(s)]
    /\ UNCHANGED <<dmVars, updates, client, disconnects>>

\* One turn of the loops that register the new userset for its members.
NotifyMember(u) ==
    /\ pc[u] = "mk_notify"
    /\ \E m \in Users :
          \/ Turn(u, "owners", m) /\ RegisterOwner(m, frame[u].userset)
          \/ Turn(u, "reg_members", m) /\ RegisterRegMember(m, frame[u].userset)
    /\ UNCHANGED <<dmVars, usersets, client, disconnects>>

\* GetUserSetsRequest
SendUserSets(u) ==
    /\ pc[u] = "idle"
    /\ Respond(u, GetUserSetsResponse(GetUserSets(u)))
    /\ UNCHANGED <<dmVars, updates, usersets, frame, client, disconnects>>

-----------------------------------------------------------------------------
\* DecryptRequest (initiate_decryption).

NeedsNobody(s) ==
    /\ usersets[s].owners_threshold = 0
    /\ usersets[s].reg_members_threshold = 0

\* The thread gets a fresh operation ID (the bound is OpIDs).
InitiateDecryption(u) ==
    /\ pc[u] = "idle"
    /\ \E s \in client[u].knownOwned, o \in OpIDs :
          /\ NewOperation(o)
          /\ \/ /\ NeedsNobody(s)
                /\ frame' = [frame EXCEPT ![u].op = o, ![u].userset = s,
                       ![u].opCollRecord = NewCollectedRecord(u, s, 0, 0)]
                /\ Goto(u, "finish")
             \/ /\ ~NeedsNobody(s)
                /\ frame' = [frame EXCEPT ![u].op = o, ![u].userset = s]
                /\ Goto(u, "dec_prep")
          /\ reply' = [reply EXCEPT ![u] = DecryptResponse(o)]
    /\ UNCHANGED <<updates, usersets, client, disconnects>>

PrepareDecryption(u) ==
    /\ pc[u] = "dec_prep"
    /\ LET s == frame[u].userset
           info == usersets[s]
           todo == [owners |-> info.owners \ {u},
                    reg_members |-> info.reg_members \ {u}]
       IN  /\ PrepareOperation(frame[u].op, u, s,
                  info.owners_threshold, info.reg_members_threshold)
           /\ frame' = [frame EXCEPT ![u].todo = todo]
           /\ Goto(u, Loop(todo, "dec_lookup"))
    /\ UNCHANGED <<updates, usersets, reply, client, disconnects>>

LookupMember(u) ==
    /\ pc[u] = "dec_lookup"
    /\ \E m \in Users :
          /\ Turn(u, "owners", m) \/ Turn(u, "reg_members", m)
          /\ RegisterLookup(m, frame[u].op)
    /\ UNCHANGED <<dmVars, usersets, client, disconnects>>

\* UpdateRequest
SendUpdates(u) ==
    /\ pc[u] = "idle"
    /\ RetrieveUpdates(u)
    /\ Respond(u, UpdatesReply(updates[u]))
    /\ UNCHANGED <<dmVars, usersets, frame, client, disconnects>>

-----------------------------------------------------------------------------
\* get_operation_userset looks in _prep and then, having released that mutex,
\* in _collected.  The caller's two locations are given by find and found.

FindPrepared(u, o, fr, find, found) ==
    \/ /\ prep[o] # Absent
       /\ frame' = [frame EXCEPT ![u] = [fr EXCEPT !.userset = prep[o].userset]]
       /\ Goto(u, found)
    \/ /\ prep[o] = Absent
       /\ frame' = [frame EXCEPT ![u] = fr]
       /\ Goto(u, find)

FindCollected(u, find, found) ==
    LET o == frame[u].op
    IN  /\ pc[u] = find
        /\ \/ /\ collected[o] # Absent
              /\ frame' = [frame EXCEPT ![u].userset = collected[o].userset]
              /\ Goto(u, found)
              /\ UNCHANGED reply
           \/ /\ collected[o] = Absent
              /\ Respond(u, ErrorResponse)
              /\ UNCHANGED frame
        /\ UNCHANGED <<dmVars, updates, usersets, client, disconnects>>

\* DecryptParticipateRequest: the client's thread for this lookup sends it.
Participate(u) ==
    /\ pc[u] = "idle"
    /\ \E o \in client[u].lookups :
          /\ client' = [client EXCEPT ![u].lookups = @ \ {o}]
          /\ FindPrepared(u, o, [EmptyFrame EXCEPT !.op = o], "par_find", "par_reg")
    /\ UNCHANGED <<dmVars, updates, usersets, reply, disconnects>>

ParticipateFindCollected(u) == FindCollected(u, "par_find", "par_reg")

\* Another thread may be inside new_operation: it holds _mtxAllOpIDs, which
\* register_participant reads _allOpIDs without.
MayInsertOpID(v) ==
    pc[v] = "idle" /\ client[v].knownOwned # {} /\ allOpIDs # OpIDs

\* register_participant, the operation being prepared no more: NotRequired, as
\* its ID is in _allOpIDs; a search that races with an insertion may miss it.
RegisterTooLate(u) ==
    LET o == frame[u].op
    IN  /\ pc[u] = "par_reg"
        /\ prep[o] = Absent
        /\ \/ o \in allOpIDs /\ Respond(u, ParticipateResponse(o, "NotRequired"))
           \/ /\ \E v \in Users \ {u} : MayInsertOpID(v)
              /\ Respond(u, ErrorResponse)
        /\ UNCHANGED <<dmVars, updates, usersets, frame, client, disconnects>>

RegisterParticipant(u) ==
    LET o == frame[u].op
        isOwner == UserOwns(u, frame[u].userset)
        requirement == Requirement(prep[o], isOwner)
        r == WithParticipant(prep[o], u, requirement)
    IN  /\ pc[u] = "par_reg"
        /\ prep[o] # Absent
        /\ reply' = [reply EXCEPT ![u] = ParticipateResponse(o, requirement)]
        /\ \/ /\ requirement = "NotRequired"
              /\ Goto(u, "reply")
              /\ UNCHANGED <<dmVars, frame>>
           \/ /\ AddParticipant(o, u, isOwner)
              /\ Goto(u, "reply")
              /\ UNCHANGED frame
           \/ /\ AddLastParticipant(o, u, isOwner)
              /\ frame' = [frame EXCEPT ![u].opPrepRecord = r,
                     ![u].todo = [owners |-> r.owners_found,
                                  reg_members |-> r.reg_members_found]]
              /\ Goto(u, "par_tell")
        /\ UNCHANGED <<updates, usersets, client, disconnects>>

\* One turn of the loops of continue_operation.
TellParticipant(u) ==
    LET r == frame[u].opPrepRecord
        Shards(found) == ShardsOf(found \cup {r.requester}, r.userset)
    IN  /\ pc[u] = "par_tell"
        /\ \E m \in Users :
              \/ /\ Turn(u, "owners", m)
                 /\ RegisterDecryptionParticipating(m, frame[u].op, Shards(r.owners_found))
              \/ /\ Turn(u, "reg_members", m)
                 /\ RegisterDecryptionParticipating(m, frame[u].op, Shards(r.reg_members_found))
        /\ UNCHANGED <<dmVars, usersets, client, disconnects>>

-----------------------------------------------------------------------------
\* SendDecryptionPartRequest: the client's participate thread sends its part.
SendPart(u) ==
    /\ pc[u] = "idle"
    /\ \E t \in client[u].tasks :
          LET part == [by |-> u, layer |-> t.layer, ids |-> t.shards_ids]
          IN  /\ client' = [client EXCEPT ![u].tasks = @ \ {t}]
              /\ FindPrepared(u, t.op, [EmptyFrame EXCEPT !.op = t.op, !.part = part],
                     "snd_find", "snd_reg")
    /\ UNCHANGED <<dmVars, updates, usersets, reply, disconnects>>

SendPartFindCollected(u) == FindCollected(u, "snd_find", "snd_reg")

\* register_part
RegisterPart(u) ==
    LET o == frame[u].op
        isOwner == UserOwns(u, frame[u].userset)
        r == WithPart(collected[o], frame[u].part, isOwner)
    IN  /\ pc[u] = "snd_reg"
        /\ collected[o] # Absent
        /\ reply' = [reply EXCEPT ![u] = SendDecryptionPartResponse]
        /\ \/ /\ AddPart(o, frame[u].part, isOwner)
              /\ Goto(u, "reply")
              /\ UNCHANGED frame
           \/ /\ AddLastPart(o, frame[u].part, isOwner)
              /\ frame' = [frame EXCEPT ![u].opCollRecord = r]
              /\ Goto(u, "finish")
        /\ UNCHANGED <<updates, usersets, client, disconnects>>

\* Fault: the requester's shard ID is not added.
LayerShardsOfParts(parts, requester, s) ==
    [i \in 1..Len(parts) |-> <<parts[i].by, s>>]

\* The shard IDs of a layer: those of its parts, then the requester's.
LayerShards(parts, requester, s) ==
    Append([i \in 1..Len(parts) |-> <<parts[i].by, s>>], <<requester, s>>)

\* finish_operation
FinishOperation(u) ==
    LET r == frame[u].opCollRecord
    IN  /\ pc[u] = "finish"
        /\ RegisterFinishedDecryption(r.requester,
               [op |-> frame[u].op,
                reg_layer_parts |-> r.reg_layer_parts,
                owner_layer_parts |-> r.owner_layer_parts,
                reg_layer_shards_ids |->
                    LayerShards(r.reg_layer_parts, r.requester, r.userset),
                owner_layer_shards_ids |->
                    LayerShards(r.owner_layer_parts, r.requester, r.userset)])
        /\ Goto(u, "reply")
        /\ UNCHANGED <<dmVars, usersets, frame, reply, client, disconnects>>

-----------------------------------------------------------------------------
LayerOf(requirement) == IF requirement = "OwnerPart" THEN "owner" ELSE "reg"

\* What the client does with a response.  Of an update: a participate thread
\* takes the layer it was asked for out of pendingParticipances, and gives up
\* when there is none, or when the user has no key shard with one of the given
\* shard IDs; a finished decryption that is not pending is dropped.
Consume(c, u, r) ==
    CASE r.kind = "UserSet" ->
           [c EXCEPT !.profile = @ \cup {r.userset}, !.knownOwned = @ \cup {r.userset}]
      [] r.kind = "UserSets" -> [c EXCEPT !.knownOwned = @ \cup r.usersets]
      [] r.kind = "Operation" -> [c EXCEPT !.pendingDecryptions = @ \cup {r.op}]
      [] r.kind = "Participate" ->
           IF r.status = "NotRequired" THEN c
           ELSE [c EXCEPT !.pendingParticipances[r.op] = r.status]
      [] r.kind = "Updates" ->
           LET up == r.updates
               profile == c.profile \cup up.added_as_owner \cup up.added_as_reg_member
               mine == {f \in up.finished_decryptions : f.op \in c.pendingDecryptions}
               asked == {t \in up.to_decrypt : c.pendingParticipances[t.op] # "None"}
               able == {t \in asked : \E s \in profile : <<u, s>> \in t.shards_ids}
           IN  [c EXCEPT
                  !.profile = profile,
                  !.knownOwned = @ \cup up.added_as_owner,
                  !.lookups = @ \cup up.on_lookup,
                  !.pendingParticipances = [o \in OpIDs |->
                      IF \E t \in asked : t.op = o THEN "None" ELSE @[o]],
                  !.tasks = @ \cup
                      {[op |-> t.op, shards_ids |-> t.shards_ids,
                        layer |-> LayerOf(c.pendingParticipances[t.op])] : t \in able},
                  !.pendingDecryptions = @ \ {f.op : f \in mine},
                  !.results = @ \cup mine]
      [] OTHER -> c

\* send_response succeeds, and the client reads the response.
SendResponse(u) ==
    /\ pc[u] = "reply"
    /\ client' = [client EXCEPT ![u] = Consume(@, u, reply[u])]
    /\ Goto(u, "idle")
    /\ frame' = [frame EXCEPT ![u] = EmptyFrame]
    /\ reply' = [reply EXCEPT ![u] = NoReply]
    /\ UNCHANGED <<dmVars, updates, usersets, disconnects>>

\* send_response throws: the connection is lost and the thread ends.  The user
\* logs in again, which starts a new thread.
LoseConnection(u) ==
    /\ pc[u] = "reply"
    /\ disconnects < MaxDisconnects
    /\ disconnects' = disconnects + 1
    /\ Goto(u, "idle")
    /\ frame' = [frame EXCEPT ![u] = EmptyFrame]
    /\ reply' = [reply EXCEPT ![u] = NoReply]
    /\ UNCHANGED <<dmVars, updates, usersets, client>>

\* LogoutRequest: the thread answers and ends, the client forgets its pending
\* decryptions, and the user logs in again later.
LogOut(u) ==
    /\ pc[u] = "idle"
    /\ disconnects < MaxDisconnects
    /\ disconnects' = disconnects + 1
    /\ client' = [client EXCEPT ![u].pendingDecryptions = {}]
    /\ UNCHANGED <<dmVars, updates, usersets, pc, frame, reply>>

-----------------------------------------------------------------------------
\* A request reaches u's thread, which takes its first step.
Request(u) ==
    \/ RejectUserSet(u) \/ StoreUserSet(u) \/ SendUserSets(u)
    \/ InitiateDecryption(u) \/ SendUpdates(u) \/ Participate(u) \/ SendPart(u)

\* The later steps of a request.
Handle(u) ==
    \/ NotifyMember(u) \/ PrepareDecryption(u) \/ LookupMember(u)
    \/ ParticipateFindCollected(u) \/ RegisterTooLate(u)
    \/ RegisterParticipant(u) \/ TellParticipant(u)
    \/ SendPartFindCollected(u) \/ RegisterPart(u) \/ FinishOperation(u)
    \/ SendResponse(u)

Next == \E u \in Users : Request(u) \/ Handle(u) \/ LoseConnection(u) \/ LogOut(u)

Spec == Init /\ [][Next]_vars
==============================================================================
