---------------------- MODULE ConnectedClientHandlerProofs ----------------------
(***************************************************************************)
(* Type correctness of the request handlers, for any users, usersets,      *)
(* operations and plans.                                                   *)
(***************************************************************************)
EXTENDS ServerProperties, TLAPS

InStorage(s) == s \in UserSetIDs /\ usersets[s] # Absent

\* What a handler's locals hold at each of its locations.
LocalsOK(u) ==
    /\ pc[u] \notin {"idle", "mk_notify", "reply"} => frame[u].op \in OpIDs
    /\ pc[u] \in {"mk_notify", "dec_prep", "par_reg", "snd_reg"} =>
          frame[u].userset \in UserSetIDs
    /\ pc[u] \in {"mk_notify", "dec_prep"} => InStorage(frame[u].userset)
    /\ pc[u] \in {"snd_find", "snd_reg"} => frame[u].part \in Part
    /\ pc[u] = "par_tell" => frame[u].opPrepRecord \in PrepareRecord
    /\ pc[u] = "finish" => frame[u].opCollRecord \in CollectedRecord

\* Every userset a user is told to own, or is being told, is in storage.
KnownUserSetsStored(u) ==
    /\ \A s \in client[u].knownOwned \cup updates[u].added_as_owner : InStorage(s)
    /\ reply[u].kind = "UserSet" => InStorage(reply[u].userset)
    /\ reply[u].kind = "UserSets" => \A s \in reply[u].usersets : InStorage(s)
    /\ reply[u].kind = "Updates" =>
          \A s \in reply[u].updates.added_as_owner : InStorage(s)

\* The inductive invariant.
IInv ==
    /\ TypeOK
    /\ \A u \in Users : LocalsOK(u) /\ KnownUserSetsStored(u)

-----------------------------------------------------------------------------
\* The initial states satisfy the inductive invariant.
LEMMA InitIInv == Init => IInv
<1> SUFFICES ASSUME Init PROVE IInv
  OBVIOUS
<1> USE DEF Init, DMInit, UMInit
<1>1. DMTypeOK /\ UMTypeOK
  BY DEF DMTypeOK, UMTypeOK, NoUpdates, UpdateResponse
<1>2. usersets \in [UserSetIDs -> UserSetInfo \cup {Absent}]
  BY StoredAssumption
<1>3. pc \in [Users -> Locations] /\ reply \in [Users -> Reply]
  BY DEF Locations, Reply
<1>4. frame \in [Users -> Frame]
  BY DEF Frame, EmptyFrame, Nobody, MemberLists
<1>5. client \in [Users -> ClientState]
  BY DEF ClientState, GetUserSets
<1>6. disconnects \in 0..MaxDisconnects
  BY DisconnectsAssumption
<1>7. TypeOK
  BY ONLY <1>1, <1>2, <1>3, <1>4, <1>5, <1>6 DEF TypeOK
<1>8. \A u \in Users : LocalsOK(u) /\ KnownUserSetsStored(u)
  BY DEF LocalsOK, KnownUserSetsStored, InStorage, GetUserSets, UserOwns,
         NoUpdates, NoReply
<1> QED
  BY <1>7, <1>8 DEF IInv

-----------------------------------------------------------------------------
\* Lemmas about what the actions are made of.

\* A turn of a loop takes one member off the list and may end the loop.
LEMMA TurnTypes ==
    ASSUME IInv, NEW u \in Users, NEW m \in Users,
           NEW list \in {"owners", "reg_members"}, Turn(u, list, m)
    PROVE  /\ frame' \in [Users -> Frame]
           /\ pc' \in [Users -> Locations]
           /\ reply' = reply
           /\ \A v \in Users : pc'[v] \in {pc[v], "reply"}
           /\ \A v \in Users : frame'[v] = [frame[v] EXCEPT !.todo = frame'[v].todo]
<1>1. frame[u] \in Frame /\ frame[u].todo \in MemberLists
  BY DEF IInv, TypeOK, Frame
<1>2. [frame[u].todo EXCEPT ![list] = @ \ {m}] \in MemberLists
  BY <1>1 DEF MemberLists
<1>3. ASSUME NEW t \in MemberLists PROVE [frame[u] EXCEPT !.todo = t] \in Frame
  BY <1>1 DEF Frame
<1>4. frame' \in [Users -> Frame]
  BY <1>2, <1>3 DEF Turn, IInv, TypeOK
<1>5. /\ pc' \in [Users -> Locations]
      /\ \A v \in Users : pc'[v] \in {pc[v], "reply"}
  BY DEF Turn, Goto, IInv, TypeOK, Locations
<1>6. \A v \in Users : frame'[v] = [frame[v] EXCEPT !.todo = frame'[v].todo]
  BY <1>1, <1>2, <1>3 DEF Turn, IInv, TypeOK, Frame
<1> QED
  BY <1>4, <1>5, <1>6 DEF Turn

\* An entry of _updates stays an update packet whatever is registered in it.
LEMMA RegisterTypes ==
    ASSUME UMTypeOK, NEW u \in Users,
           \/ \E s \in UserSetIDs : RegisterOwner(u, s) \/ RegisterRegMember(u, s)
           \/ \E o \in OpIDs : RegisterLookup(u, o)
           \/ \E o \in OpIDs, ids \in SUBSET ShardIDs :
                 RegisterDecryptionParticipating(u, o, ids)
           \/ \E f \in Finished : RegisterFinishedDecryption(u, f)
    PROVE  UMTypeOK'
<1>1. updates[u] \in UpdateResponse
  BY DEF UMTypeOK
<1>2. CASE \E s \in UserSetIDs : RegisterOwner(u, s)
  <2>1. PICK s \in UserSetIDs : RegisterOwner(u, s)
    BY <1>2
  <2>2. [updates[u] EXCEPT !.added_as_owner = @ \cup {s}] \in UpdateResponse
    BY <1>1 DEF UpdateResponse
  <2> QED
    BY <2>1, <2>2 DEF RegisterOwner, UMTypeOK
<1>3. CASE \E s \in UserSetIDs : RegisterRegMember(u, s)
  <2>1. PICK s \in UserSetIDs : RegisterRegMember(u, s)
    BY <1>3
  <2>2. [updates[u] EXCEPT !.added_as_reg_member = @ \cup {s}] \in UpdateResponse
    BY <1>1 DEF UpdateResponse
  <2> QED
    BY <2>1, <2>2 DEF RegisterRegMember, UMTypeOK
<1>4. CASE \E o \in OpIDs : RegisterLookup(u, o)
  <2>1. PICK o \in OpIDs : RegisterLookup(u, o)
    BY <1>4
  <2>2. [updates[u] EXCEPT !.on_lookup = @ \cup {o}] \in UpdateResponse
    BY <1>1 DEF UpdateResponse
  <2> QED
    BY <2>1, <2>2 DEF RegisterLookup, UMTypeOK
<1>5. CASE \E o \in OpIDs, ids \in SUBSET ShardIDs :
              RegisterDecryptionParticipating(u, o, ids)
  <2>1. PICK o \in OpIDs, ids \in SUBSET ShardIDs :
              RegisterDecryptionParticipating(u, o, ids)
    BY <1>5
  <2>2. [op |-> o, shards_ids |-> ids] \in ToDecrypt
    BY DEF ToDecrypt
  <2>3. [updates[u] EXCEPT !.to_decrypt = @ \cup {[op |-> o, shards_ids |-> ids]}]
            \in UpdateResponse
    BY <1>1, <2>2 DEF UpdateResponse
  <2> QED
    BY <2>1, <2>3 DEF RegisterDecryptionParticipating, UMTypeOK
<1>6. CASE \E f \in Finished : RegisterFinishedDecryption(u, f)
  <2>1. PICK f \in Finished : RegisterFinishedDecryption(u, f)
    BY <1>6
  <2>2. [updates[u] EXCEPT !.finished_decryptions = @ \cup {f}] \in UpdateResponse
    BY <1>1 DEF UpdateResponse
  <2> QED
    BY <2>1, <2>2 DEF RegisterFinishedDecryption, UMTypeOK
<1> QED
  BY <1>2, <1>3, <1>4, <1>5, <1>6

\* The response a handler has is one of the protocol's.
LEMMA RespondTypes ==
    ASSUME IInv, NEW u \in Users, NEW r \in Reply, Respond(u, r)
    PROVE  /\ pc' \in [Users -> Locations]
           /\ reply' \in [Users -> Reply]
           /\ reply'[u] = r /\ pc'[u] = "reply"
           /\ \A v \in Users \ {u} : reply'[v] = reply[v] /\ pc'[v] = pc[v]
BY DEF Respond, Goto, IInv, TypeOK, Locations

\* What register_participant and register_part make of a record is a record.
LEMMA RequirementTypes ==
    ASSUME NEW r, NEW b PROVE Requirement(r, b) \in PartRequirement
BY DEF Requirement, PartRequirement

LEMMA WithParticipantTypes ==
    ASSUME NEW r \in PrepareRecord, NEW u \in Users, NEW q
    PROVE  WithParticipant(r, u, q) \in PrepareRecord
BY DEF WithParticipant, PrepareRecord

LEMMA NewCollectedRecordTypes ==
    ASSUME NEW u \in Users, NEW s \in UserSetIDs, NEW m \in Nat, NEW n \in Nat
    PROVE  NewCollectedRecord(u, s, m, n) \in CollectedRecord
BY DEF NewCollectedRecord, CollectedRecord

LEMMA WithPartTypes ==
    ASSUME NEW r \in CollectedRecord, NEW p \in Part, NEW b
    PROVE  WithPart(r, p, b) \in CollectedRecord
<1>1. /\ Append(r.owner_layer_parts, p) \in Seq(Part)
      /\ Append(r.reg_layer_parts, p) \in Seq(Part)
  BY DEF CollectedRecord
<1> QED
  BY <1>1 DEF WithPart, CollectedRecord

LEMMA LayerShardsTypes ==
    ASSUME NEW parts \in Seq(Part), NEW u \in Users, NEW s \in UserSetIDs
    PROVE  LayerShards(parts, u, s) \in Seq(ShardIDs)
<1>1. \A i \in 1..Len(parts) : <<parts[i].by, s>> \in ShardIDs
  <2> SUFFICES ASSUME NEW i \in 1..Len(parts) PROVE <<parts[i].by, s>> \in ShardIDs
    OBVIOUS
  <2>1. parts[i] \in Part
    OBVIOUS
  <2> QED
    BY <2>1 DEF Part, ShardIDs
<1>2. [i \in 1..Len(parts) |-> <<parts[i].by, s>>] \in Seq(ShardIDs)
  BY <1>1
<1>3. <<u, s>> \in ShardIDs
  BY DEF ShardIDs
<1> QED
  BY <1>2, <1>3 DEF LayerShards

\* What a client makes of a response.
LEMMA ConsumeTypes ==
    ASSUME NEW c \in ClientState, NEW u \in Users, NEW r \in Reply
    PROVE  Consume(c, u, r) \in ClientState
<1>1. CASE r.kind = "UserSet"
  <2>1. r.userset \in UserSetIDs
    BY <1>1 DEF Reply, NoReply, ErrorResponse, SendDecryptionPartResponse
  <2> QED
    BY <1>1, <2>1 DEF Consume, ClientState
<1>2. CASE r.kind = "UserSets"
  <2>1. r.usersets \in SUBSET UserSetIDs
    BY <1>2 DEF Reply, NoReply, ErrorResponse, SendDecryptionPartResponse
  <2> QED
    BY <1>2, <2>1 DEF Consume, ClientState
<1>3. CASE r.kind = "Operation"
  <2>1. r.op \in OpIDs
    BY <1>3 DEF Reply, NoReply, ErrorResponse, SendDecryptionPartResponse
  <2> QED
    BY <1>3, <2>1 DEF Consume, ClientState
<1>4. CASE r.kind = "Participate"
  <2>1. r.op \in OpIDs /\ r.status \in PartRequirement
    BY <1>4 DEF Reply, NoReply, ErrorResponse, SendDecryptionPartResponse
  <2> QED
    BY <1>4, <2>1 DEF Consume, ClientState, PartRequirement
<1>5. CASE r.kind = "Updates"
  <2> DEFINE up == r.updates
             profile == c.profile \cup up.added_as_owner \cup up.added_as_reg_member
             mine == {f \in up.finished_decryptions : f.op \in c.pendingDecryptions}
             asked == {t \in up.to_decrypt : c.pendingParticipances[t.op] # "None"}
             able == {t \in asked : \E s \in profile : <<u, s>> \in t.shards_ids}
             pending == [o \in OpIDs |->
                 IF \E t \in asked : t.op = o THEN "None" ELSE c.pendingParticipances[o]]
             new == {[op |-> t.op, shards_ids |-> t.shards_ids,
                      layer |-> LayerOf(c.pendingParticipances[t.op])] : t \in able}
  <2>1. up \in UpdateResponse
    BY <1>5 DEF Reply, NoReply, ErrorResponse, SendDecryptionPartResponse
  <2>2. /\ profile \in SUBSET UserSetIDs
        /\ c.knownOwned \cup up.added_as_owner \in SUBSET UserSetIDs
        /\ c.lookups \cup up.on_lookup \in SUBSET OpIDs
        /\ c.pendingDecryptions \ {f.op : f \in mine} \in SUBSET OpIDs
        /\ c.results \cup mine \in SUBSET Finished
    BY <2>1 DEF UpdateResponse, ClientState
  <2>3. pending \in [OpIDs -> {"None", "RegPart", "OwnerPart"}]
    BY DEF ClientState
  <2>4. c.tasks \cup new \in SUBSET Task
    <3>1. ASSUME NEW t \in able
          PROVE  [op |-> t.op, shards_ids |-> t.shards_ids,
                  layer |-> LayerOf(c.pendingParticipances[t.op])] \in Task
      <4>1. t \in ToDecrypt
        BY <2>1 DEF UpdateResponse
      <4> QED
        BY <4>1 DEF ToDecrypt, LayerOf, Task, Layers
    <3> QED
      BY <3>1 DEF ClientState
  <2>5. Consume(c, u, r) =
          [c EXCEPT !.profile = profile, !.knownOwned = @ \cup up.added_as_owner,
                    !.lookups = @ \cup up.on_lookup, !.pendingParticipances = pending,
                    !.tasks = @ \cup new,
                    !.pendingDecryptions = @ \ {f.op : f \in mine},
                    !.results = @ \cup mine]
    BY <1>5 DEF Consume
  <2> HIDE DEF up, profile, mine, pending, new
  <2> QED
    BY <2>2, <2>3, <2>4, <2>5 DEF ClientState
<1> QED
  BY <1>1, <1>2, <1>3, <1>4, <1>5 DEF Consume

\* ... and which usersets it comes to know.
LEMMA ConsumeKnownOwned ==
    ASSUME NEW c \in ClientState, NEW u \in Users, NEW r \in Reply
    PROVE  Consume(c, u, r).knownOwned =
             c.knownOwned \cup (CASE r.kind = "UserSet" -> {r.userset}
                                  [] r.kind = "UserSets" -> r.usersets
                                  [] r.kind = "Updates" -> r.updates.added_as_owner
                                  [] OTHER -> {})
BY DEF Consume, ClientState

-----------------------------------------------------------------------------
\* Each action preserves the inductive invariant.

LEMMA RejectUserSetStep ==
    ASSUME IInv, NEW u \in Users, RejectUserSet(u) PROVE IInv'
<1>1. ErrorResponse \in Reply
  BY DEF Reply
<1>2. Respond(u, ErrorResponse)
  BY DEF RejectUserSet
<1>3. /\ pc' \in [Users -> Locations] /\ reply' \in [Users -> Reply]
      /\ reply'[u] = ErrorResponse /\ pc'[u] = "reply"
      /\ \A v \in Users \ {u} : reply'[v] = reply[v] /\ pc'[v] = pc[v]
  BY <1>1, <1>2, RespondTypes
<1>4. TypeOK'
  BY <1>3 DEF RejectUserSet, IInv, TypeOK, DMTypeOK, UMTypeOK, dmVars
<1>5. \A v \in Users : LocalsOK(v)'
  BY <1>3 DEF RejectUserSet, IInv, LocalsOK, InStorage
<1>6. \A v \in Users : KnownUserSetsStored(v)'
  BY <1>3 DEF RejectUserSet, IInv, KnownUserSetsStored, InStorage, ErrorResponse
<1> QED
  BY <1>4, <1>5, <1>6 DEF IInv

LEMMA StoreUserSetStep ==
    ASSUME IInv, NEW u \in Users, StoreUserSet(u) PROVE IInv'
<1>1. PICK p \in Plans, s \in UserSetIDs :
          LET todo == [owners |-> p.owners, reg_members |-> p.reg_members] IN
          /\ p.owners \cup p.reg_members \subseteq Users
          /\ usersets[s] = Absent
          /\ usersets' = [usersets EXCEPT ![s] =
                 [owners |-> p.owners \cup {u}, reg_members |-> p.reg_members,
                  owners_threshold |-> p.owners_threshold,
                  reg_members_threshold |-> p.reg_members_threshold]]
          /\ frame' = [frame EXCEPT ![u].userset = s, ![u].todo = todo]
          /\ Goto(u, Loop(todo, "mk_notify"))
          /\ reply' = [reply EXCEPT ![u] = MakeUserSetResponse(s)]
  BY DEF StoreUserSet
<1>2. p \in Plan
  BY PlansAssumption
<1>3. usersets'[s] \in UserSetInfo /\ usersets'[s] # Absent
  BY <1>1, <1>2, AbsentAssumption DEF Plan, UserSetInfo, IInv, TypeOK
<1>4. usersets' \in [UserSetIDs -> UserSetInfo \cup {Absent}]
  BY <1>1, <1>3 DEF IInv, TypeOK
<1>5. [frame[u] EXCEPT !.userset = s,
           !.todo = [owners |-> p.owners, reg_members |-> p.reg_members]] \in Frame
  <2>1. [owners |-> p.owners, reg_members |-> p.reg_members] \in MemberLists
    BY <1>1 DEF MemberLists
  <2>2. frame[u] \in Frame
    BY DEF IInv, TypeOK
  <2> QED
    BY <2>1, <2>2 DEF Frame
<1>6. frame' \in [Users -> Frame]
  BY <1>1, <1>5 DEF IInv, TypeOK
<1>7. pc' \in [Users -> Locations] /\ pc'[u] \in {"mk_notify", "reply"}
  BY <1>1 DEF Goto, Loop, IInv, TypeOK, Locations
<1>8. reply' \in [Users -> Reply]
  BY <1>1 DEF MakeUserSetResponse, Reply, IInv, TypeOK
<1>9. TypeOK'
  BY <1>4, <1>6, <1>7, <1>8
     DEF StoreUserSet, IInv, TypeOK, DMTypeOK, UMTypeOK, dmVars
<1>10. \A t \in UserSetIDs : InStorage(t) => InStorage(t)'
  BY <1>1, <1>3 DEF InStorage, IInv, TypeOK
<1>11. InStorage(s)'
  BY <1>3 DEF InStorage
<1>12. frame'[u].userset = s
  BY <1>1 DEF IInv, TypeOK, Frame
<1>13. \A v \in Users : LocalsOK(v)'
  BY <1>1, <1>7, <1>10, <1>11, <1>12 DEF LocalsOK, Goto, IInv, TypeOK
<1>14. \A v \in Users : KnownUserSetsStored(v)'
  <2>1. \A v \in Users \ {u} : reply'[v] = reply[v]
    BY <1>1 DEF IInv, TypeOK
  <2>2. reply'[u] = MakeUserSetResponse(s)
    BY <1>1 DEF IInv, TypeOK
  <2>3. updates' = updates /\ client' = client
    BY DEF StoreUserSet
  <2>4. \A t : InStorage(t) => InStorage(t)'
    BY <1>10 DEF InStorage
  <2> QED
    BY <2>1, <2>2, <2>3, <2>4, <1>11
       DEF IInv, KnownUserSetsStored, MakeUserSetResponse
<1> QED
  BY <1>9, <1>13, <1>14 DEF IInv

LEMMA NotifyMemberStep ==
    ASSUME IInv, NEW u \in Users, NotifyMember(u) PROVE IInv'
<1>1. PICK m \in Users :
          \/ Turn(u, "owners", m) /\ RegisterOwner(m, frame[u].userset)
          \/ Turn(u, "reg_members", m) /\ RegisterRegMember(m, frame[u].userset)
  BY DEF NotifyMember
<1>2. InStorage(frame[u].userset)
  BY DEF NotifyMember, IInv, LocalsOK
<1>3. PICK list \in {"owners", "reg_members"} : Turn(u, list, m)
  BY <1>1
<1>4. /\ frame' \in [Users -> Frame]
      /\ pc' \in [Users -> Locations]
      /\ reply' = reply
      /\ \A v \in Users : pc'[v] \in {pc[v], "reply"}
      /\ \A v \in Users : frame'[v] = [frame[v] EXCEPT !.todo = frame'[v].todo]
  BY <1>3, TurnTypes
<1>5. UMTypeOK'
  BY <1>1, <1>2, RegisterTypes DEF IInv, TypeOK, InStorage
<1>6. TypeOK'
  BY <1>4, <1>5 DEF NotifyMember, IInv, TypeOK, DMTypeOK, dmVars
<1>7. \A v \in Users : LocalsOK(v)'
  BY <1>4 DEF NotifyMember, IInv, TypeOK, Frame, LocalsOK, InStorage
<1>8. \A v \in Users :
          updates'[v].added_as_owner \subseteq
              updates[v].added_as_owner \cup {frame[u].userset}
  BY <1>1 DEF RegisterOwner, RegisterRegMember, IInv, TypeOK, UMTypeOK, UpdateResponse
<1>9. \A v \in Users : KnownUserSetsStored(v)'
  BY <1>2, <1>4, <1>8 DEF NotifyMember, IInv, KnownUserSetsStored, InStorage
<1> QED
  BY <1>6, <1>7, <1>9 DEF IInv

LEMMA SendUserSetsStep ==
    ASSUME IInv, NEW u \in Users, SendUserSets(u) PROVE IInv'
<1> DEFINE r == GetUserSetsResponse(GetUserSets(u))
<1>1. r \in Reply
  BY DEF GetUserSetsResponse, GetUserSets, Reply
<1>2. Respond(u, r)
  BY DEF SendUserSets
<1>3. /\ pc' \in [Users -> Locations] /\ reply' \in [Users -> Reply]
      /\ reply'[u] = r /\ pc'[u] = "reply"
      /\ \A v \in Users \ {u} : reply'[v] = reply[v] /\ pc'[v] = pc[v]
  BY <1>1, <1>2, RespondTypes
<1>4. TypeOK'
  BY <1>3 DEF SendUserSets, IInv, TypeOK, DMTypeOK, UMTypeOK, dmVars
<1>5. \A v \in Users : LocalsOK(v)'
  BY <1>3 DEF SendUserSets, IInv, LocalsOK, InStorage
<1>6. \A v \in Users : KnownUserSetsStored(v)'
  BY <1>3 DEF SendUserSets, IInv, KnownUserSetsStored, InStorage, GetUserSets,
              GetUserSetsResponse, UserOwns
<1> QED
  BY <1>4, <1>5, <1>6 DEF IInv

LEMMA InitiateDecryptionStep ==
    ASSUME IInv, NEW u \in Users, InitiateDecryption(u) PROVE IInv'
<1>1. PICK s \in client[u].knownOwned, o \in OpIDs :
          /\ NewOperation(o)
          /\ \/ /\ frame' = [frame EXCEPT ![u].op = o, ![u].userset = s,
                       ![u].opCollRecord = NewCollectedRecord(u, s, 0, 0)]
                /\ Goto(u, "finish")
             \/ /\ frame' = [frame EXCEPT ![u].op = o, ![u].userset = s]
                /\ Goto(u, "dec_prep")
          /\ reply' = [reply EXCEPT ![u] = DecryptResponse(o)]
  BY DEF InitiateDecryption
<1>2. InStorage(s)
  BY DEF IInv, KnownUserSetsStored
<1>3. NewCollectedRecord(u, s, 0, 0) \in CollectedRecord
  BY <1>2 DEF NewCollectedRecord, CollectedRecord, InStorage
<1>4. frame[u] \in Frame
  BY DEF IInv, TypeOK
<1>5. /\ [frame[u] EXCEPT !.op = o, !.userset = s] \in Frame
      /\ [frame[u] EXCEPT !.op = o, !.userset = s,
              !.opCollRecord = NewCollectedRecord(u, s, 0, 0)] \in Frame
  BY <1>2, <1>3, <1>4 DEF Frame, InStorage
<1>6. frame' \in [Users -> Frame]
  BY <1>1, <1>5 DEF IInv, TypeOK
<1>7. pc' \in [Users -> Locations]
  BY <1>1 DEF Goto, IInv, TypeOK, Locations
<1>8. reply' \in [Users -> Reply] /\ reply'[u].kind = "Operation"
  BY <1>1 DEF DecryptResponse, Reply, IInv, TypeOK
<1>9. TypeOK'
  BY <1>1, <1>6, <1>7, <1>8
     DEF InitiateDecryption, NewOperation, IInv, TypeOK, DMTypeOK, UMTypeOK
<1>10. \A v \in Users : LocalsOK(v)'
  <2>1. \A v \in Users \ {u} : frame'[v] = frame[v] /\ pc'[v] = pc[v]
    BY <1>1 DEF IInv, TypeOK, Goto
  <2>2. /\ frame'[u].op = o /\ frame'[u].userset = s
        /\ \/ pc'[u] = "dec_prep"
           \/ /\ pc'[u] = "finish"
              /\ frame'[u].opCollRecord = NewCollectedRecord(u, s, 0, 0)
    BY <1>1, <1>4 DEF IInv, TypeOK, Goto, Frame
  <2>3. usersets' = usersets
    BY DEF InitiateDecryption
  <2> QED
    BY <1>2, <1>3, <2>1, <2>2, <2>3 DEF IInv, LocalsOK, InStorage
<1>11. \A v \in Users : KnownUserSetsStored(v)'
  <2>1. \A v \in Users \ {u} : reply'[v] = reply[v]
    BY <1>1 DEF IInv, TypeOK
  <2> QED
    BY <1>8, <2>1 DEF InitiateDecryption, IInv, KnownUserSetsStored, InStorage
<1> QED
  BY <1>9, <1>10, <1>11 DEF IInv

LEMMA PrepareDecryptionStep ==
    ASSUME IInv, NEW u \in Users, PrepareDecryption(u) PROVE IInv'
<1> DEFINE s == frame[u].userset
           info == usersets[s]
           todo == [owners |-> info.owners \ {u},
                    reg_members |-> info.reg_members \ {u}]
           o == frame[u].op
           r == NewPrepareRecord(u, s, info.owners_threshold,
                                 info.reg_members_threshold)
<1>1. o \in OpIDs /\ s \in UserSetIDs /\ info \in UserSetInfo
  BY DEF PrepareDecryption, IInv, LocalsOK, InStorage, TypeOK
<1>2. r \in PrepareRecord
  BY <1>1 DEF NewPrepareRecord, PrepareRecord, UserSetInfo
<1>3. DMTypeOK'
  <2>1. prep' = Emplace(prep, o, r) /\ UNCHANGED <<collected, allOpIDs, team>>
    BY DEF PrepareDecryption, PrepareOperation
  <2> QED
    BY <1>1, <1>2, <2>1 DEF Emplace, IInv, TypeOK, DMTypeOK
<1>4. todo \in MemberLists
  BY <1>1 DEF MemberLists, UserSetInfo
<1>5. [frame[u] EXCEPT !.todo = todo] \in Frame
  BY <1>4 DEF IInv, TypeOK, Frame
<1>6. frame' = [frame EXCEPT ![u].todo = todo] /\ Goto(u, Loop(todo, "dec_lookup"))
  BY DEF PrepareDecryption
<1>7. /\ frame' \in [Users -> Frame]
      /\ \A v \in Users \ {u} : frame'[v] = frame[v]
      /\ frame'[u].op = o
  BY <1>5, <1>6 DEF IInv, TypeOK, Frame
<1>8. /\ pc' \in [Users -> Locations] /\ pc'[u] \in {"dec_lookup", "reply"}
      /\ \A v \in Users \ {u} : pc'[v] = pc[v]
  BY <1>6 DEF Goto, Loop, IInv, TypeOK, Locations
<1>9. TypeOK'
  BY <1>3, <1>7, <1>8 DEF PrepareDecryption, IInv, TypeOK, UMTypeOK
<1>10. \A v \in Users : LocalsOK(v)'
  BY <1>1, <1>7, <1>8 DEF PrepareDecryption, IInv, LocalsOK, InStorage
<1>11. \A v \in Users : KnownUserSetsStored(v)'
  BY DEF PrepareDecryption, IInv, KnownUserSetsStored, InStorage
<1> QED
  BY <1>9, <1>10, <1>11 DEF IInv

LEMMA LookupMemberStep ==
    ASSUME IInv, NEW u \in Users, LookupMember(u) PROVE IInv'
<1>1. PICK m \in Users :
          /\ Turn(u, "owners", m) \/ Turn(u, "reg_members", m)
          /\ RegisterLookup(m, frame[u].op)
  BY DEF LookupMember
<1>2. PICK list \in {"owners", "reg_members"} : Turn(u, list, m)
  BY <1>1
<1>3. /\ frame' \in [Users -> Frame]
      /\ pc' \in [Users -> Locations]
      /\ reply' = reply
      /\ \A v \in Users : pc'[v] \in {pc[v], "reply"}
      /\ \A v \in Users : frame'[v] = [frame[v] EXCEPT !.todo = frame'[v].todo]
  BY <1>2, TurnTypes
<1>4. frame[u].op \in OpIDs
  BY DEF LookupMember, IInv, LocalsOK
<1>5. UMTypeOK'
  BY <1>1, <1>4, RegisterTypes DEF IInv, TypeOK
<1>6. TypeOK'
  BY <1>3, <1>5 DEF LookupMember, IInv, TypeOK, DMTypeOK, dmVars
<1>7. ASSUME NEW v \in Users PROVE LocalsOK(v)'
  <2>1. /\ LocalsOK(v) /\ frame[v] \in Frame /\ frame'[v] \in Frame
        /\ pc'[v] \in {pc[v], "reply"} /\ UNCHANGED usersets
        /\ frame'[v] = [frame[v] EXCEPT !.todo = frame'[v].todo]
    BY <1>3 DEF LookupMember, IInv, TypeOK
  <2> QED
    BY <2>1 DEF Frame, LocalsOK, InStorage
<1>8. \A v \in Users : updates'[v].added_as_owner = updates[v].added_as_owner
  BY <1>1 DEF RegisterLookup, IInv, TypeOK, UMTypeOK, UpdateResponse
<1>9. \A v \in Users : KnownUserSetsStored(v)'
  BY <1>3, <1>8 DEF LookupMember, IInv, KnownUserSetsStored, InStorage
<1> QED
  BY <1>6, <1>7, <1>9 DEF IInv

LEMMA SendUpdatesStep ==
    ASSUME IInv, NEW u \in Users, SendUpdates(u) PROVE IInv'
<1> DEFINE r == UpdatesReply(updates[u])
<1>1. r \in Reply
  BY DEF UpdatesReply, Reply, IInv, TypeOK, UMTypeOK
<1>2. Respond(u, r) /\ RetrieveUpdates(u)
  BY DEF SendUpdates
<1>3. /\ pc' \in [Users -> Locations] /\ reply' \in [Users -> Reply]
      /\ reply'[u] = r /\ pc'[u] = "reply"
      /\ \A v \in Users \ {u} : reply'[v] = reply[v] /\ pc'[v] = pc[v]
  BY <1>1, <1>2, RespondTypes
<1>4. UMTypeOK' /\ \A v \in Users : updates'[v] \in {updates[v], NoUpdates}
  BY <1>2 DEF RetrieveUpdates, NoUpdates, UpdateResponse, IInv, TypeOK, UMTypeOK
<1>5. TypeOK'
  BY <1>3, <1>4 DEF SendUpdates, IInv, TypeOK, DMTypeOK, dmVars
<1>6. \A v \in Users : LocalsOK(v)'
  BY <1>3 DEF SendUpdates, IInv, LocalsOK, InStorage
<1>7. \A v \in Users : KnownUserSetsStored(v)'
  BY <1>3, <1>4 DEF SendUpdates, IInv, KnownUserSetsStored, InStorage, NoUpdates,
                    UpdatesReply
<1> QED
  BY <1>5, <1>6, <1>7 DEF IInv

\* The search in _prep, for a handler that starts with the locals fr.
LEMMA FindPreparedTypes ==
    ASSUME IInv, NEW u \in Users, NEW o \in OpIDs, NEW fr \in Frame,
           NEW find \in {"par_find", "snd_find"}, NEW found \in {"par_reg", "snd_reg"},
           FindPrepared(u, o, fr, find, found)
    PROVE  /\ frame' \in [Users -> Frame]
           /\ pc' \in [Users -> Locations]
           /\ \A v \in Users \ {u} : frame'[v] = frame[v] /\ pc'[v] = pc[v]
           /\ frame'[u].op = fr.op /\ frame'[u].part = fr.part
           /\ \/ pc'[u] = find
              \/ pc'[u] = found /\ frame'[u].userset \in UserSetIDs
<1>1. pc' \in [Users -> Locations] /\ \A v \in Users \ {u} : pc'[v] = pc[v]
  BY DEF FindPrepared, Goto, IInv, TypeOK, Locations
<1>2. CASE prep[o] # Absent /\ frame' = [frame EXCEPT ![u] = [fr EXCEPT !.userset = prep[o].userset]]
           /\ Goto(u, found)
  <2>1. prep[o].userset \in UserSetIDs
    BY <1>2 DEF IInv, TypeOK, DMTypeOK, PrepareRecord
  <2>2. [fr EXCEPT !.userset = prep[o].userset] \in Frame
    BY <2>1 DEF Frame
  <2>3. frame'[u] = [fr EXCEPT !.userset = prep[o].userset]
    BY <1>2 DEF IInv, TypeOK
  <2> QED
    BY <1>1, <1>2, <2>1, <2>2, <2>3 DEF Goto, IInv, TypeOK, Frame
<1>3. CASE frame' = [frame EXCEPT ![u] = fr] /\ Goto(u, find)
  BY <1>1, <1>3 DEF Goto, IInv, TypeOK
<1> QED
  BY <1>2, <1>3 DEF FindPrepared

LEMMA ParticipateStep ==
    ASSUME IInv, NEW u \in Users, Participate(u) PROVE IInv'
<1> DEFINE fr(o) == [EmptyFrame EXCEPT !.op = o]
<1>1. PICK o \in client[u].lookups :
          /\ client' = [client EXCEPT ![u].lookups = @ \ {o}]
          /\ FindPrepared(u, o, fr(o), "par_find", "par_reg")
  BY DEF Participate
<1>2. client[u] \in ClientState /\ o \in OpIDs
  BY DEF IInv, TypeOK, ClientState
<1>3. fr(o) \in Frame /\ fr(o).op = o
  BY <1>2 DEF EmptyFrame, Frame, Nobody, MemberLists
<1> HIDE DEF fr
<1>4. /\ frame' \in [Users -> Frame]
      /\ pc' \in [Users -> Locations]
      /\ \A v \in Users \ {u} : frame'[v] = frame[v] /\ pc'[v] = pc[v]
      /\ frame'[u].op = o
      /\ \/ pc'[u] = "par_find"
         \/ pc'[u] = "par_reg" /\ frame'[u].userset \in UserSetIDs
  BY <1>1, <1>2, <1>3, FindPreparedTypes
<1>5. [client[u] EXCEPT !.lookups = @ \ {o}] \in ClientState
  BY <1>2 DEF ClientState
<1>6. client' \in [Users -> ClientState]
  BY <1>1, <1>5 DEF IInv, TypeOK
<1>7. TypeOK'
  BY <1>4, <1>6 DEF Participate, IInv, TypeOK, DMTypeOK, UMTypeOK, dmVars
<1>8. \A v \in Users : LocalsOK(v)'
  BY <1>2, <1>4 DEF Participate, IInv, LocalsOK, InStorage
<1>9. \A v \in Users : client'[v].knownOwned = client[v].knownOwned
  BY <1>1, <1>2 DEF IInv, TypeOK, ClientState
<1>10. \A v \in Users : KnownUserSetsStored(v)'
  BY <1>9 DEF Participate, IInv, KnownUserSetsStored, InStorage
<1> QED
  BY <1>7, <1>8, <1>10 DEF IInv

LEMMA SendPartStep ==
    ASSUME IInv, NEW u \in Users, SendPart(u) PROVE IInv'
<1> DEFINE part(t) == [by |-> u, layer |-> t.layer, ids |-> t.shards_ids]
           fr(t) == [EmptyFrame EXCEPT !.op = t.op, !.part = part(t)]
<1>1. PICK t \in client[u].tasks :
          /\ client' = [client EXCEPT ![u].tasks = @ \ {t}]
          /\ FindPrepared(u, t.op, fr(t), "snd_find", "snd_reg")
  BY DEF SendPart
<1>2. client[u] \in ClientState /\ t \in Task
  BY DEF IInv, TypeOK, ClientState
<1>3. part(t) \in Part /\ t.op \in OpIDs
  BY <1>2 DEF Task, Part
<1>4. fr(t) \in Frame /\ fr(t).op = t.op /\ fr(t).part = part(t)
  BY <1>3 DEF EmptyFrame, Frame, Nobody, MemberLists
<1> HIDE DEF fr
<1>5. /\ frame' \in [Users -> Frame]
      /\ pc' \in [Users -> Locations]
      /\ \A v \in Users \ {u} : frame'[v] = frame[v] /\ pc'[v] = pc[v]
      /\ frame'[u].op = t.op /\ frame'[u].part = part(t)
      /\ \/ pc'[u] = "snd_find"
         \/ pc'[u] = "snd_reg" /\ frame'[u].userset \in UserSetIDs
  BY <1>1, <1>3, <1>4, FindPreparedTypes
<1>6. [client[u] EXCEPT !.tasks = @ \ {t}] \in ClientState
  BY <1>2 DEF ClientState
<1>7. client' \in [Users -> ClientState]
  BY <1>1, <1>6 DEF IInv, TypeOK
<1>8. TypeOK'
  BY <1>5, <1>7 DEF SendPart, IInv, TypeOK, DMTypeOK, UMTypeOK, dmVars
<1>9. \A v \in Users : LocalsOK(v)'
  BY <1>3, <1>5 DEF SendPart, IInv, LocalsOK, InStorage
<1>10. \A v \in Users : client'[v].knownOwned = client[v].knownOwned
  BY <1>1, <1>2 DEF IInv, TypeOK, ClientState
<1>11. \A v \in Users : KnownUserSetsStored(v)'
  BY <1>10 DEF SendPart, IInv, KnownUserSetsStored, InStorage
<1> QED
  BY <1>8, <1>9, <1>11 DEF IInv

LEMMA FindCollectedStep ==
    ASSUME IInv, NEW u \in Users,
           ParticipateFindCollected(u) \/ SendPartFindCollected(u)
    PROVE  IInv'
<1>1. PICK find \in {"par_find", "snd_find"}, found \in {"par_reg", "snd_reg"} :
          /\ FindCollected(u, find, found)
          /\ find = "par_find" <=> found = "par_reg"
  BY DEF ParticipateFindCollected, SendPartFindCollected
<1> DEFINE o == frame[u].op
<1>2. /\ o \in OpIDs /\ pc[u] = find
      /\ find = "snd_find" => frame[u].part \in Part
  BY <1>1 DEF FindCollected, IInv, LocalsOK
<1>3. UNCHANGED <<dmVars, updates, usersets, client, disconnects>>
  BY <1>1 DEF FindCollected
<1>4. CASE /\ collected[o] # Absent
           /\ frame' = [frame EXCEPT ![u].userset = collected[o].userset]
           /\ Goto(u, found)
           /\ UNCHANGED reply
  <2>1. collected[o].userset \in UserSetIDs
    BY <1>2, <1>4 DEF IInv, TypeOK, DMTypeOK, CollectedRecord
  <2>2. [frame[u] EXCEPT !.userset = collected[o].userset] \in Frame
    BY <2>1 DEF IInv, TypeOK, Frame
  <2>3. /\ frame' \in [Users -> Frame]
        /\ \A v \in Users \ {u} : frame'[v] = frame[v]
        /\ frame'[u].op = o /\ frame'[u].part = frame[u].part
        /\ frame'[u].userset \in UserSetIDs
    BY <1>4, <2>1, <2>2 DEF IInv, TypeOK, Frame
  <2>4. /\ pc' \in [Users -> Locations] /\ pc'[u] = found
        /\ \A v \in Users \ {u} : pc'[v] = pc[v]
    BY <1>4 DEF Goto, IInv, TypeOK, Locations
  <2>5. TypeOK'
    BY <1>3, <1>4, <2>3, <2>4 DEF IInv, TypeOK, DMTypeOK, UMTypeOK, dmVars
  <2>6. \A v \in Users : LocalsOK(v)'
    BY <1>1, <1>2, <1>3, <2>3, <2>4 DEF IInv, LocalsOK, InStorage
  <2>7. \A v \in Users : KnownUserSetsStored(v)'
    BY <1>3, <1>4 DEF IInv, KnownUserSetsStored, InStorage
  <2> QED
    BY <2>5, <2>6, <2>7 DEF IInv
<1>5. CASE Respond(u, ErrorResponse) /\ UNCHANGED frame
  <2>1. ErrorResponse \in Reply
    BY DEF Reply
  <2>2. /\ pc' \in [Users -> Locations] /\ reply' \in [Users -> Reply]
        /\ reply'[u] = ErrorResponse /\ pc'[u] = "reply"
        /\ \A v \in Users \ {u} : reply'[v] = reply[v] /\ pc'[v] = pc[v]
    BY <1>5, <2>1, RespondTypes
  <2>3. TypeOK'
    BY <1>3, <1>5, <2>2 DEF IInv, TypeOK, DMTypeOK, UMTypeOK, dmVars
  <2>4. \A v \in Users : LocalsOK(v)'
    BY <1>2, <1>3, <1>5, <2>2 DEF IInv, LocalsOK, InStorage
  <2>5. \A v \in Users : KnownUserSetsStored(v)'
    BY <1>3, <2>2 DEF IInv, KnownUserSetsStored, InStorage, ErrorResponse
  <2> QED
    BY <2>3, <2>4, <2>5 DEF IInv
<1> QED
  BY <1>1, <1>4, <1>5 DEF FindCollected

LEMMA RegisterTooLateStep ==
    ASSUME IInv, NEW u \in Users, RegisterTooLate(u) PROVE IInv'
<1>1. PICK r : /\ r \in {ParticipateResponse(frame[u].op, "NotRequired"), ErrorResponse}
               /\ Respond(u, r)
  BY DEF RegisterTooLate
<1>2. frame[u].op \in OpIDs
  BY DEF RegisterTooLate, IInv, LocalsOK
<1>3. r \in Reply /\ r.kind \in {"Participate", "Error"}
  BY <1>1, <1>2 DEF ParticipateResponse, ErrorResponse, Reply, PartRequirement
<1>4. /\ pc' \in [Users -> Locations] /\ reply' \in [Users -> Reply]
      /\ reply'[u] = r /\ pc'[u] = "reply"
      /\ \A v \in Users \ {u} : reply'[v] = reply[v] /\ pc'[v] = pc[v]
  BY <1>1, <1>3, RespondTypes
<1>5. TypeOK'
  BY <1>4 DEF RegisterTooLate, IInv, TypeOK, DMTypeOK, UMTypeOK, dmVars
<1>6. \A v \in Users : LocalsOK(v)'
  BY <1>4 DEF RegisterTooLate, IInv, LocalsOK, InStorage
<1>7. \A v \in Users : KnownUserSetsStored(v)'
  BY <1>3, <1>4 DEF RegisterTooLate, IInv, KnownUserSetsStored, InStorage
<1> QED
  BY <1>5, <1>6, <1>7 DEF IInv

LEMMA RegisterParticipantStep ==
    ASSUME IInv, NEW u \in Users, RegisterParticipant(u) PROVE IInv'
<1> DEFINE o == frame[u].op
           isOwner == UserOwns(u, frame[u].userset)
           q == Requirement(prep[o], isOwner)
           r == WithParticipant(prep[o], u, q)
           todo == [owners |-> r.owners_found, reg_members |-> r.reg_members_found]
<1>1. o \in OpIDs /\ prep[o] \in PrepareRecord
  BY DEF RegisterParticipant, IInv, LocalsOK, TypeOK, DMTypeOK
<1>2. r \in PrepareRecord /\ q \in PartRequirement
  BY <1>1, WithParticipantTypes, RequirementTypes
<1>3. todo \in MemberLists
  BY <1>2 DEF PrepareRecord, MemberLists
<1>4. ParticipateResponse(o, q) \in Reply
  BY <1>1, <1>2 DEF ParticipateResponse, Reply
<1>5. /\ reply' = [reply EXCEPT ![u] = ParticipateResponse(o, q)]
      /\ UNCHANGED <<updates, usersets, client, disconnects>>
  BY DEF RegisterParticipant
<1>6. reply' \in [Users -> Reply]
  BY <1>4, <1>5 DEF IInv, TypeOK
<1>7. DMTypeOK'
  <2>1. CASE UNCHANGED dmVars
    BY <2>1 DEF dmVars, IInv, TypeOK, DMTypeOK
  <2>2. CASE AddParticipant(o, u, isOwner)
    BY <1>1, <1>2, <2>2 DEF AddParticipant, IInv, TypeOK, DMTypeOK
  <2>3. CASE AddLastParticipant(o, u, isOwner)
    <3> DEFINE c == NewCollectedRecord(r.requester, r.userset,
                                       r.required_owners, r.required_reg_members)
    <3>1. c \in CollectedRecord
      BY <1>2, NewCollectedRecordTypes DEF PrepareRecord
    <3>2. /\ collected' = Emplace(collected, o, c)
          /\ prep' = [prep EXCEPT ![o] = Absent]
          /\ team' = [team EXCEPT ![o] = todo]
          /\ allOpIDs' = allOpIDs
      BY <2>3 DEF AddLastParticipant
    <3> HIDE DEF c, todo
    <3> QED
      BY <1>1, <1>3, <3>1, <3>2 DEF Emplace, IInv, TypeOK, DMTypeOK
  <2> QED
    BY <2>1, <2>2, <2>3 DEF RegisterParticipant
<1>8. /\ frame' \in [Users -> Frame]
      /\ pc' \in [Users -> Locations]
      /\ \A v \in Users \ {u} : frame'[v] = frame[v] /\ pc'[v] = pc[v]
      /\ frame'[u].op = o
      /\ \/ pc'[u] = "reply"
         \/ pc'[u] = "par_tell" /\ frame'[u].opPrepRecord \in PrepareRecord
  <2>1. frame[u] \in Frame
    BY DEF IInv, TypeOK
  <2>2. CASE Goto(u, "reply") /\ UNCHANGED frame
    BY <2>2 DEF Goto, IInv, TypeOK, Locations
  <2>3. CASE frame' = [frame EXCEPT ![u].opPrepRecord = r, ![u].todo = todo]
             /\ Goto(u, "par_tell")
    <3> HIDE DEF r, todo
    <3>1. [frame[u] EXCEPT !.opPrepRecord = r, !.todo = todo] \in Frame
      BY <1>2, <1>3, <2>1 DEF Frame
    <3>2. /\ frame'[u] = [frame[u] EXCEPT !.opPrepRecord = r, !.todo = todo]
          /\ \A v \in Users \ {u} : frame'[v] = frame[v]
          /\ frame' \in [Users -> Frame]
      BY <2>3, <3>1 DEF IInv, TypeOK
    <3>3. /\ pc' \in [Users -> Locations] /\ pc'[u] = "par_tell"
          /\ \A v \in Users \ {u} : pc'[v] = pc[v]
      BY <2>3 DEF Goto, IInv, TypeOK, Locations
    <3> QED
      BY <1>2, <2>1, <3>2, <3>3 DEF Frame
  <2> QED
    BY <2>2, <2>3 DEF RegisterParticipant
<1>9. TypeOK'
  BY <1>5, <1>6, <1>7, <1>8 DEF IInv, TypeOK, UMTypeOK
<1>10. \A v \in Users : LocalsOK(v)'
  BY <1>1, <1>5, <1>8 DEF IInv, LocalsOK, InStorage
<1>11. \A v \in Users : KnownUserSetsStored(v)'
  <2>1. reply'[u].kind = "Participate" /\ \A v \in Users \ {u} : reply'[v] = reply[v]
    BY <1>5 DEF ParticipateResponse, IInv, TypeOK
  <2> QED
    BY <1>5, <2>1 DEF IInv, KnownUserSetsStored, InStorage
<1> QED
  BY <1>9, <1>10, <1>11 DEF IInv

LEMMA TellParticipantStep ==
    ASSUME IInv, NEW u \in Users, TellParticipant(u) PROVE IInv'
<1> DEFINE r == frame[u].opPrepRecord
           Shards(found) == ShardsOf(found \cup {r.requester}, r.userset)
<1>1. r \in PrepareRecord /\ frame[u].op \in OpIDs
  BY DEF TellParticipant, IInv, LocalsOK
<1>2. Shards(r.owners_found) \in SUBSET ShardIDs /\ Shards(r.reg_members_found) \in SUBSET ShardIDs
  BY <1>1 DEF ShardsOf, ShardIDs, PrepareRecord
<1>3. PICK m \in Users, list \in {"owners", "reg_members"}, ids \in SUBSET ShardIDs :
          Turn(u, list, m) /\ RegisterDecryptionParticipating(m, frame[u].op, ids)
  BY <1>2 DEF TellParticipant
<1>4. /\ frame' \in [Users -> Frame]
      /\ pc' \in [Users -> Locations]
      /\ reply' = reply
      /\ \A v \in Users : pc'[v] \in {pc[v], "reply"}
      /\ \A v \in Users : frame'[v] = [frame[v] EXCEPT !.todo = frame'[v].todo]
  BY <1>3, TurnTypes
<1>5. UMTypeOK'
  BY <1>1, <1>3, RegisterTypes DEF IInv, TypeOK
<1>6. UNCHANGED <<dmVars, usersets, client, disconnects>>
  BY DEF TellParticipant
<1>7. TypeOK'
  BY <1>4, <1>5, <1>6 DEF IInv, TypeOK, DMTypeOK, dmVars
<1>8. \A v \in Users : LocalsOK(v)'
  <2> SUFFICES ASSUME NEW v \in Users PROVE LocalsOK(v)'
    OBVIOUS
  <2>1. /\ frame'[v].op = frame[v].op /\ frame'[v].userset = frame[v].userset
        /\ frame'[v].part = frame[v].part
        /\ frame'[v].opPrepRecord = frame[v].opPrepRecord
        /\ frame'[v].opCollRecord = frame[v].opCollRecord
    BY <1>4 DEF IInv, TypeOK, Frame
  <2> QED
    BY <1>4, <1>6, <2>1 DEF IInv, LocalsOK, InStorage
<1>9. \A v \in Users : updates'[v].added_as_owner = updates[v].added_as_owner
  BY <1>3 DEF RegisterDecryptionParticipating, IInv, TypeOK, UMTypeOK, UpdateResponse
<1>10. \A v \in Users : KnownUserSetsStored(v)'
  BY <1>4, <1>6, <1>9 DEF IInv, KnownUserSetsStored, InStorage
<1> QED
  BY <1>7, <1>8, <1>10 DEF IInv

LEMMA RegisterPartStep ==
    ASSUME IInv, NEW u \in Users, RegisterPart(u) PROVE IInv'
<1> DEFINE o == frame[u].op
           isOwner == UserOwns(u, frame[u].userset)
           r == WithPart(collected[o], frame[u].part, isOwner)
<1>1. o \in OpIDs /\ collected[o] \in CollectedRecord /\ frame[u].part \in Part
  BY DEF RegisterPart, IInv, LocalsOK, TypeOK, DMTypeOK
<1>2. r \in CollectedRecord
  BY <1>1, WithPartTypes
<1>3. /\ reply' = [reply EXCEPT ![u] = SendDecryptionPartResponse]
      /\ UNCHANGED <<updates, usersets, client, disconnects>>
  BY DEF RegisterPart
<1>4. reply' \in [Users -> Reply]
  BY <1>3 DEF Reply, IInv, TypeOK
<1>5. DMTypeOK'
  <2>1. AddPart(o, frame[u].part, isOwner) \/ AddLastPart(o, frame[u].part, isOwner)
    BY DEF RegisterPart
  <2>2. /\ collected' = [collected EXCEPT ![o] = r] \/ collected' = [collected EXCEPT ![o] = Absent]
        /\ UNCHANGED <<prep, allOpIDs, team>>
    BY <2>1 DEF AddPart, AddLastPart
  <2> HIDE DEF r
  <2> QED
    BY <1>1, <1>2, <2>2 DEF IInv, TypeOK, DMTypeOK
<1>6. /\ frame' \in [Users -> Frame]
      /\ pc' \in [Users -> Locations]
      /\ \A v \in Users \ {u} : frame'[v] = frame[v] /\ pc'[v] = pc[v]
      /\ frame'[u].op = o
      /\ \/ pc'[u] = "reply"
         \/ pc'[u] = "finish" /\ frame'[u].opCollRecord \in CollectedRecord
  <2>1. CASE Goto(u, "reply") /\ UNCHANGED frame
    BY <2>1 DEF Goto, IInv, TypeOK, Locations
  <2>2. CASE frame' = [frame EXCEPT ![u].opCollRecord = r] /\ Goto(u, "finish")
    <3> HIDE DEF r
    <3>1. frame[u] \in Frame
      BY DEF IInv, TypeOK
    <3>2. [frame[u] EXCEPT !.opCollRecord = r] \in Frame
      BY <1>2, <3>1 DEF Frame
    <3>3. /\ frame'[u] = [frame[u] EXCEPT !.opCollRecord = r]
          /\ \A v \in Users \ {u} : frame'[v] = frame[v]
          /\ frame' \in [Users -> Frame]
      BY <2>2, <3>2 DEF IInv, TypeOK
    <3>4. /\ pc' \in [Users -> Locations] /\ pc'[u] = "finish"
          /\ \A v \in Users \ {u} : pc'[v] = pc[v]
      BY <2>2 DEF Goto, IInv, TypeOK, Locations
    <3> QED
      BY <1>2, <3>1, <3>3, <3>4 DEF Frame
  <2> QED
    BY <2>1, <2>2 DEF RegisterPart
<1>7. TypeOK'
  BY <1>3, <1>4, <1>5, <1>6 DEF IInv, TypeOK, UMTypeOK
<1>8. \A v \in Users : LocalsOK(v)'
  BY <1>1, <1>3, <1>6 DEF IInv, LocalsOK, InStorage
<1>9. \A v \in Users : KnownUserSetsStored(v)'
  <2>1. /\ reply'[u] = SendDecryptionPartResponse
        /\ \A v \in Users \ {u} : reply'[v] = reply[v]
    BY <1>3 DEF IInv, TypeOK
  <2> QED
    BY <1>3, <2>1 DEF IInv, KnownUserSetsStored, InStorage, SendDecryptionPartResponse
<1> QED
  BY <1>7, <1>8, <1>9 DEF IInv

LEMMA FinishOperationStep ==
    ASSUME IInv, NEW u \in Users, FinishOperation(u) PROVE IInv'
<1> DEFINE r == frame[u].opCollRecord
           f == [op |-> frame[u].op,
                 reg_layer_parts |-> r.reg_layer_parts,
                 owner_layer_parts |-> r.owner_layer_parts,
                 reg_layer_shards_ids |->
                     LayerShards(r.reg_layer_parts, r.requester, r.userset),
                 owner_layer_shards_ids |->
                     LayerShards(r.owner_layer_parts, r.requester, r.userset)]
<1>1. r \in CollectedRecord /\ frame[u].op \in OpIDs
  BY DEF FinishOperation, IInv, LocalsOK
<1>2. /\ r.requester \in Users /\ r.userset \in UserSetIDs
      /\ r.reg_layer_parts \in Seq(Part) /\ r.owner_layer_parts \in Seq(Part)
  BY <1>1 DEF CollectedRecord
<1>3. /\ LayerShards(r.reg_layer_parts, r.requester, r.userset) \in Seq(ShardIDs)
      /\ LayerShards(r.owner_layer_parts, r.requester, r.userset) \in Seq(ShardIDs)
  BY <1>2, LayerShardsTypes
<1>4. f \in Finished
  BY <1>1, <1>2, <1>3 DEF Finished
<1>5. /\ RegisterFinishedDecryption(r.requester, f)
      /\ Goto(u, "reply")
      /\ UNCHANGED <<dmVars, usersets, frame, reply, client, disconnects>>
  BY DEF FinishOperation
<1> HIDE DEF f
<1>6. UMTypeOK'
  BY <1>2, <1>4, <1>5, RegisterTypes DEF IInv, TypeOK
<1>7. /\ pc' \in [Users -> Locations] /\ pc'[u] = "reply"
      /\ \A v \in Users \ {u} : pc'[v] = pc[v]
  BY <1>5 DEF Goto, IInv, TypeOK, Locations
<1>8. TypeOK'
  BY <1>5, <1>6, <1>7 DEF IInv, TypeOK, DMTypeOK, dmVars
<1>9. \A v \in Users : LocalsOK(v)'
  BY <1>5, <1>7 DEF IInv, LocalsOK, InStorage
<1>10. \A v \in Users : updates'[v].added_as_owner = updates[v].added_as_owner
  BY <1>5 DEF RegisterFinishedDecryption, IInv, TypeOK, UMTypeOK, UpdateResponse
<1>11. \A v \in Users : KnownUserSetsStored(v)'
  BY <1>5, <1>10 DEF IInv, KnownUserSetsStored, InStorage
<1> QED
  BY <1>8, <1>9, <1>11 DEF IInv

\* A thread that is ready for the next request has no locals and no response.
LEMMA BackToIdle ==
    ASSUME IInv, NEW u \in Users,
           Goto(u, "idle"), frame' = [frame EXCEPT ![u] = EmptyFrame],
           reply' = [reply EXCEPT ![u] = NoReply], UNCHANGED usersets
    PROVE  /\ frame' \in [Users -> Frame] /\ pc' \in [Users -> Locations]
           /\ reply' \in [Users -> Reply] /\ reply'[u] = NoReply
           /\ \A v \in Users \ {u} : reply'[v] = reply[v]
           /\ \A v \in Users : LocalsOK(v)'
<1>1. EmptyFrame \in Frame
  BY DEF EmptyFrame, Frame, Nobody, MemberLists
<1>2. /\ frame' \in [Users -> Frame]
      /\ \A v \in Users \ {u} : frame'[v] = frame[v]
  BY <1>1 DEF IInv, TypeOK
<1>3. /\ pc' \in [Users -> Locations] /\ pc'[u] = "idle"
      /\ \A v \in Users \ {u} : pc'[v] = pc[v]
  BY DEF Goto, IInv, TypeOK, Locations
<1>4. /\ reply' \in [Users -> Reply] /\ reply'[u] = NoReply
      /\ \A v \in Users \ {u} : reply'[v] = reply[v]
  BY DEF Reply, IInv, TypeOK
<1>5. \A v \in Users : LocalsOK(v)'
  BY <1>2, <1>3 DEF IInv, LocalsOK, InStorage
<1> QED
  BY <1>2, <1>3, <1>4, <1>5

LEMMA SendResponseStep ==
    ASSUME IInv, NEW u \in Users, SendResponse(u) PROVE IInv'
<1>1. /\ client' = [client EXCEPT ![u] = Consume(@, u, reply[u])]
      /\ UNCHANGED <<dmVars, updates, usersets, disconnects>>
  BY DEF SendResponse
<1>2. /\ frame' \in [Users -> Frame] /\ pc' \in [Users -> Locations]
      /\ reply' \in [Users -> Reply] /\ reply'[u] = NoReply
      /\ \A v \in Users \ {u} : reply'[v] = reply[v]
      /\ \A v \in Users : LocalsOK(v)'
  BY BackToIdle DEF SendResponse
<1>3. client[u] \in ClientState /\ reply[u] \in Reply
  BY DEF IInv, TypeOK
<1>4. Consume(client[u], u, reply[u]) \in ClientState
  BY <1>3, ConsumeTypes
<1>5. /\ client' \in [Users -> ClientState]
      /\ client'[u] = Consume(client[u], u, reply[u])
      /\ \A v \in Users \ {u} : client'[v] = client[v]
  BY <1>1, <1>4 DEF IInv, TypeOK
<1>6. TypeOK'
  BY <1>1, <1>2, <1>5 DEF IInv, TypeOK, DMTypeOK, UMTypeOK, dmVars
<1>7. \A s \in client'[u].knownOwned : InStorage(s)
  <2>1. client'[u].knownOwned =
          client[u].knownOwned \cup (CASE reply[u].kind = "UserSet" -> {reply[u].userset}
                                       [] reply[u].kind = "UserSets" -> reply[u].usersets
                                       [] reply[u].kind = "Updates" ->
                                             reply[u].updates.added_as_owner
                                       [] OTHER -> {})
    BY <1>3, <1>5, ConsumeKnownOwned
  <2> QED
    BY <2>1 DEF IInv, KnownUserSetsStored
<1>8. \A v \in Users : KnownUserSetsStored(v)'
  BY <1>1, <1>2, <1>5, <1>7 DEF IInv, KnownUserSetsStored, InStorage, NoReply
<1> QED
  BY <1>2, <1>6, <1>8 DEF IInv

LEMMA LoseConnectionStep ==
    ASSUME IInv, NEW u \in Users, LoseConnection(u) PROVE IInv'
<1>1. /\ frame' \in [Users -> Frame] /\ pc' \in [Users -> Locations]
      /\ reply' \in [Users -> Reply] /\ reply'[u] = NoReply
      /\ \A v \in Users \ {u} : reply'[v] = reply[v]
      /\ \A v \in Users : LocalsOK(v)'
  BY BackToIdle DEF LoseConnection
<1>2. disconnects' \in 0..MaxDisconnects
  BY DisconnectsAssumption DEF LoseConnection, IInv, TypeOK
<1>3. TypeOK'
  BY <1>1, <1>2 DEF LoseConnection, IInv, TypeOK, DMTypeOK, UMTypeOK, dmVars
<1>4. \A v \in Users : KnownUserSetsStored(v)'
  BY <1>1 DEF LoseConnection, IInv, KnownUserSetsStored, InStorage, NoReply
<1> QED
  BY <1>1, <1>3, <1>4 DEF IInv

LEMMA LogOutStep ==
    ASSUME IInv, NEW u \in Users, LogOut(u) PROVE IInv'
<1>1. disconnects' \in 0..MaxDisconnects
  BY DisconnectsAssumption DEF LogOut, IInv, TypeOK
<1>2. [client[u] EXCEPT !.pendingDecryptions = {}] \in ClientState
  BY DEF IInv, TypeOK, ClientState
<1>3. /\ client' \in [Users -> ClientState]
      /\ \A v \in Users : client'[v].knownOwned = client[v].knownOwned
  BY <1>2 DEF LogOut, IInv, TypeOK, ClientState
<1>4. TypeOK'
  BY <1>1, <1>3 DEF LogOut, IInv, TypeOK, DMTypeOK, UMTypeOK, dmVars
<1>5. \A v \in Users : LocalsOK(v)' /\ KnownUserSetsStored(v)'
  BY <1>3 DEF LogOut, IInv, LocalsOK, KnownUserSetsStored, InStorage
<1> QED
  BY <1>4, <1>5 DEF IInv

-----------------------------------------------------------------------------
\* Every step of every thread and client preserves the inductive invariant.
LEMMA NextIInv == IInv /\ [Next]_vars => IInv'
<1> SUFFICES ASSUME IInv, [Next]_vars PROVE IInv'
  OBVIOUS
<1>1. ASSUME NEW u \in Users, Request(u) PROVE IInv'
  BY <1>1, RejectUserSetStep, StoreUserSetStep, SendUserSetsStep,
     InitiateDecryptionStep, SendUpdatesStep, ParticipateStep, SendPartStep
     DEF Request
<1>2. ASSUME NEW u \in Users, Handle(u) PROVE IInv'
  BY <1>2, NotifyMemberStep, PrepareDecryptionStep, LookupMemberStep,
     FindCollectedStep, RegisterTooLateStep, RegisterParticipantStep,
     TellParticipantStep, RegisterPartStep, FinishOperationStep, SendResponseStep
     DEF Handle
<1>3. ASSUME NEW u \in Users, LoseConnection(u) \/ LogOut(u) PROVE IInv'
  BY <1>3, LoseConnectionStep, LogOutStep
<1>4. CASE UNCHANGED vars
  BY <1>4 DEF vars, IInv, TypeOK, DMTypeOK, UMTypeOK, LocalsOK,
              KnownUserSetsStored, InStorage
<1> QED
  BY <1>1, <1>2, <1>3, <1>4 DEF Next

\* The inductive invariant holds in every reachable state.
LEMMA Invariance == Spec => []IInv
BY InitIInv, NextIInv, PTL DEF Spec

\* Every variable keeps its type: for any users, usersets, operations and
\* plans, the handlers and managers never use an entry or a local that is not
\* there, except what register_part may (see NoDanglingRecord).
THEOREM ServerTypeOK == Spec => []TypeOK
<1>1. IInv => TypeOK
  BY DEF IInv
<1> QED
  BY <1>1, Invariance, PTL
==============================================================================
