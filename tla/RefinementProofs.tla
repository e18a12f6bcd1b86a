---------------------------- MODULE RefinementProofs ----------------------------
(***************************************************************************)
(* The server's decryptions implement the abstract ones, and none is stuck *)
(* with nobody left to wait for, for any users, usersets, operations and   *)
(* plans whose owners are all needed as owners; and while no response is   *)
(* lost, whoever has not sent its part yet is asked for it, or works on it.*)
(*                                                                         *)
(* The first argument: register_part files a part by who sent it, not by   *)
(* the layer it was asked for.  Where no owner can be spared for a regular *)
(* slot the two agree, so with a part of each participant both layers are  *)
(* full, and the part that makes them full is the last one.  Hence the     *)
(* record leaves _collected with the abstract decryption's last            *)
(* contribution, neither before nor never.                                 *)
(*                                                                         *)
(* The second argument: a client drops a request for a part when it does   *)
(* not remember its layer or has no key shard.  It learns of the layer     *)
(* from the answer to its offer, before its next update, and of the key    *)
(* shard before the request, as no operation collects parts before         *)
(* make_userset has told every member, when every member takes part.       *)
(***************************************************************************)
EXTENDS ServerRefinement, OperationsProofs

\* Where a userset asks for regular members, all its owners are needed as owners:
\* beside the requester there are no more of them than the owners' threshold.
NoOwnerToSpare ==
    /\ \A p \in Plans :
          p.reg_members_threshold = 0 \/ Cardinality(p.owners) <= p.owners_threshold
    /\ \A s \in UserSetIDs :
          Stored[s] # Absent =>
              \/ Stored[s].reg_members_threshold = 0
              \/ Cardinality(Stored[s].owners) <= Stored[s].owners_threshold + 1

NoneToSpare(s) ==
    usersets[s] # Absent =>
        \/ usersets[s].reg_members_threshold = 0
        \/ Cardinality(usersets[s].owners) <= usersets[s].owners_threshold + 1

\* Whoever decrypts under a userset, or comes to know of it as an owner, owns it.
OwnersKnow(u) ==
    /\ \A s \in client[u].knownOwned \cup updates[u].added_as_owner : UserOwns(u, s)
    /\ reply[u].kind = "UserSet" => UserOwns(u, reply[u].userset)
    /\ reply[u].kind = "UserSets" => \A s \in reply[u].usersets : UserOwns(u, s)
    /\ reply[u].kind = "Updates" =>
          \A s \in reply[u].updates.added_as_owner : UserOwns(u, s)
    /\ pc[u] = "dec_prep" => UserOwns(u, frame[u].userset)
    /\ pc[u] = "mk_notify" =>
          \A m \in frame[u].todo.owners : UserOwns(m, frame[u].userset)

\* An operation that looks for members is an owner's, and asks for as many as
\* the userset's thresholds say.
OwnersAsk(o) ==
    prep[o] # Absent =>
        LET r == prep[o]
            info == usersets[r.userset]
        IN  /\ r.requester \in info.owners
            /\ r.required_owners = info.owners_threshold
            /\ r.required_reg_members = info.reg_members_threshold

\* Who asks: an inductive invariant of all usersets, beside the earlier ones.
OwnersInv ==
    /\ \A u \in Users : OwnersKnow(u)
    /\ \A o \in OpIDs : OwnersAsk(o)

\* It fills its regular slots with regular members.
LooksWell(o) ==
    prep[o] # Absent => prep[o].reg_members_found \cap usersets[prep[o].userset].owners = {}

\* An operation that collects lacks a part of one of the layers.
Waits(o) ==
    collected[o] # Absent =>
        /\ team[o].reg_members \cap usersets[collected[o].userset].owners = {}
        /\ ~HasEnoughParts(collected[o])

\* The inductive invariant of usersets without an owner to spare.
SpareInv ==
    /\ \A s \in UserSetIDs : NoneToSpare(s)
    /\ \A o \in OpIDs : LooksWell(o) /\ Waits(o)

LEMMA InitSpareInv == NoOwnerToSpare /\ Init => SpareInv
<1> SUFFICES ASSUME NoOwnerToSpare, Init PROVE SpareInv
  OBVIOUS
<1>1. \A s \in UserSetIDs : NoneToSpare(s)
  BY DEF NoOwnerToSpare, NoneToSpare, Init
<1>2. \A o \in OpIDs : LooksWell(o) /\ Waits(o)
  BY DEF LooksWell, Waits, Init, DMInit
<1> QED
  BY <1>1, <1>2 DEF SpareInv

LEMMA InitOwnersInv == Init => OwnersInv
<1> SUFFICES ASSUME Init PROVE OwnersInv
  OBVIOUS
<1>1. \A u \in Users : OwnersKnow(u)
  BY DEF OwnersKnow, Init, UMInit, NoUpdates, NoReply, GetUserSets
<1>2. \A o \in OpIDs : OwnersAsk(o)
  BY DEF OwnersAsk, Init, DMInit
<1> QED
  BY <1>1, <1>2 DEF OwnersInv

-----------------------------------------------------------------------------
\* Steps between states in which the earlier invariants hold.
Knowing == Stepping /\ OwnersInv
Going == Knowing /\ SpareInv

LEMMA OwnersStay ==
    ASSUME Knowing, NEW u, NEW s \in UserSetIDs, UserOwns(u, s)
    PROVE  UserOwns(u, s)'
BY SteppingFacts DEF Knowing, UserOwns, InStorage

LEMMA SpareStays ==
    ASSUME Going, NEW s \in UserSetIDs, UNCHANGED usersets \/ InStorage(s)
    PROVE  NoneToSpare(s)'
<1>1. NoneToSpare(s)
  BY DEF Going, SpareInv
<1>2. usersets'[s] = usersets[s]
  BY SteppingFacts DEF Going, Knowing
<1> QED
  BY <1>1, <1>2 DEF NoneToSpare

\* A step that tells v of no userset.
TellsNone(v) ==
    /\ updates'[v].added_as_owner \subseteq updates[v].added_as_owner
    /\ client'[v].knownOwned = client[v].knownOwned
    /\ reply'[v] = reply[v] \/ reply'[v].kind \notin {"UserSet", "UserSets", "Updates"}
    /\ \/ pc'[v] = pc[v] /\ frame'[v] = frame[v]
       \/ pc'[v] \notin {"dec_prep", "mk_notify"}

\* The usersets a client knows, or is told of, have IDs.
LEMMA UserSetsHaveIDs ==
    ASSUME IInv, NEW v \in Users
    PROVE  /\ client[v].knownOwned \subseteq UserSetIDs
           /\ updates[v].added_as_owner \subseteq UserSetIDs
           /\ reply[v].kind = "UserSet" => reply[v].userset \in UserSetIDs
           /\ reply[v].kind = "UserSets" => reply[v].usersets \subseteq UserSetIDs
           /\ reply[v].kind = "Updates" => reply[v].updates.added_as_owner \subseteq UserSetIDs
           /\ pc[v] \in {"dec_prep", "mk_notify"} => frame[v].userset \in UserSetIDs
<1>1. client[v] \in ClientState /\ updates[v] \in UpdateResponse /\ LocalsOK(v) /\ KnownUserSetsStored(v)
  BY DEF IInv, TypeOK, UMTypeOK
<1> QED
  BY <1>1 DEF ClientState, UpdateResponse, LocalsOK, KnownUserSetsStored, InStorage

LEMMA KnowsStays ==
    ASSUME Knowing, NEW v \in Users, TellsNone(v) PROVE OwnersKnow(v)'
<1>0. IInv
  BY DEF Knowing, Stepping
<1>1. OwnersKnow(v)
  BY DEF Knowing, OwnersInv
<1>2. \A s \in client'[v].knownOwned \cup updates'[v].added_as_owner : UserOwns(v, s)'
  BY <1>0, <1>1, UserSetsHaveIDs, OwnersStay DEF TellsNone, OwnersKnow
<1>3. /\ reply'[v].kind = "UserSet" => UserOwns(v, reply[v].userset)' /\ reply'[v] = reply[v]
      /\ reply'[v].kind = "UserSets" => (\A s \in reply[v].usersets : UserOwns(v, s)') /\ reply'[v] = reply[v]
      /\ reply'[v].kind = "Updates" => 
            (\A s \in reply[v].updates.added_as_owner : UserOwns(v, s)') /\ reply'[v] = reply[v]
  BY <1>0, <1>1, UserSetsHaveIDs, OwnersStay DEF TellsNone, OwnersKnow
<1>4. /\ pc'[v] = "dec_prep" => UserOwns(v, frame[v].userset)' /\ frame'[v] = frame[v]
      /\ pc'[v] = "mk_notify" =>
            (\A m \in frame[v].todo.owners : UserOwns(m, frame[v].userset)') /\ frame'[v] = frame[v]
  BY <1>0, <1>1, UserSetsHaveIDs, OwnersStay DEF TellsNone, OwnersKnow
<1> QED
  BY <1>2, <1>3, <1>4 DEF OwnersKnow, UserOwns

-----------------------------------------------------------------------------
\* Storing a userset, and telling its owners.

LEMMA TellingNobody ==
    ASSUME Knowing, NEW u \in Users,
           \/ RejectUserSet(u) \/ Participate(u) \/ SendPart(u)
           \/ PrepareDecryption(u) \/ LookupMember(u)
           \/ ParticipateFindCollected(u) \/ SendPartFindCollected(u) \/ RegisterTooLate(u)
           \/ RegisterParticipant(u) \/ TellParticipant(u) \/ RegisterPart(u) \/ FinishOperation(u)
           \/ LoseConnection(u) \/ LogOut(u)
    PROVE  UNCHANGED usersets /\ \A v \in Users : TellsNone(v)
<1>0. IInv
  BY DEF Knowing, Stepping
<1>1. /\ pc \in [Users -> Locations] /\ frame \in [Users -> Frame] /\ reply \in [Users -> Reply]
      /\ client \in [Users -> ClientState] /\ updates \in [Users -> UpdateResponse]
  BY <1>0 DEF IInv, TypeOK, UMTypeOK
<1>2. CASE RejectUserSet(u)
  BY <1>1, <1>2 DEF RejectUserSet, Respond, Goto, ErrorResponse, TellsNone
<1>3. CASE Participate(u) \/ SendPart(u)
  <2>1. /\ \A v \in Users : client'[v].knownOwned = client[v].knownOwned
        /\ UNCHANGED <<usersets, updates, reply>>
    <3>1. CASE Participate(u)
      <4>1. PICK x : client' = [client EXCEPT ![u].lookups = x]
        BY <3>1 DEF Participate
      <4> QED
        BY <1>1, <3>1, <4>1 DEF Participate, ClientState
    <3>2. CASE SendPart(u)
      <4>1. PICK x : client' = [client EXCEPT ![u].tasks = x]
        BY <3>2 DEF SendPart
      <4>2. UNCHANGED <<usersets, updates, reply>>
        BY <3>2 DEF SendPart
      <4> QED
        BY <1>1, <4>1, <4>2 DEF ClientState
    <3> QED
      BY <1>3, <3>1, <3>2
  <2>2. CASE Participate(u)
    <3>1. PICK o : FindPrepared(u, o, [EmptyFrame EXCEPT !.op = o], "par_find", "par_reg")
      BY <2>2 DEF Participate
    <3>2. /\ pc'[u] \in {"par_find", "par_reg"}
          /\ \A v \in Users \ {u} : pc'[v] = pc[v] /\ frame'[v] = frame[v]
      BY <1>1, <3>1 DEF FindPrepared, Goto
    <3> QED
      BY <2>1, <3>2 DEF TellsNone
  <2>3. CASE SendPart(u)
    <3>1. PICK o, fr : FindPrepared(u, o, fr, "snd_find", "snd_reg")
      BY <2>3 DEF SendPart
    <3>2. /\ pc'[u] \in {"snd_find", "snd_reg"}
          /\ \A v \in Users \ {u} : pc'[v] = pc[v] /\ frame'[v] = frame[v]
      BY <1>1, <3>1 DEF FindPrepared, Goto
    <3> QED
      BY <2>1, <3>2 DEF TellsNone
  <2> QED
    BY <1>3, <2>2, <2>3
<1>4. CASE PrepareDecryption(u)
  <2>1. PICK next \in Locations :
            /\ pc' = [pc EXCEPT ![u] = next] /\ next \notin {"dec_prep", "mk_notify"}
            /\ \A v \in Users \ {u} : frame'[v] = frame[v]
            /\ UNCHANGED <<usersets, updates, reply, client>>
    <3>1. /\ pc' = [pc EXCEPT ![u] = "dec_lookup"] \/ pc' = [pc EXCEPT ![u] = "reply"]
          /\ UNCHANGED <<usersets, updates, reply, client>>
      BY <1>4 DEF PrepareDecryption, Loop, Goto
    <3>2. \E x : frame' = [frame EXCEPT ![u].todo = x]
      BY <1>4 DEF PrepareDecryption
    <3> QED
      BY <1>1, <3>1, <3>2 DEF Locations
  <2> QED
    BY <1>1, <2>1 DEF TellsNone
<1>5. CASE LookupMember(u)
  <2>1. /\ pc'[u] \in {"reply", "dec_lookup"} /\ UNCHANGED <<usersets, reply, client>>
        /\ \A v \in Users \ {u} : pc'[v] = pc[v] /\ frame'[v] = frame[v]
    BY <1>1, <1>5 DEF LookupMember, Turn, Goto
  <2>2. PICK m \in Users : \E x : updates' = [updates EXCEPT ![m].on_lookup = x]
    BY <1>5 DEF LookupMember, RegisterLookup
  <2>3. \A v \in Users : updates'[v].added_as_owner = updates[v].added_as_owner
    BY <1>1, <2>2 DEF UpdateResponse
  <2> QED
    BY <2>1, <2>3 DEF TellsNone
<1>15. CASE TellParticipant(u)
  <2>1. /\ pc'[u] \in {"reply", "par_tell"} /\ UNCHANGED <<usersets, reply, client>>
        /\ \A v \in Users \ {u} : pc'[v] = pc[v] /\ frame'[v] = frame[v]
    BY <1>1, <1>15 DEF TellParticipant, Turn, Goto
  <2>2. PICK m \in Users : \E x : updates' = [updates EXCEPT ![m].to_decrypt = x]
    BY <1>15 DEF TellParticipant, RegisterDecryptionParticipating
  <2>3. \A v \in Users : updates'[v].added_as_owner = updates[v].added_as_owner
    BY <1>1, <2>2 DEF UpdateResponse
  <2> QED
    BY <2>1, <2>3 DEF TellsNone
<1>6. CASE ParticipateFindCollected(u) \/ SendPartFindCollected(u)
  BY <1>1, <1>6 DEF ParticipateFindCollected, SendPartFindCollected, FindCollected, Respond, Goto,
     ErrorResponse, TellsNone
<1>7. CASE RegisterTooLate(u)
  BY <1>1, <1>7 DEF RegisterTooLate, Respond, Goto, ErrorResponse, ParticipateResponse, TellsNone
<1>8. CASE RegisterParticipant(u)
  BY <1>1, <1>8 DEF RegisterParticipant, Goto, ParticipateResponse, TellsNone
<1>9. CASE RegisterPart(u)
  BY <1>1, <1>9 DEF RegisterPart, Goto, SendDecryptionPartResponse, TellsNone
<1>10. CASE FinishOperation(u)
  BY <1>1, <1>10 DEF FinishOperation, Goto, RegisterFinishedDecryption, UpdateResponse, TellsNone
<1>11. CASE LoseConnection(u)
  BY <1>1, <1>11 DEF LoseConnection, Goto, NoReply, TellsNone
<1>12. CASE LogOut(u)
  <2>1. PICK x : client' = [client EXCEPT ![u].pendingDecryptions = x]
    BY <1>12 DEF LogOut
  <2>2. UNCHANGED <<usersets, updates, pc, frame, reply>>
    BY <1>12 DEF LogOut
  <2>3. \A v \in Users : client'[v].knownOwned = client[v].knownOwned
    BY <1>1, <2>1 DEF ClientState
  <2> QED
    BY <2>2, <2>3 DEF TellsNone
<1> QED
  BY <1>2, <1>3, <1>4, <1>5, <1>6, <1>7, <1>8, <1>9, <1>10, <1>11, <1>12, <1>15

LEMMA OthersToldNone ==
    ASSUME Knowing, NEW u \in Users, NEW v \in Users \ {u},
           updates'[v] = updates[v], client'[v] = client[v], reply'[v] = reply[v],
           pc'[v] = pc[v], frame'[v] = frame[v]
    PROVE  OwnersKnow(v)'
<1>1. TellsNone(v)
  BY DEF TellsNone
<1> QED
  BY <1>1, KnowsStays

LEMMA StoreUserSetTells ==
    ASSUME Knowing, NEW u \in Users, StoreUserSet(u) PROVE \A v \in Users : OwnersKnow(v)'
<1>0. IInv
  BY DEF Knowing, Stepping
<1>1. PICK p \in Plans, s \in UserSetIDs :
          LET todo == [owners |-> p.owners, reg_members |-> p.reg_members] IN
          /\ u \notin p.owners \cup p.reg_members
          /\ p.owners \cup p.reg_members \subseteq Users
          /\ usersets[s] = Absent
          /\ usersets' = [usersets EXCEPT ![s] =
                 [owners |-> p.owners \cup {u}, reg_members |-> p.reg_members,
                  owners_threshold |-> p.owners_threshold,
                  reg_members_threshold |-> p.reg_members_threshold]]
          /\ frame' = [frame EXCEPT ![u].userset = s, ![u].todo = todo]
          /\ Goto(u, Loop(todo, "mk_notify"))
          /\ reply' = [reply EXCEPT ![u] = MakeUserSetResponse(s)]
  BY DEF StoreUserSet
<1>2. UNCHANGED <<updates, client>>
  BY DEF StoreUserSet
<1>3. usersets'[s] = [owners |-> p.owners \cup {u}, reg_members |-> p.reg_members,
                      owners_threshold |-> p.owners_threshold,
                      reg_members_threshold |-> p.reg_members_threshold]
  BY <1>0, <1>1 DEF IInv, TypeOK
<1>4. usersets'[s] # Absent
  <2>1. p \in Plan
    BY PlansAssumption
  <2>2. usersets'[s] \in UserSetInfo
    BY <1>1, <1>3, <2>1 DEF Plan, UserSetInfo
  <2> QED
    BY <2>2, AbsentAssumption
<1>5. /\ UserOwns(u, s)' /\ \A m \in p.owners : UserOwns(m, s)'
  BY <1>3, <1>4 DEF UserOwns
<1>6. /\ frame'[u].userset = s /\ frame'[u].todo.owners = p.owners
      /\ reply'[u] = [kind |-> "UserSet", userset |-> s]
      /\ pc'[u] \in {"reply", "mk_notify"}
      /\ \A v \in Users \ {u} : reply'[v] = reply[v] /\ pc'[v] = pc[v] /\ frame'[v] = frame[v]
  <2>1. /\ pc \in [Users -> Locations] /\ frame \in [Users -> Frame] /\ reply \in [Users -> Reply]
        /\ frame[u] \in Frame
    BY <1>0 DEF IInv, TypeOK
  <2> QED
    BY <1>1, <2>1 DEF MakeUserSetResponse, Goto, Loop, Frame
<1>7. OwnersKnow(u)'
  <2>1. \A t \in client[u].knownOwned \cup updates[u].added_as_owner : UserOwns(u, t)'
    BY <1>0, UserSetsHaveIDs, OwnersStay DEF Knowing, OwnersInv, OwnersKnow
  <2> QED
    BY <1>2, <1>5, <1>6, <2>1 DEF OwnersKnow, UserOwns
<1> QED
  BY <1>2, <1>6, <1>7, OthersToldNone

LEMMA NotifyMemberTells ==
    ASSUME Knowing, NEW u \in Users, NotifyMember(u)
    PROVE  UNCHANGED usersets /\ \A v \in Users : OwnersKnow(v)'
<1>0. IInv
  BY DEF Knowing, Stepping
<1>1. PICK s \in UserSetIDs : s = frame[u].userset
  BY <1>0 DEF NotifyMember, IInv, LocalsOK
<1>2. /\ pc[u] = "mk_notify" /\ UNCHANGED <<usersets, client, reply>>
      /\ \A n \in frame[u].todo.owners : UserOwns(n, s)
  BY <1>1 DEF NotifyMember, Turn, Knowing, OwnersInv, OwnersKnow
<1>3. PICK m \in Users :
          \/ Turn(u, "owners", m) /\ RegisterOwner(m, s)
          \/ Turn(u, "reg_members", m) /\ RegisterRegMember(m, s)
  BY <1>1 DEF NotifyMember
<1>4. /\ pc \in [Users -> Locations] /\ frame \in [Users -> Frame] /\ frame[u] \in Frame
      /\ updates \in [Users -> UpdateResponse] /\ frame[u].todo \in MemberLists
  BY <1>0 DEF IInv, TypeOK, UMTypeOK, Frame
<1>5. /\ frame'[u].userset = s /\ frame'[u].todo.owners \subseteq frame[u].todo.owners
      /\ pc'[u] \in {"mk_notify", "reply"}
      /\ \A v \in Users \ {u} : pc'[v] = pc[v] /\ frame'[v] = frame[v]
  BY <1>1, <1>2, <1>3, <1>4 DEF Turn, Goto, Frame, MemberLists
<1>6. ASSUME NEW v \in Users
      PROVE  updates'[v].added_as_owner \subseteq
                updates[v].added_as_owner \cup (IF UserOwns(v, s) THEN {s} ELSE {})
  <2>1. CASE RegisterOwner(m, s) /\ Turn(u, "owners", m)
    <3>1. UserOwns(m, s)
      BY <1>2, <2>1 DEF Turn
    <3> QED
      BY <1>4, <2>1, <3>1 DEF RegisterOwner, UpdateResponse
  <2>2. CASE RegisterRegMember(m, s)
    BY <1>4, <2>2 DEF RegisterRegMember, UpdateResponse
  <2> QED
    BY <1>3, <2>1, <2>2
<1>7. ASSUME NEW v \in Users PROVE OwnersKnow(v)'
  <2>1. OwnersKnow(v)
    BY DEF Knowing, OwnersInv
  <2>2. \A n, t : UserOwns(n, t)' <=> UserOwns(n, t)
    BY <1>2 DEF UserOwns
  <2>3. \A t \in client'[v].knownOwned \cup updates'[v].added_as_owner : UserOwns(v, t)
    BY <1>2, <1>6, <2>1 DEF OwnersKnow
  <2>4. CASE v = u
    BY <1>2, <1>5, <2>1, <2>2, <2>3, <2>4 DEF OwnersKnow, UserOwns
  <2>5. CASE v # u
    BY <1>2, <1>5, <2>1, <2>2, <2>3, <2>5 DEF OwnersKnow, UserOwns
  <2> QED
    BY <2>4, <2>5
<1> QED
  BY <1>2, <1>7

\* What is told of usersets is passed on.
LEMMA PassingOn ==
    ASSUME Knowing, NEW u \in Users,
           SendUserSets(u) \/ InitiateDecryption(u) \/ SendUpdates(u) \/ SendResponse(u)
    PROVE  UNCHANGED usersets /\ \A v \in Users : OwnersKnow(v)'
<1>0. IInv /\ OwnersKnow(u)
  BY DEF Knowing, Stepping, OwnersInv
<1>1. /\ pc \in [Users -> Locations] /\ frame \in [Users -> Frame] /\ reply \in [Users -> Reply]
      /\ client \in [Users -> ClientState] /\ updates \in [Users -> UpdateResponse]
      /\ frame[u] \in Frame /\ client[u] \in ClientState /\ reply[u] \in Reply
  BY <1>0 DEF IInv, TypeOK, UMTypeOK
<1>2. UNCHANGED usersets
  BY DEF SendUserSets, InitiateDecryption, SendUpdates, SendResponse
<1>3. \A n, t : UserOwns(n, t)' <=> UserOwns(n, t)
  BY <1>2 DEF UserOwns
<1>4. \A v \in Users \ {u} : /\ updates'[v] = updates[v] /\ client'[v] = client[v]
                             /\ reply'[v] = reply[v] /\ pc'[v] = pc[v] /\ frame'[v] = frame[v]
  BY <1>1 DEF SendUserSets, InitiateDecryption, SendUpdates, SendResponse, Respond, RetrieveUpdates, Goto
<1>5. CASE SendUserSets(u)
  <2>1. /\ reply'[u] = [kind |-> "UserSets", usersets |-> GetUserSets(u)] /\ pc'[u] = "reply"
        /\ UNCHANGED <<client, updates>>
    BY <1>1, <1>5 DEF SendUserSets, Respond, Goto, GetUserSetsResponse
  <2>2. \A t \in GetUserSets(u) : UserOwns(u, t)
    BY DEF GetUserSets
  <2> QED
    BY <1>0, <1>2, <1>4, <2>1, <2>2, OthersToldNone DEF OwnersKnow, UserOwns
<1>6. CASE InitiateDecryption(u)
  <2>1. PICK s \in client[u].knownOwned, o \in OpIDs :
            /\ \/ /\ frame' = [frame EXCEPT ![u].op = o, ![u].userset = s,
                         ![u].opCollRecord = NewCollectedRecord(u, s, 0, 0)]
                  /\ Goto(u, "finish")
               \/ /\ frame' = [frame EXCEPT ![u].op = o, ![u].userset = s]
                  /\ Goto(u, "dec_prep")
            /\ reply' = [reply EXCEPT ![u] = DecryptResponse(o)]
    BY <1>6 DEF InitiateDecryption
  <2>2. /\ frame'[u].userset = s /\ reply'[u].kind = "Operation" /\ pc'[u] \in {"finish", "dec_prep"}
        /\ UNCHANGED <<client, updates>>
    <3>1. UNCHANGED <<client, updates>>
      BY <1>6 DEF InitiateDecryption
    <3>2. frame'[u].userset = s
      BY <1>1, <2>1 DEF Frame
    <3>3. reply'[u].kind = "Operation" /\ pc'[u] \in {"finish", "dec_prep"}
      BY <1>1, <2>1 DEF DecryptResponse, Goto
    <3> QED
      BY <3>1, <3>2, <3>3
  <2>3. UserOwns(u, s)
    BY <1>0 DEF OwnersKnow
  <2> QED
    BY <1>0, <1>2, <1>4, <2>2, <2>3, OthersToldNone DEF OwnersKnow, UserOwns
<1>7. CASE SendUpdates(u)
  <2>1. /\ reply'[u] = [kind |-> "Updates", updates |-> updates[u]] /\ pc'[u] = "reply"
        /\ updates'[u].added_as_owner = {} /\ UNCHANGED client
    BY <1>1, <1>7 DEF SendUpdates, Respond, Goto, UpdatesReply, RetrieveUpdates, NoUpdates
  <2> QED
    BY <1>0, <1>2, <1>4, <2>1, OthersToldNone DEF OwnersKnow, UserOwns
<1>8. CASE SendResponse(u)
  <2>1. /\ reply'[u] = NoReply /\ pc'[u] = "idle" /\ UNCHANGED updates
        /\ client'[u] = Consume(client[u], u, reply[u])
    BY <1>1, <1>8 DEF SendResponse, Goto
  <2>2. client'[u].knownOwned =
          client[u].knownOwned \cup (CASE reply[u].kind = "UserSet" -> {reply[u].userset}
                                       [] reply[u].kind = "UserSets" -> reply[u].usersets
                                       [] reply[u].kind = "Updates" ->
                                             reply[u].updates.added_as_owner
                                       [] OTHER -> {})
    BY <1>1, <2>1, ConsumeKnownOwned
  <2>3. \A t \in client'[u].knownOwned : UserOwns(u, t)
    BY <1>0, <2>2 DEF OwnersKnow
  <2> QED
    BY <1>0, <1>2, <1>4, <2>1, <2>3, OthersToldNone DEF OwnersKnow, UserOwns, NoReply
<1> QED
  BY <1>2, <1>5, <1>6, <1>7, <1>8

-----------------------------------------------------------------------------
\* Looking for participants, and waiting for their parts.

\* The owner that asks stays one, and thresholds stay.
LEMMA AskStays ==
    ASSUME Knowing, NEW o \in OpIDs, prep'[o] = prep[o] PROVE OwnersAsk(o)'
<1>1. prep[o] # Absent => InStorage(prep[o].userset)
  BY DEF Knowing, Stepping, AccountsInv, Preparing
<1>2. prep[o] # Absent => usersets'[prep[o].userset] = usersets[prep[o].userset]
  BY <1>1, SteppingFacts DEF Knowing, InStorage
<1> QED
  BY <1>2 DEF Knowing, OwnersInv, OwnersAsk

LEMMA PrepareDecryptionAsks ==
    ASSUME Knowing, NEW u \in Users, PrepareDecryption(u)
    PROVE  \A o \in OpIDs : OwnersAsk(o)'
<1>0. IInv
  BY DEF Knowing, Stepping
<1>1. PICK o \in OpIDs : o = frame[u].op
  BY <1>0 DEF PrepareDecryption, IInv, LocalsOK
<1>2. PICK s \in UserSetIDs : s = frame[u].userset /\ UserOwns(u, s)
  <2>1. frame[u].userset \in UserSetIDs
    BY <1>0 DEF PrepareDecryption, IInv, LocalsOK
  <2>2. UserOwns(u, frame[u].userset)
    BY DEF PrepareDecryption, Knowing, OwnersInv, OwnersKnow
  <2> QED
    BY <2>1, <2>2
<1>3. prep[o] = Absent
  BY <1>1 DEF PrepareDecryption, Knowing, Stepping, AccountsInv, FreshOperation
<1>4. /\ prep' = [prep EXCEPT ![o] = NewPrepareRecord(u, s,
                        usersets[s].owners_threshold, usersets[s].reg_members_threshold)]
      /\ UNCHANGED usersets
  BY <1>1, <1>2, <1>3 DEF PrepareDecryption, PrepareOperation, Emplace
<1>5. OwnersAsk(o)'
  <2>1. prep'[o] = NewPrepareRecord(u, s,
                        usersets[s].owners_threshold, usersets[s].reg_members_threshold)
    BY <1>0, <1>4 DEF IInv, TypeOK, DMTypeOK
  <2> QED
    BY <1>2, <1>4, <2>1 DEF OwnersAsk, NewPrepareRecord, UserOwns
<1>6. \A p \in OpIDs \ {o} : prep'[p] = prep[p]
  BY <1>0, <1>4 DEF IInv, TypeOK, DMTypeOK
<1> QED
  BY <1>5, <1>6, AskStays

\* What registering a participant does to the records of its operation, where the
\* answer is q and r is the record with the participant.
Records(u, o, q, r) ==
    /\ q = Requirement(prep[o], UserOwns(u, frame[u].userset))
    /\ reply' = [reply EXCEPT ![u] = ParticipateResponse(o, q)]
    /\ r.userset = prep[o].userset /\ r.requester = prep[o].requester
    /\ r.required_owners = prep[o].required_owners
    /\ r.required_reg_members = prep[o].required_reg_members
    /\ r.owners_found \cup r.reg_members_found =
           prep[o].owners_found \cup prep[o].reg_members_found \cup {u}
    /\ \/ /\ q = "NotRequired"
          /\ Goto(u, "reply")
          /\ UNCHANGED <<prep, collected, team, frame>>
       \/ /\ q # "NotRequired"
          /\ prep' = [prep EXCEPT ![o] = r]
          /\ Goto(u, "reply")
          /\ UNCHANGED <<collected, team, frame>>
       \/ /\ q # "NotRequired"
          /\ prep' = [prep EXCEPT ![o] = Absent]
          /\ collected' = [collected EXCEPT ![o] =
                 NewCollectedRecord(r.requester, r.userset,
                     r.required_owners, r.required_reg_members)]
          /\ team' = [team EXCEPT ![o] =
                 [owners |-> r.owners_found, reg_members |-> r.reg_members_found]]
          /\ frame' = [frame EXCEPT ![u].opPrepRecord = r,
                 ![u].todo = [owners |-> r.owners_found,
                              reg_members |-> r.reg_members_found]]
          /\ Goto(u, "par_tell")

LEMMA ParticipantRecorded ==
    ASSUME Stepping, NEW u \in Users, RegisterParticipant(u), NEW o \in OpIDs, o = frame[u].op
    PROVE  /\ prep[o] \in PrepareRecord /\ prep[o] # Absent
           /\ collected[o] = Absent /\ team[o] = Absent
           /\ UNCHANGED <<updates, usersets, client>>
           /\ \E q \in PartRequirement, r \in PrepareRecord : Records(u, o, q, r)
<1>0. IInv /\ AccountsInv /\ OperationInv
  BY DEF Stepping
<1>1. PICK c \in PrepareRecord : c = prep[o] /\ c # Absent
  BY <1>0, ParticipantIsInvited
<1>2. collected[o] = Absent /\ team[o] = Absent
  BY <1>0, <1>1 DEF OperationInv, OnePlace, Stages
<1>3. PICK isOwner \in BOOLEAN : isOwner = UserOwns(u, frame[u].userset)
  BY DEF UserOwns
<1>4. PICK q \in PartRequirement : q = Requirement(c, isOwner)
  BY RequirementTypes
<1>5. PICK r \in PrepareRecord : r = WithParticipant(c, u, q)
  BY WithParticipantTypes
<1>6. /\ r.userset = c.userset /\ r.requester = c.requester
      /\ r.required_owners = c.required_owners
      /\ r.required_reg_members = c.required_reg_members
      /\ r.owners_found \cup r.reg_members_found = c.owners_found \cup c.reg_members_found \cup {u}
  BY <1>5 DEF WithParticipant, PrepareRecord
<1>7. UNCHANGED <<updates, usersets, client>>
  BY DEF RegisterParticipant
<1>8. Records(u, o, q, r)
  BY <1>1, <1>2, <1>3, <1>4, <1>5, <1>6, Zenon
     DEF Records, RegisterParticipant, AddParticipant, AddLastParticipant, Emplace, dmVars
<1> QED
  BY <1>1, <1>2, <1>7, <1>8

LEMMA RegisterParticipantAsks ==
    ASSUME Knowing, NEW u \in Users, RegisterParticipant(u)
    PROVE  \A o \in OpIDs : OwnersAsk(o)'
<1>0. IInv /\ Stepping
  BY DEF Knowing, Stepping
<1>1. PICK o \in OpIDs : o = frame[u].op
  BY <1>0 DEF RegisterParticipant, IInv, LocalsOK
<1>2. PICK q \in PartRequirement, r \in PrepareRecord : Records(u, o, q, r)
  BY <1>0, <1>1, ParticipantRecorded
<1>3. prep[o] # Absent /\ UNCHANGED usersets
  BY <1>0, <1>1, ParticipantRecorded
<1>4. \A p \in OpIDs \ {o} : prep'[p] = prep[p]
  BY <1>0, <1>2 DEF Records, IInv, TypeOK, DMTypeOK
<1>5. \/ prep'[o] = prep[o]
      \/ prep'[o] = Absent
      \/ /\ prep'[o] = r
         /\ r.userset = prep[o].userset /\ r.requester = prep[o].requester
         /\ r.required_owners = prep[o].required_owners
         /\ r.required_reg_members = prep[o].required_reg_members
  BY <1>0, <1>2 DEF Records, IInv, TypeOK, DMTypeOK
<1>6. OwnersAsk(o)'
  BY <1>3, <1>5 DEF Knowing, OwnersInv, OwnersAsk
<1> QED
  BY <1>4, <1>6, AskStays

LEMMA NextOwnersInv == ASSUME Knowing PROVE OwnersInv'
<1>1. [Next]_vars
  BY DEF Knowing, Stepping
<1>2. \A o \in OpIDs : OwnersAsk(o)'
  <2>1. ASSUME NEW u \in Users, InitiateDecryption(u) \/ RegisterPart(u) PROVE UNCHANGED prep
    BY <2>1 DEF InitiateDecryption, NewOperation, RegisterPart, AddPart, AddLastPart
  <2> QED
    BY <1>1, <2>1, ManagerSteps, PrepareDecryptionAsks, RegisterParticipantAsks, AskStays DEF dmVars
<1>3. \A v \in Users : OwnersKnow(v)'
  <2>1. ASSUME NEW u \in Users, Request(u) \/ Handle(u) \/ LoseConnection(u) \/ LogOut(u)
        PROVE  \A v \in Users : OwnersKnow(v)'
    BY <2>1, StoreUserSetTells, NotifyMemberTells, PassingOn, TellingNobody, KnowsStays
       DEF Request, Handle
  <2>2. CASE UNCHANGED vars
    BY <2>2, KnowsStays DEF vars, TellsNone
  <2> QED
    BY <1>1, <2>1, <2>2 DEF Next
<1> QED
  BY <1>2, <1>3 DEF OwnersInv

LEMMA OwnersInvariance ==
    ASSUME MembersListedOnce PROVE Spec => []OwnersInv
<1>1. Init => OwnersInv
  BY InitOwnersInv
<1>2. /\ IInv /\ AccountsInv /\ OperationInv /\ JoinInv /\ OwnersInv
      /\ IInv' /\ AccountsInv' /\ [Next]_vars
      => OwnersInv'
  BY NextOwnersInv DEF Knowing, Stepping
<1> QED
  BY <1>1, <1>2, AccountsInvariance, OperationInvariance, JoinInvariance, PTL DEF Spec

-----------------------------------------------------------------------------
\* Storing a userset without an owner to spare.

LEMMA StoreUserSetSpares ==
    ASSUME NoOwnerToSpare, Going, NEW u \in Users, StoreUserSet(u)
    PROVE  \A s \in UserSetIDs : NoneToSpare(s)'
<1>0. IInv
  BY DEF Going, Knowing, Stepping
<1>1. PICK p \in Plans, s \in UserSetIDs :
          /\ u \notin p.owners \cup p.reg_members
          /\ p.owners \cup p.reg_members \subseteq Users
          /\ usersets' = [usersets EXCEPT ![s] =
                 [owners |-> p.owners \cup {u}, reg_members |-> p.reg_members,
                  owners_threshold |-> p.owners_threshold,
                  reg_members_threshold |-> p.reg_members_threshold]]
  BY DEF StoreUserSet
<1>3. usersets'[s] = [owners |-> p.owners \cup {u}, reg_members |-> p.reg_members,
                      owners_threshold |-> p.owners_threshold,
                      reg_members_threshold |-> p.reg_members_threshold]
  BY <1>0, <1>1 DEF IInv, TypeOK
<1>4. \A t \in UserSetIDs \ {s} : usersets'[t] = usersets[t]
  BY <1>0, <1>1 DEF IInv, TypeOK
<1>5. ASSUME NEW t \in UserSetIDs PROVE NoneToSpare(t)'
  <2>1. CASE t # s
    BY <1>4, <2>1 DEF Going, SpareInv, NoneToSpare
  <2>2. CASE t = s
    <3>1. p.reg_members_threshold = 0 \/ Cardinality(p.owners) <= p.owners_threshold
      BY DEF NoOwnerToSpare
    <3>2. IsFiniteSet(p.owners) /\ u \notin p.owners
      BY <1>1, FiniteUsers, FS_Subset
    <3>3. /\ Cardinality(p.owners \cup {u}) = Cardinality(p.owners) + 1
          /\ Cardinality(p.owners) \in Nat /\ p.owners_threshold \in Nat
      BY <3>2, FS_AddElement, FS_CardinalityType, PlansAssumption DEF Plan
    <3>4. PICK a \in Nat, b \in Nat : a = Cardinality(p.owners) /\ b = p.owners_threshold
      BY <3>3
    <3>5. a <= b => a + 1 <= b + 1
      OBVIOUS
    <3> QED
      BY <1>3, <2>2, <3>1, <3>3, <3>4, <3>5 DEF NoneToSpare
  <2> QED
    BY <2>1, <2>2
<1> QED
  BY <1>5

LEMMA LooksStays ==
    ASSUME Going, NEW o \in OpIDs, prep'[o] = prep[o] PROVE LooksWell(o)'
<1>1. prep[o] # Absent => InStorage(prep[o].userset)
  BY DEF Going, Knowing, Stepping, AccountsInv, Preparing
<1>2. prep[o] # Absent => usersets'[prep[o].userset] = usersets[prep[o].userset]
  BY <1>1, SteppingFacts DEF Going, Knowing, InStorage
<1> QED
  BY <1>2 DEF Going, SpareInv, LooksWell

LEMMA WaitsStays ==
    ASSUME Going, NEW o \in OpIDs, collected'[o] = collected[o], team'[o] = team[o]
    PROVE  Waits(o)'
<1>1. collected[o] # Absent => InStorage(collected[o].userset)
  BY DEF Going, Knowing, Stepping, AccountsInv, Collecting
<1>2. collected[o] # Absent => usersets'[collected[o].userset] = usersets[collected[o].userset]
  BY <1>1, SteppingFacts DEF Going, Knowing, InStorage
<1> QED
  BY <1>2 DEF Going, SpareInv, Waits

LEMMA PrepareDecryptionLooks ==
    ASSUME Going, NEW u \in Users, PrepareDecryption(u)
    PROVE  \A o \in OpIDs : LooksWell(o)' /\ Waits(o)'
<1>0. IInv
  BY DEF Going, Knowing, Stepping
<1>1. PICK o \in OpIDs : o = frame[u].op
  BY <1>0 DEF PrepareDecryption, IInv, LocalsOK
<1>2. prep[o] = Absent
  BY <1>1 DEF PrepareDecryption, Going, Knowing, Stepping, AccountsInv, FreshOperation
<1>3. UNCHANGED <<collected, team>>
  BY DEF PrepareDecryption, PrepareOperation
<1>4. PICK r : prep' = [prep EXCEPT ![o] = r] /\ r.reg_members_found = {}
  <2>1. \A s, ot, rt : NewPrepareRecord(u, s, ot, rt).reg_members_found = {}
    BY DEF NewPrepareRecord
  <2> QED
    BY <1>1, <1>2, <2>1 DEF PrepareDecryption, PrepareOperation, Emplace
<1>5. prep'[o] = r /\ \A p \in OpIDs \ {o} : prep'[p] = prep[p]
  BY <1>0, <1>4 DEF IInv, TypeOK, DMTypeOK
<1>6. LooksWell(o)'
  BY <1>4, <1>5 DEF LooksWell
<1> QED
  BY <1>3, <1>5, <1>6, LooksStays, WaitsStays

\* No owner is asked for a regular member's part: by counting, all other owners
\* would have been found before it.
LEMMA RegularSlotsForRegularMembers ==
    ASSUME Going, NEW u \in Users, RegisterParticipant(u), NEW o \in OpIDs, o = frame[u].op,
           Requirement(prep[o], UserOwns(u, frame[u].userset)) = "RegPart"
    PROVE  ~UserOwns(u, frame[u].userset)
<1>0. IInv /\ AccountsInv
  BY DEF Going, Knowing, Stepping
<1>1. /\ MayBeAdmitted(u, o)
      /\ UserOwns(u, frame[u].userset) <=> u \in usersets[prep[o].userset].owners
      /\ prep[o] \in PrepareRecord /\ prep[o] # Absent
  BY <1>0, ParticipantIsInvited
<1>2. PICK r \in PrepareRecord : r = prep[o]
  BY <1>1
<1>3. PICK info : info = usersets[r.userset]
  OBVIOUS
<1>4. /\ Preparing(o) /\ OwnersAsk(o) /\ NoneToSpare(r.userset) /\ info # Absent
      /\ info \in UserSetInfo
  <2>1. Preparing(o) /\ OwnersAsk(o)
    BY <1>0 DEF Going, Knowing, OwnersInv, AccountsInv
  <2>2. InStorage(r.userset)
    BY <1>1, <1>2, <2>1 DEF Preparing
  <2> QED
    BY <1>0, <1>3, <2>1, <2>2 DEF Going, SpareInv, InStorage, IInv, TypeOK
<1> SUFFICES ASSUME u \in info.owners PROVE FALSE
  BY <1>1, <1>2, <1>3
<1>5. /\ Cardinality(r.owners_found) >= r.required_owners
      /\ Cardinality(r.reg_members_found) < r.required_reg_members
  <2>1. UserOwns(u, frame[u].userset)
    BY <1>1, <1>2, <1>3
  <2>2. /\ ~(Cardinality(r.owners_found) < r.required_owners)
        /\ Cardinality(r.reg_members_found) < r.required_reg_members
    BY <1>2, <2>1 DEF Requirement
  <2>3. Cardinality(r.owners_found) \in Nat /\ r.required_owners \in Nat
    BY FiniteUsers, FS_Subset, FS_CardinalityType DEF PrepareRecord
  <2> QED
    BY <2>2, <2>3
<1>6. /\ r.owners_found \subseteq info.owners /\ r.requester \in info.owners
      /\ r.requester \notin r.owners_found /\ u \notin r.owners_found /\ u # r.requester
      /\ r.required_owners = info.owners_threshold
      /\ r.required_reg_members = info.reg_members_threshold
  BY <1>1, <1>2, <1>3, <1>4 DEF Preparing, OwnersAsk, MayBeAdmitted
<1>7. /\ IsFiniteSet(info.owners) /\ IsFiniteSet(r.owners_found)
      /\ Cardinality(r.reg_members_found) \in Nat /\ Cardinality(r.owners_found) \in Nat
      /\ Cardinality(info.owners) \in Nat
      /\ r.required_owners \in Nat /\ r.required_reg_members \in Nat
  BY <1>4, FiniteUsers, FS_Subset, FS_CardinalityType DEF PrepareRecord, UserSetInfo
<1>8. Cardinality(info.owners) <= r.required_owners + 1
  BY <1>3, <1>4, <1>5, <1>6, <1>7 DEF NoneToSpare
<1>9. Cardinality((r.owners_found \cup {u}) \cup {r.requester}) = Cardinality(r.owners_found) + 1 + 1
  <2>1. PICK some : some = r.owners_found \cup {u}
    OBVIOUS
  <2>2. IsFiniteSet(some) /\ Cardinality(some) = Cardinality(r.owners_found) + 1
    BY <1>6, <1>7, <2>1, FS_AddElement
  <2>3. r.requester \notin some
    BY <1>6, <2>1
  <2>4. Cardinality(some \cup {r.requester}) = Cardinality(some) + 1
    BY <2>2, <2>3, FS_AddElement
  <2> QED
    BY <2>1, <2>2, <2>4
<1>10. Cardinality((r.owners_found \cup {u}) \cup {r.requester}) <= Cardinality(info.owners)
  BY <1>6, <1>7, FS_Subset
<1>11. PICK k \in Nat, m \in Nat, n \in Nat :
            /\ k = Cardinality(r.owners_found) /\ m = r.required_owners
            /\ n = Cardinality(info.owners)
  BY <1>7
<1>12. k >= m /\ n <= m + 1 /\ k + 1 + 1 <= n
  BY <1>5, <1>8, <1>9, <1>10, <1>11
<1> QED
  BY <1>12

LEMMA RegisterParticipantLooks ==
    ASSUME Going, NEW u \in Users, RegisterParticipant(u)
    PROVE  \A o \in OpIDs : LooksWell(o)' /\ Waits(o)'
<1>0. IInv /\ AccountsInv /\ OperationInv
  BY DEF Going, Knowing, Stepping
<1>1. PICK o \in OpIDs : o = frame[u].op
  BY <1>0 DEF RegisterParticipant, IInv, LocalsOK
<1>2. PICK isOwner \in BOOLEAN : isOwner = UserOwns(u, frame[u].userset)
  BY DEF UserOwns
<1>3. PICK c \in PrepareRecord : c = prep[o] /\ c # Absent
  BY <1>0, <1>1, ParticipantIsInvited
<1>4. PICK q \in PartRequirement : q = Requirement(c, isOwner)
  BY RequirementTypes
<1>5. PICK r \in PrepareRecord : r = WithParticipant(c, u, q)
  BY WithParticipantTypes
<1>6. q # "NotRequired" =>
        /\ r.userset = c.userset /\ r.requester = c.requester
        /\ r.required_owners = c.required_owners
        /\ r.required_reg_members = c.required_reg_members
        /\ r.reg_members_found \subseteq c.reg_members_found \cup (IF q = "RegPart" THEN {u} ELSE {})
  BY <1>5 DEF WithParticipant, PrepareRecord, PartRequirement
<1>7. /\ Preparing(o) /\ LooksWell(o) /\ collected[o] = Absent /\ team[o] = Absent
      /\ usersets[c.userset] # Absent
      /\ isOwner <=> u \in usersets[c.userset].owners
  <2>1. Preparing(o) /\ LooksWell(o) /\ collected[o] = Absent /\ team[o] = Absent
    BY <1>0, <1>3 DEF Going, SpareInv, AccountsInv, OperationInv, OnePlace, Stages
  <2>2. UserOwns(u, frame[u].userset) <=> u \in usersets[c.userset].owners
    BY <1>0, <1>1, <1>3, ParticipantIsInvited
  <2> QED
    BY <1>2, <1>3, <2>1, <2>2 DEF Preparing, InStorage
<1>8. q # "NotRequired" => r.reg_members_found \cap usersets[c.userset].owners = {}
  <2>1. q = "RegPart" => u \notin usersets[c.userset].owners
    BY <1>1, <1>2, <1>3, <1>4, <1>7, RegularSlotsForRegularMembers
  <2> QED
    BY <1>3, <1>6, <1>7, <2>1 DEF LooksWell
<1>9. /\ UNCHANGED usersets
      /\ \/ /\ UNCHANGED <<prep, collected, team>>
         \/ /\ q # "NotRequired"
            /\ prep' = [prep EXCEPT ![o] = r]
            /\ UNCHANGED <<collected, team>>
         \/ /\ q # "NotRequired"
            /\ prep' = [prep EXCEPT ![o] = Absent]
            /\ collected' = [collected EXCEPT ![o] = NewCollectedRecord(r.requester, r.userset,
                                 r.required_owners, r.required_reg_members)]
            /\ team' = [team EXCEPT ![o] = [owners |-> r.owners_found,
                                            reg_members |-> r.reg_members_found]]
  BY <1>1, <1>2, <1>3, <1>4, <1>5, <1>7, Zenon
     DEF RegisterParticipant, AddParticipant, AddLastParticipant, Emplace, dmVars
<1>10. \A p \in OpIDs \ {o} : /\ prep'[p] = prep[p] /\ collected'[p] = collected[p]
                              /\ team'[p] = team[p]
  BY <1>0, <1>9 DEF IInv, TypeOK, DMTypeOK
<1>11. LooksWell(o)'
  <2>1. prep'[o] \in {c, Absent} \/ (q # "NotRequired" /\ prep'[o] = r)
    BY <1>0, <1>3, <1>9 DEF IInv, TypeOK, DMTypeOK
  <2>2. CASE prep'[o] = c \/ prep'[o] = Absent
    BY <1>3, <1>7, <1>9, <2>2 DEF LooksWell
  <2>3. CASE q # "NotRequired" /\ prep'[o] = r
    BY <1>3, <1>6, <1>7, <1>8, <1>9, <2>3 DEF LooksWell
  <2> QED
    BY <2>1, <2>2, <2>3
<1>12. Waits(o)'
  <2>1. CASE UNCHANGED <<collected, team>>
    BY <2>1, WaitsStays
  <2>2. CASE /\ q # "NotRequired"
             /\ collected' = [collected EXCEPT ![o] = NewCollectedRecord(r.requester, r.userset,
                                 r.required_owners, r.required_reg_members)]
             /\ team' = [team EXCEPT ![o] = [owners |-> r.owners_found,
                                             reg_members |-> r.reg_members_found]]
    <3>1. PICK n : /\ n = NewCollectedRecord(r.requester, r.userset,
                             r.required_owners, r.required_reg_members)
                   /\ n.owner_layer_parts = <<>> /\ n.reg_layer_parts = <<>>
                   /\ n.required_owners = c.required_owners
                   /\ n.required_reg_members = c.required_reg_members
                   /\ n.userset = c.userset
      <4>1. LET n == NewCollectedRecord(r.requester, r.userset,
                             r.required_owners, r.required_reg_members)
            IN  /\ n.owner_layer_parts = <<>> /\ n.reg_layer_parts = <<>>
                /\ n.required_owners = c.required_owners
                /\ n.required_reg_members = c.required_reg_members
                /\ n.userset = c.userset
        BY <1>6, <2>2 DEF NewCollectedRecord
      <4> QED
        BY <4>1
    <3>2. collected'[o] = n /\ team'[o].reg_members = r.reg_members_found
      BY <1>0, <2>2, <3>1 DEF IInv, TypeOK, DMTypeOK
    <3>3. ~(0 >= c.required_owners /\ 0 >= c.required_reg_members)
      <4>1. \/ Cardinality(c.owners_found) < c.required_owners
            \/ Cardinality(c.reg_members_found) < c.required_reg_members
        BY <1>4, <2>2 DEF Requirement
      <4>2. /\ Cardinality(c.owners_found) \in Nat /\ c.required_owners \in Nat
            /\ Cardinality(c.reg_members_found) \in Nat /\ c.required_reg_members \in Nat
        BY FiniteUsers, FS_Subset, FS_CardinalityType DEF PrepareRecord
      <4> QED
        BY <4>1, <4>2
    <3>4. Len(<<>>) = 0
      OBVIOUS
    <3>5. ~HasEnoughParts(n)
      BY <3>1, <3>3, <3>4 DEF HasEnoughParts
    <3> QED
      BY <1>8, <1>9, <2>2, <3>1, <3>2, <3>5 DEF Waits, HasEnoughParts
  <2> QED
    BY <1>9, <2>1, <2>2
<1> QED
  BY <1>10, <1>11, <1>12, LooksStays, WaitsStays

LEMMA RegisterPartWaits ==
    ASSUME Going, NEW u \in Users, RegisterPart(u)
    PROVE  \A o \in OpIDs : LooksWell(o)' /\ Waits(o)'
<1>0. IInv /\ AccountsInv
  BY DEF Going, Knowing, Stepping
<1>1. PICK o \in OpIDs : o = frame[u].op
  BY <1>0 DEF RegisterPart, IInv, LocalsOK
<1>2. PICK part \in Part : part = frame[u].part
  BY <1>0 DEF RegisterPart, IInv, LocalsOK
<1>3. PICK c \in CollectedRecord : c = collected[o] /\ c # Absent
  BY <1>0, <1>1 DEF RegisterPart, IInv, TypeOK, DMTypeOK
<1>4. PICK isOwner : isOwner = UserOwns(u, frame[u].userset)
  OBVIOUS
<1>5. PICK r : r = WithPart(c, part, isOwner)
  OBVIOUS
<1>6. /\ UNCHANGED <<prep, team, usersets>>
      /\ \/ collected' = [collected EXCEPT ![o] = r] /\ ~HasEnoughParts(r)
         \/ collected' = [collected EXCEPT ![o] = Absent]
  BY <1>1, <1>2, <1>3, <1>4, <1>5, Zenon DEF RegisterPart, AddPart, AddLastPart
<1>7. /\ \A p \in OpIDs \ {o} : collected'[p] = collected[p]
      /\ (collected'[o] = r /\ ~HasEnoughParts(r)) \/ collected'[o] = Absent
  BY <1>0, <1>6 DEF IInv, TypeOK, DMTypeOK
<1>8. r.userset = c.userset
  BY <1>5 DEF WithPart, CollectedRecord
<1>9. Waits(o)'
  BY <1>3, <1>6, <1>7, <1>8 DEF Going, SpareInv, Waits, HasEnoughParts
<1> QED
  BY <1>6, <1>7, <1>9, LooksStays, WaitsStays

\* Every step preserves the invariant.
LEMMA NextSpareInv ==
    ASSUME NoOwnerToSpare, Going PROVE SpareInv'
<1>1. [Next]_vars
  BY DEF Going, Knowing, Stepping
<1>3. \A o \in OpIDs : LooksWell(o)' /\ Waits(o)'
  <2>1. ASSUME NEW u \in Users, InitiateDecryption(u) PROVE UNCHANGED <<prep, collected, team>>
    BY <2>1 DEF InitiateDecryption, NewOperation
  <2> QED
    BY <1>1, <2>1, ManagerSteps, PrepareDecryptionLooks, RegisterParticipantLooks, RegisterPartWaits,
       LooksStays, WaitsStays DEF dmVars
<1>4. \A s \in UserSetIDs : NoneToSpare(s)'
  <2>1. ASSUME NEW u \in Users,
               \/ Request(u) /\ ~StoreUserSet(u)
               \/ Handle(u) \/ LoseConnection(u) \/ LogOut(u)
        PROVE  UNCHANGED usersets
    BY <2>1, NotifyMemberTells, PassingOn, TellingNobody DEF Request, Handle, Going
  <2>2. UNCHANGED usersets => \A s \in UserSetIDs : NoneToSpare(s)'
    BY SpareStays
  <2> QED
    BY <1>1, <2>1, <2>2, StoreUserSetSpares DEF Next, vars
<1> QED
  BY <1>3, <1>4 DEF SpareInv

LEMMA SpareInvariance ==
    ASSUME MembersListedOnce, NoOwnerToSpare PROVE Spec => []SpareInv
<1>1. Init => SpareInv
  BY InitSpareInv
<1>2. /\ IInv /\ AccountsInv /\ OperationInv /\ JoinInv /\ OwnersInv /\ SpareInv
      /\ IInv' /\ AccountsInv' /\ [Next]_vars
      => SpareInv'
  BY NextSpareInv DEF Going, Knowing, Stepping
<1> QED
  BY <1>1, <1>2, AccountsInvariance, OperationInvariance, JoinInvariance, OwnersInvariance, PTL DEF Spec

-----------------------------------------------------------------------------
\* Where all participants have sent their parts, each is in the layer it was asked
\* for, so both layers are full.
LEMMA SomePartIsMissing == IInv /\ AccountsInv /\ JoinInv /\ SpareInv => NoStuckCollection
<1> SUFFICES ASSUME IInv, AccountsInv, JoinInv, SpareInv, NEW o \in OpIDs,
                    collected[o] # Absent, Missing(o) = {}
             PROVE  FALSE
  BY DEF NoStuckCollection
<1>1. PICK r \in CollectedRecord : r = collected[o]
  BY DEF IInv, TypeOK, DMTypeOK
<1>2. PICK own, reg : own = team[o].owners /\ reg = team[o].reg_members
  OBVIOUS
<1>3. Collecting(o) /\ PartsFit(o) /\ TeamApart(o) /\ Waits(o)
  BY DEF AccountsInv, JoinInv, SpareInv
<1>4. PICK ow \in Seq(Part), rg \in Seq(Part) :
          ow = r.owner_layer_parts /\ rg = r.reg_layer_parts
  BY DEF CollectedRecord
<1>5. PICK owners : owners = usersets[r.userset].owners
  OBVIOUS
<1>6. /\ own \subseteq owners /\ reg \cap owners = {} /\ own \cap reg = {}
      /\ Participants(o) = own \cup reg /\ Contributors(o) = Senders(ow) \cup Senders(rg)
      /\ Contributors(o) \subseteq Participants(o)
      /\ Cardinality(own \cup reg) = r.required_owners + r.required_reg_members
      /\ Cardinality(own) = r.required_owners
      /\ ~HasEnoughParts(r)
  BY <1>1, <1>2, <1>3, <1>4, <1>5 DEF Collecting, TeamApart, Waits, Participants, Contributors
<1>7. /\ Senders(ow) \subseteq owners /\ Senders(rg) \cap owners = {}
      /\ Cardinality(Senders(ow)) = Len(ow) /\ Cardinality(Senders(rg)) = Len(rg)
  <2>1. DOMAIN ow = 1..Len(ow) /\ DOMAIN rg = 1..Len(rg)
    OBVIOUS
  <2>2. FittingParts(o, r)
    BY <1>1, <1>3 DEF PartsFit
  <2> QED
    BY <1>4, <1>5, <2>1, <2>2 DEF FittingParts, Senders
<1>8. Senders(ow) \cup Senders(rg) = own \cup reg
  BY <1>6 DEF Missing
<1>9. Senders(ow) = own /\ Senders(rg) = reg
  BY <1>6, <1>7, <1>8
<1>10. IsFiniteSet(own) /\ IsFiniteSet(reg)
  <2>1. team[o] \in MemberLists
    BY <1>1, <1>3 DEF Collecting, IInv, TypeOK, DMTypeOK
  <2> QED
    BY <1>2, <2>1, FiniteUsers, FS_Subset DEF MemberLists
<1>11. Cardinality(own \cup reg) = Cardinality(own) + Cardinality(reg)
  <2>1. Cardinality(own \cup reg) = Cardinality(own) + Cardinality(reg) - Cardinality(own \cap reg)
    BY <1>10, FS_Union
  <2>2. Cardinality(own \cap reg) = 0 /\ Cardinality(own) \in Nat /\ Cardinality(reg) \in Nat
    BY <1>6, <1>10, FS_EmptySet, FS_CardinalityType
  <2> QED
    BY <2>1, <2>2
<1>12. PICK a \in Nat, b \in Nat, c \in Nat :
           a = r.required_owners /\ b = r.required_reg_members /\ c = Cardinality(reg)
  BY <1>10, FS_CardinalityType DEF CollectedRecord
<1>13. a + b = a + c
  BY <1>6, <1>11, <1>12
<1>14. Len(ow) = a /\ Len(rg) = b
  BY <1>6, <1>7, <1>9, <1>12, <1>13
<1> QED
  BY <1>4, <1>6, <1>12, <1>14 DEF HasEnoughParts

\* Where every owner is needed as an owner, register_part releases an operation with
\* the last part of its participants (DecryptionsManager::register_part).
THEOREM NoOperationIsStuck ==
    ASSUME MembersListedOnce, NoOwnerToSpare PROVE Spec => []NoStuckCollection
BY SomePartIsMissing, Invariance, AccountsInvariance, JoinInvariance, SpareInvariance, PTL

-----------------------------------------------------------------------------
\* The actions of AbstractDecryption, by what they do to one operation.

MapStays(o) ==
    /\ StageOf(o)' = StageOf(o)
    /\ JoinedIn(o)' = JoinedIn(o)
    /\ ContributedTo(o)' = ContributedTo(o)

LEMMA AbstractStutter ==
    ASSUME \A o \in OpIDs : MapStays(o) PROVE UNCHANGED Abstract!avars
BY DEF MapStays, Abstract!avars

LEMMA AbstractBegin ==
    ASSUME NEW o \in OpIDs, StageOf(o) = "none", StageOf(o)' = "looking",
           JoinedIn(o)' = JoinedIn(o), ContributedTo(o)' = ContributedTo(o),
           \A p \in OpIDs \ {o} : MapStays(p)
    PROVE  Abstract!Begin(o)
BY DEF MapStays, Abstract!Begin

LEMMA AbstractJoin ==
    ASSUME NEW o \in OpIDs, NEW u \in Users, StageOf(o) = "looking",
           StageOf(o)' \in {"looking", "collecting"},
           u \notin JoinedIn(o), JoinedIn(o)' = JoinedIn(o) \cup {u},
           ContributedTo(o)' = ContributedTo(o),
           \A p \in OpIDs \ {o} : MapStays(p)
    PROVE  Abstract!Join(o, u)
BY DEF MapStays, Abstract!Join

LEMMA AbstractContribute ==
    ASSUME NEW o \in OpIDs, NEW u \in Users, StageOf(o) = "collecting",
           u \in JoinedIn(o) \ ContributedTo(o), JoinedIn(o)' = JoinedIn(o),
           ContributedTo(o)' = ContributedTo(o) \cup {u},
           StageOf(o)' = (IF ContributedTo(o)' = JoinedIn(o) THEN "complete" ELSE "collecting"),
           \A p \in OpIDs \ {o} : MapStays(p)
    PROVE  Abstract!Contribute(o, u)
BY DEF MapStays, Abstract!Contribute

LEMMA AbstractReport ==
    ASSUME NEW os \in SUBSET OpIDs, \A o \in os : StageOf(o) = "complete",
           \A o \in OpIDs : /\ StageOf(o)' = (IF o \in os THEN "reported" ELSE StageOf(o))
                            /\ JoinedIn(o)' = JoinedIn(o)
                            /\ ContributedTo(o)' = ContributedTo(o)
    PROVE  Abstract!Report(os)
BY DEF Abstract!Report

-----------------------------------------------------------------------------
\* What the abstract state is made of.
LEMMA MapKept ==
    ASSUME NEW o \in OpIDs, prep'[o] = prep[o], collected'[o] = collected[o], team'[o] = team[o],
           HasResult(o)' <=> HasResult(o)
    PROVE  MapStays(o)
<1>1. Participants(o)' = Participants(o) /\ Contributors(o)' = Contributors(o)
  BY DEF Participants, Contributors
<1>2. StageOf(o)' = StageOf(o)
  BY DEF StageOf
<1> QED
  BY <1>1, <1>2 DEF MapStays, JoinedIn, ContributedTo

LEMMA ResultsKept ==
    ASSUME UNCHANGED client PROVE \A o \in OpIDs : HasResult(o)' <=> HasResult(o)
BY DEF HasResult

\* Nothing is known of an operation that a thread still has to prepare.
LEMMA PrepareDecryptionBegins ==
    ASSUME Going, NEW u \in Users, PrepareDecryption(u) PROVE Abstract!ANext
<1>0. IInv /\ OperationInv
  BY DEF Going, Knowing, Stepping
<1>1. PICK o \in OpIDs : o = frame[u].op
  BY <1>0 DEF PrepareDecryption, IInv, LocalsOK
<1>2. prep[o] = Absent /\ collected[o] = Absent /\ team[o] = Absent
  <2>1. prep[o] = Absent /\ collected[o] = Absent
    BY <1>1 DEF PrepareDecryption, Going, Knowing, Stepping, AccountsInv, FreshOperation
  <2>2. team[o] = Absent
    BY <1>0, <1>1 DEF PrepareDecryption, OperationInv, Stages, At
  <2> QED
    BY <2>1, <2>2
<1>3. PICK s \in UserSetIDs, n \in PrepareRecord :
          /\ n.owners_found = {} /\ n.reg_members_found = {}
          /\ prep' = [prep EXCEPT ![o] = n]
  <2>1. PICK s \in UserSetIDs : s = frame[u].userset /\ InStorage(s)
    BY <1>0 DEF PrepareDecryption, IInv, LocalsOK
  <2>2. usersets[s] \in UserSetInfo
    BY <1>0, <2>1 DEF IInv, TypeOK, InStorage
  <2>3. PICK n : n = NewPrepareRecord(u, s,
                        usersets[s].owners_threshold, usersets[s].reg_members_threshold)
    OBVIOUS
  <2>4. n \in PrepareRecord /\ n.owners_found = {} /\ n.reg_members_found = {}
    BY <2>2, <2>3 DEF NewPrepareRecord, PrepareRecord, UserSetInfo
  <2>5. prep' = [prep EXCEPT ![o] = n]
    BY <1>1, <1>2, <2>1, <2>3 DEF PrepareDecryption, PrepareOperation, Emplace
  <2> QED
    BY <2>4, <2>5
<1>4. prep'[o] = n /\ n # Absent /\ \A p \in OpIDs \ {o} : prep'[p] = prep[p]
  BY <1>0, <1>3, AbsentAssumption DEF IInv, TypeOK, DMTypeOK
<1>5. UNCHANGED <<collected, team, client>>
  BY DEF PrepareDecryption, PrepareOperation
<1>6. \A p \in OpIDs \ {o} : MapStays(p)
  BY <1>4, <1>5, MapKept, ResultsKept
<1>7. StageOf(o) = "none" /\ StageOf(o)' = "looking"
  BY <1>2, <1>4, <1>5 DEF StageOf
<1>8. JoinedIn(o) = {} /\ JoinedIn(o)' = {}
  BY <1>3, <1>4, <1>7 DEF JoinedIn
<1>9. ContributedTo(o) = {} /\ ContributedTo(o)' = {}
  BY <1>7 DEF ContributedTo
<1> QED
  BY <1>6, <1>7, <1>8, <1>9, AbstractBegin DEF Abstract!ANext

\* A member that is needed joins, and the last one starts the collection.
LEMMA RegisterParticipantJoins ==
    ASSUME Going, NEW u \in Users, RegisterParticipant(u)
    PROVE  Abstract!ANext \/ UNCHANGED Abstract!avars
<1>0. IInv /\ AccountsInv /\ OperationInv
  BY DEF Going, Knowing, Stepping
<1>1. PICK o \in OpIDs : o = frame[u].op
  BY <1>0 DEF RegisterParticipant, IInv, LocalsOK
<1>2. PICK c \in PrepareRecord : c = prep[o] /\ c # Absent
  BY <1>0, <1>1, ParticipantIsInvited
<1>3. /\ collected[o] = Absent /\ team[o] = Absent
      /\ u \notin c.owners_found \cup c.reg_members_found
  BY <1>0, <1>1, <1>2, ParticipantIsInvited DEF OperationInv, OnePlace, Stages, MayBeAdmitted
<1>4. PICK isOwner : isOwner = UserOwns(u, frame[u].userset)
  OBVIOUS
<1>5. PICK q : q = Requirement(c, isOwner)
  OBVIOUS
<1>6. PICK r \in PrepareRecord : r = WithParticipant(c, u, q)
  BY WithParticipantTypes
<1>7. r.owners_found \cup r.reg_members_found = (c.owners_found \cup c.reg_members_found) \cup {u}
  BY <1>6 DEF WithParticipant, PrepareRecord
<1>8. /\ UNCHANGED client
      /\ \/ UNCHANGED <<prep, collected, team>>
         \/ /\ prep' = [prep EXCEPT ![o] = r]
            /\ UNCHANGED <<collected, team>>
         \/ /\ prep' = [prep EXCEPT ![o] = Absent]
            /\ collected' = [collected EXCEPT ![o] = NewCollectedRecord(r.requester, r.userset,
                                 r.required_owners, r.required_reg_members)]
            /\ team' = [team EXCEPT ![o] = [owners |-> r.owners_found,
                                            reg_members |-> r.reg_members_found]]
  BY <1>1, <1>2, <1>3, <1>4, <1>5, <1>6, Zenon
     DEF RegisterParticipant, AddParticipant, AddLastParticipant, Emplace, dmVars
<1>9. CASE UNCHANGED <<prep, collected, team>>
  BY <1>8, <1>9, MapKept, ResultsKept, AbstractStutter
<1>10. StageOf(o) = "looking"
  BY <1>2, <1>3 DEF StageOf
<1>11. JoinedIn(o) = c.owners_found \cup c.reg_members_found /\ ContributedTo(o) = {}
  <2>1. JoinedIn(o) = prep[o].owners_found \cup prep[o].reg_members_found
    BY <1>10 DEF JoinedIn
  <2>2. ContributedTo(o) = {}
    BY <1>10 DEF ContributedTo
  <2> QED
    BY <1>2, <2>1, <2>2
<1>12. ASSUME \A p \in OpIDs \ {o} : /\ prep'[p] = prep[p] /\ collected'[p] = collected[p]
                                     /\ team'[p] = team[p]
       PROVE  \A p \in OpIDs \ {o} : MapStays(p)
  BY <1>8, <1>12, MapKept, ResultsKept
<1>13. CASE prep' = [prep EXCEPT ![o] = r] /\ UNCHANGED <<collected, team>>
  <2>1. prep'[o] = r /\ r # Absent /\ \A p \in OpIDs \ {o} : prep'[p] = prep[p]
    BY <1>0, <1>13, AbsentAssumption DEF IInv, TypeOK, DMTypeOK
  <2>2. StageOf(o)' = "looking"
    BY <1>3, <1>13, <2>1 DEF StageOf
  <2>3. JoinedIn(o)' = r.owners_found \cup r.reg_members_found /\ ContributedTo(o)' = {}
    <3>1. JoinedIn(o)' = prep'[o].owners_found \cup prep'[o].reg_members_found
      BY <2>2 DEF JoinedIn
    <3>2. ContributedTo(o)' = {}
      BY <2>2 DEF ContributedTo
    <3> QED
      BY <2>1, <3>1, <3>2
  <2> QED
    BY <1>3, <1>7, <1>10, <1>11, <1>12, <1>13, <2>1, <2>2, <2>3, AbstractJoin DEF Abstract!ANext
<1>14. CASE /\ prep' = [prep EXCEPT ![o] = Absent]
            /\ collected' = [collected EXCEPT ![o] = NewCollectedRecord(r.requester, r.userset,
                                 r.required_owners, r.required_reg_members)]
            /\ team' = [team EXCEPT ![o] = [owners |-> r.owners_found,
                                            reg_members |-> r.reg_members_found]]
  <2>1. PICK n \in CollectedRecord : /\ n = NewCollectedRecord(r.requester, r.userset,
                                              r.required_owners, r.required_reg_members)
                                     /\ n.owner_layer_parts = <<>> /\ n.reg_layer_parts = <<>>
    <3>1. LET n == NewCollectedRecord(r.requester, r.userset,
                        r.required_owners, r.required_reg_members)
          IN  n \in CollectedRecord /\ n.owner_layer_parts = <<>> /\ n.reg_layer_parts = <<>>
      BY DEF NewCollectedRecord, CollectedRecord, PrepareRecord
    <3> QED
      BY <3>1
  <2>2. /\ prep'[o] = Absent /\ collected'[o] = n /\ n # Absent
        /\ team'[o] = [owners |-> r.owners_found, reg_members |-> r.reg_members_found]
        /\ \A p \in OpIDs \ {o} : /\ prep'[p] = prep[p] /\ collected'[p] = collected[p]
                                  /\ team'[p] = team[p]
    BY <1>0, <1>14, <2>1, AbsentAssumption DEF IInv, TypeOK, DMTypeOK
  <2>3. StageOf(o)' = "collecting"
    BY <2>2 DEF StageOf
  <2>4. JoinedIn(o)' = r.owners_found \cup r.reg_members_found
    BY <2>2, <2>3 DEF JoinedIn, Participants
  <2>5. ContributedTo(o)' = {}
    BY <2>1, <2>2, <2>3 DEF ContributedTo, Contributors, Senders
  <2> QED
    BY <1>3, <1>7, <1>10, <1>11, <1>12, <2>2, <2>3, <2>4, <2>5, AbstractJoin DEF Abstract!ANext
<1> QED
  BY <1>8, <1>9, <1>13, <1>14

\* A part is contributed by a participant that had sent none; the operation is
\* complete if and only if it is the last participant.
LEMMA RegisterPartContributes ==
    ASSUME Going, JoinInv', NoStuckCollection', NEW u \in Users, RegisterPart(u)
    PROVE  Abstract!ANext
<1>0. IInv /\ AccountsInv /\ OperationInv
  BY DEF Going, Knowing, Stepping
<1>1. PICK o \in OpIDs : o = frame[u].op
  BY <1>0 DEF RegisterPart, IInv, LocalsOK
<1>2. PICK part \in Part : part = frame[u].part /\ part.by = u
  BY <1>0 DEF RegisterPart, IInv, LocalsOK, AccountsInv, OwnDuty
<1>3. PICK c \in CollectedRecord : c = collected[o] /\ c # Absent
  BY <1>0, <1>1 DEF RegisterPart, IInv, TypeOK, DMTypeOK
<1>4. PICK isOwner \in BOOLEAN : isOwner = UserOwns(u, frame[u].userset)
  BY DEF UserOwns
<1>5. PICK r \in CollectedRecord : r = WithPart(c, part, isOwner)
  BY WithPartTypes
<1>6. /\ UNCHANGED <<prep, team, client>>
      /\ \/ collected' = [collected EXCEPT ![o] = r]
         \/ /\ collected' = [collected EXCEPT ![o] = Absent]
            /\ pc' = [pc EXCEPT ![u] = "finish"]
            /\ frame' = [frame EXCEPT ![u].opCollRecord = r]
  BY <1>1, <1>2, <1>3, <1>4, <1>5, Zenon DEF RegisterPart, AddPart, AddLastPart, Goto
<1>7. /\ prep[o] = Absent /\ team[o] # Absent /\ ~HasResult(o)
      /\ u \in Participants(o) /\ u \notin Contributors(o)
  <2>1. OnePlace(o) /\ Stages(o)
    BY <1>0 DEF OperationInv
  <2>2. ~HasResult(o)
    BY <1>3, <2>1 DEF OnePlace, Reported, HasResult, Held
  <2>3. <<"send", u>> \in Debts(u, o)
    BY <1>1 DEF RegisterPart, Debts, Sending
  <2> QED
    BY <1>0, <1>3, <2>1, <2>2, <2>3 DEF OnePlace, Stages, AccountsInv, OwedOnce, Missing
<1>8. StageOf(o) = "collecting"
  BY <1>3, <1>7 DEF StageOf
<1>9. JoinedIn(o) = Participants(o) /\ ContributedTo(o) = Contributors(o)
  BY <1>8 DEF JoinedIn, ContributedTo
<1>10. Senders(r.owner_layer_parts) \cup Senders(r.reg_layer_parts) = Contributors(o) \cup {u}
  <2> DEFINE w == WithPart(c, part, isOwner)
  <2>1. /\ w \in CollectedRecord
        /\ w.requester = c.requester /\ w.userset = c.userset
        /\ w.required_owners = c.required_owners
        /\ w.required_reg_members = c.required_reg_members
        /\ Senders(w.owner_layer_parts) \cup Senders(w.reg_layer_parts) =
             Senders(c.owner_layer_parts) \cup Senders(c.reg_layer_parts) \cup {part.by}
        /\ Len(w.owner_layer_parts) + Len(w.reg_layer_parts) =
             Len(c.owner_layer_parts) + Len(c.reg_layer_parts) + 1
    BY OnePartMore
  <2> HIDE DEF w
  <2>2. r = w
    BY <1>5 DEF w
  <2> QED
    BY <1>2, <1>3, <2>1, <2>2 DEF Contributors
<1>11. Participants(o)' = Participants(o)
  BY <1>6 DEF Participants
<1>12. \A p \in OpIDs \ {o} : MapStays(p)
  <2>1. \A p \in OpIDs \ {o} : collected'[p] = collected[p]
    BY <1>0, <1>6 DEF IInv, TypeOK, DMTypeOK
  <2> QED
    BY <1>6, <2>1, MapKept, ResultsKept
<1>13. CASE collected' = [collected EXCEPT ![o] = r]
  <2>1. collected'[o] = r /\ r # Absent
    BY <1>0, <1>13, AbsentAssumption DEF IInv, TypeOK, DMTypeOK
  <2>2. StageOf(o)' = "collecting"
    BY <1>6, <1>7, <2>1 DEF StageOf
  <2>3. Contributors(o)' = Contributors(o) \cup {u}
    BY <1>10, <2>1 DEF Contributors
  <2>4. JoinedIn(o)' = Participants(o) /\ ContributedTo(o)' = Contributors(o) \cup {u}
    BY <1>11, <2>2, <2>3 DEF JoinedIn, ContributedTo
  <2>5. Contributors(o) \cup {u} # Participants(o)
    <3>1. Missing(o)' # {}
      BY <2>1 DEF NoStuckCollection
    <3> QED
      BY <1>11, <2>3, <3>1 DEF Missing
  <2> QED
    BY <1>7, <1>8, <1>9, <1>12, <2>2, <2>4, <2>5, AbstractContribute DEF Abstract!ANext
<1>14. CASE /\ collected' = [collected EXCEPT ![o] = Absent]
            /\ pc' = [pc EXCEPT ![u] = "finish"]
            /\ frame' = [frame EXCEPT ![u].opCollRecord = r]
  <2>1. collected'[o] = Absent /\ pc'[u] = "finish"
    BY <1>0, <1>14 DEF IInv, TypeOK, DMTypeOK
  <2>2. frame'[u].opCollRecord = r /\ frame'[u].op = o
    BY <1>0, <1>1, <1>14 DEF IInv, TypeOK, Frame
  <2>3. TeamOf(o)' = team[o]
    BY <1>6, <1>7 DEF TeamOf
  <2>4. /\ Senders(r.owner_layer_parts) = team[o].owners
        /\ Senders(r.reg_layer_parts) = team[o].reg_members
    BY <2>1, <2>2, <2>3 DEF JoinInv, MemberFits, FinishFits, LayerJoins
  <2>5. Contributors(o) \cup {u} = Participants(o)
    BY <1>10, <2>4 DEF Participants
  <2>6. StageOf(o)' = "complete"
    <3>1. ~HasResult(o)'
      BY <1>6, <1>7, ResultsKept
    <3> QED
      BY <1>6, <1>7, <2>1, <3>1 DEF StageOf
  <2>7. JoinedIn(o)' = Participants(o) /\ ContributedTo(o)' = Participants(o)
    BY <1>11, <2>6 DEF JoinedIn, ContributedTo
  <2> QED
    BY <1>7, <1>8, <1>9, <1>12, <2>5, <2>6, <2>7, AbstractContribute DEF Abstract!ANext
<1> QED
  BY <1>6, <1>13, <1>14

\* Results are delivered with a response and kept.
LEMMA SendResponseReports ==
    ASSUME Going, NEW u \in Users, SendResponse(u) PROVE Abstract!ANext
<1>0. IInv
  BY DEF Going, Knowing, Stepping
<1>1. UNCHANGED <<prep, collected, team>> /\ client' = [client EXCEPT ![u] = Consume(@, u, reply[u])]
  BY DEF SendResponse, dmVars
<1>2. \A v \in Users : client[v].results \subseteq client'[v].results
  <2>1. client[u].results \subseteq Consume(client[u], u, reply[u]).results
    <3>1. client[u] \in ClientState
      BY <1>0 DEF IInv, TypeOK
    <3> QED
      BY <3>1 DEF Consume, ClientState
  <2> QED
    BY <1>0, <1>1, <2>1 DEF IInv, TypeOK
<1>3. \A o \in OpIDs : HasResult(o) => HasResult(o)'
  BY <1>2 DEF HasResult
<1> DEFINE os == {o \in OpIDs : StageOf(o) = "complete" /\ HasResult(o)'}
<1>4. ASSUME NEW o \in OpIDs
      PROVE  /\ StageOf(o)' = (IF o \in os THEN "reported" ELSE StageOf(o))
             /\ JoinedIn(o)' = JoinedIn(o)
             /\ ContributedTo(o)' = ContributedTo(o)
  <2>1. Participants(o)' = Participants(o) /\ Contributors(o)' = Contributors(o)
    BY <1>1 DEF Participants, Contributors
  <2>2. StageOf(o)' = (IF o \in os THEN "reported" ELSE StageOf(o))
    BY <1>1, <1>3 DEF StageOf
  <2>3. (StageOf(o) = "looking") \/ (StageOf(o) = "collecting") \/ (StageOf(o) = "complete")
        \/ (StageOf(o) = "reported") \/ (StageOf(o) = "none")
    BY DEF StageOf
  <2>4. prep'[o] = prep[o]
    BY <1>1
  <2> HIDE DEF os
  <2>5. StageOf(o)' = StageOf(o) \/ (StageOf(o) = "complete" /\ StageOf(o)' = "reported")
    BY <2>2 DEF os
  <2> QED
    BY <2>1, <2>2, <2>3, <2>4, <2>5 DEF JoinedIn, ContributedTo
<1>5. os \in SUBSET OpIDs /\ \A o \in os : StageOf(o) = "complete"
  OBVIOUS
<1> HIDE DEF os
<1>6. Abstract!Report(os)
  BY <1>4, <1>5, AbstractReport
<1> QED
  BY <1>5, <1>6 DEF Abstract!ANext

\* The other handlers do not concern an operation's stage.
LEMMA OtherStepsStutter ==
    ASSUME UNCHANGED <<prep, collected, team>>,
           \A o \in OpIDs : HasResult(o)' <=> HasResult(o)
    PROVE  UNCHANGED Abstract!avars
BY MapKept, AbstractStutter

LEMMA StepRefines ==
    ASSUME Going, JoinInv', NoStuckCollection'
    PROVE  Abstract!ANext \/ UNCHANGED Abstract!avars
<1>0. IInv /\ [Next]_vars
  BY DEF Going, Knowing, Stepping
<1>1. CASE UNCHANGED vars
  BY <1>1, ResultsKept, OtherStepsStutter DEF vars
<1>2. ASSUME NEW u \in Users,
             \/ RejectUserSet(u) \/ StoreUserSet(u) \/ SendUserSets(u) \/ SendUpdates(u)
             \/ InitiateDecryption(u) \/ NotifyMember(u) \/ LookupMember(u)
             \/ ParticipateFindCollected(u) \/ SendPartFindCollected(u) \/ RegisterTooLate(u)
             \/ TellParticipant(u) \/ FinishOperation(u) \/ LoseConnection(u)
      PROVE  UNCHANGED <<prep, collected, team, client>>
  BY <1>2 DEF RejectUserSet, StoreUserSet, SendUserSets, SendUpdates, InitiateDecryption, NewOperation,
     NotifyMember, LookupMember, ParticipateFindCollected, SendPartFindCollected, FindCollected,
     RegisterTooLate, TellParticipant, FinishOperation, LoseConnection, dmVars
<1>3. ASSUME NEW u \in Users, Participate(u) \/ SendPart(u) \/ LogOut(u)
      PROVE  UNCHANGED <<prep, collected, team>> /\ \A v \in Users : client'[v].results = client[v].results
  <2>1. client \in [Users -> ClientState]
    BY <1>0 DEF IInv, TypeOK
  <2>2. UNCHANGED <<prep, collected, team>>
    BY <1>3 DEF Participate, SendPart, LogOut, dmVars
  <2>3. CASE Participate(u)
    <3>1. PICK x : client' = [client EXCEPT ![u].lookups = x]
      BY <2>3 DEF Participate
    <3> QED
      BY <2>1, <2>2, <3>1 DEF ClientState
  <2>4. CASE SendPart(u)
    <3>1. PICK x : client' = [client EXCEPT ![u].tasks = x]
      BY <2>4 DEF SendPart
    <3> QED
      BY <2>1, <2>2, <3>1 DEF ClientState
  <2>5. CASE LogOut(u)
    <3>1. client' = [client EXCEPT ![u].pendingDecryptions = {}]
      BY <2>5 DEF LogOut
    <3> QED
      BY <2>1, <2>2, <3>1 DEF ClientState
  <2> QED
    BY <1>3, <2>3, <2>4, <2>5
<1>4. ASSUME NEW u \in Users, Participate(u) \/ SendPart(u) \/ LogOut(u)
      PROVE  UNCHANGED Abstract!avars
  BY <1>3, <1>4, OtherStepsStutter DEF HasResult
<1>5. ASSUME NEW u \in Users, Request(u) PROVE UNCHANGED Abstract!avars
  BY <1>2, <1>4, <1>5, ResultsKept, OtherStepsStutter DEF Request
<1>6. ASSUME NEW u \in Users, Handle(u) PROVE Abstract!ANext \/ UNCHANGED Abstract!avars
  BY <1>2, <1>6, ResultsKept, OtherStepsStutter, PrepareDecryptionBegins, RegisterParticipantJoins,
     RegisterPartContributes, SendResponseReports DEF Handle
<1>7. ASSUME NEW u \in Users, LoseConnection(u) \/ LogOut(u) PROVE UNCHANGED Abstract!avars
  BY <1>2, <1>4, <1>7, ResultsKept, OtherStepsStutter
<1> QED
  BY <1>0, <1>1, <1>5, <1>6, <1>7 DEF Next

LEMMA InitRefines == Init => Abstract!AInit
<1> SUFFICES ASSUME Init PROVE Abstract!AInit
  OBVIOUS
<1>1. \A o \in OpIDs : StageOf(o) = "none"
  BY DEF Init, DMInit, StageOf
<1>2. \A o \in OpIDs : JoinedIn(o) = {} /\ ContributedTo(o) = {}
  BY <1>1 DEF JoinedIn, ContributedTo
<1> QED
  BY <1>1, <1>2 DEF Abstract!AInit

\* Where every owner is needed as an owner, the handlers and the manager's two maps
\* do what AbstractDecryption says: members join while they are looked for and never
\* twice, each of them contributes once, the operation completes exactly with the
\* last part, and only what is complete is reported.
THEOREM ServerImplementsDecryption ==
    ASSUME MembersListedOnce, NoOwnerToSpare PROVE Spec => ImplementsAbstractDecryption
<1>1. Init => Abstract!AInit
  BY InitRefines
<1>2. /\ IInv /\ AccountsInv /\ OperationInv /\ JoinInv /\ OwnersInv /\ SpareInv
      /\ IInv' /\ AccountsInv' /\ JoinInv' /\ SpareInv' /\ [Next]_vars
      => [Abstract!ANext]_(Abstract!avars)
  <2>1. IInv' /\ AccountsInv' /\ JoinInv' /\ SpareInv' => NoStuckCollection'
    BY SomePartIsMissing, PTL
  <2> QED
    BY <2>1, StepRefines DEF Going, Knowing, Stepping
<1> QED
  BY <1>1, <1>2, Invariance, AccountsInvariance, OperationInvariance, JoinInvariance, OwnersInvariance,
     SpareInvariance, PTL DEF Spec, ImplementsAbstractDecryption, Abstract!ASpec

-----------------------------------------------------------------------------
\* Connections stay, and nobody logs out.
NothingLost == MaxDisconnects = 0

\* A userset needs all its members, the requester included, or none beside it.
EveryoneNeeded ==
    \A p \in Plans :
        p.owners \cup p.reg_members \subseteq Users =>
            \/ p.owners_threshold = 0 /\ p.reg_members_threshold = 0
            \/ Cardinality(p.owners \cup p.reg_members) <=
                   p.owners_threshold + p.reg_members_threshold

\* A thread has no response yet: what it says next does not replace one.
Silent(u) ==
    pc[u] \in {"idle", "par_find", "par_reg", "snd_find", "snd_reg"} => reply[u] = NoReply

\* m has its key shards of s, or gets them before whatever it is sent later.
AddedIn(up) == up.added_as_owner \cup up.added_as_reg_member

HasKey(m, s) ==
    \/ s \in client[m].profile
    \/ s \in AddedIn(updates[m])
    \/ reply[m].kind = "UserSet" /\ reply[m].userset = s
    \/ reply[m].kind = "Updates" /\ s \in AddedIn(reply[m].updates)

ToBeNotified(u) == frame[u].todo.owners \cup frame[u].todo.reg_members

\* Every member has its key shards, or make_userset is going to register them.
KeysComing(s) ==
    InStorage(s) =>
        \A m \in MembersOf(s) :
            \/ HasKey(m, s)
            \/ \E u \in Users :
                  pc[u] = "mk_notify" /\ frame[u].userset = s /\ m \in ToBeNotified(u)

Found(o) == prep[o].owners_found \cup prep[o].reg_members_found

NeedsEveryone(s) ==
    Cardinality(MembersOf(s)) <=
        usersets[s].owners_threshold + usersets[s].reg_members_threshold + 1

\* Who is still making a userset takes part in no decryption under it; as it is
\* needed, none gets as far as to collect parts.
MakerBusy(u) ==
    pc[u] = "mk_notify" =>
        LET s == frame[u].userset IN
        /\ u \in MembersOf(s)
        /\ NeedsNobody(s) \/ NeedsEveryone(s)
        /\ \A o \in OpIDs :
              /\ prep[o] # Absent /\ prep[o].userset = s => u \notin Found(o) \cup {prep[o].requester}
              /\ collected[o] # Absent => collected[o].userset # s

\* m's client knows that it takes part in o, or is told so before it is asked for its part.
Remembers(m, o) ==
    \/ client[m].pendingParticipances[o] # "None"
    \/ reply[m].kind = "Participate" /\ reply[m].op = o /\ reply[m].status # "NotRequired"

FoundRemember(o) == prep[o] # Absent => \A m \in Found(o) : Remembers(m, o)

\* How far the request for m's part has come.  When it comes to the client, the
\* client knows the layer and has the key shard.
WorksOnPart(m, o) == AtClient(m, o) # {} \/ Sending(m, o)
AskedForPart(m, o) == (ToldBy(m, o) # {} \/ InUpdates(m, o) # {}) /\ Remembers(m, o)
GetsTask(m, o) ==
    /\ OnTheWay(m, o) # {}
    /\ client[m].pendingParticipances[o] # "None"
    /\ collected[o].userset \in client[m].profile \cup AddedIn(reply[m].updates)
Owes(m, o) == WorksOnPart(m, o) \/ AskedForPart(m, o) \/ GetsTask(m, o)

PartsComing(o) == collected[o] # Absent => \A m \in Missing(o) : Owes(m, o)

\* The inductive invariant of servers that lose no response.
OwedInv ==
    /\ \A u \in Users : Silent(u) /\ MakerBusy(u)
    /\ \A s \in UserSetIDs : KeysComing(s)
    /\ \A o \in OpIDs : FoundRemember(o) /\ PartsComing(o)

LEMMA InitOwedInv == Init => OwedInv
<1> SUFFICES ASSUME Init PROVE OwedInv
  OBVIOUS
<1>1. \A u \in Users : Silent(u) /\ MakerBusy(u)
  BY DEF Init, Silent, MakerBusy
<1>2. ASSUME NEW s \in UserSetIDs PROVE KeysComing(s)
  <2> SUFFICES ASSUME InStorage(s), NEW m \in MembersOf(s) PROVE HasKey(m, s)
    BY DEF KeysComing
  <2>1. usersets[s] # Absent /\ m \in Users
    BY StoredAssumption DEF Init, InStorage, MembersOf, UserSetInfo
  <2>2. client[m].profile = {t \in UserSetIDs : usersets[t] # Absent /\ m \in MembersOf(t)}
    BY <2>1 DEF Init
  <2> QED
    BY <2>1, <2>2 DEF HasKey
<1>3. \A o \in OpIDs : FoundRemember(o) /\ PartsComing(o)
  BY DEF Init, DMInit, FoundRemember, PartsComing
<1> QED
  BY <1>1, <1>2, <1>3 DEF OwedInv

-----------------------------------------------------------------------------
\* Steps of a server that loses no response.
Flowing == Knowing /\ NothingLost /\ OwedInv

LEMMA SomebodySteps ==
    ASSUME Flowing PROVE UNCHANGED vars \/ \E u \in Users : Request(u) \/ Handle(u)
<1>1. disconnects \in 0..0
  BY DEF Flowing, Knowing, Stepping, IInv, TypeOK, NothingLost
<1>2. \A u \in Users : ~LoseConnection(u) /\ ~LogOut(u)
  BY <1>1 DEF LoseConnection, LogOut, Flowing, NothingLost
<1> QED
  BY <1>2 DEF Flowing, Knowing, Stepping, Next

\* Where a thread is tells which step it takes.
LEMMA StepsByLocation ==
    ASSUME NEW u \in Users, Request(u) \/ Handle(u)
    PROVE  /\ pc[u] = "idle" => Request(u)
           /\ pc[u] = "mk_notify" => NotifyMember(u)
           /\ pc[u] = "par_reg" => RegisterTooLate(u) \/ RegisterParticipant(u)
           /\ pc[u] = "par_tell" => TellParticipant(u)
           /\ pc[u] = "snd_find" => SendPartFindCollected(u)
           /\ pc[u] = "snd_reg" => RegisterPart(u)
           /\ pc[u] # "idle" => Handle(u)
<1>1. Request(u) => pc[u] = "idle"
  BY DEF Request, RejectUserSet, StoreUserSet, SendUserSets, InitiateDecryption, SendUpdates,
     Participate, SendPart
<1>2. /\ NotifyMember(u) => pc[u] = "mk_notify"
      /\ PrepareDecryption(u) => pc[u] = "dec_prep"
      /\ LookupMember(u) => pc[u] = "dec_lookup"
      /\ ParticipateFindCollected(u) => pc[u] = "par_find"
      /\ RegisterTooLate(u) => pc[u] = "par_reg"
      /\ RegisterParticipant(u) => pc[u] = "par_reg"
      /\ TellParticipant(u) => pc[u] = "par_tell"
      /\ SendPartFindCollected(u) => pc[u] = "snd_find"
      /\ RegisterPart(u) => pc[u] = "snd_reg"
      /\ FinishOperation(u) => pc[u] = "finish"
      /\ SendResponse(u) => pc[u] = "reply"
  BY DEF NotifyMember, PrepareDecryption, LookupMember, ParticipateFindCollected, RegisterTooLate,
     RegisterParticipant, TellParticipant, SendPartFindCollected, FindCollected, RegisterPart,
     FinishOperation, SendResponse
<1> QED
  BY <1>1, <1>2 DEF Handle

\* No other step goes to make_userset's loops.
LEMMA ElsewhereNext ==
    ASSUME IInv, NEW u \in Users, Request(u) \/ Handle(u), ~StoreUserSet(u), ~NotifyMember(u)
    PROVE  pc'[u] # "mk_notify"
<1>0. pc \in [Users -> Locations]
  BY DEF IInv, TypeOK
<1>1. CASE RejectUserSet(u) \/ SendUserSets(u) \/ SendUpdates(u) \/ InitiateDecryption(u)
  BY <1>0, <1>1 DEF RejectUserSet, SendUserSets, SendUpdates, InitiateDecryption, Respond, Goto
<1>2. CASE Participate(u) \/ SendPart(u)
  BY <1>0, <1>2 DEF Participate, SendPart, FindPrepared, Goto
<1>3. CASE LookupMember(u) \/ TellParticipant(u)
  BY <1>0, <1>3 DEF LookupMember, TellParticipant, Turn, Goto
<1>4. CASE ParticipateFindCollected(u) \/ SendPartFindCollected(u) \/ RegisterTooLate(u)
  BY <1>0, <1>4 DEF ParticipateFindCollected, SendPartFindCollected, FindCollected, RegisterTooLate,
     Respond, Goto
<1>5. CASE RegisterParticipant(u) \/ RegisterPart(u)
  BY <1>0, <1>5 DEF RegisterParticipant, RegisterPart, Goto
<1>6. CASE PrepareDecryption(u) \/ FinishOperation(u) \/ SendResponse(u)
  BY <1>0, <1>6 DEF PrepareDecryption, FinishOperation, SendResponse, Loop, Goto
<1> QED
  BY <1>1, <1>2, <1>3, <1>4, <1>5, <1>6 DEF Request, Handle

\* A step leaves the other threads and their clients alone.
LEMMA OthersStill ==
    ASSUME IInv, NEW u \in Users, Request(u) \/ Handle(u), NEW v \in Users \ {u}
    PROVE  /\ pc'[v] = pc[v] /\ frame'[v] = frame[v]
           /\ reply'[v] = reply[v] /\ client'[v] = client[v]
<1>0. /\ pc \in [Users -> Locations] /\ frame \in [Users -> Frame]
      /\ reply \in [Users -> Reply] /\ client \in [Users -> ClientState]
  BY DEF IInv, TypeOK
<1>1. CASE RejectUserSet(u) \/ SendUserSets(u) \/ SendUpdates(u)
  BY <1>0, <1>1 DEF RejectUserSet, SendUserSets, SendUpdates, Respond, Goto
<1>2. CASE StoreUserSet(u)
  BY <1>0, <1>2 DEF StoreUserSet, Goto
<1>3. CASE InitiateDecryption(u)
  BY <1>0, <1>3 DEF InitiateDecryption, Goto
<1>4. CASE Participate(u) \/ SendPart(u)
  BY <1>0, <1>4 DEF Participate, SendPart, FindPrepared, Goto
<1>5. CASE NotifyMember(u) \/ LookupMember(u) \/ TellParticipant(u)
  BY <1>0, <1>5 DEF NotifyMember, LookupMember, TellParticipant, Turn, Goto
<1>6. CASE ParticipateFindCollected(u) \/ SendPartFindCollected(u) \/ RegisterTooLate(u)
  BY <1>0, <1>6 DEF ParticipateFindCollected, SendPartFindCollected, FindCollected, RegisterTooLate,
     Respond, Goto
<1>7. CASE RegisterParticipant(u)
  BY <1>0, <1>7 DEF RegisterParticipant, Goto
<1>8. CASE RegisterPart(u)
  BY <1>0, <1>8 DEF RegisterPart, Goto
<1>9. CASE PrepareDecryption(u) \/ FinishOperation(u) \/ SendResponse(u)
  BY <1>0, <1>9 DEF PrepareDecryption, FinishOperation, SendResponse, Goto
<1> QED
  BY <1>1, <1>2, <1>3, <1>4, <1>5, <1>6, <1>7, <1>8, <1>9 DEF Request, Handle

\* Only SendUpdates takes something out of a user's updates.
LEMMA UpdatesGrow ==
    ASSUME IInv, NEW u \in Users, Request(u) \/ Handle(u), NEW v \in Users
    PROVE  \/ u = v /\ SendUpdates(v)
           \/ /\ updates[v].to_decrypt \subseteq updates'[v].to_decrypt
              /\ AddedIn(updates[v]) \subseteq AddedIn(updates'[v])
<1>0. updates \in [Users -> UpdateResponse]
  BY DEF IInv, TypeOK, UMTypeOK
<1>1. CASE SendUpdates(u)
  BY <1>0, <1>1 DEF SendUpdates, RetrieveUpdates
<1>2. CASE NotifyMember(u) \/ LookupMember(u) \/ TellParticipant(u)
  BY <1>0, <1>2 DEF NotifyMember, LookupMember, TellParticipant, RegisterOwner, RegisterRegMember,
     RegisterLookup, RegisterDecryptionParticipating, UpdateResponse, AddedIn
<1>3. CASE FinishOperation(u)
  BY <1>0, <1>3 DEF FinishOperation, RegisterFinishedDecryption, UpdateResponse, AddedIn
<1>4. CASE \/ RejectUserSet(u) \/ StoreUserSet(u) \/ SendUserSets(u) \/ InitiateDecryption(u)
           \/ Participate(u) \/ SendPart(u) \/ PrepareDecryption(u) \/ ParticipateFindCollected(u)
           \/ SendPartFindCollected(u) \/ RegisterTooLate(u) \/ RegisterParticipant(u)
           \/ RegisterPart(u) \/ SendResponse(u)
  <2>1. UNCHANGED updates
    BY <1>4 DEF RejectUserSet, StoreUserSet, SendUserSets, InitiateDecryption, Participate, SendPart,
       PrepareDecryption, ParticipateFindCollected, SendPartFindCollected, FindCollected,
       RegisterTooLate, RegisterParticipant, RegisterPart, SendResponse
  <2> QED
    BY <2>1
<1> QED
  BY <1>1, <1>2, <1>3, <1>4 DEF Request, Handle

\* What the client does with a response.
LEMMA ConsumeGrows ==
    ASSUME NEW c \in ClientState, NEW u \in Users, NEW r \in Reply
    PROVE  LET d == Consume(c, u, r) IN
           /\ c.tasks \subseteq d.tasks /\ c.profile \subseteq d.profile
           /\ r.kind = "UserSet" => r.userset \in d.profile
           /\ r.kind = "Updates" => AddedIn(r.updates) \subseteq d.profile
           /\ \A o \in OpIDs :
                 /\ (r.kind = "Updates" => \A t \in r.updates.to_decrypt : t.op # o)
                    /\ c.pendingParticipances[o] # "None"
                    => d.pendingParticipances[o] # "None"
                 /\ r.kind = "Participate" /\ r.op = o /\ r.status # "NotRequired"
                    => d.pendingParticipances[o] # "None"
           /\ r.kind = "Updates" =>
                 \A t \in r.updates.to_decrypt, s \in c.profile \cup AddedIn(r.updates) :
                    c.pendingParticipances[t.op] # "None" /\ <<u, s>> \in t.shards_ids
                    => \E w \in d.tasks : w.op = t.op
<1> DEFINE d == Consume(c, u, r)
<1>1. CASE r.kind = "Updates"
  <2> DEFINE up == r.updates
             profile == c.profile \cup up.added_as_owner \cup up.added_as_reg_member
             mine == {f \in up.finished_decryptions : f.op \in c.pendingDecryptions}
             asked == {t \in up.to_decrypt : c.pendingParticipances[t.op] # "None"}
             able == {t \in asked : \E s \in profile : <<u, s>> \in t.shards_ids}
             pending == [o \in OpIDs |->
                 IF \E t \in asked : t.op = o THEN "None" ELSE c.pendingParticipances[o]]
             new == {[op |-> t.op, shards_ids |-> t.shards_ids,
                      layer |-> LayerOf(c.pendingParticipances[t.op])] : t \in able}
  <2>1. d = [c EXCEPT !.profile = profile, !.knownOwned = @ \cup up.added_as_owner,
                    !.lookups = @ \cup up.on_lookup, !.pendingParticipances = pending,
                    !.tasks = @ \cup new,
                    !.pendingDecryptions = @ \ {f.op : f \in mine},
                    !.results = @ \cup mine]
    BY <1>1 DEF Consume
  <2>2. \A o \in OpIDs : (\A t \in up.to_decrypt : t.op # o) /\ c.pendingParticipances[o] # "None"
                         => pending[o] # "None"
    OBVIOUS
  <2>3. \A t \in up.to_decrypt, s \in profile :
            c.pendingParticipances[t.op] # "None" /\ <<u, s>> \in t.shards_ids
            => \E w \in new : w.op = t.op
    <3> SUFFICES ASSUME NEW t \in up.to_decrypt, NEW s \in profile,
                        c.pendingParticipances[t.op] # "None", <<u, s>> \in t.shards_ids
                 PROVE  \E w \in new : w.op = t.op
      OBVIOUS
    <3>1. t \in able
      OBVIOUS
    <3>2. PICK w : w = [op |-> t.op, shards_ids |-> t.shards_ids,
                        layer |-> LayerOf(c.pendingParticipances[t.op])]
      OBVIOUS
    <3> HIDE DEF able
    <3>3. w \in new /\ w.op = t.op
      BY <3>1, <3>2
    <3> QED
      BY <3>3
  <2>4. profile = c.profile \cup AddedIn(up)
    BY DEF AddedIn
  <2> HIDE DEF d, profile, mine, pending, new
  <2>5. d.pendingParticipances = pending /\ d.tasks = c.tasks \cup new /\ d.profile = profile
    BY <2>1 DEF ClientState
  <2> QED
    BY <1>1, <2>2, <2>3, <2>4, <2>5 DEF d
<1>2. CASE r.kind = "Participate"
  <2>1. r.op \in OpIDs /\ r.status \in PartRequirement
    BY <1>2 DEF Reply, NoReply, ErrorResponse, SendDecryptionPartResponse
  <2>2. d.tasks = c.tasks /\ d.profile = c.profile
    BY <1>2 DEF Consume, ClientState
  <2>3. \A o \in OpIDs : d.pendingParticipances[o] =
            (IF r.op = o /\ r.status # "NotRequired" THEN r.status ELSE c.pendingParticipances[o])
    BY <1>2, <2>1 DEF Consume, ClientState
  <2>4. r.status # "NotRequired" => r.status # "None"
    BY <2>1 DEF PartRequirement
  <2> HIDE DEF d
  <2> QED
    BY <1>2, <2>2, <2>3, <2>4 DEF d
<1>3. CASE r.kind \notin {"Updates", "Participate"}
  BY <1>3 DEF Consume, ClientState
<1> QED
  BY <1>1, <1>2, <1>3

\* v's response is not replaced by another one, and its client stays as it is.
Keeps(v) ==
    /\ reply'[v] = reply[v] \/ reply[v] = NoReply
    /\ client'[v].pendingParticipances = client[v].pendingParticipances
    /\ client'[v].profile = client[v].profile

LEMMA OwnMail ==
    ASSUME Flowing, NEW u \in Users, Request(u) \/ Handle(u)
    PROVE  /\ SendResponse(u) \/ Keeps(u)
           /\ Silent(u)'
<1>0. /\ pc \in [Users -> Locations] /\ frame \in [Users -> Frame]
      /\ reply \in [Users -> Reply] /\ client \in [Users -> ClientState]
      /\ Silent(u)
  BY DEF Flowing, Knowing, Stepping, IInv, TypeOK, OwedInv
<1>1. CASE RejectUserSet(u) \/ SendUserSets(u) \/ SendUpdates(u)
  BY <1>0, <1>1 DEF RejectUserSet, SendUserSets, SendUpdates, Respond, Goto, Silent, Keeps
<1>2. CASE StoreUserSet(u)
  BY <1>0, <1>2 DEF StoreUserSet, Loop, Goto, Silent, Keeps
<1>3. CASE InitiateDecryption(u)
  BY <1>0, <1>3 DEF InitiateDecryption, Goto, Silent, Keeps
<1>4. CASE Participate(u)
  <2>1. PICK x : client' = [client EXCEPT ![u].lookups = x]
    BY <1>4 DEF Participate
  <2>2. pc[u] = "idle" /\ UNCHANGED reply
    BY <1>4 DEF Participate
  <2> QED
    BY <1>0, <2>1, <2>2 DEF ClientState, Silent, Keeps
<1>5. CASE SendPart(u)
  <2>1. PICK x : client' = [client EXCEPT ![u].tasks = x]
    BY <1>5 DEF SendPart
  <2>2. pc[u] = "idle" /\ UNCHANGED reply
    BY <1>5 DEF SendPart
  <2> QED
    BY <1>0, <2>1, <2>2 DEF ClientState, Silent, Keeps
<1>6. CASE NotifyMember(u) \/ LookupMember(u) \/ TellParticipant(u)
  BY <1>0, <1>6 DEF NotifyMember, LookupMember, TellParticipant, Turn, Goto, Silent, Keeps
<1>7. CASE ParticipateFindCollected(u) \/ SendPartFindCollected(u) \/ RegisterTooLate(u)
  BY <1>0, <1>7 DEF ParticipateFindCollected, SendPartFindCollected, FindCollected, RegisterTooLate,
     Respond, Goto, Silent, Keeps
<1>8. CASE RegisterParticipant(u) \/ RegisterPart(u)
  BY <1>0, <1>8 DEF RegisterParticipant, RegisterPart, Goto, Silent, Keeps
<1>9. CASE PrepareDecryption(u) \/ FinishOperation(u)
  BY <1>0, <1>9 DEF PrepareDecryption, FinishOperation, Loop, Goto, Silent, Keeps
<1>10. CASE SendResponse(u)
  BY <1>0, <1>10 DEF SendResponse, Silent
<1> QED
  BY <1>1, <1>2, <1>3, <1>4, <1>5, <1>6, <1>7, <1>8, <1>9, <1>10 DEF Request, Handle

\* The same for all users.
LEMMA Mail ==
    ASSUME Flowing, NEW v \in Users PROVE SendResponse(v) \/ Keeps(v)
<1>0. IInv
  BY DEF Flowing, Knowing, Stepping
<1>1. CASE UNCHANGED vars
  BY <1>1 DEF vars, Keeps
<1>3. ASSUME NEW u \in Users, Request(u) \/ Handle(u) PROVE SendResponse(v) \/ Keeps(v)
  BY <1>0, <1>3, OwnMail, OthersStill DEF Keeps
<1> QED
  BY <1>1, <1>3, SomebodySteps

LEMMA SilentStays ==
    ASSUME Flowing PROVE \A v \in Users : Silent(v)'
<1>0. IInv /\ \A v \in Users : Silent(v)
  BY DEF Flowing, Knowing, Stepping, OwedInv
<1>1. CASE UNCHANGED vars
  BY <1>0, <1>1 DEF vars, Silent
<1>2. ASSUME NEW u \in Users, Request(u) \/ Handle(u) PROVE \A v \in Users : Silent(v)'
  BY <1>0, <1>2, OwnMail, OthersStill DEF Silent
<1> QED
  BY <1>1, <1>2, SomebodySteps

\* What sending a response does.
LEMMA SendResponseConsumes ==
    ASSUME IInv, NEW v \in Users, SendResponse(v)
    PROVE  /\ client[v] \in ClientState /\ reply[v] \in Reply
           /\ client'[v] = Consume(client[v], v, reply[v])
           /\ UNCHANGED <<prep, collected, team, usersets, updates>>
<1>1. client \in [Users -> ClientState] /\ reply[v] \in Reply
  BY DEF IInv, TypeOK
<1>2. client' = [client EXCEPT ![v] = Consume(client[v], v, reply[v])]
  BY DEF SendResponse
<1>3. UNCHANGED <<prep, collected, team, usersets, updates>>
  BY DEF SendResponse, dmVars
<1> QED
  BY <1>1, <1>2, <1>3

\* What a member knows of its part it goes on knowing until it is asked for it.
LEMMA RemembersStays ==
    ASSUME Flowing, NEW m \in Users, NEW o \in OpIDs, Remembers(m, o), OnTheWay(m, o) = {}
    PROVE  Remembers(m, o)'
<1>0. IInv
  BY DEF Flowing, Knowing, Stepping
<1>1. CASE SendResponse(m)
  <2>1. PICK c \in ClientState, r \in Reply : c = client[m] /\ r = reply[m]
    BY <1>0, <1>1, SendResponseConsumes
  <2>2. client'[m] = Consume(c, m, r)
    BY <1>0, <1>1, <2>1, SendResponseConsumes
  <2>3. r.kind = "Updates" => \A t \in r.updates.to_decrypt : t.op # o
    BY <2>1 DEF OnTheWay
  <2> QED
    BY <2>1, <2>2, <2>3, ConsumeGrows DEF Remembers
<1>2. CASE Keeps(m)
  BY <1>2 DEF Keeps, Remembers, NoReply
<1> QED
  BY <1>1, <1>2, Mail

\* Fetched updates are in the response.
LEMMA SendUpdatesMail ==
    ASSUME Flowing, NEW v \in Users, SendUpdates(v)
    PROVE  /\ reply[v] = NoReply
           /\ reply'[v].kind = "Updates" /\ reply'[v].updates = updates[v]
           /\ UNCHANGED <<client, prep, collected, team>>
<1>1. reply \in [Users -> Reply] /\ Silent(v)
  BY DEF Flowing, Knowing, Stepping, IInv, TypeOK, OwedInv
<1>2. pc[v] = "idle" /\ reply' = [reply EXCEPT ![v] = UpdatesReply(updates[v])]
  BY DEF SendUpdates, Respond
<1>3. UNCHANGED <<client, prep, collected, team>>
  BY DEF SendUpdates, dmVars
<1> QED
  BY <1>1, <1>2, <1>3 DEF Silent, UpdatesReply

\* Updates are kept until they are fetched.
LEMMA UpdatesKept ==
    ASSUME Flowing, NEW v \in Users
    PROVE  \/ SendUpdates(v)
           \/ /\ updates[v].to_decrypt \subseteq updates'[v].to_decrypt
              /\ AddedIn(updates[v]) \subseteq AddedIn(updates'[v])
<1>0. IInv
  BY DEF Flowing, Knowing, Stepping
<1>1. CASE UNCHANGED vars
  BY <1>1 DEF vars
<1>2. ASSUME NEW u \in Users, Request(u) \/ Handle(u)
      PROVE  \/ SendUpdates(v)
             \/ /\ updates[v].to_decrypt \subseteq updates'[v].to_decrypt
                /\ AddedIn(updates[v]) \subseteq AddedIn(updates'[v])
  BY <1>0, <1>2, UpdatesGrow
<1> QED
  BY <1>1, <1>2, SomebodySteps

\* Key shards that a member has, or is being told, do not get lost.
LEMMA KeyStays ==
    ASSUME Flowing, NEW m \in Users, NEW s \in UserSetIDs, HasKey(m, s)
    PROVE  HasKey(m, s)'
<1>0. IInv
  BY DEF Flowing, Knowing, Stepping
<1>1. CASE SendResponse(m)
  <2>1. PICK c \in ClientState, r \in Reply : c = client[m] /\ r = reply[m]
    BY <1>0, <1>1, SendResponseConsumes
  <2>2. client'[m] = Consume(c, m, r) /\ UNCHANGED updates
    BY <1>0, <1>1, <2>1, SendResponseConsumes
  <2> QED
    BY <2>1, <2>2, ConsumeGrows DEF HasKey
<1>2. CASE SendUpdates(m)
  BY <1>2, SendUpdatesMail DEF HasKey, NoReply
<1>3. CASE Keeps(m) /\ ~SendUpdates(m)
  <2>1. AddedIn(updates[m]) \subseteq AddedIn(updates'[m])
    BY <1>3, UpdatesKept
  <2> QED
    BY <1>3, <2>1 DEF Keeps, HasKey, NoReply
<1> QED
  BY <1>1, <1>2, <1>3, Mail

-----------------------------------------------------------------------------
\* Key shards: whoever makes a userset goes on registering them.

LEMMA ThreadStays ==
    ASSUME Flowing, NEW v \in Users
    PROVE  (pc'[v] = pc[v] /\ frame'[v] = frame[v]) \/ Request(v) \/ Handle(v)
<1>0. IInv
  BY DEF Flowing, Knowing, Stepping
<1>1. CASE UNCHANGED vars
  BY <1>1 DEF vars
<1>2. ASSUME NEW u \in Users, Request(u) \/ Handle(u)
      PROVE  (pc'[v] = pc[v] /\ frame'[v] = frame[v]) \/ Request(v) \/ Handle(v)
  BY <1>0, <1>2, OthersStill
<1> QED
  BY <1>1, <1>2, SomebodySteps

\* What make_userset has done when the userset is in storage.
Makes(u, p, s) ==
    LET todo == [owners |-> p.owners, reg_members |-> p.reg_members]
    IN  /\ u \notin p.owners \cup p.reg_members
        /\ p.owners \cup p.reg_members \subseteq Users
        /\ usersets[s] = Absent
        /\ usersets'[s] = [owners |-> p.owners \cup {u}, reg_members |-> p.reg_members,
                           owners_threshold |-> p.owners_threshold,
                           reg_members_threshold |-> p.reg_members_threshold]
        /\ \A t \in UserSetIDs \ {s} : usersets'[t] = usersets[t]
        /\ reply'[u] = MakeUserSetResponse(s)
        /\ frame'[u].userset = s /\ frame'[u].todo = todo
        /\ pc'[u] = Loop(todo, "mk_notify")
        /\ UNCHANGED <<prep, collected, team>>

LEMMA StoreUserSetMakes ==
    ASSUME IInv, NEW u \in Users, StoreUserSet(u)
    PROVE  \E p \in Plans, s \in UserSetIDs : Makes(u, p, s)
<1>0. /\ pc \in [Users -> Locations] /\ frame \in [Users -> Frame] /\ reply \in [Users -> Reply]
      /\ frame[u] \in Frame /\ usersets \in [UserSetIDs -> UserSetInfo \cup {Absent}]
  BY DEF IInv, TypeOK
<1>1. PICK p \in Plans, s \in UserSetIDs :
          LET todo == [owners |-> p.owners, reg_members |-> p.reg_members] IN
          /\ u \notin p.owners \cup p.reg_members
          /\ p.owners \cup p.reg_members \subseteq Users
          /\ usersets[s] = Absent
          /\ usersets' = [usersets EXCEPT ![s] =
                 [owners |-> p.owners \cup {u}, reg_members |-> p.reg_members,
                  owners_threshold |-> p.owners_threshold,
                  reg_members_threshold |-> p.reg_members_threshold]]
          /\ frame' = [frame EXCEPT ![u].userset = s, ![u].todo = todo]
          /\ Goto(u, Loop(todo, "mk_notify"))
          /\ reply' = [reply EXCEPT ![u] = MakeUserSetResponse(s)]
  BY DEF StoreUserSet
<1>2. UNCHANGED <<prep, collected, team>>
  BY DEF StoreUserSet, dmVars
<1>3. /\ frame'[u].userset = s
      /\ frame'[u].todo = [owners |-> p.owners, reg_members |-> p.reg_members]
  BY <1>0, <1>1 DEF Frame
<1>4. /\ usersets'[s] = [owners |-> p.owners \cup {u}, reg_members |-> p.reg_members,
                         owners_threshold |-> p.owners_threshold,
                         reg_members_threshold |-> p.reg_members_threshold]
      /\ \A t \in UserSetIDs \ {s} : usersets'[t] = usersets[t]
  BY <1>0, <1>1
<1>5. /\ reply'[u] = MakeUserSetResponse(s)
      /\ pc'[u] = Loop([owners |-> p.owners, reg_members |-> p.reg_members], "mk_notify")
  BY <1>0, <1>1 DEF Goto
<1>6. Makes(u, p, s)
  BY <1>1, <1>2, <1>3, <1>4, <1>5 DEF Makes
<1> QED
  BY <1>6

\* Usersets get into storage in no other way.
LEMMA NewInStorage ==
    ASSUME Knowing, NEW s \in UserSetIDs, ~InStorage(s), InStorage(s)'
    PROVE  \E u \in Users : StoreUserSet(u)
<1>1. ASSUME NEW u \in Users,
             \/ Request(u) /\ ~StoreUserSet(u)
             \/ Handle(u) \/ LoseConnection(u) \/ LogOut(u)
      PROVE  UNCHANGED usersets
  BY <1>1, NotifyMemberTells, PassingOn, TellingNobody DEF Request, Handle
<1> QED
  BY <1>1 DEF InStorage, Knowing, Stepping, Next, vars

\* A turn of make_userset's loops.
LEMMA NotifyMemberGoesOn ==
    ASSUME IInv, NEW u \in Users, NotifyMember(u), NEW m \in ToBeNotified(u)
    PROVE  \/ frame[u].userset \in AddedIn(updates'[m])
           \/ pc'[u] = "mk_notify" /\ frame'[u].userset = frame[u].userset /\ m \in ToBeNotified(u)'
<1>1. /\ pc \in [Users -> Locations] /\ frame \in [Users -> Frame] /\ frame[u] \in Frame
      /\ updates \in [Users -> UpdateResponse] /\ frame[u].todo \in MemberLists
  BY DEF IInv, TypeOK, UMTypeOK, Frame
<1>2. PICK s : s = frame[u].userset
  OBVIOUS
<1>3. PICK n \in Users :
          \/ Turn(u, "owners", n) /\ RegisterOwner(n, s)
          \/ Turn(u, "reg_members", n) /\ RegisterRegMember(n, s)
  BY <1>2 DEF NotifyMember
<1>4. s \in AddedIn(updates'[n])
  BY <1>1, <1>3 DEF RegisterOwner, RegisterRegMember, UpdateResponse, AddedIn
<1>5. ASSUME n # m
      PROVE  pc'[u] = "mk_notify" /\ frame'[u].userset = s /\ m \in ToBeNotified(u)'
  <2>1. frame'[u].userset = s /\ m \in ToBeNotified(u)'
    BY <1>1, <1>2, <1>3, <1>5 DEF Turn, Frame, MemberLists, ToBeNotified
  <2>2. frame'[u].todo # Nobody
    BY <2>1 DEF ToBeNotified, Nobody
  <2> QED
    BY <1>1, <1>3, <2>1, <2>2 DEF Turn, Goto, NotifyMember
<1> QED
  BY <1>2, <1>4, <1>5

LEMMA KeysStayComing ==
    ASSUME Flowing PROVE \A s \in UserSetIDs : KeysComing(s)'
<1>0. Knowing /\ IInv /\ IInv'
  BY DEF Flowing, Knowing, Stepping
<1> SUFFICES ASSUME NEW s \in UserSetIDs, InStorage(s)', NEW m \in MembersOf(s)'
             PROVE  \/ HasKey(m, s)'
                    \/ \E u \in Users :
                          pc'[u] = "mk_notify" /\ frame'[u].userset = s /\ m \in ToBeNotified(u)'
  BY DEF KeysComing
<1>1. m \in Users
  BY <1>0 DEF InStorage, IInv, TypeOK, MembersOf, UserSetInfo
<1>2. CASE InStorage(s)
  <2>1. usersets'[s] = usersets[s]
    BY <1>0, <1>2, SteppingFacts DEF Knowing
  <2>2. m \in MembersOf(s) /\ KeysComing(s)
    BY <2>1 DEF MembersOf, Flowing, OwedInv
  <2>3. CASE HasKey(m, s)
    BY <1>1, <2>3, KeyStays
  <2>4. ASSUME NEW u \in Users, pc[u] = "mk_notify", frame[u].userset = s, m \in ToBeNotified(u)
        PROVE  \/ HasKey(m, s)'
               \/ pc'[u] = "mk_notify" /\ frame'[u].userset = s /\ m \in ToBeNotified(u)'
    <3>1. CASE NotifyMember(u)
      BY <1>0, <2>4, <3>1, NotifyMemberGoesOn DEF HasKey
    <3>2. CASE ~NotifyMember(u)
      <4>1. pc'[u] = pc[u] /\ frame'[u] = frame[u]
        BY <2>4, <3>2, ThreadStays, StepsByLocation
      <4> QED
        BY <2>4, <4>1 DEF ToBeNotified
    <3> QED
      BY <3>1, <3>2
  <2> QED
    BY <1>2, <2>2, <2>3, <2>4 DEF KeysComing
<1>3. CASE ~InStorage(s)
  <2>1. PICK u \in Users : StoreUserSet(u)
    BY <1>0, <1>3, NewInStorage
  <2>2. PICK p \in Plans, t \in UserSetIDs : Makes(u, p, t)
    BY <1>0, <2>1, StoreUserSetMakes
  <2>3. s = t
    BY <1>3, <2>2 DEF Makes, InStorage
  <2>4. m \in (p.owners \cup {u}) \cup p.reg_members
    BY <2>2, <2>3 DEF Makes, MembersOf
  <2>5. CASE m = u
    BY <2>2, <2>3, <2>5 DEF Makes, MakeUserSetResponse, HasKey
  <2>6. CASE m \in p.owners \cup p.reg_members
    <3>1. m \in ToBeNotified(u)' /\ frame'[u].userset = s
      BY <2>2, <2>3, <2>6 DEF Makes, ToBeNotified
    <3>2. [owners |-> p.owners, reg_members |-> p.reg_members] # Nobody
      BY <2>6 DEF Nobody
    <3>3. pc'[u] = "mk_notify"
      BY <2>2, <3>2 DEF Makes, Loop
    <3> QED
      BY <3>1, <3>3
  <2> QED
    BY <2>4, <2>5, <2>6
<1> QED
  BY <1>2, <1>3

-----------------------------------------------------------------------------
\* Operations: the record with the last participant starts to collect.

\* o starts to collect: v is its last participant, and tells all of them.
StartsToCollect(v, o) ==
    /\ frame[v].op = o /\ frame'[v].op = o /\ pc'[v] = "par_tell"
    /\ prep[o] # Absent
    /\ Participants(o)' = Found(o) \cup {v}
    /\ ToBeNotified(v)' = Participants(o)'
    /\ collected'[o].userset = prep[o].userset
    /\ collected'[o].requester = prep[o].requester
    /\ collected'[o].required_owners = prep[o].required_owners
    /\ collected'[o].required_reg_members = prep[o].required_reg_members
    /\ Requirement(prep[o], UserOwns(v, frame[v].userset)) # "NotRequired"
    /\ Remembers(v, o)'

\* Registering a participant: what becomes of the operation's record.
LEMMA Registering ==
    ASSUME Stepping, NEW v \in Users, RegisterParticipant(v), NEW o \in OpIDs, o = frame[v].op
    PROVE  /\ \A p \in OpIDs \ {o} : prep'[p] = prep[p] /\ collected'[p] = collected[p]
           /\ prep'[o] # Absent =>
                 /\ prep'[o].userset = prep[o].userset /\ prep'[o].requester = prep[o].requester
                 /\ prep[o] # Absent
                 /\ \/ Found(o)' = Found(o)
                    \/ Found(o)' = Found(o) \cup {v} /\ Remembers(v, o)'
           /\ collected'[o] # Absent => StartsToCollect(v, o)
<1>0. /\ IInv /\ prep \in [OpIDs -> PrepareRecord \cup {Absent}]
      /\ collected \in [OpIDs -> CollectedRecord \cup {Absent}]
      /\ team \in [OpIDs -> MemberLists \cup {Absent}]
      /\ pc \in [Users -> Locations] /\ frame \in [Users -> Frame] /\ frame[v] \in Frame
      /\ reply \in [Users -> Reply]
  BY DEF Stepping, IInv, TypeOK, DMTypeOK
<1>1. prep[o] \in PrepareRecord /\ prep[o] # Absent /\ collected[o] = Absent
  BY ParticipantRecorded
<1>2. PICK q \in PartRequirement, r \in PrepareRecord : Records(v, o, q, r)
  BY ParticipantRecorded
<1>3. PICK found : found = r.owners_found \cup r.reg_members_found /\ found = Found(o) \cup {v}
  BY <1>2 DEF Records, Found
<1>4. q # "NotRequired" => Remembers(v, o)'
  BY <1>0, <1>2 DEF Records, ParticipateResponse, Remembers
<1>5. CASE q = "NotRequired"
  <2>1. UNCHANGED <<prep, collected>>
    BY <1>2, <1>5 DEF Records
  <2> QED
    BY <1>1, <2>1 DEF Found
<1>6. CASE q # "NotRequired" /\ prep' = [prep EXCEPT ![o] = r] /\ UNCHANGED <<collected, team, frame>>
  <2>1. prep'[o] = r /\ \A p \in OpIDs \ {o} : prep'[p] = prep[p]
    BY <1>0, <1>6
  <2>2. Found(o)' = found
    BY <1>3, <2>1 DEF Found
  <2>3. r.userset = prep[o].userset /\ r.requester = prep[o].requester
    BY <1>2 DEF Records
  <2> QED
    BY <1>1, <1>3, <1>4, <1>6, <2>1, <2>2, <2>3
<1>7. CASE /\ q # "NotRequired"
           /\ prep' = [prep EXCEPT ![o] = Absent]
           /\ collected' = [collected EXCEPT ![o] =
                  NewCollectedRecord(r.requester, r.userset,
                      r.required_owners, r.required_reg_members)]
           /\ team' = [team EXCEPT ![o] =
                  [owners |-> r.owners_found, reg_members |-> r.reg_members_found]]
           /\ frame' = [frame EXCEPT ![v].opPrepRecord = r,
                  ![v].todo = [owners |-> r.owners_found,
                               reg_members |-> r.reg_members_found]]
           /\ Goto(v, "par_tell")
  <2>1. /\ prep'[o] = Absent
        /\ \A p \in OpIDs \ {o} : prep'[p] = prep[p] /\ collected'[p] = collected[p]
    BY <1>0, <1>7
  <2>2. PICK n : n = NewCollectedRecord(r.requester, r.userset,
                         r.required_owners, r.required_reg_members)
    OBVIOUS
  <2>3. /\ n.userset = prep[o].userset /\ n.requester = prep[o].requester
        /\ n.required_owners = prep[o].required_owners
        /\ n.required_reg_members = prep[o].required_reg_members
    BY <1>2, <2>2 DEF Records, NewCollectedRecord
  <2>4. collected'[o] = n
    BY <1>0, <1>7, <2>2
  <2>5. team'[o] = [owners |-> r.owners_found, reg_members |-> r.reg_members_found]
    BY <1>0, <1>7
  <2>6. pc'[v] = "par_tell"
    BY <1>0, <1>7 DEF Goto
  <2>7. /\ frame'[v].op = o
        /\ frame'[v].todo = [owners |-> r.owners_found, reg_members |-> r.reg_members_found]
    BY <1>0, <1>7 DEF Frame
  <2>8. Participants(o)' = found /\ ToBeNotified(v)' = found
    BY <1>3, <2>5, <2>7 DEF Participants, ToBeNotified
  <2>9. StartsToCollect(v, o)
    BY <1>1, <1>2, <1>3, <1>4, <1>7, <2>3, <2>4, <2>6, <2>7, <2>8 DEF StartsToCollect, Records
  <2> QED
    BY <2>1, <2>9
<1> QED
  BY <1>2, <1>5, <1>6, <1>7, Zenon DEF Records

LEMMA NewlyCollected ==
    ASSUME Stepping, NEW o \in OpIDs, collected[o] = Absent, collected'[o] # Absent
    PROVE  \E v \in Users : RegisterParticipant(v) /\ StartsToCollect(v, o)
<1>0. IInv /\ [Next]_vars
  BY DEF Stepping
<1>1. ASSUME NEW u \in Users, InitiateDecryption(u) \/ PrepareDecryption(u) PROVE UNCHANGED collected
  BY <1>1 DEF InitiateDecryption, NewOperation, PrepareDecryption, PrepareOperation
<1>2. ASSUME NEW u \in Users, RegisterPart(u) PROVE collected'[o] = Absent
  BY <1>0, <1>2 DEF RegisterPart, AddPart, AddLastPart, IInv, TypeOK, DMTypeOK
<1>3. PICK v \in Users : RegisterParticipant(v)
  BY <1>0, <1>1, <1>2, ManagerSteps DEF dmVars
<1>4. PICK p \in OpIDs : p = frame[v].op
  BY <1>0, <1>3 DEF RegisterParticipant, IInv, LocalsOK
<1> QED
  BY <1>3, <1>4, Registering

-----------------------------------------------------------------------------
\* Whoever makes a userset takes part in none of its decryptions.

\* By counting: without the maker there are not enough members.
LEMMA NoneStartsWithoutMaker ==
    ASSUME Flowing, NEW u \in Users, pc[u] = "mk_notify", NEW o \in OpIDs,
           collected[o] = Absent, collected'[o] # Absent
    PROVE  collected'[o].userset # frame[u].userset
<1>0. Stepping /\ IInv /\ IInv' /\ AccountsInv /\ AccountsInv' /\ MakerBusy(u)
  BY DEF Flowing, Knowing, Stepping, OwedInv
<1>1. PICK v \in Users : RegisterParticipant(v) /\ StartsToCollect(v, o)
  BY <1>0, NewlyCollected
<1>2. PICK s \in UserSetIDs : s = frame[u].userset /\ InStorage(s)
  BY <1>0 DEF IInv, LocalsOK
<1> SUFFICES ASSUME collected'[o].userset = s PROVE FALSE
  BY <1>2
<1>3. PICK c \in PrepareRecord : c = prep[o]
  BY <1>0, <1>1 DEF StartsToCollect, IInv, TypeOK, DMTypeOK
<1>4. PICK info \in UserSetInfo : info = usersets[s] /\ usersets'[s] = info
  BY <1>0, <1>2, SteppingFacts DEF IInv, TypeOK, InStorage
<1>5. /\ c.userset = s /\ c.requester \in info.owners
      /\ c.required_owners = info.owners_threshold
      /\ c.required_reg_members = info.reg_members_threshold
      /\ u \notin Found(o) /\ u # c.requester
  <2>1. OwnersAsk(o)
    BY DEF Flowing, Knowing, OwnersInv
  <2>2. prep[o] # Absent /\ c.userset = s
    BY <1>1, <1>3 DEF StartsToCollect
  <2> QED
    BY <1>0, <1>2, <1>3, <1>4, <2>1, <2>2 DEF OwnersAsk, MakerBusy
<1>6. u # v
  BY <1>1 DEF RegisterParticipant
<1>7. PICK all : all = info.owners \cup info.reg_members
  OBVIOUS
<1>8. u \in all /\ (NeedsNobody(s) \/ Cardinality(all) <= info.owners_threshold + info.reg_members_threshold + 1)
  BY <1>0, <1>2, <1>4, <1>7 DEF MakerBusy, MembersOf, NeedsEveryone
<1>9. ~NeedsNobody(s)
  <2>1. Requirement(c, UserOwns(v, frame[v].userset)) # "NotRequired"
    BY <1>1, <1>3 DEF StartsToCollect
  <2>2. Cardinality(c.owners_found) \in Nat /\ Cardinality(c.reg_members_found) \in Nat
    BY FiniteUsers, FS_Subset, FS_CardinalityType DEF PrepareRecord
  <2>3. c.required_owners # 0 \/ c.required_reg_members # 0
    BY <2>1, <2>2 DEF Requirement
  <2> QED
    BY <1>4, <1>5, <2>3 DEF NeedsNobody
<1>10. PICK part : part = Participants(o)'
  OBVIOUS
<1>11. /\ part \subseteq all /\ c.requester \notin part
       /\ Cardinality(part) = c.required_owners + c.required_reg_members
       /\ u \notin part
  <2>1. Collecting(o)'
    BY <1>0 DEF AccountsInv
  <2>2. /\ part = team'[o].owners \cup team'[o].reg_members
        /\ team'[o].owners \subseteq info.owners
        /\ team'[o].reg_members \subseteq all
        /\ c.requester \notin part
        /\ Cardinality(part) = c.required_owners + c.required_reg_members
    BY <1>1, <1>3, <1>4, <1>7, <1>10, <2>1 DEF Collecting, StartsToCollect, MembersOf, Participants
  <2>3. u \notin part
    BY <1>1, <1>5, <1>6, <1>10 DEF StartsToCollect
  <2> QED
    BY <1>7, <2>2, <2>3
<1>12. IsFiniteSet(all) /\ IsFiniteSet(part)
  BY <1>7, <1>11, FiniteUsers, FS_Subset DEF UserSetInfo
<1>13. PICK k \in Nat, n \in Nat, a \in Nat, b \in Nat :
            /\ k = Cardinality(part) /\ n = Cardinality(all)
            /\ a = info.owners_threshold /\ b = info.reg_members_threshold
  BY <1>12, FS_CardinalityType DEF UserSetInfo
<1>14. Cardinality(part \cup {u}) = k + 1 /\ IsFiniteSet(part \cup {u})
  BY <1>11, <1>12, <1>13, FS_AddElement
<1>15. Cardinality((part \cup {u}) \cup {c.requester}) = k + 1 + 1
  <2>1. c.requester \notin part \cup {u}
    BY <1>5, <1>11
  <2> QED
    BY <1>14, <2>1, FS_AddElement
<1>16. k + 1 + 1 <= n
  <2>1. (part \cup {u}) \cup {c.requester} \subseteq all
    BY <1>5, <1>7, <1>8, <1>11
  <2> QED
    BY <1>12, <1>13, <1>15, <2>1, FS_Subset
<1>17. k = a + b /\ n <= a + b + 1
  BY <1>5, <1>8, <1>9, <1>11, <1>13
<1> QED
  BY <1>16, <1>17

\* No record of its userset comes to name it.
LEMMA NoneNamesMaker ==
    ASSUME Flowing, NEW u \in Users, pc[u] = "mk_notify", NEW o \in OpIDs,
           prep'[o] # Absent, prep'[o].userset = frame[u].userset
    PROVE  u \notin Found(o)' \cup {prep'[o].requester}
<1>0. Stepping /\ IInv /\ [Next]_vars /\ MakerBusy(u)
  BY DEF Flowing, Knowing, Stepping, OwedInv
<1>1. CASE prep'[o] = prep[o]
  BY <1>0, <1>1 DEF MakerBusy, Found
<1>2. ASSUME NEW v \in Users, PrepareDecryption(v), prep'[o] # prep[o]
      PROVE  u \notin Found(o)' \cup {prep'[o].requester}
  <2>1. u # v
    BY <1>2 DEF PrepareDecryption
  <2>2. PICK s, a, b : prep'[o] = NewPrepareRecord(v, s, a, b)
    BY <1>0, <1>2 DEF PrepareDecryption, PrepareOperation, Emplace, IInv, TypeOK, DMTypeOK
  <2> QED
    BY <2>1, <2>2 DEF NewPrepareRecord, Found
<1>3. ASSUME NEW v \in Users, RegisterParticipant(v), prep'[o] # prep[o]
      PROVE  u \notin Found(o)' \cup {prep'[o].requester}
  <2>1. u # v
    BY <1>3 DEF RegisterParticipant
  <2>2. frame[v].op \in OpIDs
    BY <1>0, <1>3 DEF RegisterParticipant, IInv, LocalsOK
  <2>3. /\ prep'[o].userset = prep[o].userset /\ prep'[o].requester = prep[o].requester
        /\ prep[o] # Absent
        /\ Found(o)' \subseteq Found(o) \cup {v}
    BY <1>0, <1>3, <2>2, Registering
  <2> QED
    BY <1>0, <2>1, <2>3 DEF MakerBusy
<1>4. ASSUME NEW v \in Users, InitiateDecryption(v) \/ RegisterPart(v) PROVE UNCHANGED prep
  BY <1>4 DEF InitiateDecryption, NewOperation, RegisterPart, AddPart, AddLastPart
<1> QED
  BY <1>0, <1>1, <1>2, <1>3, <1>4, ManagerSteps DEF dmVars

LEMMA MakersStayBusy ==
    ASSUME Flowing, EveryoneNeeded PROVE \A u \in Users : MakerBusy(u)'
<1>0. Knowing /\ Stepping /\ IInv /\ AccountsInv
  BY DEF Flowing, Knowing, Stepping
<1> SUFFICES ASSUME NEW u \in Users, pc'[u] = "mk_notify" PROVE MakerBusy(u)'
  BY DEF MakerBusy
<1>1. CASE StoreUserSet(u)
  <2>1. PICK p \in Plans, s \in UserSetIDs : Makes(u, p, s)
    BY <1>0, <1>1, StoreUserSetMakes
  <2>2. PICK info : info = usersets'[s] /\ info = [owners |-> p.owners \cup {u}, reg_members |-> p.reg_members,
                           owners_threshold |-> p.owners_threshold,
                           reg_members_threshold |-> p.reg_members_threshold]
    BY <2>1 DEF Makes
  <2>3. /\ frame'[u].userset = s /\ ~InStorage(s)
        /\ u \notin p.owners \cup p.reg_members /\ p.owners \cup p.reg_members \subseteq Users
        /\ UNCHANGED <<prep, collected>>
    BY <2>1 DEF Makes, InStorage
  <2>4. PICK all : all = MembersOf(s)' /\ all = (p.owners \cup p.reg_members) \cup {u}
    <3>1. usersets'[s].owners = p.owners \cup {u} /\ usersets'[s].reg_members = p.reg_members
      BY <2>2
    <3>2. MembersOf(s)' = (p.owners \cup p.reg_members) \cup {u}
      BY <3>1 DEF MembersOf
    <3> QED
      BY <3>2
  <2>5. NeedsNobody(s)' \/ NeedsEveryone(s)'
    <3>1. CASE p.owners_threshold = 0 /\ p.reg_members_threshold = 0
      BY <2>2, <3>1 DEF NeedsNobody
    <3>2. CASE Cardinality(p.owners \cup p.reg_members) <= p.owners_threshold + p.reg_members_threshold
      <4>1. IsFiniteSet(p.owners \cup p.reg_members)
        BY <2>3, FiniteUsers, FS_Subset
      <4>2. PICK k \in Nat, a \in Nat, b \in Nat :
                 /\ k = Cardinality(p.owners \cup p.reg_members)
                 /\ a = p.owners_threshold /\ b = p.reg_members_threshold
        BY <4>1, FS_CardinalityType, PlansAssumption DEF Plan
      <4>3. Cardinality(all) = k + 1
        BY <2>3, <2>4, <4>1, <4>2, FS_AddElement
      <4>4. k + 1 <= a + b + 1
        BY <3>2, <4>2
      <4> QED
        BY <2>2, <2>4, <4>2, <4>3, <4>4 DEF NeedsEveryone
    <3> QED
      BY <2>3, <3>1, <3>2 DEF EveryoneNeeded
  <2>6. ASSUME NEW o \in OpIDs
        PROVE  /\ prep[o] # Absent => prep[o].userset # s
               /\ collected[o] # Absent => collected[o].userset # s
    BY <1>0, <2>3 DEF AccountsInv, Preparing, Collecting
  <2> QED
    BY <2>3, <2>4, <2>5, <2>6 DEF MakerBusy
<1>2. CASE ~StoreUserSet(u)
  <2>1. pc[u] = "mk_notify" /\ frame'[u].userset = frame[u].userset
    <3>1. CASE pc'[u] = pc[u] /\ frame'[u] = frame[u]
      BY <3>1
    <3>2. CASE NotifyMember(u)
      <4>1. /\ pc[u] = "mk_notify" /\ frame \in [Users -> Frame] /\ frame[u] \in Frame
            /\ frame[u].todo \in MemberLists
        BY <1>0, <3>2 DEF NotifyMember, IInv, TypeOK, Frame
      <4>2. PICK n \in Users, list \in {"owners", "reg_members"} : Turn(u, list, n)
        BY <3>2 DEF NotifyMember
      <4> QED
        BY <4>1, <4>2 DEF Turn, Frame
    <3>3. CASE (Request(u) \/ Handle(u)) /\ ~NotifyMember(u)
      BY <1>0, <1>2, <3>3, ElsewhereNext
    <3> QED
      BY <3>1, <3>2, <3>3, ThreadStays
  <2>2. PICK s \in UserSetIDs : s = frame[u].userset /\ InStorage(s)
    BY <1>0, <2>1 DEF IInv, LocalsOK
  <2>3. usersets'[s] = usersets[s]
    BY <1>0, <2>2, SteppingFacts
  <2>4. MakerBusy(u)
    BY DEF Flowing, OwedInv
  <2>5. u \in MembersOf(s)' /\ (NeedsNobody(s)' \/ NeedsEveryone(s)')
    BY <2>1, <2>2, <2>3, <2>4 DEF MakerBusy, MembersOf, NeedsNobody, NeedsEveryone
  <2>6. ASSUME NEW o \in OpIDs
        PROVE  /\ prep'[o] # Absent /\ prep'[o].userset = s => u \notin Found(o)' \cup {prep'[o].requester}
               /\ collected'[o] # Absent => collected'[o].userset # s
    <3>1. prep'[o] # Absent /\ prep'[o].userset = s => u \notin Found(o)' \cup {prep'[o].requester}
      BY <2>1, <2>2, NoneNamesMaker
    <3>2. collected[o] = Absent /\ collected'[o] # Absent => collected'[o].userset # s
      BY <2>1, <2>2, NoneStartsWithoutMaker
    <3>3. collected[o] # Absent /\ collected'[o] # Absent => collected'[o].userset # s
      <4>1. Progress(o)
        BY <1>0, SteppingFacts
      <4> QED
        BY <2>1, <2>2, <2>4, <4>1 DEF Progress, MakerBusy
    <3> QED
      BY <3>1, <3>2, <3>3
  <2> QED
    BY <2>1, <2>2, <2>5, <2>6 DEF MakerBusy
<1> QED
  BY <1>1, <1>2

\* Members of a userset under which parts are collected have its key shards, or get
\* them before anything else.
LEMMA KeysAreThere ==
    ASSUME Flowing, NEW o \in OpIDs, collected[o] # Absent, NEW m \in Participants(o)
    PROVE  m \in Users /\ collected[o].userset \in UserSetIDs /\ HasKey(m, collected[o].userset)
<1>1. IInv /\ Collecting(o) /\ collected[o] \in CollectedRecord
  BY DEF Flowing, Knowing, Stepping, AccountsInv, IInv, TypeOK, DMTypeOK
<1>2. PICK s \in UserSetIDs : s = collected[o].userset /\ InStorage(s)
  BY <1>1 DEF CollectedRecord, Collecting
<1>3. m \in MembersOf(s)
  BY <1>1, <1>2 DEF Collecting, Participants, MembersOf
<1>4. m \in Users
  BY <1>1, <1>2, <1>3 DEF IInv, TypeOK, InStorage, MembersOf, UserSetInfo
<1>5. \A u \in Users : ~(pc[u] = "mk_notify" /\ frame[u].userset = s)
  BY <1>2 DEF Flowing, OwedInv, MakerBusy
<1> QED
  BY <1>2, <1>3, <1>4, <1>5 DEF Flowing, OwedInv, KeysComing

-----------------------------------------------------------------------------
\* Participants remember that they take part.
LEMMA FoundGoOnRemembering ==
    ASSUME Flowing PROVE \A o \in OpIDs : FoundRemember(o)'
<1>0. Stepping /\ IInv /\ AccountsInv /\ IInv'
  BY DEF Flowing, Knowing, Stepping
<1> SUFFICES ASSUME NEW o \in OpIDs, prep'[o] # Absent, NEW m \in Found(o)'
             PROVE  Remembers(m, o)'
  BY DEF FoundRemember
<1>1. m \in Users
  BY <1>0 DEF IInv, TypeOK, DMTypeOK, PrepareRecord, Found
<1>2. ASSUME prep[o] # Absent, m \in Found(o) PROVE Remembers(m, o)'
  <2>1. Remembers(m, o)
    BY <1>2 DEF Flowing, OwedInv, FoundRemember
  <2>2. collected[o] = Absent
    BY <1>0, <1>2 DEF AccountsInv, Preparing
  <2>3. OnTheWay(m, o) = {}
    BY <1>0, <1>1, <2>2, NoDebts DEF AccountsInv, OwedOnce
  <2> QED
    BY <1>1, <2>1, <2>3, RemembersStays
<1>3. CASE prep'[o] = prep[o]
  BY <1>2, <1>3 DEF Found
<1>4. ASSUME NEW v \in Users, PrepareDecryption(v), prep'[o] # prep[o] PROVE Remembers(m, o)'
  <2>1. PICK s, a, b : prep'[o] = NewPrepareRecord(v, s, a, b)
    BY <1>0, <1>4 DEF PrepareDecryption, PrepareOperation, Emplace, IInv, TypeOK, DMTypeOK
  <2> QED
    BY <2>1 DEF NewPrepareRecord, Found
<1>5. ASSUME NEW v \in Users, RegisterParticipant(v), prep'[o] # prep[o] PROVE Remembers(m, o)'
  <2>1. frame[v].op \in OpIDs
    BY <1>0, <1>5 DEF RegisterParticipant, IInv, LocalsOK
  <2>2. /\ prep[o] # Absent
        /\ Found(o)' = Found(o) \/ (Found(o)' = Found(o) \cup {v} /\ Remembers(v, o)')
    BY <1>0, <1>5, <2>1, Registering
  <2> QED
    BY <1>2, <2>2
<1>6. ASSUME NEW v \in Users, InitiateDecryption(v) \/ RegisterPart(v) PROVE UNCHANGED prep
  BY <1>6 DEF InitiateDecryption, NewOperation, RegisterPart, AddPart, AddLastPart
<1> QED
  BY <1>0, <1>3, <1>4, <1>5, <1>6, ManagerSteps DEF dmVars, Stepping

-----------------------------------------------------------------------------
\* The parts of an operation that goes on collecting.

\* Tasks change when their parts are sent, and with responses.
LEMMA TasksElsewhere ==
    ASSUME Flowing, NEW m \in Users, ~SendPart(m), ~SendResponse(m)
    PROVE  client'[m].tasks = client[m].tasks
<1>0. IInv /\ client \in [Users -> ClientState]
  BY DEF Flowing, Knowing, Stepping, IInv, TypeOK
<1>1. CASE UNCHANGED client
  BY <1>1
<1>2. CASE Participate(m)
  <2>1. PICK x : client' = [client EXCEPT ![m].lookups = x]
    BY <1>2 DEF Participate
  <2> QED
    BY <1>0, <2>1 DEF ClientState
<1>3. ASSUME NEW u \in Users \ {m}, Request(u) \/ Handle(u) PROVE client'[m] = client[m]
  BY <1>0, <1>3, OthersStill
<1>4. CASE (Request(m) \/ Handle(m)) /\ ~Participate(m)
  <2>1. UNCHANGED client
    BY <1>4 DEF Request, Handle, RejectUserSet, StoreUserSet, SendUserSets, InitiateDecryption,
       SendUpdates, NotifyMember, PrepareDecryption, LookupMember, ParticipateFindCollected,
       SendPartFindCollected, FindCollected, RegisterTooLate, RegisterParticipant, TellParticipant,
       RegisterPart, FinishOperation
  <2> QED
    BY <2>1
<1> QED
  BY <1>1, <1>2, <1>3, <1>4, SomebodySteps DEF vars

\* A turn of continue_operation's loops.
LEMMA TellParticipantGoesOn ==
    ASSUME IInv, NEW u \in Users, TellParticipant(u), NEW m \in ToBeNotified(u)
    PROVE  \/ \E t \in updates'[m].to_decrypt : t.op = frame[u].op
           \/ pc'[u] = "par_tell" /\ frame'[u].op = frame[u].op /\ m \in ToBeNotified(u)'
<1>1. /\ pc \in [Users -> Locations] /\ frame \in [Users -> Frame] /\ frame[u] \in Frame
      /\ updates \in [Users -> UpdateResponse] /\ frame[u].todo \in MemberLists
  BY DEF IInv, TypeOK, UMTypeOK, Frame
<1>2. PICK n \in Users, list \in {"owners", "reg_members"} :
          Turn(u, list, n) /\ \E ids : RegisterDecryptionParticipating(n, frame[u].op, ids)
  BY DEF TellParticipant
<1>3. \E t \in updates'[n].to_decrypt : t.op = frame[u].op
  <2>1. PICK ids : RegisterDecryptionParticipating(n, frame[u].op, ids)
    BY <1>2
  <2>2. [op |-> frame[u].op, shards_ids |-> ids] \in updates'[n].to_decrypt
    BY <1>1, <2>1 DEF RegisterDecryptionParticipating, UpdateResponse
  <2> QED
    BY <2>2
<1>4. ASSUME n # m
      PROVE  pc'[u] = "par_tell" /\ frame'[u].op = frame[u].op /\ m \in ToBeNotified(u)'
  <2>1. frame'[u].op = frame[u].op /\ m \in ToBeNotified(u)'
    BY <1>1, <1>2, <1>4 DEF Turn, Frame, MemberLists, ToBeNotified
  <2>2. frame'[u].todo # Nobody
    BY <2>1 DEF ToBeNotified, Nobody
  <2> QED
    BY <1>1, <1>2, <2>1, <2>2 DEF Turn, Goto, TellParticipant
<1> QED
  BY <1>3, <1>4

\* A part that is being worked on is sent.
LEMMA WorkGoesOn ==
    ASSUME Flowing, NEW m \in Users, NEW o \in OpIDs, WorksOnPart(m, o), ~RegisterPart(m),
           collected[o] # Absent
    PROVE  WorksOnPart(m, o)'
<1>0. /\ IInv /\ pc \in [Users -> Locations] /\ frame \in [Users -> Frame]
      /\ client \in [Users -> ClientState] /\ client[m] \in ClientState /\ frame[m] \in Frame
  BY DEF Flowing, Knowing, Stepping, IInv, TypeOK
<1>1. ASSUME AtClient(m, o) # {} PROVE WorksOnPart(m, o)'
  <2>1. CASE SendPart(m)
    <3>1. PICK t \in client[m].tasks :
              /\ client' = [client EXCEPT ![m].tasks = @ \ {t}]
              /\ FindPrepared(m, t.op, [EmptyFrame EXCEPT !.op = t.op,
                     !.part = [by |-> m, layer |-> t.layer, ids |-> t.shards_ids]],
                     "snd_find", "snd_reg")
      BY <2>1 DEF SendPart
    <3>2. client'[m].tasks = client[m].tasks \ {t}
      BY <1>0, <3>1 DEF ClientState
    <3>3. pc'[m] \in {"snd_find", "snd_reg"} /\ frame'[m].op = t.op
      <4>1. PICK fr : fr = [EmptyFrame EXCEPT !.op = t.op,
                     !.part = [by |-> m, layer |-> t.layer, ids |-> t.shards_ids]]
        OBVIOUS
      <4>2. fr.op = t.op /\ \A x : [fr EXCEPT !.userset = x].op = t.op
        BY <4>1 DEF EmptyFrame
      <4>3. FindPrepared(m, t.op, fr, "snd_find", "snd_reg")
        BY <3>1, <4>1
      <4> QED
        <5>1. PICK next \in {"snd_find", "snd_reg"}, g \in {fr} \cup {[fr EXCEPT !.userset = x] : x \in {prep[t.op].userset}} :
                  pc' = [pc EXCEPT ![m] = next] /\ frame' = [frame EXCEPT ![m] = g]
          BY <4>3 DEF FindPrepared, Goto
        <5>2. g.op = t.op
          BY <4>2, <5>1
        <5> QED
          BY <1>0, <5>1, <5>2
    <3> QED
      BY <1>1, <3>2, <3>3 DEF WorksOnPart, AtClient, Sending
  <2>2. CASE SendResponse(m)
    <3>1. PICK c \in ClientState, r \in Reply : c = client[m] /\ r = reply[m]
      BY <1>0, <2>2, SendResponseConsumes
    <3>2. client'[m] = Consume(c, m, r)
      BY <1>0, <2>2, <3>1, SendResponseConsumes
    <3>3. client[m].tasks \subseteq client'[m].tasks
      BY <3>1, <3>2, ConsumeGrows
    <3> QED
      BY <1>1, <3>3 DEF WorksOnPart, AtClient
  <2>3. CASE ~SendPart(m) /\ ~SendResponse(m)
    <3>1. client'[m].tasks = client[m].tasks
      BY <1>0, <2>3, TasksElsewhere
    <3> QED
      BY <1>1, <3>1 DEF WorksOnPart, AtClient
  <2> QED
    BY <2>1, <2>2, <2>3
<1>2. ASSUME Sending(m, o) PROVE WorksOnPart(m, o)'
  <2>1. CASE pc'[m] = pc[m] /\ frame'[m] = frame[m]
    BY <1>2, <2>1 DEF WorksOnPart, Sending
  <2>2. CASE SendPartFindCollected(m)
    BY <1>0, <1>2, <2>2 DEF SendPartFindCollected, FindCollected, Goto, Frame, WorksOnPart, Sending
  <2> QED
    BY <1>2, <2>1, <2>2, ThreadStays, StepsByLocation DEF Sending
<1> QED
  BY <1>1, <1>2 DEF WorksOnPart

\* A request for a part that is on its way reaches a client that can do it.
LEMMA TaskArrives ==
    ASSUME Flowing, NEW m \in Users, NEW o \in OpIDs, GetsTask(m, o),
           collected[o] # Absent, collected'[o] # Absent
    PROVE  Owes(m, o)'
<1>0. /\ IInv /\ Stepping /\ Progress(o)
  BY SteppingFacts DEF Flowing, Knowing, Stepping
<1>1. PICK s : s = collected[o].userset /\ s = collected'[o].userset
  BY <1>0 DEF Progress
<1>2. PICK t \in reply[m].updates.to_decrypt : t.op = o /\ reply[m].kind = "Updates"
  BY DEF GetsTask, OnTheWay
<1>3. CASE SendResponse(m)
  <2>1. PICK c \in ClientState, r \in Reply : c = client[m] /\ r = reply[m]
    BY <1>0, <1>3, SendResponseConsumes
  <2>2. client'[m] = Consume(c, m, r)
    BY <1>0, <1>3, <2>1, SendResponseConsumes
  <2>3. <<m, s>> \in t.shards_ids
    <3>1. PICK layer \in Layers : Fits(m, o, layer, t.shards_ids)
      BY <1>0, <1>2 DEF Stepping, JoinInv, MemberFits, ReplyFits
    <3> QED
      BY <1>1, <3>1 DEF Fits, LayerIDs, ShardsOf
  <2>4. \E w \in client'[m].tasks : w.op = o
    BY <1>1, <1>2, <2>1, <2>2, <2>3, ConsumeGrows DEF GetsTask
  <2> QED
    BY <2>4 DEF Owes, WorksOnPart, AtClient
<1>4. CASE Keeps(m)
  <2>1. reply'[m] = reply[m]
    BY <1>2, <1>4 DEF Keeps, NoReply
  <2> QED
    BY <1>1, <1>4, <2>1 DEF Keeps, Owes, GetsTask, OnTheWay
<1> QED
  BY <1>3, <1>4, Mail

\* A request for a part that waits is told, fetched, or waits on.
LEMMA RequestMoves ==
    ASSUME Flowing, NEW m \in Users, NEW o \in OpIDs, AskedForPart(m, o), m \in Participants(o),
           collected[o] # Absent, collected'[o] # Absent
    PROVE  Owes(m, o)'
<1>0. /\ IInv /\ Stepping /\ AccountsInv /\ Progress(o)
  BY SteppingFacts DEF Flowing, Knowing, Stepping
<1>1. OnTheWay(m, o) = {}
  BY <1>0, OneDebt DEF AskedForPart
<1>2. Remembers(m, o)'
  BY <1>1, RemembersStays DEF AskedForPart
<1>3. ASSUME NEW u \in ToldBy(m, o) PROVE ToldBy(m, o)' # {} \/ InUpdates(m, o)' # {}
  <2>1. u \in Users /\ pc[u] = "par_tell" /\ frame[u].op = o /\ m \in ToBeNotified(u)
    BY <1>3 DEF ToldBy, ToBeNotified
  <2>2. CASE TellParticipant(u)
    <3>1. \/ \E t \in updates'[m].to_decrypt : t.op = o
          \/ pc'[u] = "par_tell" /\ frame'[u].op = o /\ m \in ToBeNotified(u)'
      BY <1>0, <2>1, <2>2, TellParticipantGoesOn
    <3> QED
      BY <2>1, <3>1 DEF ToldBy, ToBeNotified, InUpdates
  <2>3. CASE ~TellParticipant(u)
    <3>1. pc'[u] = pc[u] /\ frame'[u] = frame[u]
      BY <2>1, <2>3, ThreadStays, StepsByLocation
    <3> QED
      BY <2>1, <3>1 DEF ToldBy, ToBeNotified
  <2> QED
    BY <2>2, <2>3
<1>4. ASSUME NEW t \in InUpdates(m, o), ~SendUpdates(m) PROVE InUpdates(m, o)' # {}
  BY <1>4, UpdatesKept DEF InUpdates
<1>5. ASSUME NEW t \in InUpdates(m, o), SendUpdates(m) PROVE GetsTask(m, o)'
  <2>1. /\ reply[m] = NoReply
        /\ reply'[m].kind = "Updates" /\ reply'[m].updates = updates[m]
        /\ UNCHANGED <<client, prep, collected, team>>
    BY <1>5, SendUpdatesMail
  <2>2. OnTheWay(m, o)' # {}
    BY <1>5, <2>1 DEF InUpdates, OnTheWay
  <2>3. client'[m].pendingParticipances[o] # "None"
    BY <2>1 DEF AskedForPart, Remembers, NoReply
  <2>4. HasKey(m, collected[o].userset)
    BY KeysAreThere
  <2>5. collected[o].userset \in client[m].profile \cup AddedIn(updates[m])
    BY <2>1, <2>4 DEF HasKey, NoReply
  <2> QED
    BY <2>1, <2>2, <2>3, <2>5 DEF GetsTask
<1> QED
  BY <1>2, <1>3, <1>4, <1>5 DEF AskedForPart, Owes

\* Parts that have come stay, and one of the sender is added.
LEMMA MissingShrinks ==
    ASSUME Flowing, NEW o \in OpIDs, collected[o] # Absent, collected'[o] # Absent
    PROVE  /\ Participants(o)' = Participants(o)
           /\ Missing(o)' \subseteq Missing(o)
           /\ \A u \in Users : RegisterPart(u) /\ frame[u].op = o => u \notin Missing(o)'
<1>0. Stepping /\ IInv /\ AccountsInv /\ [Next]_vars
  BY DEF Flowing, Knowing, Stepping
<1>1. Participants(o)' = Participants(o)
  <2>1. Progress(o)
    BY <1>0, SteppingFacts
  <2> QED
    BY <2>1 DEF Progress, Participants
<1>2. ASSUME NEW u \in Users, RegisterPart(u), frame[u].op = o
      PROVE  Contributors(o)' = Contributors(o) \cup {u}
  <2>1. PICK part \in Part : part = frame[u].part /\ part.by = u
    BY <1>0, <1>2 DEF RegisterPart, IInv, LocalsOK, AccountsInv, OwnDuty
  <2>2. PICK c \in CollectedRecord : c = collected[o]
    BY <1>0 DEF IInv, TypeOK, DMTypeOK
  <2>3. PICK isOwner \in BOOLEAN : isOwner = UserOwns(u, frame[u].userset)
    BY DEF UserOwns
  <2>4. PICK r \in CollectedRecord : r = WithPart(c, part, isOwner)
    BY WithPartTypes
  <2>5. collected' = [collected EXCEPT ![o] = r] \/ collected' = [collected EXCEPT ![o] = Absent]
    BY <1>2, <2>1, <2>2, <2>3, <2>4, Zenon DEF RegisterPart, AddPart, AddLastPart
  <2>6. collected'[o] = r
    BY <1>0, <2>5 DEF IInv, TypeOK, DMTypeOK
  <2>7. Senders(r.owner_layer_parts) \cup Senders(r.reg_layer_parts) =
          Senders(c.owner_layer_parts) \cup Senders(c.reg_layer_parts) \cup {part.by}
    <3> DEFINE w == WithPart(c, part, isOwner)
    <3>1. /\ w \in CollectedRecord
          /\ w.requester = c.requester /\ w.userset = c.userset
          /\ w.required_owners = c.required_owners
          /\ w.required_reg_members = c.required_reg_members
          /\ Senders(w.owner_layer_parts) \cup Senders(w.reg_layer_parts) =
               Senders(c.owner_layer_parts) \cup Senders(c.reg_layer_parts) \cup {part.by}
          /\ Len(w.owner_layer_parts) + Len(w.reg_layer_parts) =
               Len(c.owner_layer_parts) + Len(c.reg_layer_parts) + 1
      BY OnePartMore
    <3> HIDE DEF w
    <3>2. r = w
      BY <2>4 DEF w
    <3> QED
      BY <3>1, <3>2
  <2> QED
    BY <2>1, <2>2, <2>6, <2>7 DEF Contributors
<1>3. ASSUME \A u \in Users : ~(RegisterPart(u) /\ frame[u].op = o)
      PROVE  collected'[o] = collected[o]
  <2>1. ASSUME NEW u \in Users, InitiateDecryption(u) \/ PrepareDecryption(u) PROVE UNCHANGED collected
    BY <2>1 DEF InitiateDecryption, NewOperation, PrepareDecryption, PrepareOperation
  <2>2. ASSUME NEW u \in Users, RegisterParticipant(u) PROVE collected'[o] = collected[o]
    <3>1. PICK p \in OpIDs : p = frame[u].op
      BY <1>0, <2>2 DEF RegisterParticipant, IInv, LocalsOK
    <3>2. p # o
      BY <1>0, <2>2, <3>1, ParticipantRecorded
    <3> QED
      BY <1>0, <2>2, <3>1, <3>2, Registering
  <2>3. ASSUME NEW u \in Users, RegisterPart(u) PROVE collected'[o] = collected[o]
    BY <1>0, <1>3, <2>3 DEF RegisterPart, AddPart, AddLastPart, IInv, TypeOK, DMTypeOK
  <2> QED
    BY <1>0, <2>1, <2>2, <2>3, ManagerSteps DEF dmVars
<1>4. ASSUME collected'[o] = collected[o] PROVE Contributors(o)' = Contributors(o)
  BY <1>4 DEF Contributors
<1> QED
  BY <1>1, <1>2, <1>3, <1>4 DEF Missing

LEMMA PartsGoOnComing ==
    ASSUME Flowing PROVE \A o \in OpIDs : PartsComing(o)'
<1>0. Stepping /\ IInv /\ IInv' /\ AccountsInv /\ AccountsInv'
  BY DEF Flowing, Knowing, Stepping
<1> SUFFICES ASSUME NEW o \in OpIDs, collected'[o] # Absent, NEW m \in Missing(o)'
             PROVE  Owes(m, o)'
  BY DEF PartsComing
<1>1. CASE collected[o] # Absent
  <2>1. m \in Missing(o) /\ m \in Participants(o) /\ ~(RegisterPart(m) /\ frame[m].op = o)
    BY <1>1, MissingShrinks, KeysAreThere DEF Missing
  <2>2. m \in Users /\ Owes(m, o)
    BY <1>1, <2>1, KeysAreThere DEF Flowing, OwedInv, PartsComing
  <2>3. CASE WorksOnPart(m, o)
    <3>1. CASE ~RegisterPart(m)
      BY <1>1, <2>2, <2>3, <3>1, WorkGoesOn DEF Owes
    <3>2. CASE RegisterPart(m)
      <4>1. ~Sending(m, o) /\ UNCHANGED client
        BY <2>1, <3>2 DEF Sending, RegisterPart
      <4> QED
        BY <2>3, <4>1 DEF WorksOnPart, AtClient, Owes
    <3> QED
      BY <3>1, <3>2
  <2> QED
    BY <1>1, <2>1, <2>2, <2>3, RequestMoves, TaskArrives DEF Owes
<1>2. CASE collected[o] = Absent
  <2>1. PICK v \in Users : RegisterParticipant(v) /\ StartsToCollect(v, o)
    BY <1>0, <1>2, NewlyCollected
  <2>2. /\ m \in Found(o) \cup {v} /\ m \in ToBeNotified(v)' /\ pc'[v] = "par_tell"
        /\ frame'[v].op = o /\ prep[o] # Absent
    BY <2>1 DEF StartsToCollect, Missing
  <2>3. ToldBy(m, o)' # {}
    BY <2>2 DEF ToldBy, ToBeNotified
  <2>4. m \in Users
    BY <1>0, <2>2 DEF IInv, TypeOK, DMTypeOK, PrepareRecord, Found
  <2>5. Remembers(m, o)'
    <3>1. CASE m = v
      BY <2>1, <3>1 DEF StartsToCollect
    <3>2. CASE m \in Found(o)
      <4>1. Remembers(m, o)
        BY <2>2, <3>2 DEF Flowing, OwedInv, FoundRemember
      <4>2. OnTheWay(m, o) = {}
        BY <1>0, <1>2, <2>4, NoDebts DEF AccountsInv, OwedOnce
      <4> QED
        BY <2>4, <4>1, <4>2, RemembersStays
    <3> QED
      BY <2>2, <3>1, <3>2
  <2> QED
    BY <2>3, <2>5 DEF Owes, AskedForPart
<1> QED
  BY <1>1, <1>2

-----------------------------------------------------------------------------
LEMMA OwedInvariance ==
    ASSUME MembersListedOnce, NothingLost, EveryoneNeeded PROVE Spec => []OwedInv
<1>1. Init => OwedInv
  BY InitOwedInv
<1>2. /\ IInv /\ AccountsInv /\ OperationInv /\ JoinInv /\ OwnersInv /\ OwedInv
      /\ IInv' /\ AccountsInv' /\ [Next]_vars
      => OwedInv'
  BY SilentStays, MakersStayBusy, KeysStayComing, FoundGoOnRemembering, PartsGoOnComing
     DEF Flowing, Knowing, Stepping, OwedInv
<1> QED
  BY <1>1, <1>2, AccountsInvariance, OperationInvariance, JoinInvariance, OwnersInvariance, PTL DEF Spec

LEMMA OwingIsADebt == IInv /\ AccountsInv /\ OwedInv => MissingPartsAreOwed
<1> SUFFICES ASSUME IInv, AccountsInv, OwedInv, NEW o \in OpIDs, collected[o] # Absent,
                    NEW m \in Missing(o)
             PROVE  Debts(m, o) # {}
  BY DEF MissingPartsAreOwed
<1>1. team[o] \in MemberLists
  BY DEF AccountsInv, Collecting, IInv, TypeOK, DMTypeOK
<1>2. m \in Users
  BY <1>1 DEF Missing, Participants, MemberLists
<1>3. Owes(m, o)
  BY DEF OwedInv, PartsComing
<1> QED
  BY <1>2, <1>3, NoDebts DEF Owes, WorksOnPart, AskedForPart, GetsTask

\* While no response is lost, and where usersets need all their members or none, whoever
\* has not sent its part is asked for it, or works on it: its client has learned of its
\* layer and of its key shard before the request comes (continue_operation,
\* Client::participate).
THEOREM MissingPartsStayOwed ==
    ASSUME MembersListedOnce, NothingLost, EveryoneNeeded PROVE Spec => []MissingPartsAreOwed
BY OwingIsADebt, Invariance, AccountsInvariance, OwedInvariance, PTL

================================================================================
