---------------------------- MODULE OperationsProofs ----------------------------
(***************************************************************************)
(* An operation goes through its stages once and is reported once, for any *)
(* users, usersets, operations and plans (lists that overlap included).    *)
(*                                                                         *)
(* The argument: an operation is at one place at a time.  A thread holds   *)
(* its ID before it is prepared and after its last part came; in between   *)
(* it is in one of the two maps; at last it is in one record, wherever     *)
(* that is on its way to the requester.                                    *)
(*                                                                         *)
(* In usersets that list each member once its parts can also be joined:    *)
(* whatever a member is asked for, computes and sends for a layer is what  *)
(* that layer needs of it, whenever it comes.                              *)
(***************************************************************************)
EXTENDS ServerPropertiesProofs

\* The thread that has the operation in its hands.
At(u, o) == pc[u] \in {"dec_prep", "finish"} /\ frame[u].op = o

\* Where the records of finished decryptions are.
OnReply(u) == IF reply[u].kind = "Updates" THEN reply[u].updates.finished_decryptions ELSE {}
Held(u) == updates[u].finished_decryptions \cup client[u].results \cup OnReply(u)
Reported(o) == \E u \in Users : \E f \in Held(u) : f.op = o

\* In one place.
OnePlace(o) ==
    /\ prep[o] # Absent => collected[o] = Absent
    /\ prep[o] # Absent \/ collected[o] # Absent => (\A u \in Users : ~At(u, o)) /\ ~Reported(o)
    /\ \A u \in Users : At(u, o) =>
          ~Reported(o) /\ (\A v \in Users : At(v, o) => v = u)

\* Nothing is known of an ID before it is handed out; participants are those of an
\* operation that is not being prepared and will not be.
Stages(o) ==
    /\ o \notin allOpIDs =>
          /\ prep[o] = Absent /\ collected[o] = Absent /\ team[o] = Absent
          /\ (\A u \in Users : ~At(u, o)) /\ ~Reported(o)
    /\ prep[o] # Absent => team[o] = Absent
    /\ collected[o] # Absent => team[o] # Absent
    /\ \A u \in Users : At(u, o) /\ pc[u] = "dec_prep" => team[o] = Absent

OneRecord(o) ==
    \A u, v \in Users : \A f \in Held(u), g \in Held(v) : f.op = o /\ g.op = o => f = g

\* The inductive invariant, beside the types.
OperationInv == \A o \in OpIDs : OnePlace(o) /\ Stages(o) /\ OneRecord(o)

LEMMA InitOperationInv == Init => OperationInv
<1> SUFFICES ASSUME Init PROVE OperationInv
  OBVIOUS
<1>1. \A u \in Users : Held(u) = {} /\ pc[u] = "idle"
  BY DEF Init, UMInit, NoUpdates, Held, OnReply, NoReply
<1> QED
  BY <1>1 DEF Init, DMInit, OperationInv, OnePlace, Stages, OneRecord, Reported, At

-----------------------------------------------------------------------------
\* A step of u that moves nothing into a thread's hands and makes no record.
Lets(u) ==
    /\ pc'[u] \notin {"dec_prep", "finish"}
    /\ \A v \in Users \ {u} : pc'[v] = pc[v] /\ frame'[v] = frame[v]
NoNewRecord == \A v \in Users : Held(v)' \subseteq Held(v)

LEMMA LetsGo ==
    ASSUME NEW u \in Users, Lets(u), NEW v \in Users, NEW o, At(v, o)'
    PROVE  At(v, o) /\ pc'[v] = pc[v] /\ v # u
  BY DEF Lets, At

LEMMA OperationQuiet ==
    ASSUME OperationInv, NEW u \in Users, Lets(u), NoNewRecord, UNCHANGED dmVars
    PROVE  OperationInv'
<1> SUFFICES ASSUME NEW o \in OpIDs PROVE OnePlace(o)' /\ Stages(o)' /\ OneRecord(o)'
  BY DEF OperationInv
<1>1. \A v \in Users : At(v, o)' => At(v, o) /\ pc'[v] = pc[v]
  BY LetsGo
<1>2. Reported(o)' => Reported(o)
  BY DEF Reported, NoNewRecord
<1>3. OnePlace(o)' /\ Stages(o)'
  BY <1>1, <1>2 DEF OperationInv, OnePlace, Stages, dmVars
<1>4. OneRecord(o)'
  BY DEF OperationInv, OneRecord, NoNewRecord
<1> QED
  BY <1>3, <1>4

\* Records stay where they are.
LEMMA RecordsStay ==
    ASSUME UNCHANGED <<updates, client>>, \A v \in Users : OnReply(v)' \subseteq OnReply(v)
    PROVE  NoNewRecord
  BY DEF NoNewRecord, Held

LEMMA PlainReply ==
    ASSUME IInv, NEW u \in Users, NEW r, r.kind # "Updates",
           UNCHANGED reply \/ reply' = [reply EXCEPT ![u] = r]
    PROVE  \A v \in Users : OnReply(v)' \subseteq OnReply(v)
  BY DEF OnReply, IInv, TypeOK

LEMMA UserSetSteps ==
    ASSUME IInv, OperationInv, NEW u \in Users,
           RejectUserSet(u) \/ StoreUserSet(u) \/ SendUserSets(u)
    PROVE  OperationInv'
<1>1. Lets(u)
  <2>1. CASE RejectUserSet(u)
    BY <2>1 DEF RejectUserSet, Respond, Goto, Lets, IInv, TypeOK
  <2>2. CASE StoreUserSet(u)
    BY <2>2 DEF StoreUserSet, Goto, Loop, Lets, IInv, TypeOK
  <2>3. CASE SendUserSets(u)
    BY <2>3 DEF SendUserSets, Respond, Goto, Lets, IInv, TypeOK
  <2> QED
    BY <2>1, <2>2, <2>3
<1>2. PICK r : r.kind # "Updates" /\ reply' = [reply EXCEPT ![u] = r]
  <2>1. CASE RejectUserSet(u)
    BY <2>1 DEF RejectUserSet, Respond, ErrorResponse
  <2>2. CASE StoreUserSet(u)
    BY <2>2 DEF StoreUserSet, MakeUserSetResponse
  <2>3. CASE SendUserSets(u)
    BY <2>3 DEF SendUserSets, Respond, GetUserSetsResponse
  <2> QED
    BY <2>1, <2>2, <2>3
<1>3. UNCHANGED <<dmVars, updates, client>>
  BY DEF RejectUserSet, StoreUserSet, SendUserSets
<1> QED
  BY <1>1, <1>2, <1>3, PlainReply, RecordsStay, OperationQuiet

\* Finding an operation, for either request, and coming too late.
LEMMA FindSteps ==
    ASSUME IInv, OperationInv, NEW u \in Users,
           ParticipateFindCollected(u) \/ SendPartFindCollected(u) \/ RegisterTooLate(u)
    PROVE  OperationInv'
<1>1. Lets(u)
  BY DEF ParticipateFindCollected, SendPartFindCollected, FindCollected, RegisterTooLate,
         Respond, Goto, Lets, IInv, TypeOK
<1>2. \E r : r.kind # "Updates" /\ (UNCHANGED reply \/ reply' = [reply EXCEPT ![u] = r])
  <2>1. ErrorResponse.kind # "Updates"
    BY DEF ErrorResponse
  <2>2. ParticipateResponse(frame[u].op, "NotRequired").kind # "Updates"
    BY DEF ParticipateResponse
  <2> QED
    BY <2>1, <2>2 DEF ParticipateFindCollected, SendPartFindCollected, FindCollected, RegisterTooLate, Respond
<1>3. UNCHANGED <<dmVars, updates, client>>
  BY DEF ParticipateFindCollected, SendPartFindCollected, FindCollected, RegisterTooLate
<1> QED
  BY <1>1, <1>2, <1>3, PlainReply, RecordsStay, OperationQuiet

LEMMA AskingSteps ==
    ASSUME IInv, OperationInv, NEW u \in Users, Participate(u) \/ SendPart(u)
    PROVE  OperationInv'
<1>1. Lets(u)
  BY DEF Participate, SendPart, FindPrepared, Goto, Lets, IInv, TypeOK
<1>2. UNCHANGED <<dmVars, updates, reply>>
  BY DEF Participate, SendPart
<1>3. client[u] \in ClientState /\ (\A v \in Users : client'[v].results = client[v].results)
  <2>1. client \in [Users -> ClientState]
    BY DEF IInv, TypeOK
  <2>2. CASE Participate(u)
    <3>1. PICK o : client' = [client EXCEPT ![u].lookups = @ \ {o}]
      BY <2>2 DEF Participate
    <3> QED
      BY <2>1, <3>1 DEF ClientState
  <2>3. CASE SendPart(u)
    <3>1. PICK t : client' = [client EXCEPT ![u].tasks = @ \ {t}]
      BY <2>3 DEF SendPart
    <3> QED
      BY <2>1, <3>1 DEF ClientState
  <2> QED
    BY <2>1, <2>2, <2>3
<1>4. NoNewRecord
  BY <1>2, <1>3 DEF NoNewRecord, Held, OnReply
<1> QED
  BY <1>1, <1>2, <1>4, OperationQuiet

\* The loops over members.
LEMMA LoopSteps ==
    ASSUME IInv, OperationInv, NEW u \in Users,
           NotifyMember(u) \/ LookupMember(u) \/ TellParticipant(u)
    PROVE  OperationInv'
<1>1. \E m \in Users, list \in {"owners", "reg_members"} : Turn(u, list, m)
  BY DEF NotifyMember, LookupMember, TellParticipant
<1>2. Lets(u) /\ UNCHANGED reply
  <2>1. pc[u] \in {"mk_notify", "dec_lookup", "par_tell"}
    BY DEF NotifyMember, LookupMember, TellParticipant
  <2> QED
    BY <1>1, <2>1 DEF Turn, Goto, Lets, IInv, TypeOK
<1>3. UNCHANGED <<dmVars, client>>
  BY DEF NotifyMember, LookupMember, TellParticipant
<1>4. \A v \in Users : updates'[v].finished_decryptions = updates[v].finished_decryptions
  BY DEF NotifyMember, LookupMember, TellParticipant, RegisterOwner, RegisterRegMember, RegisterLookup,
         RegisterDecryptionParticipating, IInv, TypeOK, UMTypeOK, UpdateResponse
<1>5. NoNewRecord
  BY <1>2, <1>3, <1>4 DEF NoNewRecord, Held, OnReply
<1> QED
  BY <1>2, <1>3, <1>5, OperationQuiet

LEMMA SendUpdatesStepOnce ==
    ASSUME IInv, OperationInv, NEW u \in Users, SendUpdates(u)
    PROVE  OperationInv'
<1>1. Lets(u)
  BY DEF SendUpdates, Respond, Goto, Lets, IInv, TypeOK
<1>2. NoNewRecord
  BY DEF SendUpdates, RetrieveUpdates, NoUpdates, Respond, UpdatesReply, NoNewRecord, Held, OnReply,
         IInv, TypeOK, UMTypeOK
<1> QED
  BY <1>1, <1>2, OperationQuiet DEF SendUpdates

LEMMA ConsumeKeeps ==
    ASSUME NEW c \in ClientState, NEW u, NEW r \in Reply
    PROVE  Consume(c, u, r).results \subseteq
               c.results \cup (IF r.kind = "Updates" THEN r.updates.finished_decryptions ELSE {})
  BY DEF Consume, ClientState

LEMMA ResponseSteps ==
    ASSUME IInv, OperationInv, NEW u \in Users, SendResponse(u) \/ LoseConnection(u) \/ LogOut(u)
    PROVE  OperationInv'
<1>1. Lets(u)
  BY DEF SendResponse, LoseConnection, LogOut, Goto, Lets, IInv, TypeOK
<1>2. client'[u].results \subseteq client[u].results \cup OnReply(u)
      /\ \A v \in Users \ {u} : client'[v] = client[v]
  <2>1. CASE SendResponse(u)
    <3>1. client[u] \in ClientState /\ reply[u] \in Reply
      BY DEF IInv, TypeOK
    <3>2. client' = [client EXCEPT ![u] = Consume(client[u], u, reply[u])]
      BY <2>1 DEF SendResponse
    <3> QED
      BY <3>1, <3>2, ConsumeKeeps DEF OnReply, IInv, TypeOK
  <2>2. CASE LoseConnection(u) \/ LogOut(u)
    BY <2>2 DEF LoseConnection, LogOut, IInv, TypeOK, ClientState
  <2> QED
    BY <2>1, <2>2
<1>3. UNCHANGED <<dmVars, updates>>
  BY DEF SendResponse, LoseConnection, LogOut
<1>4. \A v \in Users : OnReply(v)' \subseteq OnReply(v)
  BY DEF SendResponse, LoseConnection, LogOut, NoReply, OnReply, IInv, TypeOK
<1>5. NoNewRecord
  BY <1>2, <1>3, <1>4 DEF NoNewRecord, Held
<1> QED
  BY <1>1, <1>3, <1>5, OperationQuiet

-----------------------------------------------------------------------------
\* A step of u that concerns one operation.
Concerns(u, o) ==
    /\ \A q \in OpIDs \ {o} : prep'[q] = prep[q] /\ collected'[q] = collected[q] /\ team'[q] = team[q]
    /\ \A q \in OpIDs \ {o} : q \in allOpIDs' <=> q \in allOpIDs
    /\ \A v \in Users \ {u} : pc'[v] = pc[v] /\ frame'[v] = frame[v]
    /\ At(u, o) \/ ~At(u, o)
    /\ pc'[u] \in {"dec_prep", "finish"} => frame'[u].op = o

LEMMA OthersKeep ==
    ASSUME OperationInv, NEW u \in Users, NEW o \in OpIDs, Concerns(u, o), NoNewRecord,
           NEW q \in OpIDs \ {o}
    PROVE  OnePlace(q)' /\ Stages(q)' /\ OneRecord(q)'
<1>1. \A v \in Users : At(v, q)' => At(v, q) /\ pc'[v] = pc[v]
  BY DEF Concerns, At
<1>2. Reported(q)' => Reported(q)
  BY DEF Reported, NoNewRecord
<1>3. OnePlace(q)' /\ Stages(q)'
  BY <1>1, <1>2 DEF OperationInv, OnePlace, Stages, Concerns
<1>4. OneRecord(q)'
  BY DEF OperationInv, OneRecord, NoNewRecord
<1> QED
  BY <1>3, <1>4

\* The ID is fresh: it goes to the thread, to be prepared or to be reported at once.
LEMMA InitiateDecryptionOnce ==
    ASSUME IInv, OperationInv, NEW u \in Users, InitiateDecryption(u)
    PROVE  OperationInv'
<1>1. PICK o \in OpIDs :
          /\ NewOperation(o)
          /\ pc' = [pc EXCEPT ![u] = "finish"] \/ pc' = [pc EXCEPT ![u] = "dec_prep"]
          /\ \E s, r : frame' = [frame EXCEPT ![u].op = o, ![u].userset = s, ![u].opCollRecord = r]
                       \/ frame' = [frame EXCEPT ![u].op = o, ![u].userset = s]
          /\ reply' = [reply EXCEPT ![u] = DecryptResponse(o)]
  BY DEF InitiateDecryption, Goto
<1>2. pc[u] = "idle" /\ UNCHANGED <<updates, client>>
  BY DEF InitiateDecryption
<1>3. frame'[u].op = o /\ pc'[u] \in {"finish", "dec_prep"}
      /\ \A v \in Users \ {u} : pc'[v] = pc[v] /\ frame'[v] = frame[v]
  BY <1>1 DEF IInv, TypeOK, Frame
<1>4. o \notin allOpIDs /\ allOpIDs' = allOpIDs \cup {o} /\ UNCHANGED <<prep, collected, team>>
  BY <1>1 DEF NewOperation
<1>5. NoNewRecord
  <2>1. DecryptResponse(o).kind # "Updates"
    BY DEF DecryptResponse
  <2> QED
    BY <1>1, <1>2, <2>1, PlainReply, RecordsStay
<1>6. \A q \in OpIDs \ {o} : OnePlace(q)' /\ Stages(q)' /\ OneRecord(q)'
  BY <1>3, <1>4, <1>5, OthersKeep DEF Concerns
<1>7. Stages(o) /\ OneRecord(o)
  BY DEF OperationInv
<1>8. ~Reported(o)'
  BY <1>4, <1>5, <1>7 DEF Stages, Reported, NoNewRecord
<1>9. \A v \in Users : At(v, o)' => v = u
  BY <1>3, <1>4, <1>7 DEF Stages, At
<1>10. OnePlace(o)' /\ Stages(o)' /\ OneRecord(o)'
  BY <1>4, <1>7, <1>8, <1>9 DEF OnePlace, Stages, OneRecord, Reported
<1> QED
  BY <1>6, <1>10 DEF OperationInv

\* The thread lets the operation go into the first map.
LEMMA PrepareDecryptionOnce ==
    ASSUME IInv, OperationInv, NEW u \in Users, PrepareDecryption(u)
    PROVE  OperationInv'
<1> PICK o \in OpIDs : frame[u].op = o
  BY DEF PrepareDecryption, IInv, LocalsOK
<1>1. pc[u] = "dec_prep" /\ o \in OpIDs /\ At(u, o)
  BY DEF PrepareDecryption, IInv, LocalsOK, At
<1>2. Lets(u) /\ UNCHANGED <<collected, allOpIDs, team, updates, client, reply>>
  BY DEF PrepareDecryption, PrepareOperation, Goto, Loop, Lets, IInv, TypeOK
<1>3. \A q \in OpIDs \ {o} : prep'[q] = prep[q]
  BY DEF PrepareDecryption, PrepareOperation, Emplace, IInv, TypeOK, DMTypeOK
<1>4. NoNewRecord
  BY <1>2, RecordsStay DEF OnReply
<1>5. \A q \in OpIDs \ {o} : OnePlace(q)' /\ Stages(q)' /\ OneRecord(q)'
  BY <1>1, <1>2, <1>3, <1>4, OthersKeep DEF Concerns, Lets
<1>6. OnePlace(o) /\ Stages(o) /\ OneRecord(o)
  BY <1>1 DEF OperationInv
<1>7. (\A v \in Users : ~At(v, o)') /\ ~Reported(o)' /\ o \in allOpIDs /\ team[o] = Absent /\ collected[o] = Absent
  <2>1. \A v \in Users : ~At(v, o)'
    BY <1>1, <1>2, <1>6, LetsGo DEF OnePlace
  <2>2. ~Reported(o)'
    BY <1>1, <1>4, <1>6 DEF OnePlace, Reported, NoNewRecord
  <2> QED
    BY <1>1, <1>6, <2>1, <2>2 DEF OnePlace, Stages
<1>8. OnePlace(o)' /\ Stages(o)' /\ OneRecord(o)'
  BY <1>1, <1>2, <1>6, <1>7 DEF OnePlace, Stages, OneRecord, Reported
<1> QED
  BY <1>5, <1>8 DEF OperationInv

\* The last participant takes the operation from the first map to the second.
LEMMA RegisterParticipantOnce ==
    ASSUME IInv, OperationInv, NEW u \in Users, RegisterParticipant(u)
    PROVE  OperationInv'
<1> PICK o \in OpIDs : frame[u].op = o
  BY DEF RegisterParticipant, IInv, LocalsOK
<1>1. pc[u] = "par_reg" /\ o \in OpIDs /\ prep[o] # Absent
  BY DEF RegisterParticipant, IInv, LocalsOK
<1>2. Lets(u) /\ UNCHANGED <<allOpIDs, updates, client>>
  BY DEF RegisterParticipant, AddParticipant, AddLastParticipant, dmVars, Goto, Lets, IInv, TypeOK
<1>3. \A q \in OpIDs \ {o} : prep'[q] = prep[q] /\ collected'[q] = collected[q] /\ team'[q] = team[q]
  BY DEF RegisterParticipant, AddParticipant, AddLastParticipant, Emplace, dmVars, IInv, TypeOK, DMTypeOK
<1>4. NoNewRecord
  <2>1. PICK r : r.kind # "Updates" /\ reply' = [reply EXCEPT ![u] = r]
    BY DEF RegisterParticipant, ParticipateResponse
  <2> QED
    BY <1>2, <2>1, PlainReply, RecordsStay
<1>5. \A q \in OpIDs \ {o} : OnePlace(q)' /\ Stages(q)' /\ OneRecord(q)'
  BY <1>1, <1>2, <1>3, <1>4, OthersKeep DEF Concerns, Lets
<1>6. OnePlace(o) /\ Stages(o) /\ OneRecord(o)
  BY <1>1 DEF OperationInv
<1>7. (\A v \in Users : ~At(v, o)') /\ ~Reported(o)' /\ o \in allOpIDs'
  <2>1. \A v \in Users : ~At(v, o)'
    BY <1>1, <1>2, <1>6, LetsGo DEF OnePlace
  <2>2. ~Reported(o)'
    BY <1>1, <1>4, <1>6 DEF OnePlace, Reported, NoNewRecord
  <2> QED
    BY <1>1, <1>2, <1>6, <2>1, <2>2 DEF Stages
<1>8. \/ collected'[o] = collected[o] /\ team'[o] = team[o]
      \/ prep'[o] = Absent /\ team'[o] # Absent
  <2>1. CASE UNCHANGED <<collected, team>>
    BY <2>1
  <2>2. CASE AddLastParticipant(o, u, UserOwns(u, frame[u].userset))
    <3> DEFINE r == WithParticipant(prep[o], u, Requirement(prep[o], UserOwns(u, frame[u].userset)))
    <3>1. r \in PrepareRecord
      BY <1>1, WithParticipantTypes DEF IInv, TypeOK, DMTypeOK
    <3>2. [owners |-> r.owners_found, reg_members |-> r.reg_members_found] # Absent
      BY <3>1, AbsentAssumption DEF PrepareRecord, MemberLists
    <3>3. prep' = [prep EXCEPT ![o] = Absent]
          /\ team' = [team EXCEPT ![o] = [owners |-> r.owners_found, reg_members |-> r.reg_members_found]]
      BY <2>2 DEF AddLastParticipant
    <3> HIDE DEF r
    <3> QED
      BY <1>1, <3>2, <3>3 DEF IInv, TypeOK, DMTypeOK
  <2> QED
    BY <2>1, <2>2 DEF RegisterParticipant, AddParticipant, dmVars
<1>9. OnePlace(o)' /\ Stages(o)' /\ OneRecord(o)'
  BY <1>1, <1>6, <1>7, <1>8 DEF OnePlace, Stages, OneRecord, Reported
<1> QED
  BY <1>5, <1>9 DEF OperationInv

\* The last part takes the operation from the second map into the thread's hands.
LEMMA RegisterPartOnce ==
    ASSUME IInv, OperationInv, NEW u \in Users, RegisterPart(u)
    PROVE  OperationInv'
<1> PICK o \in OpIDs : frame[u].op = o
  BY DEF RegisterPart, IInv, LocalsOK
<1>1. pc[u] = "snd_reg" /\ o \in OpIDs /\ collected[o] # Absent
  BY DEF RegisterPart, IInv, LocalsOK
<1>2. UNCHANGED <<prep, team, allOpIDs, updates, client>>
  BY DEF RegisterPart, AddPart, AddLastPart
<1>3. /\ \A v \in Users \ {u} : pc'[v] = pc[v] /\ frame'[v] = frame[v]
      /\ frame'[u].op = o /\ pc'[u] \in {"reply", "finish"}
  BY DEF RegisterPart, Goto, IInv, TypeOK, Frame
<1>4. \A q \in OpIDs \ {o} : collected'[q] = collected[q]
  BY DEF RegisterPart, AddPart, AddLastPart, IInv, TypeOK, DMTypeOK
<1>5. NoNewRecord
  <2>1. SendDecryptionPartResponse.kind # "Updates" /\ reply' = [reply EXCEPT ![u] = SendDecryptionPartResponse]
    BY DEF RegisterPart, SendDecryptionPartResponse
  <2> QED
    BY <1>2, <2>1, PlainReply, RecordsStay
<1>6. \A q \in OpIDs \ {o} : OnePlace(q)' /\ Stages(q)' /\ OneRecord(q)'
  BY <1>1, <1>2, <1>3, <1>4, <1>5, OthersKeep DEF Concerns
<1>7. OnePlace(o) /\ Stages(o) /\ OneRecord(o)
  BY <1>1 DEF OperationInv
<1>8. (\A v \in Users : At(v, o)' => v = u) /\ ~Reported(o)' /\ o \in allOpIDs /\ team[o] # Absent /\ prep[o] = Absent
  <2>1. \A v \in Users : At(v, o)' => v = u
    BY <1>1, <1>3, <1>7 DEF OnePlace, At
  <2>2. ~Reported(o)'
    BY <1>1, <1>5, <1>7 DEF OnePlace, Reported, NoNewRecord
  <2> QED
    BY <1>1, <1>7, <2>1, <2>2 DEF OnePlace, Stages
<1>9. \/ pc'[u] = "reply"
      \/ pc'[u] = "finish" /\ collected'[o] = Absent
  BY <1>1 DEF RegisterPart, Goto, AddLastPart, IInv, TypeOK, DMTypeOK
<1>10. ~At(u, o)' \/ (pc'[u] = "finish" /\ collected'[o] = Absent)
  BY <1>9 DEF At
<1>11. OnePlace(o)' /\ Stages(o)' /\ OneRecord(o)'
  BY <1>1, <1>2, <1>7, <1>8, <1>10 DEF OnePlace, Stages, OneRecord, Reported
<1> QED
  BY <1>6, <1>11 DEF OperationInv

\* The thread makes the one record.
LEMMA FinishOperationOnce ==
    ASSUME IInv, OperationInv, NEW u \in Users, FinishOperation(u)
    PROVE  OperationInv'
<1> PICK o \in OpIDs : frame[u].op = o
  BY DEF FinishOperation, IInv, LocalsOK
<1>1. pc[u] = "finish" /\ o \in OpIDs /\ At(u, o)
  BY DEF FinishOperation, IInv, LocalsOK, At
<1>2. Lets(u) /\ UNCHANGED <<prep, team, allOpIDs, collected, client, reply>>
  BY DEF FinishOperation, Goto, Lets, dmVars, IInv, TypeOK
<1>3. PICK f : /\ f.op = o
               /\ \E w \in Users : updates' = [updates EXCEPT ![w].finished_decryptions = @ \cup {f}]
  <2>1. frame[u].opCollRecord.requester \in Users
    BY <1>1 DEF IInv, LocalsOK, CollectedRecord
  <2> QED
    BY <2>1 DEF FinishOperation, RegisterFinishedDecryption
<1>4. \A v \in Users : Held(v)' \subseteq Held(v) \cup {f}
  BY <1>2, <1>3 DEF Held, OnReply, IInv, TypeOK, UMTypeOK, UpdateResponse
<1>5. OnePlace(o) /\ Stages(o) /\ OneRecord(o)
  BY <1>1 DEF OperationInv
<1>6. (\A v \in Users : ~At(v, o)') /\ o \in allOpIDs /\ prep[o] = Absent /\ collected[o] = Absent
  <2>1. \A v \in Users : ~At(v, o)'
    BY <1>1, <1>2, <1>5, LetsGo DEF OnePlace
  <2> QED
    BY <1>1, <1>5, <2>1 DEF OnePlace, Stages
<1>7. OneRecord(o)'
  <2>1. \A v \in Users : \A g \in Held(v)' : g.op = o => g = f
    BY <1>1, <1>4, <1>5 DEF OnePlace, Reported
  <2> QED
    BY <2>1 DEF OneRecord
<1>8. OnePlace(o)' /\ Stages(o)'
  BY <1>2, <1>5, <1>6 DEF OnePlace, Stages
<1>9. ASSUME NEW q \in OpIDs \ {o}
      PROVE  OnePlace(q)' /\ Stages(q)' /\ OneRecord(q)'
  <2>1. \A v \in Users : At(v, q)' => At(v, q) /\ pc'[v] = pc[v]
    BY <1>2, LetsGo
  <2>2. \A v \in Users : \A g \in Held(v)' : g.op = q => g \in Held(v)
    BY <1>3, <1>4
  <2>3. Reported(q)' => Reported(q)
    BY <2>2 DEF Reported
  <2>4. OnePlace(q) /\ Stages(q) /\ OneRecord(q)
    BY DEF OperationInv
  <2>5. OnePlace(q)' /\ Stages(q)'
    BY <1>2, <2>1, <2>3, <2>4 DEF OnePlace, Stages
  <2>6. OneRecord(q)'
    BY <2>2, <2>4 DEF OneRecord
  <2> QED
    BY <2>5, <2>6
<1> QED
  BY <1>7, <1>8, <1>9 DEF OperationInv

LEMMA NextOperationInv == IInv /\ OperationInv /\ [Next]_vars => OperationInv'
<1> SUFFICES ASSUME IInv, OperationInv, [Next]_vars PROVE OperationInv'
  OBVIOUS
<1>1. ASSUME NEW u \in Users, Request(u) PROVE OperationInv'
  BY <1>1, UserSetSteps, InitiateDecryptionOnce, SendUpdatesStepOnce, AskingSteps DEF Request
<1>2. ASSUME NEW u \in Users, Handle(u) PROVE OperationInv'
  BY <1>2, LoopSteps, PrepareDecryptionOnce, FindSteps, RegisterParticipantOnce,
     RegisterPartOnce, FinishOperationOnce, ResponseSteps DEF Handle
<1>3. ASSUME NEW u \in Users, LoseConnection(u) \/ LogOut(u) PROVE OperationInv'
  BY <1>3, ResponseSteps
<1>4. CASE UNCHANGED vars
  <2>1. \A v \in Users : Held(v)' = Held(v)
    BY <1>4 DEF vars, Held, OnReply
  <2> QED
    BY <1>4, <2>1 DEF vars, OperationInv, OnePlace, Stages, OneRecord, Reported, At
<1> QED
  BY <1>1, <1>2, <1>3, <1>4 DEF Next

LEMMA OperationInvariance == Spec => [](IInv /\ OperationInv)
<1>1. Init => IInv /\ OperationInv
  BY InitIInv, InitOperationInv
<1>2. IInv /\ OperationInv /\ [Next]_vars => (IInv /\ OperationInv)'
  BY NextIInv, NextOperationInv
<1> QED
  BY <1>1, <1>2, PTL DEF Spec

-----------------------------------------------------------------------------
LEMMA RecordsHeld == ASSUME NEW f \in FinishedRecords PROVE \E u \in Users : f \in Held(u)
<1>1. \/ \E u \in Users : f \in updates[u].finished_decryptions
      \/ \E u \in Users : f \in client[u].results
      \/ \E u \in Users : reply[u].kind = "Updates" /\ f \in reply[u].updates.finished_decryptions
  <2>1. CASE f \in UNION {updates[u].finished_decryptions : u \in Users}
    BY <2>1
  <2>2. CASE f \in UNION {client[u].results : u \in Users}
    BY <2>2
  <2>3. CASE f \in UNION {reply[u].updates.finished_decryptions :
                             u \in {v \in Users : reply[v].kind = "Updates"}}
    <3>1. PICK u \in {v \in Users : reply[v].kind = "Updates"} :
              f \in reply[u].updates.finished_decryptions
      BY <2>3, Zenon
    <3> QED
      BY <3>1
  <2> QED
    BY <2>1, <2>2, <2>3 DEF FinishedRecords
<1> QED
  BY <1>1 DEF Held, OnReply

\* An operation is reported once, to whatever threads and clients its record is on its
\* way, and not before it is in neither of the manager's maps (register_part,
\* finish_operation, retrieve_updates).
THEOREM OperationsAreReportedOnce == Spec => []ReportedOnce
<1>1. IInv /\ OperationInv => ReportedOnce
  <2> SUFFICES ASSUME OperationInv, NEW o \in OpIDs
               PROVE  /\ Cardinality({f \in FinishedRecords : f.op = o}) <= 1
                      /\ \A f \in FinishedRecords : f.op = o => prep[o] = Absent /\ collected[o] = Absent
    BY DEF ReportedOnce
  <2>1. OnePlace(o) /\ OneRecord(o)
    BY DEF OperationInv
  <2>2. \A f, g \in FinishedRecords : f.op = o /\ g.op = o => f = g
    BY <2>1, RecordsHeld DEF OneRecord
  <2>3. Cardinality({f \in FinishedRecords : f.op = o}) <= 1
    <3>1. CASE {f \in FinishedRecords : f.op = o} = {}
      BY <3>1, FS_EmptySet
    <3>2. CASE {f \in FinishedRecords : f.op = o} # {}
      <4>1. PICK f : {g \in FinishedRecords : g.op = o} = {f}
        BY <2>2, <3>2
      <4>2. Cardinality({f}) = 1
        BY FS_Singleton
      <4> QED
        BY <4>1, <4>2
    <3> QED
      BY <3>1, <3>2
  <2>4. \A f \in FinishedRecords : f.op = o => Reported(o)
    BY RecordsHeld DEF Reported
  <2> QED
    BY <2>1, <2>3, <2>4 DEF OnePlace
<1> QED
  BY <1>1, OperationInvariance, PTL

\* Only four handlers change the decryptions manager's maps.
LEMMA ManagerSteps ==
    ASSUME [Next]_vars
    PROVE  \/ UNCHANGED dmVars
           \/ \E u \in Users : \/ InitiateDecryption(u) \/ PrepareDecryption(u)
                               \/ RegisterParticipant(u) \/ RegisterPart(u)
<1>1. ASSUME NEW u \in Users,
             \/ RejectUserSet(u) \/ StoreUserSet(u) \/ SendUserSets(u) \/ SendUpdates(u) \/ Participate(u)
             \/ SendPart(u) \/ NotifyMember(u) \/ LookupMember(u) \/ ParticipateFindCollected(u)
             \/ RegisterTooLate(u) \/ TellParticipant(u) \/ SendPartFindCollected(u) \/ FinishOperation(u)
             \/ SendResponse(u) \/ LoseConnection(u) \/ LogOut(u)
      PROVE  UNCHANGED dmVars
  BY <1>1 DEF RejectUserSet, StoreUserSet, SendUserSets, SendUpdates, Participate, SendPart, NotifyMember,
     LookupMember, ParticipateFindCollected, RegisterTooLate, TellParticipant, SendPartFindCollected,
     FindCollected, FinishOperation, SendResponse, LoseConnection, LogOut
<1>2. CASE Next
  BY <1>1, <1>2 DEF Next, Request, Handle
<1>3. CASE UNCHANGED vars
  BY <1>3 DEF vars, dmVars
<1> QED
  BY <1>2, <1>3

\* One step never takes an operation back.
LEMMA StepMovesForward ==
    ASSUME IInv, OperationInv, [Next]_vars, NEW o \in OpIDs, team[o] # Absent
    PROVE  team'[o] = team[o] /\ prep'[o] = Absent /\ (collected[o] = Absent => collected'[o] = Absent)
<1>1. Stages(o) /\ OnePlace(o) /\ prep[o] = Absent
  BY DEF OperationInv, Stages
<1>2. CASE UNCHANGED dmVars
  BY <1>1, <1>2 DEF dmVars
<1>3. ASSUME NEW u \in Users, InitiateDecryption(u)
      PROVE  UNCHANGED <<prep, collected, team>>
  BY <1>3 DEF InitiateDecryption, NewOperation
<1>4. ASSUME NEW u \in Users, PrepareDecryption(u)
      PROVE  UNCHANGED <<collected, team>> /\ prep'[o] = prep[o]
  <2>1. frame[u].op # o /\ frame[u].op \in OpIDs
    BY <1>1, <1>4 DEF PrepareDecryption, At, Stages, IInv, LocalsOK
  <2> QED
    BY <1>4, <2>1 DEF PrepareDecryption, PrepareOperation, Emplace, IInv, TypeOK, DMTypeOK
<1>5. ASSUME NEW u \in Users, RegisterParticipant(u)
      PROVE  prep'[o] = prep[o] /\ collected'[o] = collected[o] /\ team'[o] = team[o]
  <2>1. frame[u].op # o
    BY <1>1, <1>5 DEF RegisterParticipant
  <2> QED
    BY <1>5, <2>1 DEF RegisterParticipant, AddParticipant, AddLastParticipant, Emplace, dmVars,
                      IInv, TypeOK, DMTypeOK
<1>6. ASSUME NEW u \in Users, RegisterPart(u)
      PROVE  UNCHANGED <<prep, team>> /\ (collected[o] = Absent => collected'[o] = Absent)
  BY <1>6 DEF RegisterPart, AddPart, AddLastPart, IInv, TypeOK, DMTypeOK
<1> QED
  BY <1>1, <1>2, <1>3, <1>4, <1>5, <1>6, ManagerSteps

\* Once it has its participants an operation keeps them, is never prepared again and,
\* once finished, never collects again (DecryptionsManager's two maps).
THEOREM OperationsOnlyMoveForward == Spec => OperationsMoveForward
<1>1. IInv /\ OperationInv /\ [Next]_vars =>
          [\A o \in OpIDs : team[o] # Absent =>
              /\ team'[o] = team[o]
              /\ prep'[o] = Absent
              /\ collected[o] = Absent => collected'[o] = Absent]_vars
  BY StepMovesForward
<1> QED
  BY <1>1, OperationInvariance, PTL DEF Spec, OperationsMoveForward

-----------------------------------------------------------------------------
\* What comes of an operation, in usersets that list a member once (MembersListedOnce):
\* what a member is asked for, computes and sends for a layer is what that layer needs.

\* The members an operation has found so far, or collects from.
Filled(o) ==
    IF team[o] # Absent THEN team[o]
    ELSE IF prep[o] # Absent
         THEN [owners |-> prep[o].owners_found, reg_members |-> prep[o].reg_members_found]
         ELSE Nobody

\* The slot a member is told it fills.
Fills(m, o, status) ==
    /\ status = "OwnerPart" => m \in Filled(o).owners
    /\ status = "RegPart" => m \in Filled(o).reg_members

\* The participants asked for a layer, and the shard IDs they are sent.
LayerTeam(o, layer) == IF layer = "owner" THEN team[o].owners ELSE team[o].reg_members
LayerIDs(o, layer) ==
    ShardsOf(LayerTeam(o, layer) \cup {collected[o].requester}, collected[o].userset)

\* What m computes for a layer is what that layer needs of it.
Fits(m, o, layer, ids) == m \in LayerTeam(o, layer) /\ ids = LayerIDs(o, layer)

\* Every request for a part fits, until the part is registered: in the member's
\* updates, on its way, at its client, and in the hands of its thread.
UpdateFits(m) ==
    \A t \in updates[m].to_decrypt : \E layer \in Layers : Fits(m, t.op, layer, t.shards_ids)

ReplyFits(m) ==
    reply[m].kind = "Updates" =>
        \A t \in reply[m].updates.to_decrypt :
            \E layer \in Layers : Fits(m, t.op, layer, t.shards_ids)

TaskFits(m) == \A t \in client[m].tasks : Fits(m, t.op, t.layer, t.shards_ids)

SendingFits(m) ==
    /\ pc[m] \in {"snd_find", "snd_reg"} =>
          Fits(m, frame[m].op, frame[m].part.layer, frame[m].part.ids)
    /\ pc[m] = "snd_reg" => frame[m].userset = collected[frame[m].op].userset

\* What a thread tells the participants from its copy of the record.
TellsFit(u) ==
    pc[u] = "par_tell" =>
        LET r == frame[u].opPrepRecord
            o == frame[u].op
        IN  /\ team[o] = [owners |-> r.owners_found, reg_members |-> r.reg_members_found]
            /\ frame[u].todo.owners \subseteq r.owners_found
            /\ frame[u].todo.reg_members \subseteq r.reg_members_found
            /\ collected[o] # Absent =>
                  r.requester = collected[o].requester /\ r.userset = collected[o].userset

\* A member learns of the slot it fills, also when it is told late.
SlotTold(m) ==
    /\ \A o \in OpIDs : Fills(m, o, client[m].pendingParticipances[o])
    /\ reply[m].kind = "Participate" => Fills(m, reply[m].op, reply[m].status)

\* The parts that have come: an owner's is in the owners' layer, whichever layer it is of.
FittingParts(o, r) ==
    /\ \A i \in 1..Len(r.owner_layer_parts) :
          LET p == r.owner_layer_parts[i]
          IN  p.by \in usersets[r.userset].owners /\ Fits(p.by, o, p.layer, p.ids)
    /\ \A i \in 1..Len(r.reg_layer_parts) :
          LET p == r.reg_layer_parts[i]
          IN  p.by \notin usersets[r.userset].owners /\ Fits(p.by, o, p.layer, p.ids)
    /\ Cardinality(Senders(r.owner_layer_parts)) = Len(r.owner_layer_parts)
    /\ Cardinality(Senders(r.reg_layer_parts)) = Len(r.reg_layer_parts)

PartsFit(o) == collected[o] # Absent => FittingParts(o, collected[o])

TeamApart(o) == team[o] # Absent => team[o].owners \cap team[o].reg_members = {}

\* The participants, none if the requester needs nobody.
TeamOf(o) == IF team[o] = Absent THEN Nobody ELSE team[o]

FinishFits(u) ==
    pc[u] = "finish" =>
        LET r == frame[u].opCollRecord
            o == frame[u].op
        IN  /\ LayerJoins(r.owner_layer_parts,
                          LayerShards(r.owner_layer_parts, r.requester, r.userset),
                          "owner", TeamOf(o).owners)
            /\ LayerJoins(r.reg_layer_parts,
                          LayerShards(r.reg_layer_parts, r.requester, r.userset),
                          "reg", TeamOf(o).reg_members)

RecordJoins(f) ==
    /\ LayerJoins(f.owner_layer_parts, f.owner_layer_shards_ids, "owner", TeamOf(f.op).owners)
    /\ LayerJoins(f.reg_layer_parts, f.reg_layer_shards_ids, "reg", TeamOf(f.op).reg_members)

RecordsJoin(u) == \A f \in Held(u) : RecordJoins(f)

\* What holds of a member, its thread and its client.
MemberFits(u) ==
    /\ UpdateFits(u) /\ ReplyFits(u) /\ TaskFits(u) /\ SendingFits(u)
    /\ TellsFit(u) /\ SlotTold(u) /\ FinishFits(u) /\ RecordsJoin(u)

JoinInv ==
    /\ \A o \in OpIDs : PartsFit(o) /\ TeamApart(o)
    /\ \A u \in Users : MemberFits(u)

-----------------------------------------------------------------------------
LEMMA InitJoinInv == Init => JoinInv
<1> SUFFICES ASSUME Init PROVE JoinInv
  OBVIOUS
<1>1. \A o \in OpIDs : PartsFit(o) /\ TeamApart(o)
  BY DEF Init, DMInit, PartsFit, TeamApart
<1>2. ASSUME NEW u \in Users
      PROVE  /\ updates[u] = NoUpdates /\ reply[u] = NoReply /\ pc[u] = "idle"
             /\ client[u].tasks = {} /\ client[u].results = {}
             /\ client[u].pendingParticipances = [o \in OpIDs |-> "None"]
  BY DEF Init, UMInit
<1>3. ASSUME NEW u \in Users
      PROVE  UpdateFits(u) /\ ReplyFits(u) /\ TaskFits(u) /\ SendingFits(u)
  BY <1>2 DEF NoUpdates, NoReply, UpdateFits, ReplyFits, TaskFits, SendingFits
<1>4. ASSUME NEW u \in Users
      PROVE  TellsFit(u) /\ SlotTold(u) /\ FinishFits(u) /\ RecordsJoin(u)
  BY <1>2 DEF NoUpdates, NoReply, TellsFit, SlotTold, Fills, FinishFits, RecordsJoin, Held, OnReply
<1> QED
  BY <1>1, <1>3, <1>4 DEF JoinInv, MemberFits

-----------------------------------------------------------------------------
\* Whoever owes a part owes it to an operation that collects.
DebtsCollect ==
    \A m \in Users :
        /\ \A t \in updates[m].to_decrypt : t.op \in OpIDs /\ collected[t.op] # Absent
        /\ reply[m].kind = "Updates" =>
              \A t \in reply[m].updates.to_decrypt : t.op \in OpIDs /\ collected[t.op] # Absent
        /\ \A t \in client[m].tasks : t.op \in OpIDs /\ collected[t.op] # Absent
        /\ pc[m] \in {"snd_find", "snd_reg"} =>
              frame[m].op \in OpIDs /\ collected[frame[m].op] # Absent

LEMMA OwedCollects == IInv /\ AccountsInv => DebtsCollect
<1> SUFFICES ASSUME IInv, AccountsInv PROVE DebtsCollect
  OBVIOUS
<1>1. ASSUME NEW m \in Users, NEW o \in OpIDs, NEW d \in Debts(m, o)
      PROVE  collected[o] # Absent
  BY DEF AccountsInv, OwedOnce
<1>2. ASSUME NEW m \in Users, NEW t \in updates[m].to_decrypt
      PROVE  t.op \in OpIDs /\ collected[t.op] # Absent
  <2>1. t.op \in OpIDs
    BY DEF IInv, TypeOK, UMTypeOK, UpdateResponse, ToDecrypt
  <2>2. <<"update", t>> \in Debts(m, t.op)
    BY DEF Debts, InUpdates
  <2> QED
    BY <1>1, <2>1, <2>2
<1>3. ASSUME NEW m \in Users, reply[m].kind = "Updates", NEW t \in reply[m].updates.to_decrypt
      PROVE  t.op \in OpIDs /\ collected[t.op] # Absent
  <2>1. reply[m].updates \in UpdateResponse
    BY <1>3 DEF IInv, TypeOK, Reply, NoReply, ErrorResponse, SendDecryptionPartResponse
  <2>2. t.op \in OpIDs
    BY <2>1 DEF UpdateResponse, ToDecrypt
  <2>3. <<"reply", t>> \in Debts(m, t.op)
    BY <1>3 DEF Debts, OnTheWay
  <2> QED
    BY <1>1, <2>2, <2>3
<1>4. ASSUME NEW m \in Users, NEW t \in client[m].tasks
      PROVE  t.op \in OpIDs /\ collected[t.op] # Absent
  <2>1. t.op \in OpIDs
    BY DEF IInv, TypeOK, ClientState, Task
  <2>2. <<"task", t>> \in Debts(m, t.op)
    BY DEF Debts, AtClient
  <2> QED
    BY <1>1, <2>1, <2>2
<1>5. ASSUME NEW m \in Users, pc[m] \in {"snd_find", "snd_reg"}
      PROVE  frame[m].op \in OpIDs /\ collected[frame[m].op] # Absent
  <2>1. frame[m].op \in OpIDs
    BY <1>5 DEF IInv, LocalsOK
  <2>2. <<"send", m>> \in Debts(m, frame[m].op)
    BY <1>5 DEF Debts, Sending
  <2> QED
    BY <1>1, <2>1, <2>2
<1> QED
  BY <1>2, <1>3, <1>4, <1>5 DEF DebtsCollect

LEMMA OwedCollectsNext == IInv' /\ AccountsInv' => DebtsCollect'
BY OwedCollects, PTL

-----------------------------------------------------------------------------
Progress(o) ==
    /\ prep[o] = Absent => team'[o] = team[o]
    /\ collected[o] # Absent /\ collected'[o] # Absent =>
          /\ collected'[o].requester = collected[o].requester
          /\ collected'[o].userset = collected[o].userset
          /\ team'[o] = team[o]
    /\ Filled(o).owners \subseteq Filled(o)'.owners
    /\ Filled(o).reg_members \subseteq Filled(o)'.reg_members

LEMMA StepProgress ==
    ASSUME IInv, AccountsInv, OperationInv, [Next]_vars, NEW o \in OpIDs
    PROVE  Progress(o)
<1>1. CASE UNCHANGED <<prep, collected, team>>
  BY <1>1 DEF Progress, Filled
<1>2. ASSUME NEW u \in Users, InitiateDecryption(u) PROVE Progress(o)
  BY <1>1, <1>2 DEF InitiateDecryption, NewOperation
<1>3. ASSUME NEW u \in Users, PrepareDecryption(u) PROVE Progress(o)
  <2>1. UNCHANGED <<collected, team>>
    BY <1>3 DEF PrepareDecryption, PrepareOperation
  <2>2. prep'[o] = prep[o] \/ prep[o] = Absent
    BY <1>3 DEF PrepareDecryption, PrepareOperation, Emplace, IInv, TypeOK, DMTypeOK
  <2>3. Filled(o) = Filled(o)' \/ Filled(o) = Nobody
    BY <2>1, <2>2 DEF Filled
  <2> QED
    BY <2>1, <2>3 DEF Progress, Nobody
<1>4. ASSUME NEW u \in Users, RegisterParticipant(u) PROVE Progress(o)
  <2>1. CASE frame[u].op # o
    <3>1. prep'[o] = prep[o] /\ collected'[o] = collected[o] /\ team'[o] = team[o]
      BY <1>4, <2>1 DEF RegisterParticipant, AddParticipant, AddLastParticipant, Emplace, dmVars,
                        IInv, TypeOK, DMTypeOK
    <3> QED
      BY <3>1 DEF Progress, Filled
  <2>2. CASE frame[u].op = o
    <3> DEFINE q == Requirement(prep[o], UserOwns(u, frame[u].userset))
               r == WithParticipant(prep[o], u, q)
    <3>1. prep[o] # Absent /\ prep[o] \in PrepareRecord /\ collected[o] = Absent /\ team[o] = Absent
      BY <1>4, <2>2 DEF RegisterParticipant, IInv, TypeOK, DMTypeOK, OperationInv, OnePlace, Stages
    <3>2. r \in PrepareRecord
      BY <3>1, WithParticipantTypes
    <3>3. /\ prep[o].owners_found \subseteq r.owners_found
          /\ prep[o].reg_members_found \subseteq r.reg_members_found
      BY <3>1 DEF WithParticipant, PrepareRecord
    <3>4. \/ prep'[o] = prep[o] /\ team'[o] = team[o]
          \/ prep'[o] = r /\ team'[o] = team[o]
          \/ team'[o] = [owners |-> r.owners_found, reg_members |-> r.reg_members_found]
      BY <1>4, <2>2, Zenon DEF RegisterParticipant, AddParticipant, AddLastParticipant, dmVars,
                        IInv, TypeOK, DMTypeOK
    <3>5. r # Absent /\ [owners |-> r.owners_found, reg_members |-> r.reg_members_found] # Absent
      BY <3>2, AbsentAssumption DEF PrepareRecord, MemberLists
    <3>6. Filled(o) = [owners |-> prep[o].owners_found, reg_members |-> prep[o].reg_members_found]
      BY <3>1 DEF Filled
    <3> HIDE DEF r
    <3>7. \/ Filled(o)' = Filled(o)
          \/ Filled(o)' = [owners |-> r.owners_found, reg_members |-> r.reg_members_found]
      BY <3>1, <3>4, <3>5, <3>6 DEF Filled
    <3> QED
      BY <3>1, <3>3, <3>6, <3>7 DEF Progress
  <2> QED
    BY <2>1, <2>2
<1>5. ASSUME NEW u \in Users, RegisterPart(u) PROVE Progress(o)
  <2>1. UNCHANGED <<prep, team>>
    BY <1>5 DEF RegisterPart, AddPart, AddLastPart
  <2>2. collected[o] # Absent /\ collected'[o] # Absent =>
          /\ collected'[o].requester = collected[o].requester
          /\ collected'[o].userset = collected[o].userset
    <3> SUFFICES ASSUME collected[o] # Absent, collected'[o] # Absent
                 PROVE  /\ collected'[o].requester = collected[o].requester
                        /\ collected'[o].userset = collected[o].userset
      OBVIOUS
    <3>1. PICK part, isOwner : collected'[o] = collected[o]
                               \/ collected'[o] = WithPart(collected[o], part, isOwner)
      BY <1>5 DEF RegisterPart, AddPart, AddLastPart, IInv, TypeOK, DMTypeOK
    <3>2. collected[o] \in CollectedRecord
      BY DEF IInv, TypeOK, DMTypeOK
    <3> QED
      BY <3>1, <3>2 DEF WithPart, CollectedRecord
  <2> QED
    BY <2>1, <2>2 DEF Progress, Filled
<1> QED
  BY <1>1, <1>2, <1>3, <1>4, <1>5, ManagerSteps DEF dmVars

LEMMA StorageStays ==
    ASSUME IInv, [Next]_vars, NEW s \in UserSetIDs, usersets[s] # Absent
    PROVE  usersets'[s] = usersets[s]
<1>1. ASSUME NEW u \in Users, StoreUserSet(u) PROVE usersets'[s] = usersets[s]
  BY <1>1 DEF StoreUserSet, IInv, TypeOK
<1>2. ASSUME NEW u \in Users,
             \/ RejectUserSet(u) \/ SendUserSets(u) \/ SendUpdates(u) \/ Participate(u)
             \/ SendPart(u) \/ NotifyMember(u) \/ LookupMember(u) \/ ParticipateFindCollected(u)
             \/ RegisterTooLate(u) \/ TellParticipant(u) \/ SendPartFindCollected(u) \/ FinishOperation(u)
             \/ SendResponse(u) \/ LoseConnection(u) \/ LogOut(u)
             \/ InitiateDecryption(u) \/ PrepareDecryption(u) \/ RegisterParticipant(u) \/ RegisterPart(u)
      PROVE  UNCHANGED usersets
  BY <1>2 DEF RejectUserSet, SendUserSets, SendUpdates, Participate, SendPart, NotifyMember,
     LookupMember, ParticipateFindCollected, RegisterTooLate, TellParticipant, SendPartFindCollected,
     FindCollected, FinishOperation, SendResponse, LoseConnection, LogOut, InitiateDecryption,
     PrepareDecryption, RegisterParticipant, RegisterPart
<1> QED
  BY <1>1, <1>2 DEF Next, Request, Handle, vars

-----------------------------------------------------------------------------
\* A step from and to states in which the earlier invariants hold.
Stepping ==
    /\ IInv /\ AccountsInv /\ OperationInv /\ JoinInv
    /\ IInv' /\ AccountsInv' /\ [Next]_vars

LEMMA SteppingFacts ==
    ASSUME Stepping
    PROVE  /\ DebtsCollect /\ DebtsCollect' /\ \A o \in OpIDs : Progress(o)
           /\ \A s \in UserSetIDs : InStorage(s) => usersets'[s] = usersets[s]
<1>1. DebtsCollect
  BY OwedCollects DEF Stepping
<1>2. DebtsCollect'
  BY OwedCollectsNext DEF Stepping
<1>3. \A o \in OpIDs : Progress(o)
  BY StepProgress DEF Stepping
<1>4. \A s \in UserSetIDs : InStorage(s) => usersets'[s] = usersets[s]
  BY StorageStays DEF Stepping, InStorage
<1> QED
  BY <1>1, <1>2, <1>3, <1>4

\* While its operation collects, what is computed for a layer goes on fitting.
LEMMA FitsStays ==
    ASSUME Stepping, NEW m, NEW o \in OpIDs, NEW layer, NEW ids, Fits(m, o, layer, ids),
           collected[o] # Absent, collected'[o] # Absent
    PROVE  Fits(m, o, layer, ids)'
<1>1. Progress(o)
  BY SteppingFacts
<1> QED
  BY <1>1 DEF Progress, Fits, LayerTeam, LayerIDs

\* What a member has been asked for goes on fitting, wherever it is.
LEMMA TasksStay ==
    ASSUME Stepping, NEW v \in Users
    PROVE  /\ updates'[v].to_decrypt \subseteq updates[v].to_decrypt => UpdateFits(v)'
           /\ reply'[v] = reply[v] \/ reply'[v].kind # "Updates" => ReplyFits(v)'
           /\ client'[v].tasks \subseteq client[v].tasks => TaskFits(v)'
           /\ \/ pc'[v] = pc[v] /\ frame'[v] = frame[v]
              \/ pc'[v] \notin {"snd_find", "snd_reg"}
              => SendingFits(v)'
<1>1. DebtsCollect /\ DebtsCollect'
  BY SteppingFacts
<1>2. UpdateFits(v) /\ ReplyFits(v) /\ TaskFits(v) /\ SendingFits(v)
  BY DEF Stepping, JoinInv, MemberFits
<1>3. ASSUME updates'[v].to_decrypt \subseteq updates[v].to_decrypt PROVE UpdateFits(v)'
  <2> SUFFICES ASSUME NEW t \in updates'[v].to_decrypt
               PROVE  \E layer \in Layers : Fits(v, t.op, layer, t.shards_ids)'
    BY DEF UpdateFits
  <2>1. t.op \in OpIDs /\ collected[t.op] # Absent /\ collected'[t.op] # Absent
    BY <1>1, <1>3 DEF DebtsCollect
  <2>2. PICK layer \in Layers : Fits(v, t.op, layer, t.shards_ids)
    BY <1>2, <1>3 DEF UpdateFits
  <2> QED
    BY <2>1, <2>2, FitsStays
<1>4. ASSUME reply'[v] = reply[v] PROVE ReplyFits(v)'
  <2> SUFFICES ASSUME reply[v].kind = "Updates", NEW t \in reply[v].updates.to_decrypt
               PROVE  \E layer \in Layers : Fits(v, t.op, layer, t.shards_ids)'
    BY <1>4 DEF ReplyFits
  <2>1. t.op \in OpIDs /\ collected[t.op] # Absent /\ collected'[t.op] # Absent
    BY <1>1, <1>4 DEF DebtsCollect
  <2>2. PICK layer \in Layers : Fits(v, t.op, layer, t.shards_ids)
    BY <1>2 DEF ReplyFits
  <2> QED
    BY <2>1, <2>2, FitsStays
<1>5. ASSUME client'[v].tasks \subseteq client[v].tasks PROVE TaskFits(v)'
  <2> SUFFICES ASSUME NEW t \in client'[v].tasks PROVE Fits(v, t.op, t.layer, t.shards_ids)'
    BY DEF TaskFits
  <2>1. t.op \in OpIDs /\ collected[t.op] # Absent /\ collected'[t.op] # Absent
    BY <1>1, <1>5 DEF DebtsCollect
  <2>2. Fits(v, t.op, t.layer, t.shards_ids)
    BY <1>2, <1>5 DEF TaskFits
  <2> QED
    BY <2>1, <2>2, FitsStays
<1>6. ASSUME pc'[v] = pc[v], frame'[v] = frame[v] PROVE SendingFits(v)'
  <2> SUFFICES ASSUME pc[v] \in {"snd_find", "snd_reg"} PROVE SendingFits(v)'
    BY <1>6 DEF SendingFits
  <2>1. PICK o \in OpIDs : o = frame[v].op /\ collected[o] # Absent /\ collected'[o] # Absent
    BY <1>1, <1>6 DEF DebtsCollect
  <2>2. PICK layer, ids : layer = frame[v].part.layer /\ ids = frame[v].part.ids
    OBVIOUS
  <2>3. Fits(v, o, layer, ids)'
    BY <1>2, <2>1, <2>2, FitsStays DEF SendingFits
  <2>4. collected'[o].userset = collected[o].userset
    BY <2>1, SteppingFacts DEF Progress
  <2> QED
    BY <1>2, <1>6, <2>1, <2>2, <2>3, <2>4 DEF SendingFits, Fits, LayerTeam, LayerIDs
<1> QED
  BY <1>3, <1>4, <1>5, <1>6 DEF ReplyFits, SendingFits

\* What a member is told of its slot goes on being true.
LEMMA FillsStays ==
    ASSUME Stepping, NEW m, NEW o \in OpIDs, NEW status, Fills(m, o, status)
    PROVE  Fills(m, o, status)'
<1>1. Progress(o)
  BY SteppingFacts
<1> QED
  BY <1>1 DEF Progress, Fills

LEMMA SlotStays ==
    ASSUME Stepping, NEW v \in Users,
           client'[v].pendingParticipances = client[v].pendingParticipances,
           \/ reply'[v] = reply[v]
           \/ reply'[v].kind # "Participate"
           \/ reply'[v].status = "NotRequired"
    PROVE  SlotTold(v)'
<1>1. SlotTold(v)
  BY DEF Stepping, JoinInv, MemberFits
<1>2. ASSUME NEW o \in OpIDs PROVE Fills(v, o, client[v].pendingParticipances[o])'
  <2>1. PICK status : status = client[v].pendingParticipances[o]
    OBVIOUS
  <2>2. Fills(v, o, status)'
    BY <1>1, <2>1, FillsStays DEF SlotTold
  <2> QED
    BY <2>1, <2>2 DEF Fills
<1>3. ASSUME reply'[v].kind = "Participate"
      PROVE  Fills(v, reply[v].op, reply[v].status)'
  <2>1. CASE reply'[v] = reply[v]
    <3>1. reply[v] \in Reply /\ reply[v].kind = "Participate"
      BY <1>3, <2>1 DEF Stepping, IInv, TypeOK
    <3>2. PICK o, status : o \in OpIDs /\ o = reply[v].op /\ status = reply[v].status
      BY <3>1 DEF Reply, NoReply, ErrorResponse, SendDecryptionPartResponse
    <3>3. Fills(v, o, status)'
      BY <1>1, <3>1, <3>2, FillsStays DEF SlotTold
    <3> QED
      BY <2>1, <3>2, <3>3 DEF Fills
  <2>2. CASE reply'[v].status = "NotRequired"
    BY <2>2 DEF Fills
  <2> QED
    BY <1>3, <2>1, <2>2
<1> QED
  BY <1>2, <1>3 DEF SlotTold

\* A thread that tells participants has a true copy of the record.
LEMMA TellingStays ==
    ASSUME Stepping, NEW v \in Users,
           pc'[v] = "par_tell" =>
              /\ pc[v] = "par_tell"
              /\ frame'[v].op = frame[v].op /\ frame'[v].opPrepRecord = frame[v].opPrepRecord
              /\ frame'[v].todo.owners \subseteq frame[v].todo.owners
              /\ frame'[v].todo.reg_members \subseteq frame[v].todo.reg_members
    PROVE  TellsFit(v)'
<1> SUFFICES ASSUME pc'[v] = "par_tell" PROVE TellsFit(v)'
  BY DEF TellsFit
<1>1. PICK o \in OpIDs : o = frame[v].op
  BY DEF Stepping, IInv, LocalsOK
<1>2. TellsFit(v) /\ frame[v].opPrepRecord \in PrepareRecord
  BY DEF Stepping, JoinInv, MemberFits, IInv, LocalsOK
<1>3. team[o] # Absent
  BY <1>1, <1>2, AbsentAssumption DEF TellsFit, PrepareRecord, MemberLists
<1>4. team'[o] = team[o] /\ (collected[o] = Absent => collected'[o] = Absent)
  BY <1>3, StepMovesForward DEF Stepping
<1>5. Progress(o)
  BY SteppingFacts
<1> QED
  BY <1>1, <1>2, <1>4, <1>5 DEF TellsFit, Progress

\* What is about to be reported, and what is reported, goes on joining.
LEMMA TeamOfStays ==
    ASSUME Stepping, NEW o \in OpIDs, prep[o] = Absent PROVE TeamOf(o)' = TeamOf(o)
<1>1. Progress(o)
  BY SteppingFacts
<1> QED
  BY <1>1 DEF Progress, TeamOf

LEMMA FinishStays ==
    ASSUME Stepping, NEW v \in Users, pc'[v] = pc[v], frame'[v] = frame[v]
    PROVE  FinishFits(v)'
<1> SUFFICES ASSUME pc[v] = "finish" PROVE FinishFits(v)'
  BY DEF FinishFits
<1>1. PICK o \in OpIDs : o = frame[v].op
  BY DEF Stepping, IInv, LocalsOK
<1>2. prep[o] = Absent
  BY <1>1 DEF Stepping, OperationInv, OnePlace, At
<1>3. TeamOf(o)' = TeamOf(o)
  BY <1>2, TeamOfStays
<1>4. FinishFits(v)
  BY DEF Stepping, JoinInv, MemberFits
<1> QED
  BY <1>1, <1>3, <1>4 DEF FinishFits

LEMMA RecordsStayJoined ==
    ASSUME Stepping, NEW v \in Users, NEW f \in Held(v) PROVE RecordJoins(f)'
<1>1. f.op \in OpIDs
  <2>1. Held(v) \subseteq Finished
    <3>1. updates[v] \in UpdateResponse /\ reply[v] \in Reply /\ client[v] \in ClientState
      BY DEF Stepping, IInv, TypeOK, UMTypeOK
    <3>2. reply[v].kind = "Updates" => reply[v].updates \in UpdateResponse
      BY <3>1 DEF Reply, NoReply, ErrorResponse, SendDecryptionPartResponse
    <3> QED
      BY <3>1, <3>2 DEF Held, OnReply, UpdateResponse, ClientState
  <2> QED
    BY <2>1 DEF Finished
<1>2. prep[f.op] = Absent
  BY <1>1 DEF Stepping, OperationInv, OnePlace, Reported
<1>3. TeamOf(f.op)' = TeamOf(f.op)
  BY <1>1, <1>2, TeamOfStays
<1>4. RecordJoins(f)
  BY DEF Stepping, JoinInv, MemberFits, RecordsJoin
<1> QED
  BY <1>3, <1>4 DEF RecordJoins

\* The parts that have come go on fitting, and so does an operation that has none yet.
LEMMA PartsStay ==
    ASSUME Stepping, NEW o \in OpIDs, NEW r \in CollectedRecord, collected[o] # Absent,
           FittingParts(o, r), r.userset = collected[o].userset, collected'[o] # Absent
    PROVE  FittingParts(o, r)'
<1>1. usersets'[r.userset] = usersets[r.userset]
  <2>1. InStorage(r.userset)
    BY DEF Stepping, AccountsInv, Collecting
  <2> QED
    BY <2>1, SteppingFacts DEF InStorage
<1>2. /\ r.owner_layer_parts \in Seq(Part) /\ r.reg_layer_parts \in Seq(Part)
      /\ Progress(o)
  BY SteppingFacts DEF CollectedRecord
<1>3. \A m, layer, ids : Fits(m, o, layer, ids) => Fits(m, o, layer, ids)'
  BY FitsStays
<1> QED
  BY <1>1, <1>2, <1>3 DEF FittingParts, Progress, Fits, LayerTeam, LayerIDs

LEMMA PartsKept ==
    ASSUME Stepping, NEW o \in OpIDs, collected'[o] = collected[o] PROVE PartsFit(o)'
<1> SUFFICES ASSUME collected[o] # Absent PROVE FittingParts(o, collected[o])'
  BY DEF PartsFit, FittingParts
<1>1. PICK r \in CollectedRecord : r = collected[o]
  BY DEF Stepping, IInv, TypeOK, DMTypeOK
<1>2. FittingParts(o, r)
  BY <1>1 DEF Stepping, JoinInv, MemberFits, PartsFit
<1>3. FittingParts(o, r)'
  BY <1>1, <1>2, PartsStay
<1> QED
  BY <1>1, <1>3 DEF FittingParts

-----------------------------------------------------------------------------
\* A response that neither asks for a part nor tells of a slot.
Plain(r) ==
    \/ r.kind \notin {"Updates", "Participate"}
    \/ r.kind = "Participate" /\ r.status = "NotRequired"

\* A step that asks v for nothing, tells it of no slot and makes no record for it.
Uninvolved(v) ==
    /\ updates'[v].to_decrypt = updates[v].to_decrypt
    /\ updates'[v].finished_decryptions = updates[v].finished_decryptions
    /\ reply'[v] = reply[v] \/ Plain(reply'[v])
    /\ client'[v].tasks \subseteq client[v].tasks
    /\ client'[v].pendingParticipances = client[v].pendingParticipances
    /\ client'[v].results = client[v].results
    /\ \/ pc'[v] = pc[v] /\ frame'[v] = frame[v]
       \/ pc'[v] \notin {"par_tell", "snd_find", "snd_reg", "finish"}

LEMMA UninvolvedFits ==
    ASSUME Stepping, NEW v \in Users, Uninvolved(v) PROVE MemberFits(v)'
<1>1. UpdateFits(v)' /\ ReplyFits(v)' /\ TaskFits(v)' /\ SendingFits(v)'
  BY TasksStay DEF Uninvolved, Plain
<1>2. SlotTold(v)'
  BY SlotStays DEF Uninvolved, Plain
<1>3. TellsFit(v)'
  BY TellingStays DEF Uninvolved
<1>4. FinishFits(v)'
  BY FinishStays DEF Uninvolved, FinishFits
<1>5. RecordsJoin(v)'
  <2>1. Held(v)' \subseteq Held(v)
    BY DEF Uninvolved, Plain, Held, OnReply
  <2> QED
    BY <2>1, RecordsStayJoined DEF RecordsJoin
<1> QED
  BY <1>1, <1>2, <1>3, <1>4, <1>5 DEF MemberFits

LEMMA OperationsKept ==
    ASSUME Stepping, UNCHANGED <<collected, team>>
    PROVE  \A o \in OpIDs : PartsFit(o)' /\ TeamApart(o)'
<1>1. ASSUME NEW o \in OpIDs PROVE PartsFit(o)'
  BY PartsKept
<1>2. ASSUME NEW o \in OpIDs PROVE TeamApart(o)'
  BY DEF Stepping, JoinInv, TeamApart
<1> QED
  BY <1>1, <1>2

\* Steps that involve nobody but the thread's own user.
LEMMA UninvolvedSteps ==
    ASSUME Stepping, NEW u \in Users,
           \/ RejectUserSet(u) \/ StoreUserSet(u) \/ SendUserSets(u) \/ PrepareDecryption(u)
           \/ RegisterTooLate(u) \/ ParticipateFindCollected(u) \/ LoseConnection(u)
    PROVE  JoinInv'
<1>0. IInv
  BY DEF Stepping
<1>1. UNCHANGED <<collected, team, updates, client>>
  BY DEF RejectUserSet, StoreUserSet, SendUserSets, PrepareDecryption, PrepareOperation,
         RegisterTooLate, ParticipateFindCollected, FindCollected, LoseConnection, dmVars
<1>2. /\ pc'[u] \notin {"par_tell", "snd_find", "snd_reg", "finish"}
      /\ \A v \in Users \ {u} : pc'[v] = pc[v] /\ frame'[v] = frame[v]
  <2> USE <1>0 DEF IInv, TypeOK, Respond, Goto, Loop
  <2>1. CASE RejectUserSet(u) \/ SendUserSets(u) \/ RegisterTooLate(u) \/ LoseConnection(u)
    BY <2>1 DEF RejectUserSet, SendUserSets, RegisterTooLate, LoseConnection
  <2>2. CASE StoreUserSet(u)
    BY <2>2 DEF StoreUserSet
  <2>3. CASE PrepareDecryption(u) \/ ParticipateFindCollected(u)
    BY <2>3 DEF PrepareDecryption, ParticipateFindCollected, FindCollected
  <2> QED
    BY <2>1, <2>2, <2>3
<1>3. UNCHANGED reply \/ \E r : Plain(r) /\ reply' = [reply EXCEPT ![u] = r]
  <2>1. /\ Plain(ErrorResponse) /\ Plain(NoReply)
        /\ \A t : Plain(MakeUserSetResponse(t)) /\ Plain(GetUserSetsResponse(t))
        /\ \A o : Plain(ParticipateResponse(o, "NotRequired"))
    BY DEF Plain, ErrorResponse, NoReply, MakeUserSetResponse, GetUserSetsResponse, ParticipateResponse
  <2>2. CASE StoreUserSet(u)
    <3>1. PICK s : reply' = [reply EXCEPT ![u] = MakeUserSetResponse(s)]
      BY <2>2 DEF StoreUserSet
    <3> QED
      BY <2>1, <3>1
  <2>3. CASE RejectUserSet(u) \/ SendUserSets(u) \/ LoseConnection(u)
    BY <2>1, <2>3 DEF RejectUserSet, SendUserSets, LoseConnection, Respond
  <2>4. CASE PrepareDecryption(u)
    BY <2>4 DEF PrepareDecryption
  <2>5. CASE RegisterTooLate(u)
    BY <2>1, <2>5 DEF RegisterTooLate, Respond
  <2>6. CASE ParticipateFindCollected(u)
    BY <2>1, <2>6 DEF ParticipateFindCollected, FindCollected, Respond
  <2> QED
    BY <2>2, <2>3, <2>4, <2>5, <2>6
<1>4. ASSUME NEW v \in Users PROVE Uninvolved(v)
  <2>1. v # u => reply'[v] = reply[v]
    BY <1>0, <1>3 DEF IInv, TypeOK
  <2>2. reply'[v] = reply[v] \/ Plain(reply'[v])
    BY <1>0, <1>3, <2>1 DEF IInv, TypeOK
  <2>3. \/ pc'[v] = pc[v] /\ frame'[v] = frame[v]
        \/ pc'[v] \notin {"par_tell", "snd_find", "snd_reg", "finish"}
    BY <1>2
  <2> QED
    BY <1>1, <2>2, <2>3 DEF Uninvolved
<1> QED
  BY <1>1, <1>4, UninvolvedFits, OperationsKept DEF JoinInv

\* The loops that tell members of a userset or of a lookup.
LEMMA NotifyingSteps ==
    ASSUME Stepping, NEW u \in Users, NotifyMember(u) \/ LookupMember(u) PROVE JoinInv'
<1>0. IInv
  BY DEF Stepping
<1>1. PICK m \in Users, list \in {"owners", "reg_members"} : Turn(u, list, m)
  BY DEF NotifyMember, LookupMember
<1>2. UNCHANGED <<dmVars, client, reply>>
  BY DEF NotifyMember, LookupMember, Turn
<1>3. \A v \in Users : /\ updates'[v].to_decrypt = updates[v].to_decrypt
                       /\ updates'[v].finished_decryptions = updates[v].finished_decryptions
  <2>1. updates \in [Users -> UpdateResponse]
    BY <1>0 DEF IInv, TypeOK, UMTypeOK
  <2>2. PICK v, x : RegisterOwner(v, x) \/ RegisterRegMember(v, x) \/ RegisterLookup(v, x)
    BY DEF NotifyMember, LookupMember
  <2> QED
    BY <2>1, <2>2 DEF RegisterOwner, RegisterRegMember, RegisterLookup, UpdateResponse
<1>4. /\ pc[u] \in {"mk_notify", "dec_lookup"} /\ pc'[u] \in {"reply", pc[u]}
      /\ \A v \in Users \ {u} : pc'[v] = pc[v] /\ frame'[v] = frame[v]
  BY <1>0, <1>1 DEF NotifyMember, LookupMember, Turn, Goto, IInv, TypeOK
<1>5. \A v \in Users : Uninvolved(v)
  BY <1>2, <1>3, <1>4 DEF Uninvolved
<1> QED
  BY <1>2, <1>5, UninvolvedFits, OperationsKept DEF JoinInv, dmVars

LEMMA ClientSteps ==
    ASSUME Stepping, NEW u \in Users, Participate(u) \/ LogOut(u) PROVE JoinInv'
<1>0. IInv
  BY DEF Stepping
<1>1. UNCHANGED <<dmVars, updates, reply>>
  BY DEF Participate, LogOut
<1>2. \A v \in Users : /\ client'[v].tasks = client[v].tasks
                       /\ client'[v].pendingParticipances = client[v].pendingParticipances
                       /\ client'[v].results = client[v].results
  <2>1. client \in [Users -> ClientState]
    BY <1>0 DEF IInv, TypeOK
  <2>2. CASE Participate(u)
    <3>1. PICK o : client' = [client EXCEPT ![u].lookups = @ \ {o}]
      BY <2>2 DEF Participate
    <3> QED
      BY <2>1, <3>1 DEF ClientState
  <2>3. CASE LogOut(u)
    BY <2>1, <2>3 DEF LogOut, ClientState
  <2> QED
    BY <2>2, <2>3
<1>3. /\ (pc'[u] = pc[u] /\ frame'[u] = frame[u]) \/ pc'[u] \in {"par_find", "par_reg"}
      /\ \A v \in Users \ {u} : pc'[v] = pc[v] /\ frame'[v] = frame[v]
  BY <1>0 DEF Participate, FindPrepared, LogOut, Goto, IInv, TypeOK
<1>4. \A v \in Users : Uninvolved(v)
  BY <1>1, <1>2, <1>3 DEF Uninvolved
<1> QED
  BY <1>1, <1>4, UninvolvedFits, OperationsKept DEF JoinInv, dmVars

\* A step of u that involves nobody else.
LEMMA OthersUninvolved ==
    ASSUME Stepping, NEW u \in Users, NEW v \in Users \ {u},
           pc'[v] = pc[v], frame'[v] = frame[v], reply'[v] = reply[v], client'[v] = client[v],
           updates'[v] = updates[v]
    PROVE  MemberFits(v)'
BY UninvolvedFits DEF Uninvolved

\* An operation that needs nobody joins at once.
LEMMA InitiateDecryptionJoins ==
    ASSUME Stepping, NEW u \in Users, InitiateDecryption(u) PROVE JoinInv'
<1>0. IInv
  BY DEF Stepping
<1>1. PICK o \in OpIDs, s \in UserSetIDs :
          /\ NewOperation(o)
          /\ \/ /\ frame' = [frame EXCEPT ![u].op = o, ![u].userset = s,
                       ![u].opCollRecord = NewCollectedRecord(u, s, 0, 0)]
                /\ Goto(u, "finish")
             \/ /\ frame' = [frame EXCEPT ![u].op = o, ![u].userset = s]
                /\ Goto(u, "dec_prep")
          /\ reply' = [reply EXCEPT ![u] = DecryptResponse(o)]
  BY <1>0 DEF InitiateDecryption, IInv, TypeOK, ClientState
<1>2. UNCHANGED <<collected, team, updates, client>> /\ o \notin allOpIDs
  BY <1>1 DEF InitiateDecryption, NewOperation
<1>3. team'[o] = Absent
  BY <1>2 DEF Stepping, OperationInv, Stages
<1>4. frame[u] \in Frame
  BY <1>0 DEF IInv, TypeOK
<1>5. \A v \in Users \ {u} : pc'[v] = pc[v] /\ frame'[v] = frame[v] /\ reply'[v] = reply[v]
  BY <1>0, <1>1 DEF Goto, IInv, TypeOK
<1>6. MemberFits(u)'
  <2>1. reply'[u].kind \notin {"Updates", "Participate"} /\ pc'[u] \in {"finish", "dec_prep"}
    BY <1>0, <1>1 DEF DecryptResponse, Goto, IInv, TypeOK
  <2>2. UpdateFits(u)' /\ ReplyFits(u)' /\ TaskFits(u)' /\ SendingFits(u)' /\ SlotTold(u)' /\ TellsFit(u)'
    BY <1>2, <2>1, TasksStay, SlotStays, TellingStays
  <2>3. RecordsJoin(u)'
    <3>1. Held(u)' \subseteq Held(u)
      BY <1>2, <2>1 DEF Held, OnReply
    <3> QED
      BY <3>1, RecordsStayJoined DEF RecordsJoin
  <2>4. FinishFits(u)'
    <3> SUFFICES ASSUME pc'[u] = "finish" PROVE FinishFits(u)'
      BY DEF FinishFits
    <3>1. frame'[u].opCollRecord = NewCollectedRecord(u, s, 0, 0) /\ frame'[u].op = o
      BY <1>0, <1>1, <1>4 DEF Goto, Frame, IInv, TypeOK
    <3>2. \A layer : LayerJoins(<<>>, LayerShards(<<>>, u, s), layer, {})
      <4>1. Len(LayerShards(<<>>, u, s)) = 1
        BY DEF LayerShards
      <4>2. Senders(<<>>) = {} /\ Cardinality({}) = 0
        BY FS_EmptySet DEF Senders
      <4> QED
        BY <4>1, <4>2 DEF LayerJoins
    <3>3. TeamOf(o)' = Nobody
      BY <1>3 DEF TeamOf
    <3> QED
      BY <3>1, <3>2, <3>3 DEF FinishFits, NewCollectedRecord, Nobody
  <2> QED
    BY <2>2, <2>3, <2>4 DEF MemberFits
<1> QED
  BY <1>2, <1>5, <1>6, OthersUninvolved, OperationsKept DEF JoinInv

\* The requests for parts that were in the updates are on their way.
LEMMA SendUpdatesFits ==
    ASSUME Stepping, NEW u \in Users, SendUpdates(u) PROVE JoinInv'
<1>0. IInv
  BY DEF Stepping
<1>1. /\ updates' = [updates EXCEPT ![u] = NoUpdates]
      /\ reply' = [reply EXCEPT ![u] = UpdatesReply(updates[u])]
      /\ pc' = [pc EXCEPT ![u] = "reply"]
      /\ UNCHANGED <<dmVars, usersets, frame, client>>
  BY DEF SendUpdates, RetrieveUpdates, Respond, Goto
<1>2. /\ updates'[u] = NoUpdates /\ reply'[u] = UpdatesReply(updates[u]) /\ pc'[u] = "reply"
      /\ \A v \in Users \ {u} : updates'[v] = updates[v] /\ reply'[v] = reply[v] /\ pc'[v] = pc[v]
  BY <1>0, <1>1 DEF IInv, TypeOK, UMTypeOK
<1>3. ReplyFits(u)'
  <2>1. UpdateFits(u)
    BY DEF Stepping, JoinInv, MemberFits
  <2>2. reply'[u].updates.to_decrypt = updates[u].to_decrypt
    BY <1>2 DEF UpdatesReply
  <2>3. \A t, layer : Fits(u, t.op, layer, t.shards_ids) => Fits(u, t.op, layer, t.shards_ids)'
    BY <1>1 DEF Fits, LayerTeam, LayerIDs, dmVars
  <2> QED
    BY <2>1, <2>2, <2>3 DEF UpdateFits, ReplyFits
<1>4. UpdateFits(u)' /\ TaskFits(u)' /\ SendingFits(u)'
  BY <1>1, <1>2, TasksStay DEF UpdateFits, NoUpdates
<1>5. SlotTold(u)' /\ TellsFit(u)' /\ FinishFits(u)'
  BY <1>1, <1>2, SlotStays, TellingStays DEF UpdatesReply, FinishFits
<1>6. RecordsJoin(u)'
  <2>1. Held(u)' \subseteq Held(u)
    BY <1>1, <1>2 DEF Held, OnReply, NoUpdates, UpdatesReply
  <2> QED
    BY <2>1, RecordsStayJoined DEF RecordsJoin
<1>7. MemberFits(u)'
  BY <1>3, <1>4, <1>5, <1>6 DEF MemberFits
<1>8. \A v \in Users \ {u} : MemberFits(v)'
  BY <1>1, <1>2, OthersUninvolved
<1> QED
  BY <1>1, <1>7, <1>8, OperationsKept DEF JoinInv, dmVars

-----------------------------------------------------------------------------
\* The thread of a member asks where the operation is, the part in its hands.
LEMMA SendPartFits ==
    ASSUME Stepping, NEW u \in Users, SendPart(u) PROVE JoinInv'
<1>0. IInv /\ DebtsCollect
  BY SteppingFacts DEF Stepping
<1>1. PICK t \in client[u].tasks :
          LET part == [by |-> u, layer |-> t.layer, ids |-> t.shards_ids]
          IN  /\ client' = [client EXCEPT ![u].tasks = @ \ {t}]
              /\ FindPrepared(u, t.op, [EmptyFrame EXCEPT !.op = t.op, !.part = part],
                     "snd_find", "snd_reg")
  BY DEF SendPart
<1>2. UNCHANGED <<dmVars, updates, reply>>
  BY DEF SendPart
<1>3. t.op \in OpIDs /\ collected[t.op] # Absent
  BY <1>0 DEF DebtsCollect
<1>4. prep[t.op] = Absent
  BY <1>3 DEF Stepping, OperationInv, OnePlace
<1>5. /\ pc' = [pc EXCEPT ![u] = "snd_find"]
      /\ frame' = [frame EXCEPT ![u] = [EmptyFrame EXCEPT !.op = t.op,
                     !.part = [by |-> u, layer |-> t.layer, ids |-> t.shards_ids]]]
  BY <1>1, <1>4 DEF FindPrepared, Goto
<1>6. /\ pc'[u] = "snd_find" /\ frame'[u].op = t.op
      /\ frame'[u].part.layer = t.layer /\ frame'[u].part.ids = t.shards_ids
      /\ \A v \in Users \ {u} : pc'[v] = pc[v] /\ frame'[v] = frame[v] /\ client'[v] = client[v]
  BY <1>0, <1>1, <1>5 DEF EmptyFrame, IInv, TypeOK
<1>7. /\ client'[u].tasks \subseteq client[u].tasks
      /\ client'[u].pendingParticipances = client[u].pendingParticipances
      /\ client'[u].results = client[u].results
  BY <1>0, <1>1 DEF IInv, TypeOK, ClientState
<1>8. SendingFits(u)'
  <2>1. Fits(u, t.op, t.layer, t.shards_ids)
    BY DEF Stepping, JoinInv, MemberFits, TaskFits
  <2> QED
    BY <1>2, <1>6, <2>1 DEF SendingFits, Fits, LayerTeam, LayerIDs, dmVars
<1>9. UpdateFits(u)' /\ ReplyFits(u)' /\ TaskFits(u)' /\ SlotTold(u)' /\ TellsFit(u)' /\ FinishFits(u)'
  BY <1>2, <1>6, <1>7, TasksStay, SlotStays, TellingStays DEF FinishFits
<1>10. RecordsJoin(u)'
  <2>1. Held(u)' \subseteq Held(u)
    BY <1>2, <1>7 DEF Held, OnReply
  <2> QED
    BY <2>1, RecordsStayJoined DEF RecordsJoin
<1>11. MemberFits(u)'
  BY <1>8, <1>9, <1>10 DEF MemberFits
<1>12. \A v \in Users \ {u} : MemberFits(v)'
  BY <1>2, <1>6, OthersUninvolved
<1> QED
  BY <1>2, <1>11, <1>12, OperationsKept DEF JoinInv, dmVars

LEMMA SendPartFindFits ==
    ASSUME Stepping, NEW u \in Users, SendPartFindCollected(u) PROVE JoinInv'
<1>0. IInv
  BY DEF Stepping
<1>1. PICK o \in OpIDs : o = frame[u].op
  BY <1>0 DEF SendPartFindCollected, FindCollected, IInv, LocalsOK
<1>2. UNCHANGED <<dmVars, updates, client>> /\ pc[u] = "snd_find"
  BY DEF SendPartFindCollected, FindCollected
<1>3. \A v \in Users \ {u} : pc'[v] = pc[v] /\ frame'[v] = frame[v] /\ reply'[v] = reply[v]
  BY <1>0 DEF SendPartFindCollected, FindCollected, Respond, Goto, IInv, TypeOK
<1>4. pc'[u] \in {"snd_reg", "reply"} /\ (reply'[u] = reply[u] \/ reply'[u] = ErrorResponse)
  BY <1>0 DEF SendPartFindCollected, FindCollected, Respond, Goto, IInv, TypeOK
<1>5. SendingFits(u)'
  <2> SUFFICES ASSUME pc'[u] = "snd_reg" PROVE SendingFits(u)'
    BY <1>4 DEF SendingFits
  <2>1. frame' = [frame EXCEPT ![u].userset = collected[o].userset]
    BY <1>0, <1>1 DEF SendPartFindCollected, FindCollected, Respond, Goto, IInv, TypeOK
  <2>2. /\ frame'[u].op = frame[u].op /\ frame'[u].part = frame[u].part
        /\ frame'[u].userset = collected[o].userset
    BY <1>0, <2>1 DEF IInv, TypeOK, Frame
  <2>3. SendingFits(u)
    BY DEF Stepping, JoinInv, MemberFits
  <2> QED
    BY <1>1, <1>2, <2>2, <2>3 DEF SendingFits, Fits, LayerTeam, LayerIDs, dmVars
<1>6. /\ UpdateFits(u)' /\ ReplyFits(u)' /\ TaskFits(u)' /\ SlotTold(u)' /\ TellsFit(u)'
      /\ FinishFits(u)'
  BY <1>2, <1>4, TasksStay, SlotStays, TellingStays DEF FinishFits, ErrorResponse
<1>7. RecordsJoin(u)'
  <2>1. Held(u)' \subseteq Held(u)
    BY <1>2, <1>4 DEF Held, OnReply, ErrorResponse
  <2> QED
    BY <2>1, RecordsStayJoined DEF RecordsJoin
<1>8. MemberFits(u)'
  BY <1>5, <1>6, <1>7 DEF MemberFits
<1>9. \A v \in Users \ {u} : MemberFits(v)'
  BY <1>2, <1>3, OthersUninvolved
<1> QED
  BY <1>2, <1>8, <1>9, OperationsKept DEF JoinInv, dmVars

\* A participant is asked for what its layer needs.
LEMMA TellParticipantFits ==
    ASSUME Stepping, NEW u \in Users, TellParticipant(u) PROVE JoinInv'
<1>0. IInv /\ AccountsInv /\ TellsFit(u)
  BY DEF Stepping, JoinInv, MemberFits
<1> DEFINE r == frame[u].opPrepRecord
           Shards(found) == ShardsOf(found \cup {r.requester}, r.userset)
<1>1. PICK o \in OpIDs : o = frame[u].op
  BY <1>0 DEF TellParticipant, IInv, LocalsOK
<1>2. PICK m \in Users, list \in {"owners", "reg_members"},
           ids \in {Shards(r.owners_found), Shards(r.reg_members_found)} :
          /\ Turn(u, list, m) /\ RegisterDecryptionParticipating(m, o, ids)
          /\ ids = IF list = "owners" THEN Shards(r.owners_found) ELSE Shards(r.reg_members_found)
  BY <1>1 DEF TellParticipant
<1>3. UNCHANGED <<dmVars, client, reply>> /\ pc[u] = "par_tell"
  BY <1>2 DEF TellParticipant, Turn
<1>4. m \in frame[u].todo[list] /\ collected[o] # Absent
  <2>1. m \in frame[u].todo[list]
    BY <1>2 DEF Turn
  <2>2. <<"tell", u>> \in Debts(m, o)
    BY <1>1, <1>3, <2>1 DEF Debts, ToldBy
  <2> QED
    BY <1>0, <2>1, <2>2 DEF AccountsInv, OwedOnce
<1>5. \E layer \in Layers : Fits(m, o, layer, ids)
  <2>1. CASE list = "owners"
    <3>1. Fits(m, o, "owner", ids)
      BY <1>0, <1>1, <1>2, <1>3, <1>4, <2>1 DEF TellsFit, Fits, LayerTeam, LayerIDs
    <3> QED
      BY <3>1 DEF Layers
  <2>2. CASE list = "reg_members"
    <3>1. Fits(m, o, "reg", ids)
      BY <1>0, <1>1, <1>2, <1>3, <1>4, <2>2 DEF TellsFit, Fits, LayerTeam, LayerIDs
    <3> QED
      BY <3>1 DEF Layers
  <2> QED
    BY <2>1, <2>2
<1>6. /\ \A v \in Users : /\ updates'[v].finished_decryptions = updates[v].finished_decryptions
                          /\ v # m => updates'[v] = updates[v]
      /\ updates'[m].to_decrypt = updates[m].to_decrypt \cup {[op |-> o, shards_ids |-> ids]}
  BY <1>0, <1>2 DEF RegisterDecryptionParticipating, IInv, TypeOK, UMTypeOK, UpdateResponse
<1>7. /\ pc'[u] \in {"par_tell", "reply"}
      /\ \A v \in Users \ {u} : pc'[v] = pc[v] /\ frame'[v] = frame[v]
      /\ frame'[u].op = o /\ frame'[u].opPrepRecord = r
      /\ frame'[u].todo.owners \subseteq frame[u].todo.owners
      /\ frame'[u].todo.reg_members \subseteq frame[u].todo.reg_members
  <2>1. frame[u] \in Frame /\ frame[u].todo \in MemberLists
    BY <1>0 DEF IInv, TypeOK, Frame
  <2>2. frame'[u] = [frame[u] EXCEPT !.todo = [frame[u].todo EXCEPT ![list] = @ \ {m}]]
    BY <1>0, <1>2 DEF Turn, IInv, TypeOK
  <2>3. /\ pc'[u] \in {"par_tell", "reply"}
        /\ \A v \in Users \ {u} : pc'[v] = pc[v] /\ frame'[v] = frame[v]
    BY <1>0, <1>2, <1>3 DEF Turn, Goto, IInv, TypeOK
  <2> QED
    BY <1>1, <2>1, <2>2, <2>3 DEF Frame, MemberLists
<1> HIDE DEF r, Shards
<1>8. ASSUME NEW v \in Users PROVE UpdateFits(v)'
  <2>1. CASE v # m
    BY <1>6, <2>1, TasksStay
  <2>2. CASE v = m
    <3>1. UpdateFits(m)
      BY DEF Stepping, JoinInv, MemberFits
    <3>2. \A t \in updates'[m].to_decrypt : \E layer \in Layers : Fits(m, t.op, layer, t.shards_ids)
      BY <1>5, <1>6, <3>1 DEF UpdateFits
    <3>3. \A t, layer : Fits(m, t.op, layer, t.shards_ids) => Fits(m, t.op, layer, t.shards_ids)'
      BY <1>3 DEF Fits, LayerTeam, LayerIDs, dmVars
    <3> QED
      BY <2>2, <3>2, <3>3 DEF UpdateFits
  <2> QED
    BY <2>1, <2>2
<1>9. ASSUME NEW v \in Users PROVE ReplyFits(v)' /\ TaskFits(v)' /\ SlotTold(v)' /\ RecordsJoin(v)'
  <2>1. Held(v)' = Held(v)
    BY <1>3, <1>6 DEF Held, OnReply
  <2> QED
    BY <1>3, <2>1, TasksStay, SlotStays, RecordsStayJoined DEF RecordsJoin
<1>10. ASSUME NEW v \in Users PROVE SendingFits(v)' /\ FinishFits(v)' /\ TellsFit(v)'
  <2>1. CASE v = u
    BY <1>1, <1>3, <1>7, <2>1, TellingStays DEF SendingFits, FinishFits, r
  <2>2. CASE v # u
    BY <1>7, <2>2, TasksStay, FinishStays, TellingStays
  <2> QED
    BY <2>1, <2>2
<1>11. \A v \in Users : MemberFits(v)'
  BY <1>8, <1>9, <1>10 DEF MemberFits
<1> QED
  BY <1>3, <1>11, OperationsKept DEF JoinInv, dmVars

-----------------------------------------------------------------------------
\* What a client makes of a response, as far as slots and tasks go.
LEMMA ConsumeTasks ==
    ASSUME NEW c \in ClientState, NEW u \in Users, NEW r \in Reply
    PROVE  LET d == Consume(c, u, r) IN
           /\ \A o \in OpIDs : d.pendingParticipances[o] \in
                  {c.pendingParticipances[o], "None"}
                  \cup (IF r.kind = "Participate" /\ r.op = o THEN {r.status} ELSE {})
           /\ \A t \in d.tasks :
                \/ t \in c.tasks
                \/ /\ r.kind = "Updates"
                   /\ \E w \in r.updates.to_decrypt :
                         /\ c.pendingParticipances[w.op] # "None"
                         /\ t.op = w.op /\ t.shards_ids = w.shards_ids
                         /\ t.layer = LayerOf(c.pendingParticipances[w.op])
<1> DEFINE d == Consume(c, u, r)
<1>1. CASE r.kind = "Updates"
  <2> DEFINE up == r.updates
             profile == c.profile \cup up.added_as_owner \cup up.added_as_reg_member
             mine == {f \in up.finished_decryptions : f.op \in c.pendingDecryptions}
             asked == {t \in up.to_decrypt : c.pendingParticipances[t.op] # "None"}
             able == {t \in asked : \E s \in profile : <<u, s>> \in t.shards_ids}
             pending == [o \in OpIDs |->
                 IF \E t \in asked : t.op = o THEN "None" ELSE c.pendingParticipances[o]]
             new == {[op |-> t.op, shards_ids |-> t.shards_ids,
                      layer |-> LayerOf(c.pendingParticipances[t.op])] : t \in able}
  <2>1. d = [c EXCEPT !.profile = profile, !.knownOwned = @ \cup up.added_as_owner,
                    !.lookups = @ \cup up.on_lookup, !.pendingParticipances = pending,
                    !.tasks = @ \cup new,
                    !.pendingDecryptions = @ \ {f.op : f \in mine},
                    !.results = @ \cup mine]
    BY <1>1 DEF Consume
  <2>2. \A o \in OpIDs : pending[o] \in {c.pendingParticipances[o], "None"}
    OBVIOUS
  <2>3. \A t \in new : \E w \in up.to_decrypt :
            /\ c.pendingParticipances[w.op] # "None"
            /\ t.op = w.op /\ t.shards_ids = w.shards_ids
            /\ t.layer = LayerOf(c.pendingParticipances[w.op])
    OBVIOUS
  <2> HIDE DEF d, profile, mine, pending, new
  <2>4. d.pendingParticipances = pending /\ d.tasks = c.tasks \cup new
    BY <2>1 DEF ClientState
  <2> QED
    BY <1>1, <2>2, <2>3, <2>4 DEF d
<1>2. CASE r.kind = "Participate"
  <2>1. r.op \in OpIDs
    BY <1>2 DEF Reply, NoReply, ErrorResponse, SendDecryptionPartResponse
  <2>2. d.tasks = c.tasks
    BY <1>2 DEF Consume, ClientState
  <2>3. \A o \in OpIDs : d.pendingParticipances[o] \in
            {c.pendingParticipances[o]} \cup (IF r.op = o THEN {r.status} ELSE {})
    BY <1>2, <2>1 DEF Consume, ClientState
  <2> QED
    BY <1>2, <2>2, <2>3
<1>3. CASE r.kind \notin {"Updates", "Participate"}
  BY <1>3 DEF Consume, ClientState
<1> QED
  BY <1>1, <1>2, <1>3

LEMMA SendResponseFits ==
    ASSUME Stepping, NEW u \in Users, SendResponse(u) PROVE JoinInv'
<1>0. IInv /\ DebtsCollect
  BY SteppingFacts DEF Stepping
<1>1. /\ client' = [client EXCEPT ![u] = Consume(client[u], u, reply[u])]
      /\ reply' = [reply EXCEPT ![u] = NoReply]
      /\ pc[u] = "reply" /\ pc' = [pc EXCEPT ![u] = "idle"]
      /\ frame' = [frame EXCEPT ![u] = EmptyFrame]
      /\ UNCHANGED <<dmVars, updates>>
  BY DEF SendResponse, Goto
<1>2. PICK d : d = Consume(client[u], u, reply[u])
  OBVIOUS
<1>3. /\ client'[u] = d /\ reply'[u] = NoReply /\ pc'[u] = "idle"
      /\ \A v \in Users \ {u} : /\ client'[v] = client[v] /\ reply'[v] = reply[v]
                                /\ pc'[v] = pc[v] /\ frame'[v] = frame[v]
  BY <1>0, <1>1, <1>2 DEF IInv, TypeOK
<1>4. client[u] \in ClientState /\ reply[u] \in Reply
  BY <1>0 DEF IInv, TypeOK
<1>5. MemberFits(u)
  BY DEF Stepping, JoinInv
<1>6. \A m, o, layer, ids : Fits(m, o, layer, ids) => Fits(m, o, layer, ids)'
  BY <1>1 DEF Fits, LayerTeam, LayerIDs, dmVars
<1>7. \A m, o, status : Fills(m, o, status) => Fills(m, o, status)'
  BY <1>1 DEF Fills, Filled, dmVars
<1>8. SlotTold(u)'
  <2>1. ASSUME NEW o \in OpIDs
        PROVE  Fills(u, o, d.pendingParticipances[o])
    <3>1. d.pendingParticipances[o] \in
              {client[u].pendingParticipances[o], "None"}
              \cup (IF reply[u].kind = "Participate" /\ reply[u].op = o THEN {reply[u].status} ELSE {})
      BY <1>2, <1>4, ConsumeTasks
    <3> QED
      BY <1>5, <3>1 DEF MemberFits, SlotTold, Fills
  <2>2. ASSUME NEW o \in OpIDs PROVE Fills(u, o, d.pendingParticipances[o])'
    BY <1>7, <2>1
  <2> QED
    BY <1>3, <2>2 DEF SlotTold, NoReply, Fills
<1>9. TaskFits(u)'
  <2>1. ASSUME NEW t \in d.tasks PROVE Fits(u, t.op, t.layer, t.shards_ids)
    <3>1. CASE t \in client[u].tasks
      BY <1>5, <3>1 DEF MemberFits, TaskFits
    <3>2. CASE t \notin client[u].tasks
      <4>1. reply[u].kind = "Updates"
        BY <1>2, <1>4, <3>2, ConsumeTasks
      <4>2. PICK w \in reply[u].updates.to_decrypt :
                /\ client[u].pendingParticipances[w.op] # "None"
                /\ t.op = w.op /\ t.shards_ids = w.shards_ids
                /\ t.layer = LayerOf(client[u].pendingParticipances[w.op])
        BY <1>2, <1>4, <3>2, ConsumeTasks
      <4>3. PICK o \in OpIDs : o = w.op /\ collected[o] # Absent
        BY <1>0, <4>1 DEF DebtsCollect
      <4>4. PICK layer \in Layers : Fits(u, o, layer, t.shards_ids)
        BY <1>5, <4>1, <4>2, <4>3 DEF MemberFits, ReplyFits
      <4>5. team[o] # Absent /\ TeamApart(o) /\ Filled(o) = team[o]
        BY <4>3 DEF Stepping, JoinInv, OperationInv, Stages, Filled
      <4>6. PICK status \in {"RegPart", "OwnerPart"} : status = client[u].pendingParticipances[o]
        BY <1>4, <4>2, <4>3 DEF ClientState
      <4>7. u \in LayerTeam(o, LayerOf(status))
        BY <1>5, <4>5, <4>6 DEF MemberFits, SlotTold, Fills, LayerTeam, LayerOf
      <4>8. u \in LayerTeam(o, layer)
        BY <4>4 DEF Fits
      <4>9. layer = LayerOf(status)
        BY <4>5, <4>7, <4>8 DEF LayerTeam, TeamApart, LayerOf, Layers
      <4> QED
        BY <4>2, <4>3, <4>4, <4>6, <4>9
    <3> QED
      BY <3>1, <3>2
  <2> QED
    BY <1>3, <1>6, <2>1 DEF TaskFits
<1>10. UpdateFits(u)' /\ ReplyFits(u)' /\ SendingFits(u)' /\ TellsFit(u)' /\ FinishFits(u)'
  BY <1>1, <1>3, TasksStay, TellingStays DEF NoReply, FinishFits
<1>11. RecordsJoin(u)'
  <2>1. d.results \subseteq client[u].results \cup OnReply(u)
    BY <1>2, <1>4, ConsumeKeeps DEF OnReply
  <2>2. Held(u)' \subseteq Held(u)
    BY <1>1, <1>3, <2>1 DEF Held, OnReply, NoReply
  <2> QED
    BY <2>2, RecordsStayJoined DEF RecordsJoin
<1>12. MemberFits(u)'
  BY <1>8, <1>9, <1>10, <1>11 DEF MemberFits
<1>13. \A v \in Users \ {u} : MemberFits(v)'
  BY <1>1, <1>3, OthersUninvolved
<1> QED
  BY <1>1, <1>12, <1>13, OperationsKept DEF JoinInv, dmVars

\* One more participant: it is told of the slot it fills.
LEMMA RegisterParticipantFits ==
    ASSUME Stepping, NEW u \in Users, RegisterParticipant(u) PROVE JoinInv'
<1>0. IInv /\ AccountsInv
  BY DEF Stepping
<1>1. PICK o \in OpIDs : o = frame[u].op
  BY <1>0 DEF RegisterParticipant, IInv, LocalsOK
<1>2. /\ MayBeAdmitted(u, o) /\ prep[o] \in PrepareRecord /\ prep[o] # Absent
      /\ collected[o] = Absent /\ team[o] = Absent
  BY <1>0, <1>1, ParticipantIsInvited DEF Stepping, OperationInv, OnePlace, Stages
<1>3. PICK isOwner : isOwner = UserOwns(u, frame[u].userset)
  OBVIOUS
<1>4. PICK q \in PartRequirement : q = Requirement(prep[o], isOwner)
  BY RequirementTypes
<1>5. PICK r \in PrepareRecord : r = WithParticipant(prep[o], u, q)
  BY <1>2, WithParticipantTypes
<1>6. /\ pc[u] = "par_reg"
      /\ reply' = [reply EXCEPT ![u] = ParticipateResponse(o, q)]
      /\ UNCHANGED <<updates, client>>
      /\ \/ /\ q = "NotRequired"
            /\ pc' = [pc EXCEPT ![u] = "reply"]
            /\ UNCHANGED <<dmVars, frame>>
         \/ /\ q # "NotRequired"
            /\ prep' = [prep EXCEPT ![o] = r]
            /\ UNCHANGED <<collected, team>>
            /\ pc' = [pc EXCEPT ![u] = "reply"]
            /\ UNCHANGED frame
         \/ /\ q # "NotRequired"
            /\ collected' = [collected EXCEPT ![o] = NewCollectedRecord(r.requester, r.userset,
                                 r.required_owners, r.required_reg_members)]
            /\ team' = [team EXCEPT ![o] = [owners |-> r.owners_found,
                                            reg_members |-> r.reg_members_found]]
            /\ frame' = [frame EXCEPT ![u].opPrepRecord = r,
                           ![u].todo = [owners |-> r.owners_found,
                                        reg_members |-> r.reg_members_found]]
            /\ pc' = [pc EXCEPT ![u] = "par_tell"]
  BY <1>1, <1>2, <1>3, <1>4, <1>5, Zenon DEF RegisterParticipant, AddParticipant, AddLastParticipant,
     Emplace, Goto
<1>7. /\ reply'[u] = ParticipateResponse(o, q) /\ pc'[u] \in {"reply", "par_tell"}
      /\ \A v \in Users \ {u} : reply'[v] = reply[v] /\ pc'[v] = pc[v] /\ frame'[v] = frame[v]
  BY <1>0, <1>6 DEF IInv, TypeOK
<1>8. /\ \A p \in OpIDs \ {o} : collected'[p] = collected[p] /\ team'[p] = team[p]
      /\ \/ collected'[o] = Absent /\ team'[o] = Absent
         \/ /\ collected'[o] = NewCollectedRecord(r.requester, r.userset,
                                   r.required_owners, r.required_reg_members)
            /\ team'[o] = [owners |-> r.owners_found, reg_members |-> r.reg_members_found]
  BY <1>0, <1>2, <1>6 DEF IInv, TypeOK, DMTypeOK, dmVars
<1>9. /\ prep[o].owners_found \cap prep[o].reg_members_found = {}
      /\ u \notin prep[o].owners_found \cup prep[o].reg_members_found
  BY <1>0, <1>2 DEF AccountsInv, Preparing, MayBeAdmitted
<1>10. r.owners_found \cap r.reg_members_found = {}
  BY <1>2, <1>5, <1>9 DEF WithParticipant, PrepareRecord
<1>11. ASSUME NEW p \in OpIDs PROVE PartsFit(p)' /\ TeamApart(p)'
  <2>1. CASE p # o
    <3>1. TeamApart(p)'
      BY <1>8, <2>1 DEF Stepping, JoinInv, TeamApart
    <3> QED
      BY <1>8, <2>1, <3>1, PartsKept
  <2>2. CASE p = o
    <3>1. TeamApart(o)'
      BY <1>8, <1>10 DEF TeamApart
    <3>2. Senders(<<>>) = {} /\ Cardinality({}) = 0
      BY FS_EmptySet DEF Senders
    <3>0. LET c == NewCollectedRecord(r.requester, r.userset,
                              r.required_owners, r.required_reg_members)
          IN  c.owner_layer_parts = <<>> /\ c.reg_layer_parts = <<>>
      BY DEF NewCollectedRecord
    <3>3. PICK c : /\ c = NewCollectedRecord(r.requester, r.userset,
                              r.required_owners, r.required_reg_members)
                   /\ c.owner_layer_parts = <<>> /\ c.reg_layer_parts = <<>>
      BY <3>0
    <3>4. Len(<<>>) = 0 /\ 1..0 = {}
      OBVIOUS
    <3>5. (\A i \in 1..Len(<<>>) : FALSE) /\ Cardinality(Senders(<<>>)) = Len(<<>>)
      BY <3>2, <3>4
    <3>6. PartsFit(o)'
      BY <1>8, <3>3, <3>5 DEF PartsFit, FittingParts
    <3> QED
      BY <2>2, <3>1, <3>6
  <2> QED
    BY <2>1, <2>2
<1>12. SlotTold(u)'
  <2>1. Fills(u, o, q)'
    <3>1. CASE q = "NotRequired"
      BY <3>1 DEF Fills
    <3>2. CASE q # "NotRequired"
      <4>1. /\ q = "OwnerPart" => u \in r.owners_found
            /\ q = "RegPart" => u \in r.reg_members_found
        BY <1>2, <1>5 DEF WithParticipant, PrepareRecord
      <4>2. r # Absent /\ [owners |-> r.owners_found, reg_members |-> r.reg_members_found] # Absent
        BY AbsentAssumption DEF PrepareRecord, MemberLists
      <4>3. Filled(o)' = [owners |-> r.owners_found, reg_members |-> r.reg_members_found]
        BY <1>0, <1>2, <1>6, <3>2, <4>2 DEF Filled, IInv, TypeOK, DMTypeOK
      <4> QED
        BY <4>1, <4>3 DEF Fills
    <3> QED
      BY <3>1, <3>2
  <2>2. ASSUME NEW p \in OpIDs PROVE Fills(u, p, client[u].pendingParticipances[p])'
    <3>1. PICK status : status = client[u].pendingParticipances[p]
      OBVIOUS
    <3>2. Fills(u, p, status)'
      BY <3>1, FillsStays DEF Stepping, JoinInv, MemberFits, SlotTold
    <3> QED
      BY <1>6, <3>1, <3>2 DEF Fills
  <2> QED
    BY <1>7, <2>1, <2>2 DEF SlotTold, ParticipateResponse, Fills
<1>13. TellsFit(u)'
  <2> SUFFICES ASSUME pc'[u] = "par_tell" PROVE TellsFit(u)'
    BY DEF TellsFit
  <2>1. frame[u] \in Frame
    BY <1>0 DEF IInv, TypeOK
  <2>2. /\ frame'[u].op = o /\ frame'[u].opPrepRecord = r
        /\ frame'[u].todo = [owners |-> r.owners_found, reg_members |-> r.reg_members_found]
        /\ collected'[o] = NewCollectedRecord(r.requester, r.userset,
                               r.required_owners, r.required_reg_members)
        /\ team'[o] = [owners |-> r.owners_found, reg_members |-> r.reg_members_found]
    BY <1>0, <1>1, <1>6, <2>1 DEF IInv, TypeOK, DMTypeOK, Frame
  <2> QED
    BY <2>2 DEF TellsFit, NewCollectedRecord
<1>14. UpdateFits(u)' /\ ReplyFits(u)' /\ TaskFits(u)' /\ SendingFits(u)' /\ FinishFits(u)'
  BY <1>6, <1>7, TasksStay DEF ParticipateResponse, FinishFits
<1>15. RecordsJoin(u)'
  <2>1. Held(u)' \subseteq Held(u)
    BY <1>6, <1>7 DEF Held, OnReply, ParticipateResponse
  <2> QED
    BY <2>1, RecordsStayJoined DEF RecordsJoin
<1>16. MemberFits(u)'
  BY <1>12, <1>13, <1>14, <1>15 DEF MemberFits
<1>17. \A v \in Users \ {u} : MemberFits(v)'
  BY <1>6, <1>7, OthersUninvolved
<1> QED
  BY <1>11, <1>16, <1>17 DEF JoinInv

-----------------------------------------------------------------------------
\* The shard IDs that are listed for a layer's parts.
LEMMA LayerShardsAre ==
    ASSUME NEW parts \in Seq(Part), NEW req \in Users, NEW s \in UserSetIDs
    PROVE  LET ids == LayerShards(parts, req, s) IN
           /\ Len(ids) = Len(parts) + 1
           /\ \A i \in DOMAIN parts : ids[i][1] = parts[i].by
           /\ {ids[j] : j \in DOMAIN ids} = ShardsOf(Senders(parts) \cup {req}, s)
<1> DEFINE n == Len(parts)
           mine == [i \in 1..n |-> <<parts[i].by, s>>]
           ids == Append(mine, <<req, s>>)
<1>1. n \in Nat /\ DOMAIN parts = 1..n
  OBVIOUS
<1>2. /\ \A i \in 1..n : <<parts[i].by, s>> \in ShardIDs
      /\ <<req, s>> \in ShardIDs
  <2>1. ASSUME NEW i \in 1..n PROVE <<parts[i].by, s>> \in ShardIDs
    <3>1. parts[i] \in Part
      OBVIOUS
    <3> QED
      BY <3>1 DEF Part, ShardIDs
  <2> QED
    BY <2>1 DEF ShardIDs
<1>3. mine \in Seq(ShardIDs) /\ Len(mine) = n
  BY <1>1, <1>2
<1>4. /\ Len(ids) = n + 1 /\ DOMAIN ids = 1..(n + 1)
      /\ \A i \in 1..n : ids[i] = <<parts[i].by, s>>
      /\ ids[n + 1] = <<req, s>>
  BY <1>1, <1>2, <1>3
<1> HIDE DEF n, ids, mine
<1>5. 1..(n + 1) = (1..n) \cup {n + 1}
  BY <1>1
<1>6. {ids[j] : j \in DOMAIN ids} = {<<parts[i].by, s>> : i \in 1..n} \cup {<<req, s>>}
  <2>1. {ids[j] : j \in DOMAIN ids} = {ids[j] : j \in 1..n} \cup {ids[n + 1]}
    BY <1>4, <1>5
  <2>2. {ids[j] : j \in 1..n} = {<<parts[i].by, s>> : i \in 1..n}
    BY <1>4, Zenon
  <2> QED
    BY <1>4, <2>1, <2>2, Zenon
<1>7. ShardsOf(Senders(parts) \cup {req}, s) = {<<parts[i].by, s>> : i \in 1..n} \cup {<<req, s>>}
  BY <1>1 DEF ShardsOf, Senders
<1>8. LayerShards(parts, req, s) = ids
  BY DEF LayerShards, ids, mine, n
<1>9. /\ Len(ids) = Len(parts) + 1
      /\ \A i \in DOMAIN parts : ids[i][1] = parts[i].by
      /\ {ids[j] : j \in DOMAIN ids} = ShardsOf(Senders(parts) \cup {req}, s)
  <2>1. \A i \in DOMAIN parts : ids[i][1] = parts[i].by
    <3> SUFFICES ASSUME NEW i \in DOMAIN parts PROVE ids[i][1] = parts[i].by
      OBVIOUS
    <3>1. ids[i] = <<parts[i].by, s>>
      BY <1>1, <1>4
    <3> QED
      BY <3>1
  <2> QED
    BY <1>4, <1>6, <1>7, <2>1 DEF n
<1> QED
  BY <1>8, <1>9

\* A layer whose parts were computed with the shard IDs that its parts list joins.
LEMMA LayerJoinsAsListed ==
    ASSUME NEW parts \in Seq(Part), NEW req \in Users, NEW s \in UserSetIDs,
           NEW layer, NEW members,
           Senders(parts) = members, Cardinality(members) = Len(parts),
           \A i \in 1..Len(parts) : /\ parts[i].layer = layer
                                    /\ parts[i].ids = ShardsOf(members \cup {req}, s)
    PROVE  LayerJoins(parts, LayerShards(parts, req, s), layer, members)
<1> DEFINE ids == LayerShards(parts, req, s)
<1>1. /\ Len(ids) = Len(parts) + 1
      /\ \A i \in DOMAIN parts : ids[i][1] = parts[i].by
      /\ {ids[j] : j \in DOMAIN ids} = ShardsOf(members \cup {req}, s)
  BY LayerShardsAre
<1>2. DOMAIN parts = 1..Len(parts)
  OBVIOUS
<1> HIDE DEF ids
<1>3. LayerJoins(parts, ids, layer, members)
  BY <1>1, <1>2, Zenon DEF LayerJoins
<1> QED
  BY <1>3 DEF ids

\* A part more that fits, of a member that had sent none.
LEMMA PartMoreFits ==
    ASSUME Stepping, NEW o \in OpIDs, NEW c \in CollectedRecord, FittingParts(o, c),
           NEW part \in Part, Fits(part.by, o, part.layer, part.ids),
           NEW isOwner \in BOOLEAN, isOwner <=> part.by \in usersets[c.userset].owners,
           part.by \notin Senders(c.owner_layer_parts) \cup Senders(c.reg_layer_parts)
    PROVE  FittingParts(o, WithPart(c, part, isOwner))
<1>1. c.owner_layer_parts \in Seq(Part) /\ c.reg_layer_parts \in Seq(Part)
  BY DEF CollectedRecord
<1>2. ASSUME NEW parts \in Seq(Part), part.by \notin Senders(parts),
             Cardinality(Senders(parts)) = Len(parts)
      PROVE  /\ Cardinality(Senders(Append(parts, part))) = Len(Append(parts, part))
             /\ \A i \in 1..Len(Append(parts, part)) :
                   Append(parts, part)[i] = part \/ \E k \in 1..Len(parts) : Append(parts, part)[i] = parts[k]
  <2>1. Senders(parts) \subseteq Users
    <3>1. \A i \in DOMAIN parts : parts[i].by \in Users
      <4> SUFFICES ASSUME NEW i \in DOMAIN parts PROVE parts[i].by \in Users
        OBVIOUS
      <4>1. parts[i] \in Part
        OBVIOUS
      <4> QED
        BY <4>1 DEF Part
    <3> QED
      BY <3>1 DEF Senders
  <2>2. IsFiniteSet(Senders(parts))
    BY <2>1, FiniteUsers, FS_Subset
  <2>3. Cardinality(Senders(parts) \cup {part.by}) = Cardinality(Senders(parts)) + 1
    BY <1>2, <2>2, FS_AddElement
  <2>4. Cardinality(Senders(Append(parts, part))) = Len(Append(parts, part))
    <3>1. Senders(Append(parts, part)) = Senders(parts) \cup {part.by}
      BY SendersAppend
    <3>2. Len(Append(parts, part)) = Len(parts) + 1
      OBVIOUS
    <3> QED
      BY <1>2, <2>3, <3>1, <3>2
  <2>5. \A i \in 1..Len(Append(parts, part)) :
            Append(parts, part)[i] = part \/ \E k \in 1..Len(parts) : Append(parts, part)[i] = parts[k]
    <3>1. PICK n \in Nat : n = Len(parts)
      OBVIOUS
    <3>2. PICK more : more = Append(parts, part)
      OBVIOUS
    <3>3. /\ Len(more) = n + 1 /\ more[n + 1] = part
          /\ \A k \in 1..n : more[k] = parts[k]
      BY <3>1, <3>2
    <3>4. \A i \in 1..(n + 1) : i = n + 1 \/ i \in 1..n
      BY <3>1
    <3> QED
      BY <3>1, <3>2, <3>3, <3>4
  <2> QED
    BY <2>4, <2>5
<1>3. CASE isOwner
  <2>1. WithPart(c, part, isOwner) = [c EXCEPT !.owner_layer_parts = Append(c.owner_layer_parts, part)]
    BY <1>3 DEF WithPart
  <2>2. PICK w, more : /\ w = WithPart(c, part, isOwner) /\ more = Append(c.owner_layer_parts, part)
                       /\ w.owner_layer_parts = more /\ w.reg_layer_parts = c.reg_layer_parts
                       /\ w.userset = c.userset
    BY <2>1 DEF CollectedRecord
  <2>3. /\ Cardinality(Senders(more)) = Len(more)
        /\ \A i \in 1..Len(more) : more[i] = part \/ \E k \in 1..Len(c.owner_layer_parts) : more[i] = c.owner_layer_parts[k]
    BY <1>1, <1>2, <2>2 DEF FittingParts
  <2>4. \A i \in 1..Len(more) :
            more[i].by \in usersets[c.userset].owners /\ Fits(more[i].by, o, more[i].layer, more[i].ids)
    BY <1>3, <2>3 DEF FittingParts
  <2>5. FittingParts(o, w)
    BY <2>2, <2>3, <2>4 DEF FittingParts
  <2> QED
    BY <2>2, <2>5
<1>4. CASE ~isOwner
  <2>1. WithPart(c, part, isOwner) = [c EXCEPT !.reg_layer_parts = Append(c.reg_layer_parts, part)]
    BY <1>4 DEF WithPart
  <2>2. PICK w, more : /\ w = WithPart(c, part, isOwner) /\ more = Append(c.reg_layer_parts, part)
                       /\ w.reg_layer_parts = more /\ w.owner_layer_parts = c.owner_layer_parts
                       /\ w.userset = c.userset
    BY <2>1 DEF CollectedRecord
  <2>3. /\ Cardinality(Senders(more)) = Len(more)
        /\ \A i \in 1..Len(more) : more[i] = part \/ \E k \in 1..Len(c.reg_layer_parts) : more[i] = c.reg_layer_parts[k]
    BY <1>1, <1>2, <2>2 DEF FittingParts
  <2>4. \A i \in 1..Len(more) :
            more[i].by \notin usersets[c.userset].owners /\ Fits(more[i].by, o, more[i].layer, more[i].ids)
    BY <1>4, <2>3 DEF FittingParts
  <2>5. FittingParts(o, w)
    BY <2>2, <2>3, <2>4 DEF FittingParts
  <2> QED
    BY <2>2, <2>5
<1> QED
  BY <1>3, <1>4

\* With enough parts in both layers, each layer has one of every participant that
\* was asked for it: by counting, no owner's part stands in for a regular member's.
LEMMA EnoughPartsJoin ==
    ASSUME Stepping, NEW o \in OpIDs, NEW r \in CollectedRecord, collected[o] # Absent,
           FittingParts(o, r), HasEnoughParts(r),
           r.requester = collected[o].requester, r.userset = collected[o].userset,
           r.required_owners = collected[o].required_owners,
           r.required_reg_members = collected[o].required_reg_members
    PROVE  /\ LayerJoins(r.owner_layer_parts,
                         LayerShards(r.owner_layer_parts, r.requester, r.userset),
                         "owner", TeamOf(o).owners)
           /\ LayerJoins(r.reg_layer_parts,
                         LayerShards(r.reg_layer_parts, r.requester, r.userset),
                         "reg", TeamOf(o).reg_members)
<1> DEFINE ow == r.owner_layer_parts
           rg == r.reg_layer_parts
           own == team[o].owners
           reg == team[o].reg_members
<1>1. /\ ow \in Seq(Part) /\ rg \in Seq(Part)
      /\ r.requester \in Users /\ r.userset \in UserSetIDs
      /\ r.required_owners \in Nat /\ r.required_reg_members \in Nat
  BY DEF CollectedRecord
<1>2. Collecting(o) /\ TeamApart(o) /\ team[o] # Absent /\ team[o] \in MemberLists
  BY DEF Stepping, AccountsInv, Collecting, JoinInv, IInv, TypeOK, DMTypeOK
<1>3. /\ own \subseteq usersets[r.userset].owners /\ own \cap reg = {}
      /\ Cardinality(own \cup reg) = r.required_owners + r.required_reg_members
      /\ Cardinality(own) = r.required_owners
  BY <1>2 DEF Collecting, Participants, TeamApart
<1>4. IsFiniteSet(own) /\ IsFiniteSet(reg)
  BY <1>2, FiniteUsers, FS_Subset DEF MemberLists
<1>5. Cardinality(reg) = r.required_reg_members
  <2>1. Cardinality(own \cup reg) = Cardinality(own) + Cardinality(reg) - Cardinality(own \cap reg)
    BY <1>4, FS_Union
  <2>2. Cardinality(own \cap reg) = 0 /\ Cardinality(reg) \in Nat
    BY <1>3, <1>4, FS_EmptySet, FS_CardinalityType
  <2>3. PICK a \in Nat, b \in Nat, c \in Nat : a = r.required_owners /\ b = r.required_reg_members /\ c = Cardinality(reg)
    BY <1>1, <2>2
  <2>4. a + b = a + c - 0
    BY <1>3, <2>1, <2>2, <2>3
  <2> QED
    BY <2>3, <2>4
<1>6. /\ \A i \in 1..Len(ow) : /\ ow[i].by \in usersets[r.userset].owners /\ ow[i].layer \in Layers
                               /\ Fits(ow[i].by, o, ow[i].layer, ow[i].ids)
      /\ \A i \in 1..Len(rg) : /\ rg[i].by \notin usersets[r.userset].owners /\ rg[i].layer \in Layers
                               /\ Fits(rg[i].by, o, rg[i].layer, rg[i].ids)
      /\ Cardinality(Senders(ow)) = Len(ow) /\ Cardinality(Senders(rg)) = Len(rg)
  <2>1. \A i \in 1..Len(ow) : ow[i] \in Part
    BY <1>1
  <2>2. \A i \in 1..Len(rg) : rg[i] \in Part
    BY <1>1
  <2>3. (\A i \in 1..Len(ow) : ow[i].layer \in Layers) /\ (\A i \in 1..Len(rg) : rg[i].layer \in Layers)
    BY <2>1, <2>2 DEF Part
  <2> QED
    BY <2>3 DEF FittingParts
<1>7. Len(ow) \in Nat /\ Len(rg) \in Nat /\ Len(ow) >= r.required_owners /\ Len(rg) >= r.required_reg_members
  BY <1>1 DEF HasEnoughParts
<1>8. DOMAIN ow = 1..Len(ow) /\ DOMAIN rg = 1..Len(rg)
  BY <1>1
<1> HIDE DEF ow, rg, own, reg
<1>9. \A i \in 1..Len(rg) : rg[i].layer = "reg" /\ rg[i].by \in reg
  BY <1>3, <1>6 DEF Fits, LayerTeam, Layers, own, reg
<1>10. Senders(rg) = reg
  <2>1. Senders(rg) \subseteq reg
    BY <1>8, <1>9 DEF Senders
  <2>2. Cardinality(Senders(rg)) <= Cardinality(reg)
    BY <1>4, <2>1, FS_Subset
  <2>3. Cardinality(reg) = Cardinality(Senders(rg))
    BY <1>5, <1>6, <1>7, <2>2, <1>1
  <2> QED
    BY <1>4, <2>1, <2>3, FS_Subset
<1>11. \A i \in 1..Len(ow) : ow[i].layer = "owner" /\ ow[i].by \in own
  <2> SUFFICES ASSUME NEW i \in 1..Len(ow) PROVE ow[i].layer = "owner" /\ ow[i].by \in own
    OBVIOUS
  <2>1. ow[i].by \notin reg
    <3>1. \A k \in 1..Len(rg) : rg[k].by # ow[i].by
      BY <1>6
    <3> QED
      BY <1>8, <1>10, <3>1 DEF Senders
  <2> QED
    BY <1>6, <2>1 DEF Fits, LayerTeam, Layers, own, reg
<1>12. Senders(ow) = own
  <2>1. Senders(ow) \subseteq own
    BY <1>8, <1>11 DEF Senders
  <2>2. Cardinality(Senders(ow)) <= Cardinality(own)
    BY <1>4, <2>1, FS_Subset
  <2>3. Cardinality(own) = Cardinality(Senders(ow))
    BY <1>3, <1>6, <1>7, <2>2, <1>1
  <2> QED
    BY <1>4, <2>1, <2>3, FS_Subset
<1>13. /\ \A i \in 1..Len(ow) : ow[i].ids = ShardsOf(own \cup {r.requester}, r.userset)
       /\ \A i \in 1..Len(rg) : rg[i].ids = ShardsOf(reg \cup {r.requester}, r.userset)
  BY <1>6, <1>9, <1>11 DEF Fits, LayerIDs, LayerTeam, own, reg
<1>14. LayerJoins(ow, LayerShards(ow, r.requester, r.userset), "owner", own)
  <2>1. ow \in Seq(Part) /\ r.requester \in Users /\ r.userset \in UserSetIDs
    BY <1>1 DEF ow
  <2>2. Cardinality(own) = Len(ow)
    BY <1>6, <1>12
  <2> HIDE DEF ow, own, reg
  <2> QED
    BY <2>1, <2>2, <1>11, <1>12, <1>13, LayerJoinsAsListed
<1>15. LayerJoins(rg, LayerShards(rg, r.requester, r.userset), "reg", reg)
  <2>1. rg \in Seq(Part) /\ r.requester \in Users /\ r.userset \in UserSetIDs
    BY <1>1 DEF rg
  <2>2. Cardinality(reg) = Len(rg)
    BY <1>6, <1>10
  <2> HIDE DEF rg, own, reg
  <2> QED
    BY <2>1, <2>2, <1>9, <1>10, <1>13, LayerJoinsAsListed
<1>16. TeamOf(o) = team[o]
  BY <1>2 DEF TeamOf
<1> QED
  BY <1>14, <1>15, <1>16 DEF ow, rg, own, reg

LEMMA RegisterPartFits ==
    ASSUME Stepping, NEW u \in Users, RegisterPart(u) PROVE JoinInv'
<1>0. IInv /\ AccountsInv /\ SendingFits(u)
  BY DEF Stepping, JoinInv, MemberFits
<1>1. PICK o \in OpIDs : o = frame[u].op
  BY <1>0 DEF RegisterPart, IInv, LocalsOK
<1>2. PICK part \in Part : part = frame[u].part /\ part.by = u
  BY <1>0 DEF RegisterPart, IInv, LocalsOK, AccountsInv, OwnDuty
<1>3. PICK c \in CollectedRecord : c = collected[o] /\ c # Absent
  BY <1>0, <1>1 DEF RegisterPart, IInv, TypeOK, DMTypeOK
<1>4. PICK isOwner \in BOOLEAN : isOwner = UserOwns(u, frame[u].userset)
  BY DEF UserOwns
<1>5. PICK r \in CollectedRecord : r = WithPart(c, part, isOwner)
  BY WithPartTypes
<1>6. /\ pc[u] = "snd_reg"
      /\ reply' = [reply EXCEPT ![u] = SendDecryptionPartResponse]
      /\ UNCHANGED <<prep, team, updates, client>>
      /\ \/ /\ collected' = [collected EXCEPT ![o] = r]
            /\ pc' = [pc EXCEPT ![u] = "reply"]
            /\ UNCHANGED frame
         \/ /\ HasEnoughParts(r)
            /\ collected' = [collected EXCEPT ![o] = Absent]
            /\ pc' = [pc EXCEPT ![u] = "finish"]
            /\ frame' = [frame EXCEPT ![u].opCollRecord = r]
  BY <1>1, <1>2, <1>3, <1>4, <1>5, Zenon DEF RegisterPart, AddPart, AddLastPart, Goto
<1>7. /\ r.requester = c.requester /\ r.userset = c.userset
      /\ r.required_owners = c.required_owners
      /\ r.required_reg_members = c.required_reg_members
  BY <1>5 DEF WithPart, CollectedRecord
<1>8. FittingParts(o, r)
  <2>1. Fits(u, o, part.layer, part.ids) /\ frame[u].userset = c.userset
    BY <1>0, <1>1, <1>2, <1>3, <1>6 DEF SendingFits
  <2>2. usersets[c.userset] # Absent
    BY <1>0, <1>3 DEF AccountsInv, Collecting, InStorage
  <2>3. isOwner <=> u \in usersets[c.userset].owners
    BY <1>4, <2>1, <2>2 DEF UserOwns
  <2>4. u \notin Senders(c.owner_layer_parts) \cup Senders(c.reg_layer_parts)
    <3>1. <<"send", u>> \in Debts(u, o)
      BY <1>1, <1>6 DEF Debts, Sending
    <3> QED
      BY <1>0, <1>3, <3>1 DEF AccountsInv, OwedOnce, Missing, Contributors
  <2>5. FittingParts(o, c)
    BY <1>3 DEF Stepping, JoinInv, PartsFit
  <2> QED
    BY <1>2, <1>5, <2>1, <2>3, <2>4, <2>5, PartMoreFits
<1>9. /\ reply'[u] = SendDecryptionPartResponse /\ pc'[u] \in {"reply", "finish"}
      /\ \A v \in Users \ {u} : reply'[v] = reply[v] /\ pc'[v] = pc[v] /\ frame'[v] = frame[v]
      /\ \A p \in OpIDs \ {o} : collected'[p] = collected[p]
      /\ collected'[o] = r \/ collected'[o] = Absent
  BY <1>0, <1>6 DEF IInv, TypeOK, DMTypeOK
<1>10. ASSUME NEW p \in OpIDs PROVE PartsFit(p)' /\ TeamApart(p)'
  <2>1. TeamApart(p)'
    BY <1>6 DEF Stepping, JoinInv, TeamApart
  <2>2. CASE p # o
    BY <1>9, <2>1, <2>2, PartsKept
  <2>3. CASE p = o
    <3>1. CASE collected'[o] = Absent
      BY <2>1, <2>3, <3>1 DEF PartsFit
    <3>2. CASE collected'[o] = r /\ r # Absent
      <4>1. FittingParts(o, r)'
        BY <1>3, <1>7, <1>8, <3>2, PartsStay
      <4> QED
        BY <2>1, <2>3, <3>2, <4>1 DEF PartsFit, FittingParts
    <3> QED
      BY <1>9, <3>1, <3>2
  <2> QED
    BY <2>2, <2>3
<1>11. FinishFits(u)'
  <2> SUFFICES ASSUME pc'[u] = "finish" PROVE FinishFits(u)'
    BY DEF FinishFits
  <2>1. frame'[u].op = o /\ frame'[u].opCollRecord = r /\ HasEnoughParts(r)
    BY <1>0, <1>1, <1>6 DEF IInv, TypeOK, Frame
  <2>2. TeamOf(o)' = TeamOf(o)
    BY <1>6 DEF TeamOf
  <2>3. /\ LayerJoins(r.owner_layer_parts,
                      LayerShards(r.owner_layer_parts, r.requester, r.userset),
                      "owner", TeamOf(o).owners)
        /\ LayerJoins(r.reg_layer_parts,
                      LayerShards(r.reg_layer_parts, r.requester, r.userset),
                      "reg", TeamOf(o).reg_members)
    BY <1>3, <1>7, <1>8, <2>1, EnoughPartsJoin
  <2> QED
    BY <2>1, <2>2, <2>3 DEF FinishFits
<1>12. /\ UpdateFits(u)' /\ ReplyFits(u)' /\ TaskFits(u)' /\ SendingFits(u)' /\ TellsFit(u)'
       /\ SlotTold(u)'
  BY <1>6, <1>9, TasksStay, TellingStays, SlotStays DEF SendDecryptionPartResponse
<1>13. RecordsJoin(u)'
  <2>1. Held(u)' \subseteq Held(u)
    BY <1>6, <1>9 DEF Held, OnReply, SendDecryptionPartResponse
  <2> QED
    BY <2>1, RecordsStayJoined DEF RecordsJoin
<1>14. MemberFits(u)'
  BY <1>11, <1>12, <1>13 DEF MemberFits
<1>15. \A v \in Users \ {u} : MemberFits(v)'
  BY <1>6, <1>9, OthersUninvolved
<1> QED
  BY <1>10, <1>14, <1>15 DEF JoinInv

\* The requester's updates get a record that joins.
LEMMA FinishOperationFits ==
    ASSUME Stepping, NEW u \in Users, FinishOperation(u) PROVE JoinInv'
<1>0. IInv /\ FinishFits(u)
  BY DEF Stepping, JoinInv, MemberFits
<1>1. PICK r \in CollectedRecord, o \in OpIDs : r = frame[u].opCollRecord /\ o = frame[u].op
  BY <1>0 DEF FinishOperation, IInv, LocalsOK
<1>2. PICK f : f = [op |-> o,
                    reg_layer_parts |-> r.reg_layer_parts,
                    owner_layer_parts |-> r.owner_layer_parts,
                    reg_layer_shards_ids |->
                        LayerShards(r.reg_layer_parts, r.requester, r.userset),
                    owner_layer_shards_ids |->
                        LayerShards(r.owner_layer_parts, r.requester, r.userset)]
  OBVIOUS
<1>3. /\ pc[u] = "finish" /\ pc' = [pc EXCEPT ![u] = "reply"]
      /\ UNCHANGED <<dmVars, frame, reply, client>>
      /\ updates' = [updates EXCEPT ![r.requester].finished_decryptions = @ \cup {f}]
  BY <1>1, <1>2 DEF FinishOperation, RegisterFinishedDecryption, Goto
<1>4. r.requester \in Users
  BY DEF CollectedRecord
<1>5. /\ pc'[u] = "reply" /\ \A v \in Users \ {u} : pc'[v] = pc[v]
      /\ \A v \in Users : /\ updates'[v].to_decrypt = updates[v].to_decrypt
                          /\ updates'[v].finished_decryptions
                                \subseteq updates[v].finished_decryptions \cup {f}
  BY <1>0, <1>3, <1>4 DEF IInv, TypeOK, UMTypeOK, UpdateResponse
<1>6. RecordJoins(f)'
  <2>1. RecordJoins(f)
    BY <1>0, <1>1, <1>2, <1>3 DEF FinishFits, RecordJoins
  <2>2. TeamOf(f.op)' = TeamOf(f.op)
    BY <1>3 DEF TeamOf, dmVars
  <2> QED
    BY <2>1, <2>2 DEF RecordJoins
<1>7. ASSUME NEW v \in Users PROVE MemberFits(v)'
  <2>1. UpdateFits(v)' /\ ReplyFits(v)' /\ TaskFits(v)' /\ SendingFits(v)' /\ SlotTold(v)'
    BY <1>3, <1>5, TasksStay, SlotStays
  <2>2. TellsFit(v)' /\ FinishFits(v)'
    <3>1. CASE v = u
      BY <1>5, <3>1 DEF TellsFit, FinishFits
    <3>2. CASE v # u
      BY <1>3, <1>5, <3>2, TellingStays, FinishStays
    <3> QED
      BY <3>1, <3>2
  <2>3. RecordsJoin(v)'
    <3>1. Held(v)' \subseteq Held(v) \cup {f}
      BY <1>3, <1>5 DEF Held, OnReply
    <3> QED
      BY <1>6, <3>1, RecordsStayJoined DEF RecordsJoin
  <2> QED
    BY <2>1, <2>2, <2>3 DEF MemberFits
<1> QED
  BY <1>3, <1>7, OperationsKept DEF JoinInv, dmVars

-----------------------------------------------------------------------------
LEMMA NextJoinInv ==
    ASSUME Stepping PROVE JoinInv'
<1>1. [Next]_vars
  BY DEF Stepping
<1>2. ASSUME NEW u \in Users, Request(u) PROVE JoinInv'
  BY <1>2, UninvolvedSteps, InitiateDecryptionJoins, SendUpdatesFits, ClientSteps, SendPartFits
     DEF Request
<1>3. ASSUME NEW u \in Users, Handle(u) PROVE JoinInv'
  BY <1>3, NotifyingSteps, UninvolvedSteps, RegisterParticipantFits, TellParticipantFits,
     SendPartFindFits, RegisterPartFits, FinishOperationFits, SendResponseFits DEF Handle
<1>4. ASSUME NEW u \in Users, LoseConnection(u) \/ LogOut(u) PROVE JoinInv'
  BY <1>4, UninvolvedSteps, ClientSteps
<1>5. CASE UNCHANGED vars
  <2>1. \A v \in Users : Uninvolved(v)
    BY <1>5 DEF vars, Uninvolved
  <2> QED
    BY <1>5, <2>1, UninvolvedFits, OperationsKept DEF JoinInv, vars
<1> QED
  BY <1>1, <1>2, <1>3, <1>4, <1>5 DEF Next

LEMMA JoinInvariance ==
    ASSUME MembersListedOnce PROVE Spec => []JoinInv
<1>1. Init => JoinInv
  BY InitJoinInv
<1>2. /\ IInv /\ AccountsInv /\ OperationInv /\ JoinInv
      /\ IInv' /\ AccountsInv' /\ [Next]_vars
      => JoinInv'
  BY NextJoinInv DEF Stepping
<1> QED
  BY <1>1, <1>2, AccountsInvariance, OperationInvariance, PTL DEF Spec

\* What a requester gets back can be joined, however the operation's messages and
\* threads interleaved with those of others: each layer has one part of every
\* participant asked for it, computed with the shard IDs that are joined
\* (continue_operation, the client's participate threads, register_part, finish_operation).
THEOREM FinishedDecryptionsAreWhole ==
    ASSUME MembersListedOnce PROVE Spec => []FinishedDecryptionsJoin
<1>1. JoinInv => FinishedDecryptionsJoin
  <2> SUFFICES ASSUME JoinInv, NEW f \in FinishedRecords PROVE RecordJoins(f)
    BY DEF FinishedDecryptionsJoin, RecordJoins, TeamOf
  <2>1. PICK u \in Users : f \in Held(u)
    BY RecordsHeld
  <2> QED
    BY <2>1 DEF JoinInv, MemberFits, RecordsJoin
<1> QED
  BY <1>1, JoinInvariance, PTL
=============================================================================
